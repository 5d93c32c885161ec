-------------------------- MODULE BatchedBusiness --------------------------
(***************************************************************************)
(* The in-memory batcher of                                                *)
(* packages/xf/src/business/general/BatchedBusiness.ts, with the timer it  *)
(* inherits from ScheduleBusiness.                                         *)
(*                                                                         *)
(* The flush callback is asynchronous: add, clear, ticks, other flush      *)
(* calls and terminate run while it is in flight.  Items are numbered in   *)
(* the order of their add.  A hook that runs user code synchronously       *)
(* (onDrain, onClear) may call add itself; that is an Add step right after *)
(* the one that ran the hook.                                              *)
(***************************************************************************)
EXTENDS Sequences, Naturals

CONSTANTS
    MaxItems,   \* bound of the model: how many items are ever added
    Setups      \* the options and hooks a batcher may be built with

(***************************************************************************)
(* A setup: maxSize (0 when undefined), whether maxAgeMs is set and        *)
(* positive, the error policy ("reintroduce" is 'lose' with an             *)
(* onFlushError hook that adds the batch again), and whether the           *)
(* onFlushComplete hook may throw.                                         *)
(***************************************************************************)
Options == [maxSize : Nat, timed : BOOLEAN,
            policy : {"lose", "retain", "reintroduce"}, completeThrows : BOOLEAN]

ASSUME BatchAssumption ==
    /\ MaxItems \in Nat
    /\ Setups \subseteq Options

VARIABLES
    options,     \* this.options and the hooks, fixed by the constructor
    buffer,      \* state.buffer
    flushing,    \* state.flushing
    inFlight,    \* the batches whose flush callback has been called and is pending
    timer,       \* is the interval armed?
    phase,       \* lifecycle: new, running, stopping (terminate called), draining, terminated
    nextItem,    \* the next item to be added
    delivered,   \* history: the items of the callbacks that resolved, in order
    dropped,     \* history: items given up by clear or by the error policy
    cut          \* history: nextItem when terminate was called, 0 before

vars == <<options, buffer, flushing, inFlight, timer, phase, nextItem, delivered, dropped, cut>>

Items(s) == {s[i] : i \in 1..Len(s)}

Phases == {"new", "running", "stopping", "draining", "terminated"}

Init ==
    /\ options \in Setups
    /\ buffer = <<>>
    /\ flushing = FALSE
    /\ inFlight = {}
    /\ timer = FALSE
    /\ phase = "new"
    /\ nextItem = 1
    /\ delivered = <<>>
    /\ dropped = {}
    /\ cut = 0

\* init(): arm the age timer.
Start ==
    /\ phase = "new"
    /\ phase' = "running"
    /\ timer' = options.timed
    /\ UNCHANGED <<buffer, flushing, inFlight, nextItem, delivered, dropped, cut, options>>

\* Mutant: the batch is copied, not taken.
FlushOnCopies(b) ==
    /\ buffer' = b
    /\ IF flushing \/ b = <<>>
       THEN UNCHANGED <<flushing, inFlight>>
       ELSE /\ flushing' = TRUE
            /\ inFlight' = inFlight \cup {b}

\* flush() up to its first await, on a buffer holding b: both early returns,
\* or take the whole buffer and call the callback.
FlushOn(b) ==
    IF flushing \/ b = <<>>
    THEN /\ buffer' = b
         /\ UNCHANGED <<flushing, inFlight>>
    ELSE /\ buffer' = <<>>
         /\ flushing' = TRUE
         /\ inFlight' = inFlight \cup {b}

\* add(): push, then the size trigger.
Add ==
    /\ nextItem <= MaxItems
    /\ nextItem' = nextItem + 1
    /\ LET b == Append(buffer, nextItem)
       IN  IF options.maxSize > 0 /\ Len(b) >= options.maxSize
           THEN FlushOn(b)
           ELSE buffer' = b /\ UNCHANGED <<flushing, inFlight>>
    /\ UNCHANGED <<timer, phase, delivered, dropped, cut, options>>

\* flush('manual').
ManualFlush ==
    /\ FlushOn(buffer)
    /\ UNCHANGED <<timer, phase, nextItem, delivered, dropped, cut, options>>

\* The interval fires: run() returns on an empty buffer, else flush('time').
Tick ==
    /\ timer
    /\ FlushOn(buffer)
    /\ UNCHANGED <<timer, phase, nextItem, delivered, dropped, cut, options>>

\* Mutant: a retained batch goes behind the newer items.
RecoverAppends(b) == buffer' = buffer \o b /\ UNCHANGED dropped

\* The catch block for batch b.
Recover(b) ==
    CASE options.policy = "retain"      -> buffer' = b \o buffer /\ UNCHANGED dropped
      [] options.policy = "lose"        -> dropped' = dropped \cup Items(b) /\ UNCHANGED buffer
      [] options.policy = "reintroduce" -> buffer' = buffer \o b /\ UNCHANGED dropped

\* The finally block; the terminate() that awaited this flush resolves too.
Settle(b) ==
    /\ inFlight' = inFlight \ {b}
    /\ flushing' = FALSE
    /\ phase' = IF phase = "draining" THEN "terminated" ELSE phase
    /\ UNCHANGED <<timer, nextItem, cut, options>>

\* The callback resolves and onFlushComplete returns.
FlushResolves(b) ==
    /\ b \in inFlight
    /\ delivered' = delivered \o b
    /\ Settle(b)
    /\ UNCHANGED <<buffer, dropped>>

\* The callback resolves and onFlushComplete throws, inside the same try.
FlushCompleteThrows(b) ==
    /\ options.completeThrows
    /\ b \in inFlight
    /\ delivered' = delivered \o b
    /\ Recover(b)
    /\ Settle(b)

\* Mutant: the flag is reset after a callback that resolved only.
FlushRejectsKeepsFlag(b) ==
    /\ b \in inFlight
    /\ Recover(b)
    /\ inFlight' = inFlight \ {b}
    /\ phase' = IF phase = "draining" THEN "terminated" ELSE phase
    /\ UNCHANGED <<flushing, timer, nextItem, cut, options, delivered>>

\* The callback rejects.
FlushRejects(b) ==
    /\ b \in inFlight
    /\ Recover(b)
    /\ Settle(b)
    /\ UNCHANGED delivered

\* clear().
Clear ==
    /\ buffer # <<>>
    /\ dropped' = dropped \cup Items(buffer)
    /\ buffer' = <<>>
    /\ UNCHANGED <<flushing, inFlight, timer, phase, nextItem, delivered, cut, options>>

\* terminate() up to `await super.terminate()`: the timer is cancelled.
Terminate ==
    /\ phase = "running"
    /\ phase' = "stopping"
    /\ timer' = FALSE
    /\ cut' = nextItem
    /\ UNCHANGED <<buffer, flushing, inFlight, nextItem, delivered, dropped, options>>

\* The rest of terminate(): await flush('terminate') when something is
\* buffered.  That flush returns at once when another is in flight.
TerminateDrain ==
    /\ phase = "stopping"
    /\ FlushOn(buffer)
    /\ phase' = IF buffer # <<>> /\ ~flushing THEN "draining" ELSE "terminated"
    /\ UNCHANGED <<timer, nextItem, delivered, dropped, cut, options>>

Next ==
    \/ Start
    \/ Add
    \/ ManualFlush
    \/ Tick
    \/ \E b \in inFlight : FlushResolves(b) \/ FlushCompleteThrows(b) \/ FlushRejects(b)
    \/ Clear
    \/ Terminate
    \/ TerminateDrain

Spec == Init /\ [][Next]_vars

(***************************************************************************)
(* setInterval keeps firing, the callback settles, and a callback that is  *)
(* tried over and over resolves some day (what 'retain' is meant for).     *)
(***************************************************************************)
Fairness ==
    /\ WF_vars(Tick)
    /\ WF_vars(\E b \in inFlight : FlushResolves(b) \/ FlushRejects(b))
    /\ SF_vars(\E b \in inFlight : FlushResolves(b))
    /\ WF_vars(TerminateDrain)

FairSpec == Spec /\ Fairness

-----------------------------------------------------------------------------
Item == 1..MaxItems

TypeOK ==
    /\ options \in Setups
    /\ buffer \in Seq(Item)
    /\ flushing \in BOOLEAN
    /\ inFlight \subseteq Seq(Item)
    /\ timer \in BOOLEAN
    /\ phase \in Phases
    /\ nextItem \in 1..(MaxItems + 1)
    /\ delivered \in Seq(Item)
    /\ dropped \subseteq Item
    /\ cut \in 0..(MaxItems + 1)

\* "The flush callback is never invoked concurrently" (line 68): at most one
\* callback is pending, and the flag is up exactly while one is, whatever the
\* outcome of the flushes before it.
SingleFlight ==
    /\ \A b, c \in inFlight : b = c
    /\ flushing <=> inFlight # {}

FlightItems == IF inFlight = {} THEN <<>> ELSE CHOOSE b \in inFlight : TRUE

Pipeline == delivered \o FlightItems \o buffer

Increasing(s) == \A i, j \in 1..Len(s) : i < j => s[i] < s[j]

\* Delivery keeps the order of the adds and delivers nothing twice: what was
\* delivered, what is in flight and what is buffered, in that order, is an
\* increasing sequence, through rejections, retries, clears and shutdown
\* (lines 16-18 and 139: "Prepend so retries preserve original order").
DeliveredInOrder ==
    \/ options.policy = "lose"
    \/ options.policy = "retain" /\ ~options.completeThrows
    => Increasing(Pipeline)

\* No item vanishes: each one added is delivered, in flight, buffered or was
\* given up by clear or the error policy, and only one of these; a hook that
\* throws after the delivery (lines 135-142) is the one way to two of them.
EveryItemAccounted ==
    ~options.completeThrows =>
    \A i \in 1..(nextItem - 1) :
        LET at == << i \in Items(delivered),
                     \E b \in inFlight : i \in Items(b),
                     i \in Items(buffer),
                     i \in dropped >>
        IN  \E p \in 1..4 : at[p] /\ \A q \in 1..4 : at[q] => q = p

\* While the component runs with its age timer, each item added is eventually
\* delivered or given up, whatever fails in between: no path leaves the
\* flushing flag up (lines 127-147, 168-172).
EveryItemSettles ==
    \A i \in Item :
        (options.timed /\ i < nextItem /\ phase = "running") ~>
            (i \in Items(delivered) \/ i \in dropped \/ phase # "running")

(***************************************************************************)
(* What the documentation says and the code does not do.                   *)
(***************************************************************************)
\* "terminate() performs one final flush so pending items are not silently
\* lost on shutdown" (lines 71-72): once terminate has resolved, nothing added
\* before it was called is still buffered.
NothingPendingAfterTerminate ==
    phase = "terminated" => \A i \in Items(buffer) : i >= cut

\* "retain: the failed batch is prepended" and the policy is for "items in a
\* batch whose flush callback rejected" (lines 11 and 16): an item whose
\* callback resolved is not queued for delivery again.
OnlyRejectedBatchesRetained ==
    Items(delivered) \cap Items(buffer) = {}
=============================================================================
