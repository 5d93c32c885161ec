---------------------------- MODULE LoggerTrees ----------------------------
(***************************************************************************)
(* The dispatch of log records to planted trees:                           *)
(* packages/xf-logger/src/repository/general/LoggerRepository.ts (R.logger) *)
(* and packages/xf-logger/src/business/general/LoggerBusiness.ts (a tree). *)
(*                                                                         *)
(* log() is synchronous and returns at once.  Each tree chains the work of *)
(* a record on the promise of the record before it, so the trees run side  *)
(* by side while the records of one tree run one after another, whatever   *)
(* each of them does at its awaits.  Records are numbered in the order of  *)
(* the log() calls that the logger's accepts() let through; the console    *)
(* line is written inside log() and needs no state.                        *)
(***************************************************************************)
EXTENDS Naturals, Sequences, FiniteSets

CONSTANTS Trees,        \* the LoggerBusiness instances
          Stateful,     \* those that override shouldRotate() and shouldFlush()
          Flushers,     \* callers of flush(), terminate() among them
          MaxRecords    \* bound of the model: how many records are logged

ASSUME RecordsAssumption == MaxRecords \in Nat

VARIABLES
    handlers,    \* state.handlers: the planted trees, in order
    tail,        \* queues.get(tree): the record whose promise is stored, 0 when none
    chainedOn,   \* [tree][record]: `prev` of that handle() call, 0 for a resolved promise
    proc,        \* [tree][record]: where process(record) stands
    pending,     \* state.pending: the <<tree, record>> whose runHandler is tracked
    nextRecord,  \* the next record to be logged
    waitsFor,    \* [flusher]: the promises its Promise.all was given
    cut,         \* [flusher]: nextRecord at its flush() call, 0 when none is outstanding
    written      \* history: [tree] the records whose write() resolved, in order

vars == <<handlers, tail, chainedOn, proc, pending, nextRecord, waitsFor, cut,
          written>>

Records == 1..MaxRecords

\* process() is suspended in shouldRotate, rotate, write or flush.
Active == {"deciding", "rotating", "writing", "flushing"}

\* The promise of handle() has settled.
Settled == {"resolved", "rejected"}

Planted == {handlers[i] : i \in DOMAIN handlers}

Init ==
    /\ handlers = <<>>
    /\ tail = [t \in Trees |-> 0]
    /\ chainedOn = [t \in Trees |-> [r \in Records |-> 0]]
    /\ proc = [t \in Trees |-> [r \in Records |-> "absent"]]
    /\ pending = {}
    /\ nextRecord = 1
    /\ waitsFor = [f \in Flushers |-> {}]
    /\ cut = [f \in Flushers |-> 0]
    /\ written = [t \in Trees |-> <<>>]

\* A tree's init(), which the container calls once: register its handler.
Plant(t) ==
    /\ t \notin Planted
    /\ handlers' = Append(handlers, t)
    /\ UNCHANGED <<tail, chainedOn, proc, pending, nextRecord, waitsFor, cut,
                   written>>

\* Mutant: the new promise is not stored.
HandleForgets(ts, r) ==
    /\ chainedOn' = [t \in Trees |->
                        IF t \in ts THEN [chainedOn[t] EXCEPT ![r] = tail[t]]
                                    ELSE chainedOn[t]]
    /\ proc' = [t \in Trees |->
                   IF t \in ts THEN [proc[t] EXCEPT ![r] = "chained"] ELSE proc[t]]
    /\ UNCHANGED tail

\* Mutant: the promise is stored before the previous one is read.
HandleChainsOnItself(ts, r) ==
    /\ chainedOn' = [t \in Trees |->
                        IF t \in ts THEN [chainedOn[t] EXCEPT ![r] = r] ELSE chainedOn[t]]
    /\ tail' = [t \in Trees |-> IF t \in ts THEN r ELSE tail[t]]
    /\ proc' = [t \in Trees |->
                   IF t \in ts THEN [proc[t] EXCEPT ![r] = "chained"] ELSE proc[t]]

\* handle(r) on every tree of ts: chain process(r) on the stored promise and
\* store the new one.
Handle(ts, r) ==
    /\ chainedOn' = [t \in Trees |->
                        IF t \in ts THEN [chainedOn[t] EXCEPT ![r] = tail[t]]
                                    ELSE chainedOn[t]]
    /\ tail' = [t \in Trees |-> IF t \in ts THEN r ELSE tail[t]]
    /\ proc' = [t \in Trees |->
                   IF t \in ts THEN [proc[t] EXCEPT ![r] = "chained"] ELSE proc[t]]

\* Mutant: the promises of the trees are not tracked.
LogUntracked ==
    /\ nextRecord \in Records
    /\ Handle(Planted, nextRecord)
    /\ nextRecord' = nextRecord + 1
    /\ UNCHANGED <<handlers, pending, waitsFor, cut, written>>

\* log(): dispatch to every planted tree and track each promise.
Log ==
    /\ nextRecord \in Records
    /\ Handle(Planted, nextRecord)
    /\ pending' = pending \cup (Planted \X {nextRecord})
    /\ nextRecord' = nextRecord + 1
    /\ UNCHANGED <<handlers, waitsFor, cut, written>>

\* The promise a handle() call was chained on has settled, either way.
PrevSettled(t, r) ==
    \A p \in Records : chainedOn[t][r] = p => proc[t][p] \in Settled

\* process(r) moves from one await to another, or settles.
Moves(t, r, from, to) ==
    /\ proc[t][r] = from
    /\ proc' = [proc EXCEPT ![t][r] = to]
    /\ UNCHANGED <<handlers, tail, chainedOn, pending, nextRecord, waitsFor,
                   cut>>

\* process() starts: the tree's accepts() filters the record out, or
\* shouldRotate() is asked.
Begin(t, r) ==
    /\ PrevSettled(t, r)
    /\ \E to \in {"deciding", "resolved"} : Moves(t, r, "chained", to)
    /\ UNCHANGED written

\* shouldRotate() answers, or throws; the default answers no.
Decided(t, r) ==
    /\ \E to \in {"rotating", "writing", "rejected"} :
          (to = "writing" \/ t \in Stateful) /\ Moves(t, r, "deciding", to)
    /\ UNCHANGED written

Rotated(t, r) ==
    /\ \E to \in {"writing", "rejected"} : Moves(t, r, "rotating", to)
    /\ UNCHANGED written

\* The sink took the line; shouldFlush() decides whether flush() follows.
WriteResolves(t, r) ==
    /\ \E to \in {"flushing", "resolved"} :
          (to = "flushing" => t \in Stateful) /\ Moves(t, r, "writing", to)
    /\ written' = [written EXCEPT ![t] = Append(@, r)]

WriteRejects(t, r) ==
    /\ Moves(t, r, "writing", "rejected")
    /\ UNCHANGED written

SinkFlushed(t, r) ==
    /\ \E to \in Settled : Moves(t, r, "flushing", to)
    /\ UNCHANGED written

\* runHandler swallowed the outcome; the finally of track() runs.
Untrack(t, r) ==
    /\ <<t, r>> \in pending
    /\ proc[t][r] \in Settled
    /\ pending' = pending \ {<<t, r>>}
    /\ UNCHANGED <<handlers, tail, chainedOn, proc, nextRecord, waitsFor, cut,
                   written>>

\* flush() (terminate() is flush()): wait for what is pending now.
Flush(f) ==
    /\ cut[f] = 0
    /\ cut' = [cut EXCEPT ![f] = nextRecord]
    /\ waitsFor' = [waitsFor EXCEPT ![f] = pending]
    /\ UNCHANGED <<handlers, tail, chainedOn, proc, pending, nextRecord,
                   written>>

\* Promise.all resolves; runHandler never rejects, so neither does it.
FlushReturns(f) ==
    /\ cut[f] # 0
    /\ \A p \in waitsFor[f] : proc[p[1]][p[2]] \in Settled
    /\ cut' = [cut EXCEPT ![f] = 0]
    /\ waitsFor' = [waitsFor EXCEPT ![f] = {}]
    /\ UNCHANGED <<handlers, tail, chainedOn, proc, pending, nextRecord, written>>

Step(t, r) ==
    \/ Begin(t, r)
    \/ Decided(t, r)
    \/ Rotated(t, r)
    \/ WriteResolves(t, r)
    \/ WriteRejects(t, r)
    \/ SinkFlushed(t, r)
    \/ Untrack(t, r)

Next ==
    \/ Log
    \/ \E t \in Trees : Plant(t)
    \/ \E t \in Trees, r \in Records : Step(t, r)
    \/ \E f \in Flushers : Flush(f) \/ FlushReturns(f)

Spec == Init /\ [][Next]_vars

\* The event loop runs every continuation, and every promise of a sink settles:
\* a tree that can go on does, and so does a caller of flush().
Fairness ==
    /\ \A t \in Trees : WF_vars(\E r \in Records : Step(t, r))
    /\ \A f \in Flushers : WF_vars(FlushReturns(f))

FairSpec == Spec /\ Fairness

-----------------------------------------------------------------------------

TypeOK ==
    /\ handlers \in Seq(Trees)
    /\ tail \in [Trees -> 0..MaxRecords]
    /\ chainedOn \in [Trees -> [Records -> 0..MaxRecords]]
    /\ proc \in [Trees -> [Records -> {"absent", "chained"} \cup Active \cup Settled]]
    /\ pending \in SUBSET (Trees \X Records)
    /\ nextRecord \in 1..(MaxRecords + 1)
    /\ waitsFor \in [Flushers -> SUBSET (Trees \X Records)]
    /\ cut \in [Flushers -> 0..(MaxRecords + 1)]
    /\ written \in [Trees -> Seq(Records)]

\* A tree never has two records in its sink at once, although log() dispatches
\* without waiting: the size check of one record's rotation cannot interleave
\* with the write of another (LoggerBusiness.ts:36-39).
OneRecordAtATime ==
    \A t \in Trees, r, s \in Records :
        proc[t][r] \in Active /\ proc[t][s] \in Active => r = s

\* Each sink receives its lines in the order of the log() calls, also after a
\* rotation, a filtered record or a failed write.
WrittenInOrder ==
    \A t \in Trees : \A i, j \in DOMAIN written[t] :
        i < j => written[t][i] < written[t][j]

\* When flush() returns, no tree still works on a record that was logged
\* before the call: terminate() leaves no earlier write behind, although
\* records logged meanwhile come and go in the pending set.
FlushCoversEarlierRecords ==
    [][\A f \in Flushers : cut[f] # 0 /\ cut'[f] = 0 =>
          \A t \in Trees, r \in Records :
              r < cut[f] => proc[t][r] \in {"absent"} \cup Settled]_vars

\* A dispatched record is eventually dealt with by its tree and leaves the
\* pending set, even when the records before it fail; and flush() returns although
\* records keep being logged while it waits.
EveryRecordSettles ==
    /\ \A t \in Trees, r \in Records :
          proc[t][r] = "chained" ~> proc[t][r] \in Settled /\ <<t, r>> \notin pending
    /\ \A f \in Flushers : cut[f] # 0 ~> cut[f] = 0
=============================================================================
