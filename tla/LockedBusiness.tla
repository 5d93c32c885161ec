--------------------------- MODULE LockedBusiness ---------------------------
(***************************************************************************)
(* The promise-based lock of                                               *)
(* packages/xf/src/business/general/LockedBusiness.ts.                     *)
(*                                                                         *)
(* JavaScript runs one synchronous stretch of code at a time, so an action *)
(* is the code between two awaits.  withLock is cut in three: the call     *)
(* itself (which either queues a resolver or takes the flag and starts the *)
(* operation), the resumption of a caller whose resolver was called, and   *)
(* the finally block, a microtask after the operation settles.  Other code *)
(* may run between any two of them.                                        *)
(***************************************************************************)
EXTENDS Sequences, FiniteSets, Naturals

CONSTANTS Callers,      \* call sites; each has at most one call outstanding
          NoCaller      \* "awaits nobody"

ASSUME CallersAssumption == NoCaller \notin Callers

VARIABLES locked,    \* private locked = false
          waiters,   \* private waiters: the callers whose resolver is queued
          pc,        \* where each caller's withLock activation stands
          awaits     \* the nested call an operation is waiting for, if any

vars == <<locked, waiters, pc, awaits>>

(***************************************************************************)
(* idle: no call outstanding; queued: awaiting its resolver; granted: the  *)
(* resolver was called and the continuation is a pending microtask;        *)
(* running: op() is pending; settled: op() settled and the finally block   *)
(* is a pending microtask.                                                 *)
(***************************************************************************)
Activation == {"idle", "queued", "granted", "running", "settled"}

Init ==
    /\ locked = FALSE
    /\ waiters = <<>>
    /\ pc = [c \in Callers |-> "idle"]
    /\ awaits = [c \in Callers |-> NoCaller]

\* Mutant: the queue is a stack.
TakeOrQueueLast(c) ==
    /\ pc[c] = "idle"
    /\ IF locked
       THEN /\ waiters' = <<c>> \o waiters
            /\ pc' = [pc EXCEPT ![c] = "queued"]
            /\ UNCHANGED locked
       ELSE /\ locked' = TRUE
            /\ pc' = [pc EXCEPT ![c] = "running"]
            /\ UNCHANGED waiters

\* Mutant: the flag is set but never looked at.
TakeAlways(c) ==
    /\ pc[c] = "idle"
    /\ locked' = TRUE
    /\ pc' = [pc EXCEPT ![c] = "running"]
    /\ UNCHANGED waiters

\* withLock up to its first await: take the flag and start op, or push a
\* resolver and suspend.
TakeOrQueue(c) ==
    /\ pc[c] = "idle"
    /\ IF locked
       THEN /\ waiters' = Append(waiters, c)
            /\ pc' = [pc EXCEPT ![c] = "queued"]
            /\ UNCHANGED locked
       ELSE /\ locked' = TRUE
            /\ pc' = [pc EXCEPT ![c] = "running"]
            /\ UNCHANGED waiters

\* A call from outside any critical section of this instance.
Call(c) ==
    /\ TakeOrQueue(c)
    /\ UNCHANGED awaits

\* The operations that awaited the call of c no longer do.
EndWait(c) == [x \in Callers |-> IF awaits[x] = c THEN NoCaller ELSE awaits[x]]

\* Mutant: the resolver that is taken from the queue is not called.
FinallyForgetsWaiter(c) ==
    /\ IF waiters = <<>>
       THEN locked' = FALSE /\ UNCHANGED waiters
       ELSE waiters' = Tail(waiters) /\ UNCHANGED locked
    /\ pc' = [pc EXCEPT ![c] = "idle"]
    /\ awaits' = EndWait(c)

\* The finally block: the lock goes straight to the oldest waiter, if any.
\* Ending the call also ends the wait of an operation that awaits it.
Finally(c) ==
    /\ IF waiters = <<>>
       THEN /\ locked' = FALSE
            /\ pc' = [pc EXCEPT ![c] = "idle"]
            /\ UNCHANGED waiters
       ELSE /\ waiters' = Tail(waiters)
            /\ pc' = [pc EXCEPT ![c] = "idle", ![Head(waiters)] = "granted"]
            /\ UNCHANGED locked
    /\ awaits' = EndWait(c)

\* A granted caller resumes and starts its operation.
Resume(c) ==
    /\ pc[c] = "granted"
    /\ pc' = [pc EXCEPT ![c] = "running"]
    /\ UNCHANGED <<locked, waiters, awaits>>

\* A granted caller resumes and op throws synchronously: finally runs at once.
ResumeThrows(c) ==
    /\ pc[c] = "granted"
    /\ Finally(c)

\* op's promise resolves or rejects; one that awaits a nested call cannot.
OpSettles(c) ==
    /\ pc[c] = "running"
    /\ awaits[c] = NoCaller
    /\ pc' = [pc EXCEPT ![c] = "settled"]
    /\ UNCHANGED <<locked, waiters, awaits>>

\* The continuation of `return await op()`.
Release(c) ==
    /\ pc[c] = "settled"
    /\ Finally(c)

\* The running operation of c calls withLock (as caller d) and awaits it.
NestedCall(c, d) ==
    /\ pc[c] = "running"
    /\ awaits[c] = NoCaller
    /\ TakeOrQueue(d)
    /\ awaits' = [awaits EXCEPT ![c] = d]

Next ==
    \E c \in Callers :
        \/ Call(c)
        \/ Resume(c)
        \/ ResumeThrows(c)
        \/ OpSettles(c)
        \/ Release(c)
        \/ \E d \in Callers : NestedCall(c, d)

Spec == Init /\ [][Next]_vars

(***************************************************************************)
(* The event loop runs every pending microtask, and an operation passed to *)
(* withLock is assumed to settle when it can; calls are up to the program. *)
(***************************************************************************)
Fairness ==
    \A c \in Callers :
        /\ WF_vars(Resume(c) \/ ResumeThrows(c))
        /\ WF_vars(OpSettles(c))
        /\ WF_vars(Release(c))

FairSpec == Spec /\ Fairness

-----------------------------------------------------------------------------
TypeOK ==
    /\ locked \in BOOLEAN
    /\ waiters \in Seq(Callers)
    /\ pc \in [Callers -> Activation]
    /\ awaits \in [Callers -> Callers \cup {NoCaller}]

Holds(c) == pc[c] \in {"granted", "running", "settled"}

\* The caller that owns the lock is unique: from the moment its resolver is
\* called (or it takes the flag) until its finally block, nobody else is
\* granted, runs or is being cleaned up after (withLock, lines 53-66).
OneHolder ==
    \A c, d \in Callers : Holds(c) /\ Holds(d) => c = d

\* The flag tells the truth across the handoff, where nobody is running: it
\* is set exactly when some caller holds the lock, and while it is clear
\* nobody is left waiting (a lost wake-up would leave one).
FlagMatchesHolder ==
    /\ locked <=> \E c \in Callers : Holds(c)
    /\ ~locked => waiters = <<>>

\* The queue of resolvers and the suspended callers are the same set, each
\* once: no resolver is lost, duplicated or kept for a caller that moved on.
WaitersAreQueued ==
    /\ \A c \in Callers : pc[c] = "queued" <=> \E i \in 1..Len(waiters) : waiters[i] = c
    /\ \A i, j \in 1..Len(waiters) : waiters[i] = waiters[j] => i = j

\* An operation that awaits withLock on its own instance never finishes and
\* never gives the lock back: the queue is not reentrant (lines 54-55).
NestedCallNeverReturns ==
    [][\A c \in Callers : awaits[c] # NoCaller =>
            awaits'[c] = awaits[c] /\ pc'[c] = "running" /\ pc'[awaits[c]] = "queued"]_vars

\* Every caller that has to wait gets its turn (lines 10 and 44-46: queued
\* calls are processed, and the lock is released even if op throws), unless
\* some operation waits for the lock that it holds: that is the one way to
\* starve.
EveryWaiterServed ==
    \A c \in Callers :
        pc[c] = "queued" ~> \/ pc[c] = "granted"
                           \/ \E d \in Callers : awaits[d] # NoCaller

(***************************************************************************)
(* The refinement: the line is the holder, until its operation settles,    *)
(* followed by the waiters.                                                *)
(***************************************************************************)
Served(c) == pc[c] \in {"granted", "running"}

ServedLine == IF \E c \in Callers : Served(c)
              THEN <<CHOOSE c \in Callers : Served(c)>> ELSE <<>>

InsideNow == IF \E c \in Callers : pc[c] = "running"
             THEN CHOOSE c \in Callers : pc[c] = "running" ELSE NoCaller

Mutex == INSTANCE FifoMutex WITH line <- ServedLine \o waiters,
                                 inside <- InsideNow,
                                 Nobody <- NoCaller

\* withLock implements the abstract first-come-first-served mutex: bodies
\* never overlap and start in the order of the calls (lines 44-46).
ImplementsFifoMutex == Mutex!MutexSpec
=============================================================================
