----------------------------- MODULE FifoMutex -----------------------------
(***************************************************************************)
(* What LockedBusiness.withLock promises its callers                       *)
(* (packages/xf/src/business/general/LockedBusiness.ts, lines 3-15 and     *)
(* 43-52): critical sections of one instance never overlap, they run in    *)
(* the order in which the calls were made, and a call that ends, however   *)
(* it ends, lets the next one in.  Nothing is said of flags, promises or   *)
(* waiter queues: a caller stands in one line and only its head goes in.   *)
(***************************************************************************)
EXTENDS Sequences, Naturals

CONSTANTS Callers,  \* the callers of one instance
          Nobody    \* "no caller is inside"; not one of Callers

VARIABLES line,    \* callers that called and whose operation has not ended, in call order
          inside   \* the caller whose operation is running, or Nobody

mutexVars == <<line, inside>>

InLine(c) == \E i \in 1..Len(line) : line[i] = c

MutexInit == line = <<>> /\ inside = Nobody

\* c calls while others are served: it goes to the back.
Arrive(c) ==
    /\ ~InLine(c)
    /\ line' = Append(line, c)
    /\ UNCHANGED inside

\* c calls when nobody is in line: its operation starts within the call.
ArriveAndEnter(c) ==
    /\ line = <<>>
    /\ line' = <<c>>
    /\ inside' = c

\* The head of the line goes in.
Enter(c) ==
    /\ inside = Nobody
    /\ line # <<>>
    /\ Head(line) = c
    /\ inside' = c
    /\ UNCHANGED line

\* The operation inside ends.
Leave(c) ==
    /\ inside = c
    /\ line # <<>>
    /\ Head(line) = c
    /\ inside' = Nobody
    /\ line' = Tail(line)

\* The head goes in and its operation throws before it first awaits.
Pass(c) ==
    /\ inside = Nobody
    /\ line # <<>>
    /\ Head(line) = c
    /\ line' = Tail(line)
    /\ UNCHANGED inside

MutexNext ==
    \E c \in Callers :
        Arrive(c) \/ ArriveAndEnter(c) \/ Enter(c) \/ Leave(c) \/ Pass(c)

MutexSpec == MutexInit /\ [][MutexNext]_mutexVars
=============================================================================
