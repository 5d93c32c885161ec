------------------------ MODULE LockedBusinessProofs ------------------------
(***************************************************************************)
(* Proofs about LockedBusiness for any set of callers.                     *)
(***************************************************************************)
EXTENDS LockedBusiness, SequenceTheorems, TLAPS

\* Tail and Append, element by element, in the form the steps below need.
LEMMA TailFacts ==
    ASSUME NEW S, NEW q \in Seq(S), q # <<>>
    PROVE  /\ Head(q) \in S
           /\ Head(q) = q[1]
           /\ Len(q) \in Nat \ {0}
           /\ Tail(q) \in Seq(S)
           /\ Len(Tail(q)) = Len(q) - 1
           /\ \A i \in 1..(Len(q) - 1) : Tail(q)[i] = q[i + 1]
  OBVIOUS

LEMMA AppendFacts ==
    ASSUME NEW S, NEW q \in Seq(S), NEW e \in S
    PROVE  /\ Append(q, e) \in Seq(S)
           /\ Len(q) \in Nat
           /\ Len(Append(q, e)) = Len(q) + 1
           /\ \A i \in 1..Len(q) : Append(q, e)[i] = q[i]
           /\ Append(q, e)[Len(q) + 1] = e
  OBVIOUS

\* With waiters, the finally block wakes the first of them.
LEMMA FinallyWakes ==
    ASSUME TypeOK, NEW c \in Callers, Finally(c), waiters # <<>>
    PROVE  \E w \in Callers :
              /\ w = waiters[1]
              /\ Len(waiters) \in Nat \ {0}
              /\ waiters' \in Seq(Callers)
              /\ Len(waiters') = Len(waiters) - 1
              /\ \A i \in 1..(Len(waiters) - 1) : waiters'[i] = waiters[i + 1]
              /\ pc' = [pc EXCEPT ![c] = "idle", ![w] = "granted"]
              /\ locked' = locked
  <1>1. /\ waiters' = Tail(waiters)
        /\ locked' = locked
        /\ pc' = [pc EXCEPT ![c] = "idle", ![Head(waiters)] = "granted"]
    BY Zenon DEF Finally, EndWait
  <1>2. waiters \in Seq(Callers)
    BY DEF TypeOK
  <1>3. /\ Head(waiters) \in Callers
        /\ Head(waiters) = waiters[1]
        /\ Len(waiters) \in Nat \ {0}
        /\ Tail(waiters) \in Seq(Callers)
        /\ Len(Tail(waiters)) = Len(waiters) - 1
        /\ \A i \in 1..(Len(waiters) - 1) : Tail(waiters)[i] = waiters[i + 1]
    BY <1>2, TailFacts
  <1>4. QED
    BY <1>1, <1>3, Zenon

-----------------------------------------------------------------------------
\* Typing is inductive by itself.
LEMMA LockedTypeStep == TypeOK /\ [Next]_vars => TypeOK'
  <1> SUFFICES ASSUME TypeOK, [Next]_vars PROVE TypeOK'
    OBVIOUS
  <1> USE DEF TypeOK, Activation
  <1>1. ASSUME NEW c \in Callers, TakeOrQueue(c)
        PROVE  locked' \in BOOLEAN /\ waiters' \in Seq(Callers) /\ pc' \in [Callers -> Activation]
    <2>1. CASE locked
      <3>1. waiters' \in Seq(Callers)
        BY <1>1, <2>1, AppendFacts DEF TakeOrQueue
      <3>2. QED
        BY <1>1, <2>1, <3>1 DEF TakeOrQueue
    <2>2. CASE ~locked
      BY <1>1, <2>2 DEF TakeOrQueue
    <2>3. QED
      BY <2>1, <2>2
  <1>2. ASSUME NEW c \in Callers, Finally(c) PROVE TypeOK'
    <2>1. awaits' \in [Callers -> Callers \cup {NoCaller}]
      BY <1>2 DEF Finally, EndWait
    <2>2. CASE waiters = <<>>
      BY <1>2, <2>1, <2>2 DEF Finally, EndWait
    <2>3. CASE waiters # <<>>
      BY <1>2, <2>1, <2>3, FinallyWakes
    <2>4. QED
      BY <2>2, <2>3
  <1>3. ASSUME NEW c \in Callers, Call(c) PROVE TypeOK'
    BY <1>1, <1>3 DEF Call
  <1>4. ASSUME NEW c \in Callers, Resume(c) PROVE TypeOK'
    BY <1>4 DEF Resume
  <1>5. ASSUME NEW c \in Callers, OpSettles(c) PROVE TypeOK'
    BY <1>5 DEF OpSettles
  <1>6. ASSUME NEW c \in Callers, NEW d \in Callers, NestedCall(c, d) PROVE TypeOK'
    BY <1>1, <1>6 DEF NestedCall
  <1>7. CASE UNCHANGED vars
    BY <1>7 DEF vars
  <1>8. QED
    BY <1>2, <1>3, <1>4, <1>5, <1>6, <1>7 DEF Next, ResumeThrows, Release

LEMMA LockedTypeInit == Init => TypeOK
  <1> SUFFICES ASSUME Init PROVE TypeOK
    OBVIOUS
  <1>1. waiters \in Seq(Callers)
    BY DEF Init
  <1>2. QED
    BY <1>1 DEF Init, TypeOK, Activation

\* Every reachable state is well typed.
THEOREM LockedTypeOK == Spec => []TypeOK
  BY LockedTypeInit, LockedTypeStep, PTL DEF Spec

-----------------------------------------------------------------------------
(***************************************************************************)
(* The inductive invariant.  OneHolder alone is not inductive: a caller    *)
(* that finds the flag clear must know that nobody holds the lock, and the *)
(* caller woken by Finally must be one that was suspended.                 *)
(***************************************************************************)
Nesting ==
    \A c \in Callers : awaits[c] # NoCaller =>
        pc[c] = "running" /\ pc[awaits[c]] = "queued"

LockInv == TypeOK /\ OneHolder /\ FlagMatchesHolder /\ WaitersAreQueued /\ Nesting

\* The synchronous part of a call keeps the conjuncts that speak of the queue.
LEMMA TakeOrQueuePreserves ==
    ASSUME LockInv, NEW c \in Callers, TakeOrQueue(c)
    PROVE  OneHolder' /\ FlagMatchesHolder' /\ WaitersAreQueued'
  <1> USE DEF LockInv, TypeOK, OneHolder, FlagMatchesHolder, WaitersAreQueued, Holds, Activation
  <1>1. CASE locked
    <2>1. /\ waiters' = Append(waiters, c)
          /\ pc' = [pc EXCEPT ![c] = "queued"]
          /\ locked' = locked
          /\ pc[c] = "idle"
      BY <1>1 DEF TakeOrQueue
    <2>2. OneHolder' /\ FlagMatchesHolder'
      BY <1>1, <2>1
    <2>3. \A i \in 1..Len(waiters) : waiters[i] # c
      BY <2>1
    <2>4. WaitersAreQueued'
      BY <2>1, <2>3, AppendFacts
    <2>5. QED
      BY <2>2, <2>4
  <1>2. CASE ~locked
    BY <1>2 DEF TakeOrQueue
  <1>3. QED
    BY <1>1, <1>2

\* The finally block keeps the whole invariant, whoever runs it.
LEMMA FinallyPreserves ==
    ASSUME LockInv, NEW c \in Callers, pc[c] \in {"granted", "settled"}, Finally(c), TypeOK'
    PROVE  LockInv'
  <1> USE DEF LockInv, TypeOK, OneHolder, FlagMatchesHolder, WaitersAreQueued, Nesting, Holds, Activation
  <1>1. CASE waiters = <<>>
    <2>1. locked' = FALSE /\ pc' = [pc EXCEPT ![c] = "idle"] /\ waiters' = waiters
      BY <1>1 DEF Finally, EndWait
    <2>2. OneHolder' /\ FlagMatchesHolder' /\ WaitersAreQueued'
      BY <1>1, <2>1
    <2>3. Nesting'
      BY <2>1, CallersAssumption DEF Finally, EndWait
    <2>4. QED
      BY <2>2, <2>3
  <1>2. CASE waiters # <<>>
    <2>1. PICK w \in Callers :
              /\ w = waiters[1]
              /\ Len(waiters) \in Nat \ {0}
              /\ waiters' \in Seq(Callers)
              /\ Len(waiters') = Len(waiters) - 1
              /\ \A i \in 1..(Len(waiters) - 1) : waiters'[i] = waiters[i + 1]
              /\ pc' = [pc EXCEPT ![c] = "idle", ![w] = "granted"]
              /\ locked' = locked
      BY <1>2, FinallyWakes, Zenon
    <2>2. pc[w] = "queued" /\ w # c
      BY <2>1
    <2>3. OneHolder' /\ FlagMatchesHolder'
      BY <2>1, <2>2
    <2>4. WaitersAreQueued'
      <3>1. \A i, j \in 1..Len(waiters') : waiters'[i] = waiters'[j] => i = j
        BY <2>1
      <3>2. ASSUME NEW x \in Callers, NEW i \in 1..Len(waiters'), waiters'[i] = x
            PROVE  pc'[x] = "queued"
        <4>1. i + 1 \in 1..Len(waiters) /\ waiters[i + 1] = x /\ x # w
          BY <2>1, <3>2
        <4>2. QED
          BY <4>1, <2>1, <2>2
      <3>3. ASSUME NEW x \in Callers, pc'[x] = "queued"
            PROVE  \E i \in 1..Len(waiters') : waiters'[i] = x
        <4>1. pc[x] = "queued" /\ x # w
          BY <3>3, <2>1, <2>2
        <4>2. PICK i \in 1..Len(waiters) : waiters[i] = x
          BY <4>1
        <4>3. i # 1 /\ i - 1 \in 1..Len(waiters') /\ waiters'[i - 1] = x
          BY <4>1, <4>2, <2>1
        <4>4. QED
          BY <4>3
      <3>4. QED
        BY <3>1, <3>2, <3>3
    <2>5. Nesting'
      <3> SUFFICES ASSUME NEW x \in Callers, awaits'[x] # NoCaller
                   PROVE  pc'[x] = "running" /\ pc'[awaits'[x]] = "queued"
        OBVIOUS
      <3>1. awaits'[x] = awaits[x] /\ awaits[x] # NoCaller /\ awaits[x] \in Callers
        BY DEF Finally, EndWait
      <3>2. pc[x] = "running"
        BY <3>1
      <3>3. QED
        \* c holds the lock without running, so x cannot be running.
        BY <3>2
    <2>6. QED
      BY <2>3, <2>4, <2>5
  <1>3. QED
    BY <1>1, <1>2

LEMMA LockInvInductive == LockInv /\ [Next]_vars => LockInv'
  <1> SUFFICES ASSUME LockInv, [Next]_vars PROVE LockInv'
    OBVIOUS
  <1>t. TypeOK'
    BY LockedTypeStep DEF LockInv
  <1>1. ASSUME NEW c \in Callers, Call(c) PROVE LockInv'
    <2>1. Nesting'
      BY <1>1, <1>t DEF Call, TakeOrQueue, LockInv, Nesting, TypeOK
    <2>2. QED
      BY <1>1, <1>t, <2>1, TakeOrQueuePreserves DEF Call, LockInv
  <1>2. ASSUME NEW c \in Callers, Resume(c) PROVE LockInv'
    BY <1>2, <1>t DEF Resume, LockInv, TypeOK, OneHolder, FlagMatchesHolder,
                      WaitersAreQueued, Nesting, Holds, Activation
  <1>3. ASSUME NEW c \in Callers, ResumeThrows(c) \/ Release(c) PROVE LockInv'
    BY <1>3, <1>t, FinallyPreserves DEF ResumeThrows, Release
  <1>4. ASSUME NEW c \in Callers, OpSettles(c) PROVE LockInv'
    BY <1>4, <1>t DEF OpSettles, LockInv, TypeOK, OneHolder, FlagMatchesHolder,
                      WaitersAreQueued, Nesting, Holds, Activation
  <1>5. ASSUME NEW c \in Callers, NEW d \in Callers, NestedCall(c, d) PROVE LockInv'
    <2>1. pc' = [pc EXCEPT ![d] = "queued"] /\ awaits' = [awaits EXCEPT ![c] = d] /\ c # d
      BY <1>5 DEF NestedCall, TakeOrQueue, LockInv, FlagMatchesHolder, Holds
    <2>2. Nesting'
      BY <1>5, <1>t, <2>1, CallersAssumption DEF NestedCall, TakeOrQueue, LockInv, Nesting, TypeOK
    <2>3. QED
      BY <1>5, <1>t, <2>2, TakeOrQueuePreserves DEF NestedCall, LockInv
  <1>6. CASE UNCHANGED vars
    BY <1>6, <1>t DEF vars, LockInv, OneHolder, FlagMatchesHolder, WaitersAreQueued, Nesting, Holds
  <1>7. QED
    BY <1>1, <1>2, <1>3, <1>4, <1>5, <1>6 DEF Next

-----------------------------------------------------------------------------
LEMMA LockInvInit == Init => LockInv
  <1> SUFFICES ASSUME Init PROVE LockInv
    OBVIOUS
  <1>1. TypeOK
    BY LockedTypeInit
  <1>2. OneHolder /\ FlagMatchesHolder
    BY DEF Init, OneHolder, FlagMatchesHolder, Holds
  <1>3. WaitersAreQueued
    BY DEF Init, WaitersAreQueued
  <1>4. Nesting
    BY DEF Init, Nesting
  <1>5. QED
    BY <1>1, <1>2, <1>3, <1>4 DEF LockInv

LEMMA LockInvAlways == Spec => []LockInv
  BY LockInvInit, LockInvInductive, PTL DEF Spec

\* Mutual exclusion, handoff included: at most one caller is granted, runs
\* or is being cleaned up after (withLock, lines 53-66).
THEOREM MutualExclusion == Spec => []OneHolder
  <1>1. LockInv => OneHolder
    BY DEF LockInv
  <1>2. QED
    BY <1>1, LockInvAlways, PTL

\* No wake-up is lost: a clear flag means no holder and nobody waiting
\* (lines 62-64).
THEOREM NoLostWakeup == Spec => []FlagMatchesHolder
  <1>1. LockInv => FlagMatchesHolder
    BY DEF LockInv
  <1>2. QED
    BY <1>1, LockInvAlways, PTL

\* The resolver queue holds exactly the suspended callers, each once
\* (lines 55 and 62).
THEOREM QueueIsSuspendedCallers == Spec => []WaitersAreQueued
  <1>1. LockInv => WaitersAreQueued
    BY DEF LockInv
  <1>2. QED
    BY <1>1, LockInvAlways, PTL

\* An operation that awaits its own instance's lock is stuck for ever, and
\* so is the lock (lines 54-55).
THEOREM SelfDeadlock == Spec => NestedCallNeverReturns
  <1> DEFINE Stuck == \A c \in Callers : awaits[c] # NoCaller =>
            awaits'[c] = awaits[c] /\ pc'[c] = "running" /\ pc'[awaits[c]] = "queued"
  <1>1. LockInv /\ [Next]_vars => [Stuck]_vars
    <2> SUFFICES ASSUME LockInv, Next, NEW x \in Callers, awaits[x] # NoCaller
                 PROVE  awaits'[x] = awaits[x] /\ pc'[x] = "running" /\ pc'[awaits[x]] = "queued"
      OBVIOUS
    <2>1. LockInv'
      BY LockInvInductive
    <2>2. pc[x] = "running" /\ pc[awaits[x]] = "queued" /\ awaits[x] \in Callers
      BY DEF LockInv, Nesting, TypeOK
    <2>3. awaits'[x] = awaits[x]
      <3>1. ASSUME NEW c \in Callers, Call(c) \/ Resume(c) \/ OpSettles(c) PROVE awaits' = awaits
        BY <3>1 DEF Call, Resume, OpSettles
      <3>2. ASSUME NEW c \in Callers, ResumeThrows(c) \/ Release(c) PROVE awaits'[x] = awaits[x]
        BY <3>2, <2>2 DEF ResumeThrows, Release, Finally, EndWait
      <3>3. ASSUME NEW c \in Callers, NEW d \in Callers, NestedCall(c, d) PROVE awaits'[x] = awaits[x]
        BY <3>3 DEF NestedCall, LockInv, TypeOK
      <3>4. QED
        BY <3>1, <3>2, <3>3 DEF Next
    <2>4. QED
      BY <2>1, <2>3 DEF LockInv, Nesting
  <1>2. QED
    BY <1>1, LockInvAlways, PTL DEF Spec, NestedCallNeverReturns

-----------------------------------------------------------------------------
(***************************************************************************)
(* The refinement.  What the mapped line and the mapped inside are, in     *)
(* each situation a step can start from or end in.                         *)
(***************************************************************************)
MappedLine == ServedLine \o waiters

LEMMA ServedByOne ==
    ASSUME OneHolder, NEW c \in Callers, Served(c)
    PROVE  ServedLine = <<c>>
  BY DEF OneHolder, Holds, Served, ServedLine

LEMMA ServedByNone ==
    ASSUME \A c \in Callers : ~Served(c)
    PROVE  ServedLine = <<>> /\ InsideNow = NoCaller
  BY DEF Served, ServedLine, InsideNow

LEMMA InsideRunning ==
    ASSUME OneHolder, NEW c \in Callers, pc[c] = "running"
    PROVE  InsideNow = c
  BY DEF OneHolder, Holds, InsideNow

LEMMA InsideNone ==
    ASSUME \A c \in Callers : pc[c] # "running"
    PROVE  InsideNow = NoCaller
  BY DEF InsideNow

\* A sequence with one element put in front.
LEMMA ConsFacts ==
    ASSUME NEW S, NEW q \in Seq(S), NEW e \in S
    PROVE  /\ <<e>> \o q \in Seq(S)
           /\ <<e>> \o q # <<>>
           /\ Head(<<e>> \o q) = e
           /\ Tail(<<e>> \o q) = q
  <1>1. <<e>> \in Seq(S) /\ Len(<<e>>) = 1 /\ <<e>>[1] = e
    OBVIOUS
  <1>2. /\ <<e>> \o q \in Seq(S)
        /\ Len(<<e>> \o q) = 1 + Len(q)
        /\ \A i \in 1..(1 + Len(q)) : (<<e>> \o q)[i] = IF i <= 1 THEN e ELSE q[i - 1]
    BY <1>1, ConcatProperties
  <1>3. Len(q) \in Nat
    OBVIOUS
  <1>4. <<e>> \o q # <<>>
    BY <1>2, <1>3, EmptySeq
  <1>5. Head(<<e>> \o q) = e
    BY <1>2, <1>3, <1>4
  <1>6. Tail(<<e>> \o q) = q
    <2> DEFINE t == Tail(<<e>> \o q)
    <2>1. t \in Seq(S) /\ Len(t) = Len(q) /\ \A i \in 1..Len(q) : t[i] = (<<e>> \o q)[i + 1]
      BY <1>2, <1>3, <1>4, HeadTailProperties
    <2>2. \A i \in 1..Len(q) : t[i] = q[i]
      BY <1>2, <1>3, <2>1
    <2>3. QED
      BY <2>1, <2>2, SeqEqual
  <1>7. QED
    BY <1>2, <1>4, <1>5, <1>6

\* The typing of the pieces.
LEMMA MappedTypes ==
    ASSUME LockInv
    PROVE  /\ waiters \in Seq(Callers)
           /\ ServedLine \in Seq(Callers)
           /\ MappedLine \in Seq(Callers)
  <1>1. waiters \in Seq(Callers)
    BY DEF LockInv, TypeOK
  <1>2. ServedLine \in Seq(Callers)
    <2>1. CASE \E c \in Callers : Served(c)
      <3>1. PICK c \in Callers : Served(c)
        BY <2>1
      <3>2. ServedLine = <<c>>
        BY <3>1, ServedByOne DEF LockInv
      <3>3. QED
        BY <3>2
    <2>2. CASE ~\E c \in Callers : Served(c)
      <3>1. ServedLine = <<>>
        BY <2>2, ServedByNone
      <3>2. QED
        BY <3>1, EmptySeq
    <2>3. QED
      BY <2>1, <2>2
  <1>3. QED
    BY <1>1, <1>2, ConcatProperties DEF MappedLine

\* With a served caller the line is that caller, then the waiters.
LEMMA LineServed ==
    ASSUME LockInv, NEW c \in Callers, Served(c)
    PROVE  /\ MappedLine = <<c>> \o waiters
           /\ MappedLine # <<>> /\ Head(MappedLine) = c /\ Tail(MappedLine) = waiters
  <1>1. ServedLine = <<c>>
    BY ServedByOne DEF LockInv
  <1>2. waiters \in Seq(Callers)
    BY MappedTypes
  <1>3. QED
    BY <1>1, <1>2, ConsFacts DEF MappedLine

\* With none the line is the waiters.
LEMMA LineUnserved ==
    ASSUME LockInv, \A c \in Callers : ~Served(c)
    PROVE  MappedLine = waiters
  BY ServedByNone, MappedTypes, ConcatEmptySeq DEF MappedLine

\* After the finally block of any holder the line is what waiters was.
LEMMA LineAfterFinally ==
    ASSUME LockInv, LockInv', NEW c \in Callers, Holds(c), Finally(c)
    PROVE  MappedLine' = waiters /\ InsideNow' = NoCaller
  <1> USE DEF LockInv, TypeOK, OneHolder, Holds, Activation
  <1>1. CASE waiters = <<>>
    <2>1. pc' = [pc EXCEPT ![c] = "idle"] /\ waiters' = waiters
      BY <1>1 DEF Finally, EndWait
    <2>2. \A d \in Callers : ~Served(d)' /\ pc'[d] # "running"
      BY <2>1 DEF Served
    <2>3. MappedLine' = waiters' /\ InsideNow' = NoCaller
      BY <2>2, ServedByNone, MappedTypes, ConcatEmptySeq DEF MappedLine, ServedLine, Served, InsideNow
    <2>4. QED
      BY <2>1, <2>3
  <1>2. CASE waiters # <<>>
    <2>1. PICK w \in Callers :
              /\ w = waiters[1]
              /\ Len(waiters) \in Nat \ {0}
              /\ waiters' \in Seq(Callers)
              /\ Len(waiters') = Len(waiters) - 1
              /\ \A i \in 1..(Len(waiters) - 1) : waiters'[i] = waiters[i + 1]
              /\ pc' = [pc EXCEPT ![c] = "idle", ![w] = "granted"]
              /\ locked' = locked
      BY <1>2, FinallyWakes, Zenon
    <2>2. w # c /\ pc'[w] = "granted" /\ \A d \in Callers : Holds(d)' => d = w
      <3>1. pc[w] = "queued" /\ w # c
        BY <2>1 DEF WaitersAreQueued
      <3>2. \A d \in Callers : pc'[d] = IF d = w THEN "granted" ELSE IF d = c THEN "idle" ELSE pc[d]
        BY <2>1, <3>1
      <3>3. QED
        BY <3>1, <3>2
    <2>3. ServedLine' = <<w>>
      BY <2>2 DEF ServedLine, Served
    <2>4. InsideNow' = NoCaller
      BY <2>2 DEF InsideNow
    <2>5. <<w>> \o waiters' = waiters
      <3>1. <<w>> \in Seq(Callers) /\ Len(<<w>>) = 1 /\ <<w>>[1] = w
        OBVIOUS
      <3>2. /\ <<w>> \o waiters' \in Seq(Callers)
            /\ Len(<<w>> \o waiters') = 1 + Len(waiters')
            /\ \A i \in 1..(1 + Len(waiters')) :
                  (<<w>> \o waiters')[i] = IF i <= 1 THEN w ELSE waiters'[i - 1]
        BY <2>1, <3>1, ConcatProperties
      <3>3. Len(<<w>> \o waiters') = Len(waiters)
        BY <2>1, <3>2
      <3>4. \A i \in 1..Len(waiters) : (<<w>> \o waiters')[i] = waiters[i]
        BY <2>1, <3>2
      <3>5. QED
        BY <3>2, <3>3, <3>4, SeqEqual
    <2>6. QED
      BY <2>3, <2>4, <2>5 DEF MappedLine
  <1>3. QED
    BY <1>1, <1>2

LEMMA InLineFacts ==
    ASSUME LockInv, NEW c \in Callers, pc[c] = "idle"
    PROVE  ~Mutex!InLine(c)
  <1> USE DEF LockInv, TypeOK
  <1>1. \A i \in 1..Len(waiters) : waiters[i] # c
    BY DEF WaitersAreQueued
  <1>2. \A i \in 1..Len(ServedLine) : ServedLine[i] # c
    <2>1. CASE \E d \in Callers : Served(d)
      <3>1. PICK d \in Callers : Served(d)
        BY <2>1
      <3>2. ServedLine = <<d>> /\ d # c
        BY <3>1, ServedByOne DEF Served
      <3>3. QED
        BY <3>2
    <2>2. CASE ~\E d \in Callers : Served(d)
      <3>1. ServedLine = <<>>
        BY <2>2, ServedByNone
      <3>2. QED
        BY <3>1
    <2>3. QED
      BY <2>1, <2>2
  <1>3. /\ Len(ServedLine) \in Nat /\ Len(waiters) \in Nat
        /\ Len(MappedLine) = Len(ServedLine) + Len(waiters)
        /\ \A i \in 1..Len(MappedLine) : MappedLine[i] =
              IF i <= Len(ServedLine) THEN ServedLine[i] ELSE waiters[i - Len(ServedLine)]
    BY MappedTypes, ConcatProperties, LenProperties DEF MappedLine
  <1>4. \A i \in 1..Len(MappedLine) : MappedLine[i] # c
    BY <1>1, <1>2, <1>3
  <1>5. QED
    BY <1>4 DEF Mutex!InLine, MappedLine

\* A caller that finds the flag set arrives at the back of the line.
LEMMA EnqueueArrives ==
    ASSUME LockInv, LockInv', NEW c \in Callers, locked, TakeOrQueue(c)
    PROVE  Mutex!Arrive(c)
  <1>1. /\ waiters' = Append(waiters, c)
        /\ pc[c] = "idle" /\ pc' = [pc EXCEPT ![c] = "queued"]
    BY DEF TakeOrQueue
  <1>2. \A d \in Callers : Served(d)' <=> Served(d)
    BY <1>1 DEF Served, LockInv, TypeOK
  <1>3. \A d \in Callers : pc'[d] = "running" <=> pc[d] = "running"
    BY <1>1 DEF LockInv, TypeOK
  <1>4. ServedLine' = ServedLine
    BY <1>2 DEF ServedLine
  <1>5. InsideNow' = InsideNow
    BY <1>3 DEF InsideNow
  <1>6. ServedLine \o Append(waiters, c) = Append(ServedLine \o waiters, c)
    <2>1. <<c>> \in Seq(Callers)
      OBVIOUS
    <2>2. Append(waiters, c) = waiters \o <<c>>
      BY MappedTypes, AppendIsConcat
    <2>3. Append(ServedLine \o waiters, c) = (ServedLine \o waiters) \o <<c>>
      BY MappedTypes, AppendIsConcat DEF MappedLine
    <2>4. QED
      BY <2>1, <2>2, <2>3, MappedTypes, ConcatAssociative
  <1>7. ~Mutex!InLine(c)
    BY <1>1, InLineFacts
  <1>8. QED
    BY <1>1, <1>4, <1>5, <1>6, <1>7 DEF Mutex!Arrive

\* Every step of the implementation is a step of the mutex or changes
\* neither the line nor who is inside.
LEMMA MutexStep ==
    ASSUME LockInv, LockInv', [Next]_vars
    PROVE  Mutex!MutexNext \/ (MappedLine' = MappedLine /\ InsideNow' = InsideNow)
  <1> USE DEF LockInv, TypeOK, Activation
  <1>1. ASSUME NEW c \in Callers, Call(c) PROVE Mutex!MutexNext
    <2>1. CASE locked
      BY <1>1, <2>1, EnqueueArrives DEF Call, Mutex!MutexNext
    <2>2. CASE ~locked
      <3>1. pc' = [pc EXCEPT ![c] = "running"] /\ waiters' = waiters /\ pc[c] = "idle"
        BY <1>1, <2>2 DEF Call, TakeOrQueue
      <3>2. waiters = <<>> /\ \A d \in Callers : ~Served(d)
        BY <2>2 DEF FlagMatchesHolder, Holds, Served
      <3>3. MappedLine = <<>>
        BY <3>2, LineUnserved
      <3>4. pc'[c] = "running"
        BY <3>1
      <3>5. ServedLine' = <<c>> /\ InsideNow' = c
        BY <3>4 DEF OneHolder, Holds, ServedLine, Served, InsideNow
      <3>6. MappedLine' = <<c>>
        BY <3>1, <3>2, <3>5, ConcatEmptySeq DEF MappedLine
      <3>7. Mutex!ArriveAndEnter(c)
        BY <3>3, <3>5, <3>6 DEF Mutex!ArriveAndEnter, MappedLine
      <3>8. QED
        BY <3>7 DEF Mutex!MutexNext
    <2>3. QED
      BY <2>1, <2>2
  <1>2. ASSUME NEW c \in Callers, Resume(c) PROVE Mutex!MutexNext
    <2>1. pc[c] = "granted" /\ pc' = [pc EXCEPT ![c] = "running"] /\ waiters' = waiters
      BY <1>2 DEF Resume
    <2>2. MappedLine = <<c>> \o waiters /\ MappedLine # <<>> /\ Head(MappedLine) = c
      BY <2>1, LineServed DEF Served
    <2>3. InsideNow = NoCaller
      BY <2>1 DEF OneHolder, Holds, InsideNow
    <2>4. pc'[c] = "running"
      BY <2>1
    <2>5. ServedLine' = <<c>> /\ InsideNow' = c
      BY <2>4 DEF OneHolder, Holds, ServedLine, Served, InsideNow
    <2>6. MappedLine' = MappedLine
      BY <2>1, <2>2, <2>5 DEF MappedLine
    <2>7. Mutex!Enter(c)
      BY <2>2, <2>3, <2>5, <2>6 DEF Mutex!Enter, MappedLine
    <2>8. QED
      BY <2>7 DEF Mutex!MutexNext
  <1>3. ASSUME NEW c \in Callers, ResumeThrows(c) PROVE Mutex!MutexNext
    <2>1. pc[c] = "granted" /\ Finally(c)
      BY <1>3 DEF ResumeThrows
    <2>2. MappedLine # <<>> /\ Head(MappedLine) = c /\ Tail(MappedLine) = waiters
      BY <2>1, LineServed DEF Served
    <2>3. InsideNow = NoCaller
      BY <2>1 DEF OneHolder, Holds, InsideNow
    <2>4. MappedLine' = waiters /\ InsideNow' = NoCaller
      BY <2>1, LineAfterFinally DEF Holds
    <2>5. Mutex!Pass(c)
      BY <2>2, <2>3, <2>4 DEF Mutex!Pass, MappedLine
    <2>6. QED
      BY <2>5 DEF Mutex!MutexNext
  <1>4. ASSUME NEW c \in Callers, OpSettles(c) PROVE Mutex!MutexNext
    <2>1. pc[c] = "running" /\ pc' = [pc EXCEPT ![c] = "settled"] /\ waiters' = waiters
      BY <1>4 DEF OpSettles
    <2>2. MappedLine # <<>> /\ Head(MappedLine) = c /\ Tail(MappedLine) = waiters
      BY <2>1, LineServed DEF Served
    <2>3. InsideNow = c
      BY <2>1, InsideRunning
    <2>4. pc'[c] = "settled"
      BY <2>1
    <2>5. \A d \in Callers : ~Served(d)' /\ pc'[d] # "running"
      BY <2>4 DEF OneHolder, Holds, Served
    <2>6. ServedLine' = <<>> /\ InsideNow' = NoCaller
      BY <2>5 DEF ServedLine, Served, InsideNow
    <2>7. MappedLine' = waiters
      BY <2>1, <2>6, ConcatEmptySeq DEF MappedLine
    <2>8. Mutex!Leave(c)
      BY <2>2, <2>3, <2>6, <2>7 DEF Mutex!Leave, MappedLine
    <2>9. QED
      BY <2>8 DEF Mutex!MutexNext
  <1>5. ASSUME NEW c \in Callers, Release(c) PROVE MappedLine' = MappedLine /\ InsideNow' = InsideNow
    <2>1. pc[c] = "settled" /\ Finally(c)
      BY <1>5 DEF Release
    <2>2. \A d \in Callers : ~Served(d)
      BY <2>1 DEF OneHolder, Holds, Served
    <2>3. MappedLine = waiters /\ InsideNow = NoCaller
      BY <2>2, LineUnserved, ServedByNone
    <2>4. QED
      BY <2>1, <2>3, LineAfterFinally DEF Holds
  <1>6. ASSUME NEW c \in Callers, NEW d \in Callers, NestedCall(c, d) PROVE Mutex!MutexNext
    <2>1. locked /\ TakeOrQueue(d)
      BY <1>6 DEF NestedCall, FlagMatchesHolder, Holds
    <2>2. QED
      BY <2>1, EnqueueArrives DEF Mutex!MutexNext
  <1>7. CASE UNCHANGED vars
    BY <1>7 DEF vars, MappedLine, ServedLine, Served, InsideNow
  <1>8. QED
    BY <1>1, <1>2, <1>3, <1>4, <1>5, <1>6, <1>7 DEF Next

\* withLock implements the abstract first-come-first-served mutex, for any
\* number of callers: bodies never overlap, start in call order, and a body
\* that ends lets the next in (lines 3-15, 43-66).
THEOREM LockRefinesFifoMutex == Spec => ImplementsFifoMutex
  <1>1. Init => Mutex!MutexInit
    <2> SUFFICES ASSUME Init PROVE Mutex!MutexInit
      OBVIOUS
    <2>1. \A c \in Callers : ~Served(c)
      BY DEF Init, Served
    <2>2. MappedLine = <<>> /\ InsideNow = NoCaller
      BY <2>1, LockInvInit, LineUnserved, ServedByNone DEF Init
    <2>3. QED
      BY <2>2 DEF Mutex!MutexInit, MappedLine
  <1>2. LockInv /\ LockInv' /\ [Next]_vars => [Mutex!MutexNext]_(Mutex!mutexVars)
    BY MutexStep DEF Mutex!mutexVars, MappedLine
  <1>3. QED
    BY <1>1, <1>2, LockInvAlways, PTL DEF Spec, ImplementsFifoMutex, Mutex!MutexSpec
=============================================================================
