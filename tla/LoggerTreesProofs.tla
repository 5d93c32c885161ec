------------------------- MODULE LoggerTreesProofs --------------------------
(***************************************************************************)
(* Proofs about LoggerTrees.  The promise chain of a tree is captured by   *)
(* Chain: a record is chained on the newest one dispatched to its tree     *)
(* before it.  From that, a record whose process() has started has only    *)
(* settled records before it (Turn), which gives one record at a time and, *)
(* with the record of what was written (Lines), the order of the lines.    *)
(***************************************************************************)
EXTENDS LoggerTrees, TLAPS

Stage == {"absent", "chained"} \cup Active \cup Settled

-----------------------------------------------------------------------------
(* Types *)

\* Every variable has its type, sequences apart.
TypeInv ==
    /\ tail \in [Trees -> 0..MaxRecords]
    /\ chainedOn \in [Trees -> [Records -> 0..MaxRecords]]
    /\ proc \in [Trees -> [Records -> Stage]]
    /\ pending \in SUBSET (Trees \X Records)
    /\ nextRecord \in 1..(MaxRecords + 1)
    /\ waitsFor \in [Flushers -> SUBSET (Trees \X Records)]
    /\ cut \in [Flushers -> 0..(MaxRecords + 1)]

SeqInv ==
    /\ handlers \in Seq(Trees)
    /\ written \in [Trees -> Seq(Records)]

LEMMA PlantedTrees == ASSUME SeqInv PROVE Planted \subseteq Trees
  BY DEF SeqInv, Planted

LEMMA TypeInvInit == Init => TypeInv /\ SeqInv
  <1> SUFFICES ASSUME Init PROVE TypeInv /\ SeqInv
    OBVIOUS
  <1>1. <<>> \in Seq(Trees) /\ <<>> \in Seq(Records)
    OBVIOUS
  <1>2. SeqInv
    BY <1>1 DEF Init, SeqInv
  <1>3. TypeInv
    BY RecordsAssumption DEF Init, TypeInv, Stage, Records
  <1>4. QED
    BY <1>2, <1>3

LEMMA MovesTypes ==
    ASSUME TypeInv, NEW t \in Trees, NEW r \in Records, NEW from, NEW to \in Stage,
           Moves(t, r, from, to)
    PROVE  TypeInv'
  BY DEF TypeInv, Moves

LEMMA TypeInvStep == TypeInv /\ SeqInv /\ [Next]_vars => TypeInv' /\ SeqInv'
  <1> SUFFICES ASSUME TypeInv, SeqInv, [Next]_vars PROVE TypeInv' /\ SeqInv'
    OBVIOUS
  <1>0. Planted \subseteq Trees
    BY PlantedTrees
  <1>1. CASE Log
    <2>1. nextRecord \in Records /\ nextRecord \in 0..MaxRecords
      BY <1>1, RecordsAssumption DEF Log, Records
    <2>2. tail' \in [Trees -> 0..MaxRecords]
      BY <1>1, <2>1 DEF Log, Handle, TypeInv
    <2>3. chainedOn' \in [Trees -> [Records -> 0..MaxRecords]]
      BY <1>1, <2>1 DEF Log, Handle, TypeInv
    <2>4. proc' \in [Trees -> [Records -> Stage]]
      BY <1>1, <2>1 DEF Log, Handle, TypeInv, Stage
    <2>5. pending' \in SUBSET (Trees \X Records)
      BY <1>1, <2>1, <1>0 DEF Log, TypeInv
    <2>6. nextRecord' \in 1..(MaxRecords + 1)
      BY <1>1, RecordsAssumption DEF Log, Records
    <2>7. UNCHANGED <<handlers, waitsFor, cut, written>>
      BY <1>1 DEF Log
    <2>8. QED
      BY <2>2, <2>3, <2>4, <2>5, <2>6, <2>7 DEF TypeInv, SeqInv
  <1>2. ASSUME NEW t \in Trees, Plant(t) PROVE TypeInv' /\ SeqInv'
    BY <1>2 DEF Plant, TypeInv, SeqInv
  <1>3. ASSUME NEW t \in Trees, NEW r \in Records, Step(t, r)
        PROVE  TypeInv' /\ SeqInv'
    <2>1. ASSUME NEW from, NEW to \in Stage, Moves(t, r, from, to),
                 written' = written \/ written' = [written EXCEPT ![t] = Append(@, r)]
          PROVE  TypeInv' /\ SeqInv'
      <3>1. TypeInv'
        BY <2>1, MovesTypes
      <3>2. handlers' = handlers
        BY <2>1 DEF Moves
      <3>3. Append(written[t], r) \in Seq(Records)
        BY DEF SeqInv
      <3>4. written' \in [Trees -> Seq(Records)]
        BY <2>1, <3>3 DEF SeqInv
      <3>5. QED
        BY <3>1, <3>2, <3>4 DEF SeqInv
    <2>2. CASE Begin(t, r)
      BY <2>1, <2>2 DEF Begin, Stage, Active, Settled
    <2>3. CASE Decided(t, r)
      BY <2>1, <2>3 DEF Decided, Stage, Active, Settled
    <2>4. CASE Rotated(t, r)
      BY <2>1, <2>4 DEF Rotated, Stage, Active, Settled
    <2>5. CASE WriteResolves(t, r)
      BY <2>1, <2>5 DEF WriteResolves, Stage, Active, Settled
    <2>6. CASE WriteRejects(t, r)
      BY <2>1, <2>6 DEF WriteRejects, Stage, Active, Settled
    <2>7. CASE SinkFlushed(t, r)
      BY <2>1, <2>7 DEF SinkFlushed, Stage, Active, Settled
    <2>8. CASE Untrack(t, r)
      BY <2>8 DEF Untrack, TypeInv, SeqInv
    <2>9. QED
      BY <1>3, <2>2, <2>3, <2>4, <2>5, <2>6, <2>7, <2>8 DEF Step
  <1>4. ASSUME NEW f \in Flushers, Flush(f) PROVE TypeInv' /\ SeqInv'
    BY <1>4 DEF Flush, TypeInv, SeqInv
  <1>5. ASSUME NEW f \in Flushers, FlushReturns(f) PROVE TypeInv' /\ SeqInv'
    <2>2. cut' \in [Flushers -> 0..(MaxRecords + 1)]
      BY <1>5, RecordsAssumption DEF FlushReturns, TypeInv
    <2>3. waitsFor' \in [Flushers -> SUBSET (Trees \X Records)]
      BY <1>5 DEF FlushReturns, TypeInv
    <2>4. UNCHANGED <<handlers, tail, chainedOn, proc, pending, nextRecord, written>>
      BY <1>5 DEF FlushReturns
    <2>5. QED
      BY <2>2, <2>3, <2>4 DEF TypeInv, SeqInv
  <1>6. CASE UNCHANGED vars
    BY <1>6 DEF vars, TypeInv, SeqInv
  <1>7. QED
    BY <1>1, <1>2, <1>3, <1>4, <1>5, <1>6 DEF Next

LEMMA TypeInvAlways == Spec => [](TypeInv /\ SeqInv)
  BY TypeInvInit, TypeInvStep, PTL DEF Spec

\* The types of the variables hold in every reachable state.
THEOREM LoggerTypeOK == Spec => []TypeOK
  <1>1. TypeInv /\ SeqInv => TypeOK
    BY DEF TypeInv, SeqInv, TypeOK, Stage
  <1>2. QED
    BY <1>1, TypeInvAlways, PTL

-----------------------------------------------------------------------------
(* The promise chain of a tree *)

Started == Active \cup Settled

Quiet == Settled \cup {"absent"}

\* A dispatched record is no newer than the stored promise, and is chained on
\* the newest record dispatched to the tree before it.
Chain(t) ==
    /\ tail[t] < nextRecord
    /\ \A r \in Records : proc[t][r] # "absent" =>
          /\ r <= tail[t]
          /\ chainedOn[t][r] < r
          /\ \A s \in Records : chainedOn[t][r] < s /\ s < r => proc[t][s] = "absent"

\* When process() of a record has started, the tree is done with all before it.
Turn(t) ==
    \A r, s \in Records : proc[t][r] \in Started /\ s < r => proc[t][s] \in Quiet

\* What was written is past its write, and in order.
Lines(t) ==
    /\ \A i \in 1..Len(written[t]) : proc[t][written[t][i]] \in {"flushing"} \cup Settled
    /\ \A i, j \in 1..Len(written[t]) : i < j => written[t][i] < written[t][j]

OrderInv == \A t \in Trees : Chain(t) /\ Turn(t) /\ Lines(t)

LEMMA OrderInvInit == Init => OrderInv
  <1> SUFFICES ASSUME Init, NEW t \in Trees PROVE Chain(t) /\ Turn(t) /\ Lines(t)
    BY DEF OrderInv
  <1>1. Chain(t)
    BY DEF Init, Chain
  <1>2. Turn(t)
    BY DEF Init, Turn, Started, Active, Settled
  <1>3. Lines(t)
    BY DEF Init, Lines
  <1>4. QED
    BY <1>1, <1>2, <1>3

\* Dispatching a record keeps the chain of every tree, planted or not.
LEMMA LogKeepsOrder ==
    ASSUME TypeInv, SeqInv, OrderInv, Log
    PROVE  OrderInv'
  <1> SUFFICES ASSUME NEW t \in Trees PROVE Chain(t)' /\ Turn(t)' /\ Lines(t)'
    BY DEF OrderInv
  <1> DEFINE n == nextRecord
  <1>1. n \in Records /\ n \in Nat /\ nextRecord' = n + 1 /\ written' = written
    BY RecordsAssumption DEF Log, Records
  <1>2. \A r \in Records : r \in Nat
    BY RecordsAssumption DEF Records
  <1>3. Chain(t) /\ Turn(t) /\ Lines(t) /\ tail[t] \in Nat
    BY RecordsAssumption DEF OrderInv, TypeInv
  <1>4. \A r \in Records : proc[t][r] # "absent" => r < n
    BY <1>1, <1>2, <1>3 DEF Chain
  <1>5. CASE t \in Planted
    <2>1. /\ tail'[t] = n
          /\ proc'[t] = [proc[t] EXCEPT ![n] = "chained"]
          /\ chainedOn'[t] = [chainedOn[t] EXCEPT ![n] = tail[t]]
      BY <1>5 DEF Log, Handle
    <2>2. /\ proc'[t][n] = "chained"
          /\ chainedOn'[t][n] = tail[t]
          /\ \A r \in Records \ {n} : /\ proc'[t][r] = proc[t][r]
                                      /\ chainedOn'[t][r] = chainedOn[t][r]
      BY <1>1, <2>1 DEF TypeInv
    <2>3. Chain(t)'
      <3>1. ASSUME NEW r \in Records, proc'[t][r] # "absent", r # n
            PROVE  /\ r <= tail'[t]
                   /\ chainedOn'[t][r] < r
                   /\ \A s \in Records : chainedOn'[t][r] < s /\ s < r => proc'[t][s] = "absent"
        BY <1>1, <1>2, <1>3, <1>4, <2>1, <2>2, <3>1 DEF Chain
      <3>2. /\ n <= tail'[t]
            /\ chainedOn'[t][n] < n
            /\ \A s \in Records : chainedOn'[t][n] < s /\ s < n => proc'[t][s] = "absent"
        BY <1>1, <1>2, <1>3, <2>1, <2>2 DEF Chain
      <3>3. tail'[t] < nextRecord'
        BY <1>1, <2>1
      <3>4. QED
        BY <3>1, <3>2, <3>3 DEF Chain
    <2>4. ASSUME NEW r \in Records, NEW s \in Records, proc'[t][r] \in Started, s < r
          PROVE  proc'[t][s] \in Quiet
      <3>1. r # n
        BY <2>2, <2>4 DEF Started, Active, Settled
      <3>2. proc[t][r] \in Started
        BY <2>2, <2>4, <3>1
      <3>3. r < n
        BY <1>4, <3>2 DEF Started, Active, Settled
      <3>4. s # n
        BY <1>1, <1>2, <2>4, <3>3
      <3>5. QED
        BY <1>3, <2>2, <2>4, <3>2, <3>4 DEF Turn
    <2>5. ASSUME NEW i \in 1..Len(written[t])
          PROVE  proc'[t][written[t][i]] \in {"flushing"} \cup Settled
      <3>1. written[t][i] \in Records
        BY DEF SeqInv
      <3>2. proc[t][written[t][i]] \in {"flushing"} \cup Settled
        BY <1>3 DEF Lines
      <3>3. written[t][i] # n
        BY <1>1, <1>2, <1>4, <3>1, <3>2 DEF Settled
      <3>4. QED
        BY <2>2, <3>1, <3>2, <3>3
    <2>6. Lines(t)'
      BY <1>1, <1>3, <2>5 DEF Lines
    <2>7. Turn(t)'
      BY <2>4 DEF Turn
    <2>8. QED
      BY <2>3, <2>6, <2>7
  <1>6. CASE t \notin Planted
    <2>1. tail'[t] = tail[t] /\ proc'[t] = proc[t] /\ chainedOn'[t] = chainedOn[t]
      BY <1>6 DEF Log, Handle
    <2>2. Chain(t)'
      BY <1>1, <1>3, <2>1 DEF Chain
    <2>3. Turn(t)' /\ Lines(t)'
      BY <1>1, <1>3, <2>1 DEF Turn, Lines
    <2>4. QED
      BY <2>2, <2>3
  <1>7. QED
    BY <1>5, <1>6

\* The turn of a tree passes on only when process() starts behind a settled
\* record; once started, a record may move as it likes.
LEMMA MovesKeepTurn ==
    ASSUME TypeInv, NEW t \in Trees, Chain(t), Turn(t),
           NEW r \in Records, NEW from, NEW to \in Started,
           proc[t][r] = from, proc'[t] = [proc[t] EXCEPT ![r] = to],
           \/ from \in Active
           \/ from = "chained" /\ PrevSettled(t, r)
    PROVE  Turn(t)'
  <1>1. /\ proc'[t][r] = to
        /\ \A s \in Records \ {r} : proc'[t][s] = proc[t][s]
    BY DEF TypeInv
  <1>2. \A s \in Records : s \in Nat
    BY RecordsAssumption DEF Records
  <1>3. ASSUME NEW s \in Records, s < r PROVE proc[t][s] \in Quiet
    <2>1. CASE from \in Active
      BY <2>1, <1>3 DEF Turn, Started
    <2>2. CASE from = "chained" /\ PrevSettled(t, r)
      <3> DEFINE p == chainedOn[t][r]
      <3>1. p \in 0..MaxRecords /\ p < r
        BY <2>2 DEF TypeInv, Chain
      <3>2. CASE p < s
        BY <2>2, <3>2, <1>3 DEF Chain, Quiet
      <3>3. CASE s <= p
        <4>1. p \in Records
          BY <3>1, <3>3, RecordsAssumption DEF Records
        <4>2. proc[t][p] \in Settled
          BY <2>2, <4>1 DEF PrevSettled
        <4>3. s < p => proc[t][s] \in Quiet
          BY <4>1, <4>2 DEF Turn, Started
        <4>4. QED
          BY <1>2, <3>3, <4>1, <4>2, <4>3 DEF Quiet
      <3>4. QED
        BY <1>2, <3>1, <3>2, <3>3
    <2>3. QED
      BY <2>1, <2>2
  <1>4. ASSUME NEW q \in Records, NEW s \in Records, proc'[t][q] \in Started, s < q
        PROVE  proc'[t][s] \in Quiet
    <2>1. CASE q = r
      BY <1>1, <1>2, <1>3, <1>4, <2>1
    <2>2. CASE q # r
      <3>1. proc[t][s] \in Quiet
        BY <1>1, <1>4, <2>2 DEF Turn
      <3>2. s # r
        BY <3>1 DEF Quiet, Active, Settled
      <3>3. QED
        BY <1>1, <3>1, <3>2
    <2>3. QED
      BY <2>1, <2>2
  <1>5. QED
    BY <1>4 DEF Turn

\* One step of process(r) keeps the order of the tree it belongs to.
LEMMA StepKeepsOrder ==
    ASSUME TypeInv, SeqInv, OrderInv, NEW u \in Trees, NEW r \in Records, Step(u, r)
    PROVE  OrderInv'
  <1>1. ASSUME NEW from, NEW to \in Started, Moves(u, r, from, to),
               \/ from \in Active
               \/ from = "chained" /\ PrevSettled(u, r),
               \/ from # "flushing" /\ written' = written
               \/ from = "flushing" /\ to \in Settled /\ written' = written
               \/ /\ from = "writing" /\ to \in {"flushing"} \cup Settled
                  /\ written' = [written EXCEPT ![u] = Append(@, r)]
        PROVE  OrderInv'
    <2>1. /\ UNCHANGED <<tail, chainedOn, nextRecord>>
          /\ proc[u][r] = from
          /\ proc' = [proc EXCEPT ![u][r] = to]
      BY <1>1 DEF Moves
    <2>2. /\ proc'[u] = [proc[u] EXCEPT ![r] = to]
          /\ \A t \in Trees \ {u} : proc'[t] = proc[t]
      BY <2>1 DEF TypeInv
    <2>3. /\ proc'[u][r] = to
          /\ \A s \in Records \ {r} : proc'[u][s] = proc[u][s]
      BY <2>2 DEF TypeInv
    <2>4. ASSUME NEW t \in Trees, t # u PROVE Chain(t)' /\ Turn(t)' /\ Lines(t)'
      <3>1. proc'[t] = proc[t] /\ Chain(t) /\ Turn(t) /\ Lines(t)
        BY <2>2, <2>4 DEF OrderInv
      <3>2. written'[t] = written[t]
        BY <1>1, <2>4 DEF SeqInv
      <3>3. Chain(t)'
        BY <2>1, <3>1 DEF Chain
      <3>4. Turn(t)' /\ Lines(t)'
        BY <3>1, <3>2 DEF Turn, Lines
      <3>5. QED
        BY <3>3, <3>4
    <2>5. Chain(u) /\ Turn(u) /\ Lines(u)
      BY DEF OrderInv
    <2>6. Chain(u)'
      <3>1. from # "absent" /\ to # "absent"
        BY <1>1 DEF Started, Active, Settled
      <3>2. \A s \in Records : proc'[u][s] = "absent" <=> proc[u][s] = "absent"
        BY <2>1, <2>3, <3>1
      <3>3. QED
        BY <2>1, <2>5, <3>2 DEF Chain
    <2>7. Turn(u)'
      BY <1>1, <2>1, <2>2, <2>5, MovesKeepTurn
    <2>8. CASE written' = written /\ (from # "flushing" \/ to \in Settled)
      <3>1. ASSUME NEW i \in 1..Len(written[u])
            PROVE  proc'[u][written[u][i]] \in {"flushing"} \cup Settled
        <4>1. written[u][i] \in Records
          BY DEF SeqInv
        <4>2. proc[u][written[u][i]] \in {"flushing"} \cup Settled
          BY <2>5 DEF Lines
        <4>3. CASE written[u][i] = r
          BY <1>1, <2>1, <2>3, <2>8, <4>2, <4>3 DEF Active, Settled
        <4>4. CASE written[u][i] # r
          BY <2>3, <4>1, <4>2, <4>4
        <4>5. QED
          BY <4>3, <4>4
      <3>2. Lines(u)'
        BY <2>5, <2>8, <3>1 DEF Lines
      <3>3. QED
        BY <2>4, <2>6, <2>7, <3>2 DEF OrderInv
    <2>9. CASE /\ from = "writing" /\ to \in {"flushing"} \cup Settled
               /\ written' = [written EXCEPT ![u] = Append(@, r)]
      <3> DEFINE w == written[u]
      <3>1. w \in Seq(Records) /\ Len(w) \in Nat
        BY DEF SeqInv
      <3>2. written'[u] = Append(w, r)
        BY <2>9 DEF SeqInv
      <3>3. /\ Len(Append(w, r)) = Len(w) + 1
            /\ Append(w, r)[Len(w) + 1] = r
            /\ \A i \in 1..Len(w) : Append(w, r)[i] = w[i]
        BY <3>1
      <3>4. ASSUME NEW i \in 1..Len(w)
            PROVE  /\ w[i] \in Records /\ w[i] < r
                   /\ proc'[u][w[i]] \in {"flushing"} \cup Settled
        <4>1. w[i] \in Records
          BY <3>1
        <4>2. proc[u][w[i]] \in {"flushing"} \cup Settled
          BY <2>5 DEF Lines
        <4>3. w[i] # r
          BY <2>1, <2>9, <4>2 DEF Settled
        <4>4. ~(r < w[i])
          <5>1. r < w[i] => proc[u][r] \in Quiet
            BY <2>5, <4>1, <4>2 DEF Turn, Started, Active
          <5>2. QED
            BY <2>1, <2>9, <5>1 DEF Quiet, Settled
        <4>5. w[i] < r
          BY <4>1, <4>3, <4>4, RecordsAssumption DEF Records
        <4>6. QED
          BY <2>3, <4>1, <4>2, <4>3, <4>5
      <3>5. \A i \in 1..(Len(w) + 1) :
                proc'[u][Append(w, r)[i]] \in {"flushing"} \cup Settled
        BY <2>3, <2>9, <3>1, <3>3, <3>4
      <3>6. \A i, j \in 1..(Len(w) + 1) : i < j => Append(w, r)[i] < Append(w, r)[j]
        <4>1. \A i, j \in 1..Len(w) : i < j => w[i] < w[j]
          BY <2>5 DEF Lines
        <4>2. QED
          BY <3>1, <3>3, <3>4, <4>1
      <3>7. Lines(u)'
        BY <3>2, <3>3, <3>5, <3>6 DEF Lines
      <3>8. QED
        BY <2>4, <2>6, <2>7, <3>7 DEF OrderInv
    <2>10. QED
      BY <1>1, <2>8, <2>9
  <1>2. CASE Begin(u, r)
    BY <1>1, <1>2 DEF Begin, Started, Active, Settled
  <1>3. CASE Decided(u, r)
    BY <1>1, <1>3 DEF Decided, Started, Active, Settled
  <1>4. CASE Rotated(u, r)
    BY <1>1, <1>4 DEF Rotated, Started, Active, Settled
  <1>5. CASE WriteResolves(u, r)
    BY <1>1, <1>5 DEF WriteResolves, Started, Active, Settled
  <1>6. CASE WriteRejects(u, r)
    BY <1>1, <1>6 DEF WriteRejects, Started, Active, Settled
  <1>7. CASE SinkFlushed(u, r)
    BY <1>1, <1>7 DEF SinkFlushed, Started, Active, Settled
  <1>8. CASE Untrack(u, r)
    BY <1>8 DEF Untrack, OrderInv, Chain, Turn, Lines
  <1>9. QED
    BY <1>2, <1>3, <1>4, <1>5, <1>6, <1>7, <1>8 DEF Step

LEMMA OrderInvStep ==
    TypeInv /\ SeqInv /\ OrderInv /\ [Next]_vars => OrderInv'
  <1> SUFFICES ASSUME TypeInv, SeqInv, OrderInv, [Next]_vars PROVE OrderInv'
    OBVIOUS
  <1>1. CASE Log
    BY <1>1, LogKeepsOrder
  <1>2. ASSUME NEW t \in Trees, NEW r \in Records, Step(t, r) PROVE OrderInv'
    BY <1>2, StepKeepsOrder
  <1>3. ASSUME UNCHANGED <<tail, chainedOn, proc, nextRecord, written>>
        PROVE  OrderInv'
    BY <1>3 DEF OrderInv, Chain, Turn, Lines
  <1>4. ASSUME NEW t \in Trees, Plant(t) PROVE OrderInv'
    BY <1>3, <1>4 DEF Plant
  <1>5. ASSUME NEW f \in Flushers, Flush(f) \/ FlushReturns(f) PROVE OrderInv'
    BY <1>3, <1>5 DEF Flush, FlushReturns
  <1>6. CASE UNCHANGED vars
    BY <1>3, <1>6 DEF vars
  <1>7. QED
    BY <1>1, <1>2, <1>4, <1>5, <1>6 DEF Next

LEMMA OrderInvAlways == Spec => []OrderInv
  BY OrderInvInit, OrderInvStep, TypeInvAlways, PTL DEF Spec

\* A tree never works on two records at once (LoggerBusiness.ts:36-39): of two
\* started records the older has settled.
THEOREM OneAtATime == Spec => []OneRecordAtATime
  <1>1. OrderInv => OneRecordAtATime
    <2> SUFFICES ASSUME OrderInv, NEW t \in Trees, NEW r \in Records, NEW s \in Records,
                        proc[t][r] \in Active, proc[t][s] \in Active
                 PROVE  r = s
      BY DEF OneRecordAtATime
    <2>1. ~(r < s) /\ ~(s < r)
      BY DEF OrderInv, Turn, Started, Quiet, Active, Settled
    <2>2. QED
      BY <2>1, RecordsAssumption DEF Records
  <1>2. QED
    BY <1>1, OrderInvAlways, PTL

\* Each sink gets its lines in the order of the log() calls.
THEOREM LinesInOrder == Spec => []WrittenInOrder
  <1>1. SeqInv /\ OrderInv => WrittenInOrder
    <2> SUFFICES ASSUME SeqInv, OrderInv, NEW t \in Trees,
                        NEW i \in DOMAIN written[t], NEW j \in DOMAIN written[t], i < j
                 PROVE  written[t][i] < written[t][j]
      BY DEF WrittenInOrder
    <2>1. DOMAIN written[t] = 1..Len(written[t])
      BY DEF SeqInv
    <2>2. QED
      BY <2>1 DEF OrderInv, Lines
  <1>2. QED
    BY <1>1, OrderInvAlways, TypeInvAlways, PTL

-----------------------------------------------------------------------------
(* flush() *)

\* What a tree still works on is tracked; a flush() waits for all of it that
\* was logged before its call.
FlushInv ==
    /\ \A f \in Flushers : cut[f] <= nextRecord
    /\ \A t \in Trees, r \in Records : proc[t][r] \notin Quiet =>
          /\ <<t, r>> \in pending
          /\ \A f \in Flushers : r < cut[f] => <<t, r>> \in waitsFor[f]

LEMMA FlushInvInit == Init => FlushInv
  <1> SUFFICES ASSUME Init PROVE FlushInv
    OBVIOUS
  <1>1. \A t \in Trees, r \in Records : proc[t][r] = "absent"
    BY DEF Init
  <1>2. QED
    BY <1>1 DEF Init, FlushInv, Quiet

\* A step that starts no work on an old record and forgets no promise that is
\* still pending keeps FlushInv.
LEMMA QuietStaysQuiet ==
    ASSUME TypeInv, FlushInv,
           UNCHANGED <<nextRecord, waitsFor, cut>>,
           \A t \in Trees, r \in Records : proc'[t][r] \notin Quiet =>
               proc[t][r] \notin Quiet /\ <<t, r>> \in pending'
    PROVE  FlushInv'
  BY DEF FlushInv

LEMMA FlushInvStep ==
    TypeInv /\ SeqInv /\ FlushInv /\ [Next]_vars => FlushInv'
  <1> SUFFICES ASSUME TypeInv, SeqInv, FlushInv, [Next]_vars PROVE FlushInv'
    OBVIOUS
  <1>0. /\ \A r \in Records : r \in Nat
        /\ nextRecord \in Nat
        /\ \A f \in Flushers : cut[f] \in Nat
    BY RecordsAssumption DEF Records, TypeInv
  <1>1. CASE Log
    <2>1. /\ nextRecord \in Records /\ nextRecord' = nextRecord + 1
          /\ UNCHANGED <<waitsFor, cut>>
          /\ pending' = pending \cup (Planted \X {nextRecord})
      BY <1>1 DEF Log
    <2>2. ASSUME NEW t \in Trees, NEW r \in Records, proc'[t][r] \notin Quiet
          PROVE  \/ proc[t][r] \notin Quiet
                 \/ r = nextRecord /\ t \in Planted
      BY <1>1, <2>2 DEF Log, Handle, TypeInv
    <2>3. ASSUME NEW t \in Trees, NEW r \in Records, proc'[t][r] \notin Quiet
          PROVE  /\ <<t, r>> \in pending'
                 /\ \A f \in Flushers : r < cut'[f] => <<t, r>> \in waitsFor'[f]
      <3>1. CASE proc[t][r] \notin Quiet
        BY <2>1, <3>1 DEF FlushInv
      <3>2. CASE r = nextRecord /\ t \in Planted
        <4>1. <<t, r>> \in pending'
          BY <2>1, <3>2
        <4>3. \A f \in Flushers : ~(r < cut'[f])
          BY <1>0, <2>1, <3>2 DEF FlushInv
        <4>4. QED
          BY <4>1, <4>3
      <3>3. QED
        BY <2>2, <2>3, <3>1, <3>2
    <2>4. \A f \in Flushers : cut'[f] <= nextRecord'
      BY <1>0, <2>1 DEF FlushInv
    <2>5. QED
      BY <2>3, <2>4 DEF FlushInv
  <1>2. ASSUME NEW t \in Trees, Plant(t) PROVE FlushInv'
    BY <1>2 DEF Plant, FlushInv
  <1>3. ASSUME NEW t \in Trees, NEW r \in Records, Step(t, r) PROVE FlushInv'
    <2>1. ASSUME NEW from, NEW to, Moves(t, r, from, to), from \notin Quiet
          PROVE  FlushInv'
      <3>1. /\ UNCHANGED <<nextRecord, waitsFor, cut, pending>>
            /\ proc[t][r] = from
            /\ proc' = [proc EXCEPT ![t][r] = to]
        BY <2>1 DEF Moves
      <3>2. \A u \in Trees, s \in Records :
                proc'[u][s] \notin Quiet => proc[u][s] \notin Quiet
        BY <2>1, <3>1 DEF TypeInv
      <3>3. QED
        BY <3>1, <3>2 DEF FlushInv
    <2>2. CASE Begin(t, r)
      BY <2>1, <2>2 DEF Begin, Quiet, Settled
    <2>3. CASE Decided(t, r)
      BY <2>1, <2>3 DEF Decided, Quiet, Settled
    <2>4. CASE Rotated(t, r)
      BY <2>1, <2>4 DEF Rotated, Quiet, Settled
    <2>5. CASE WriteResolves(t, r)
      BY <2>1, <2>5 DEF WriteResolves, Quiet, Settled
    <2>6. CASE WriteRejects(t, r)
      BY <2>1, <2>6 DEF WriteRejects, Quiet, Settled
    <2>7. CASE SinkFlushed(t, r)
      BY <2>1, <2>7 DEF SinkFlushed, Quiet, Settled
    <2>8. CASE Untrack(t, r)
      <3>1. /\ UNCHANGED <<proc, nextRecord, waitsFor, cut>>
            /\ pending' = pending \ {<<t, r>>}
            /\ proc[t][r] \in Quiet
        BY <2>8 DEF Untrack, Quiet
      <3>2. \A u \in Trees, s \in Records :
                proc[u][s] \notin Quiet => <<u, s>> # <<t, r>>
        BY <3>1
      <3>3. QED
        BY <3>1, <3>2, QuietStaysQuiet DEF FlushInv
    <2>9. QED
      BY <1>3, <2>2, <2>3, <2>4, <2>5, <2>6, <2>7, <2>8 DEF Step
  <1>4. ASSUME NEW f \in Flushers, Flush(f) PROVE FlushInv'
    <2>1. /\ UNCHANGED <<proc, pending, nextRecord>>
          /\ cut' = [cut EXCEPT ![f] = nextRecord]
          /\ waitsFor' = [waitsFor EXCEPT ![f] = pending]
      BY <1>4 DEF Flush
    <2>2. \A g \in Flushers :
              IF g = f THEN cut'[g] = nextRecord /\ waitsFor'[g] = pending
              ELSE cut'[g] = cut[g] /\ waitsFor'[g] = waitsFor[g]
      BY <2>1 DEF TypeInv
    <2>3. QED
      BY <1>0, <2>1, <2>2 DEF FlushInv
  <1>5. ASSUME NEW f \in Flushers, FlushReturns(f) PROVE FlushInv'
    <2>1. /\ UNCHANGED <<proc, pending, nextRecord>>
          /\ cut' = [cut EXCEPT ![f] = 0]
          /\ waitsFor' = [waitsFor EXCEPT ![f] = {}]
      BY <1>5 DEF FlushReturns
    <2>2. \A g \in Flushers :
              IF g = f THEN cut'[g] = 0
              ELSE cut'[g] = cut[g] /\ waitsFor'[g] = waitsFor[g]
      BY <2>1 DEF TypeInv
    <2>3. \A g \in Flushers : cut'[g] <= nextRecord'
      BY <1>0, <2>1, <2>2 DEF FlushInv
    <2>4. ASSUME NEW t \in Trees, NEW r \in Records, proc'[t][r] \notin Quiet
          PROVE  /\ <<t, r>> \in pending'
                 /\ \A g \in Flushers : r < cut'[g] => <<t, r>> \in waitsFor'[g]
      <3>1. proc[t][r] \notin Quiet
        BY <2>1, <2>4
      <3>2. <<t, r>> \in pending'
        BY <2>1, <3>1 DEF FlushInv
      <3>3. ASSUME NEW g \in Flushers, r < cut'[g] PROVE <<t, r>> \in waitsFor'[g]
        <4>1. g # f
          BY <1>0, <2>2, <3>3, RecordsAssumption DEF Records
        <4>2. QED
          BY <2>2, <3>1, <3>3, <4>1 DEF FlushInv
      <3>4. QED
        BY <3>2, <3>3
    <2>5. QED
      BY <2>3, <2>4 DEF FlushInv
  <1>6. CASE UNCHANGED vars
    BY <1>6 DEF vars, FlushInv
  <1>7. QED
    BY <1>1, <1>2, <1>3, <1>4, <1>5, <1>6 DEF Next

\* A step that ends a flush() does so when no tree works on a record that was
\* logged before the call.
LEMMA FlushReturnsQuiet ==
    ASSUME TypeInv, FlushInv, [Next]_vars, NEW f \in Flushers,
           cut[f] # 0, cut'[f] = 0, NEW t \in Trees, NEW r \in Records, r < cut[f]
    PROVE  proc[t][r] \in {"absent"} \cup Settled
  <1>1. FlushReturns(f)
    <2>1. ASSUME NEW g \in Flushers, Flush(g) PROVE FALSE
      BY <2>1, RecordsAssumption DEF Flush, TypeInv
    <2>2. ASSUME NEW g \in Flushers, FlushReturns(g) PROVE g = f
      BY <2>2 DEF FlushReturns, TypeInv
    <2>3. ~UNCHANGED cut
      OBVIOUS
    <2>4. ASSUME NEW u \in Trees, NEW s \in Records, Step(u, s) PROVE FALSE
      BY <2>3, <2>4 DEF Step, Begin, Decided, Rotated, WriteResolves, WriteRejects,
                        SinkFlushed, Untrack, Moves
    <2>5. QED
      BY <2>1, <2>2, <2>3, <2>4 DEF Next, Log, Plant, vars
  <1>2. \A p \in waitsFor[f] : proc[p[1]][p[2]] \in Settled
    BY <1>1 DEF FlushReturns
  <1>3. CASE proc[t][r] \in Quiet
    BY <1>3 DEF Quiet
  <1>4. CASE proc[t][r] \notin Quiet
    BY <1>2, <1>4 DEF FlushInv
  <1>5. QED
    BY <1>3, <1>4

\* A flush() that returns, terminate() among them, leaves no tree at work on a
\* record logged before the call (LoggerRepository.ts:163-166).
THEOREM FlushCovers == Spec => FlushCoversEarlierRecords
  <1>1. TypeInv /\ FlushInv /\ [Next]_vars =>
            [\A f \in Flushers : cut[f] # 0 /\ cut'[f] = 0 =>
                \A t \in Trees, r \in Records :
                    r < cut[f] => proc[t][r] \in {"absent"} \cup Settled]_vars
    BY FlushReturnsQuiet
  <1>2. QED
    BY <1>1, FlushInvInit, FlushInvStep, TypeInvAlways, PTL
       DEF Spec, FlushCoversEarlierRecords
=============================================================================
