---------------------------- MODULE ClientsProofs ----------------------------
(*****************************************************************************)
(* Proofs about the clients of MCClients, for any number of drivers,         *)
(* callers, keys, rows, attempts and subscriptions.  Each section is about   *)
(* the specification of one client, which no other client disturbs.          *)
(*****************************************************************************)
EXTENDS MCClients, FiniteSetTheorems, WellFoundedInduction, TLAPS

-----------------------------------------------------------------------------
(* DatabaseRepository: the pools, the transactions and the pages.           *)

\* As long as no lifecycle call has overlapped another, or replaced an open pool, at most
\* one driver is busy; what is open is what the state holds, and what terminate() is
\* destroying; and the pool of the constructor has been ended only after a first init().
PoolInv ==
    /\ step \in [Drivers -> {"idle", "onConnected", "marking", "destroying", "unmarking",
                             "onDisconnected"}]
    /\ mine \in [Drivers -> Nat]
    /\ nextPool \in Nat \ {0}
    /\ current \in Nat
    /\ shared \in BOOLEAN /\ ended \in BOOLEAN /\ connected \in BOOLEAN /\ crossed \in BOOLEAN
    /\ ~crossed =>
         /\ \A d, e \in Drivers : step[d] # "idle" /\ step[e] # "idle" => d = e
         /\ open = {current} \ {0}
         /\ connected => current # 0
         /\ \A d \in Drivers :
              /\ step[d] = "onConnected" => current # 0
              /\ step[d] = "destroying" => mine[d] = current /\ current # 0
         /\ ended => shared
         /\ ended \/ current # 0 => nextPool > 1
         /\ ended /\ current # 0 => nextPool > 2

LEMMA PoolInit == Database!Init => PoolInv
<1> SUFFICES ASSUME Database!Init PROVE PoolInv
    OBVIOUS
<1>1. step \in [Drivers -> {"idle"}] /\ mine \in [Drivers -> {0}]
    BY DEF Database!Init
<1>2. current = 0 /\ open = {} /\ nextPool = 1 /\ shared \in BOOLEAN
      /\ ended = FALSE /\ connected = FALSE /\ crossed = FALSE
    BY DEF Database!Init
<1>3. /\ \A d \in Drivers : step[d] = "idle"
      /\ open = {current} \ {0}
      /\ step \in [Drivers -> {"idle", "onConnected", "marking", "destroying", "unmarking",
                               "onDisconnected"}]
      /\ mine \in [Drivers -> Nat]
    BY <1>1, <1>2
<1>4. nextPool \in Nat \ {0} /\ current \in Nat
    BY <1>2
<1>7. ended \in BOOLEAN /\ connected \in BOOLEAN /\ crossed \in BOOLEAN
    BY <1>2, Zenon
<1>5. /\ \A d, e \in Drivers : step[d] # "idle" /\ step[e] # "idle" => d = e
      /\ \A d \in Drivers : step[d] \notin {"onConnected", "destroying"}
    BY <1>3
<1>6. ~connected /\ ~ended /\ current = 0
    BY <1>2
<1> QED
    BY <1>2, <1>3, <1>4, <1>5, <1>6, <1>7 DEF PoolInv

LEMMA PoolStep ==
    ASSUME PoolInv, [Database!Next]_(Database!vars)
    PROVE  PoolInv'
<1> USE DEF PoolInv
<1>1. ASSUME NEW d \in Drivers, Database!Open(d)
      PROVE  PoolInv'
    <2>1. PICK p \in Nat \ {0} : p = nextPool /\ nextPool' = p + 1 /\ current' = p /\ p + 1 \in Nat \ {0}
        BY <1>1 DEF Database!Open
    <2>2. /\ shared' \in BOOLEAN /\ ended' \in BOOLEAN /\ connected' \in BOOLEAN /\ crossed' \in BOOLEAN
          /\ mine' \in [Drivers -> Nat]
          /\ step' \in [Drivers -> {"idle", "onConnected", "marking", "destroying", "unmarking",
                             "onDisconnected"}]
        BY <1>1 DEF Database!Open
    <2>3. ASSUME ~crossed'
          PROVE  current = 0 /\ ~crossed /\ \A e \in Drivers : step[e] = "idle"
        BY <1>1, <2>3 DEF Database!Open, Database!Busy
    <2>4. ASSUME ~crossed'
          PROVE  /\ \A x, y \in Drivers : step'[x] # "idle" /\ step'[y] # "idle" => x = y
                 /\ \A x \in Drivers : step'[x] # "destroying"
        BY <1>1, <2>3, <2>4 DEF Database!Open
    <2>5. ASSUME ~crossed'
          PROVE  open' = {current'} \ {0} /\ ~connected' /\ current' # 0
        BY <1>1, <2>1, <2>3, <2>5 DEF Database!Open
    <2>6. ASSUME ~crossed', ended'
          PROVE  shared' /\ nextPool' > 2
        BY <1>1, <2>1, <2>3, <2>6 DEF Database!Open
    <2> QED
        BY <2>1, <2>2, <2>4, <2>5, <2>6
<1>2. ASSUME NEW d \in Drivers, Database!MarkUp(d)
      PROVE  PoolInv'
    BY <1>2 DEF Database!MarkUp
<1>3. ASSUME NEW d \in Drivers, Database!Close(d)
      PROVE  PoolInv'
    BY <1>3 DEF Database!Close, Database!Busy
<1>4. ASSUME NEW d \in Drivers, Database!Destroyed(d)
      PROVE  PoolInv'
    <2>1. /\ shared' \in BOOLEAN /\ ended' \in BOOLEAN /\ connected' \in BOOLEAN /\ crossed' \in BOOLEAN
          /\ mine' \in [Drivers -> Nat]
          /\ step' \in [Drivers -> {"idle", "onConnected", "marking", "destroying", "unmarking",
                             "onDisconnected"}]
          /\ current' = 0 /\ nextPool' = nextPool
        BY <1>4 DEF Database!Destroyed
    <2>2. ASSUME ~crossed
          PROVE  open' = {} /\ ~connected' /\ nextPool > 1
        BY <1>4, <2>2 DEF Database!Destroyed
    <2>3. ASSUME ~crossed
          PROVE  /\ \A x, y \in Drivers : step'[x] # "idle" /\ step'[y] # "idle" => x = y
                 /\ \A x \in Drivers : step'[x] \notin {"onConnected", "destroying"}
        BY <1>4, <2>3 DEF Database!Destroyed
    <2> QED
        BY <1>4, <2>1, <2>2, <2>3 DEF Database!Destroyed
<1>5. ASSUME NEW d \in Drivers, Database!LifecycleRejects(d)
      PROVE  PoolInv'
    BY <1>5 DEF Database!LifecycleRejects
<1>6. ASSUME NEW d \in Drivers, Database!LifecycleGoesOn(d)
      PROVE  PoolInv'
    BY <1>6 DEF Database!LifecycleGoesOn
<1>7. CASE UNCHANGED Database!lifecycle
    BY <1>7 DEF Database!lifecycle
<1>8. ASSUME NEW c \in Consumers, Database!Call(c)
      PROVE  UNCHANGED Database!lifecycle
    BY <1>8 DEF Database!Call, Database!Exec, Database!ExecFails, Database!OnErrorSettles,
        Database!PageQuery, Database!CountQuery, Database!PageSettles, Database!Begin,
        Database!CallbackRejects, Database!RollbackHookSettles, Database!Return,
        Database!ExecRuns, Database!Commit, Database!Paginate, Database!Become
<1>9. (\E s \in Database!Statement : Database!OtherClient(s)) \/ UNCHANGED Database!vars
      => UNCHANGED Database!lifecycle
    BY DEF Database!OtherClient, Database!vars
<1> QED
    BY <1>1, <1>2, <1>3, <1>4, <1>5, <1>6, <1>7, <1>8, <1>9 DEF Database!Next, Database!Lifecycle

\* For any number of drivers, consumers and pools: as long as lifecycle calls do not overlap
\* and init() replaces no open pool, the instance in the state is the only one whose pool is
\* open, and a connected repository reaches the server (the pool of a constructor apart,
\* which terminate() has ended).
THEOREM LatchTells == Database!Spec => []LatchTellsPool
<1>2. PoolInv => LatchTellsPool
    BY DEF PoolInv, LatchTellsPool, Database!LatchTellsPool, Database!Serves
<1> QED
    BY PoolInit, <1>2, PoolStep, PTL DEF Database!Spec

\* What a transaction has come to: the work of a call that is rolling back has landed only
\* if the hook of the commit was called or the answer to COMMIT was lost.
TxSound(j) ==
    /\ j.at = "page" => {"at", "call"} \subseteq DOMAIN j /\ j.call = "page"
    /\ j.at = "onRollback" =>
         /\ j.error \in Database!Errors \cup {"hook"}
         /\ j.landed => j.lost \/ "commit" \in j.hooks
         /\ "commit" \in j.hooks => j.landed
    /\ j.at = "ended" /\ j.call = "tx" =>
         /\ j.result = "ok" => j.landed /\ j.hooks = {"commit"}
         /\ j.result # "ok" /\ j.landed => j.lost \/ "commit" \in j.hooks
         /\ "commit" \in j.hooks => j.landed
         /\ j.result # "rollbackHook"

TxInv == DOMAIN query = Consumers /\ \A c \in Consumers : TxSound(query[c])

LEMMA Translated ==
    ASSUME NEW e \in Database!Errors \cup {"hook"}
    PROVE  Database!Translate(e) \notin {"ok", "rollbackHook"}
BY DEF Database!Translate, Database!Errors, Database!Codes, Database!TransportCodes,
       Database!Exceptions

\* The shapes of a job.
LEMMA Shapes ==
    /\ TxSound(Database!Idle)
    /\ \A e : TxSound(Database!Caught(e))
    /\ \A how : TxSound(Database!EndedExec(how))
    /\ \A p : TxSound([at |-> "query", pool |-> p]) /\ TxSound([at |-> "callback", pool |-> p])
BY DEF TxSound, Database!Idle, Database!Caught, Database!EndedExec

LEMMA ToldSound ==
    /\ TxSound(Database!Told("hook", {}, FALSE, FALSE))
    /\ TxSound(Database!Told("ok", {"commit"}, TRUE, FALSE))
    /\ TxSound(Database!RollingBack("hook", {"commit"}, TRUE, FALSE))
    /\ TxSound(Database!RollingBack("ECONNREFUSED", {}, TRUE, TRUE))
    /\ \A e \in Database!Errors : TxSound(Database!RollingBack(e, {}, FALSE, FALSE))
BY DEF TxSound, Database!Told, Database!RollingBack, Database!Errors, Database!Codes,
       Database!TransportCodes

LEMMA TxBecomes ==
    ASSUME TxInv, NEW c \in Consumers, NEW j, TxSound(j), Database!Become(c, j)
    PROVE  TxInv'
BY DEF TxInv, Database!Become

LEMMA TxWrites ==
    ASSUME TxInv, NEW s, NEW c, NEW j, TxSound(j), Database!Write(s, c, j)
    PROVE  TxInv'
<1>1. query' = [x \in Consumers |->
                  IF x = c THEN j
                  ELSE IF Database!Between(query[x]) THEN [query[x] EXCEPT !.moved = TRUE]
                  ELSE query[x]]
    BY DEF Database!Write
<1>2. ASSUME NEW x \in Consumers
      PROVE  TxSound(query'[x])
    <2>1. TxSound(query[x])
        BY DEF TxInv
    <2>2. CASE x # c /\ Database!Between(query[x])
        <3>1. query[x].at = "page" /\ query'[x] = [query[x] EXCEPT !.moved = TRUE]
            BY <1>1, <2>2 DEF Database!Between
        <3>2. /\ DOMAIN query'[x] = DOMAIN query[x]
              /\ query'[x].at = "page" /\ query'[x].call = "page"
            BY <2>1, <3>1 DEF TxSound
        <3> QED
            BY <2>1, <3>1, <3>2 DEF TxSound
    <2> QED
        BY <1>1, <2>1, <2>2
<1> QED
    BY <1>1, <1>2 DEF TxInv

LEMMA TxStep ==
    ASSUME TxInv, [Database!Next]_(Database!vars)
    PROVE  TxInv'
<1>1. CASE UNCHANGED query
    BY <1>1 DEF TxInv
<1>2. ASSUME NEW c \in Consumers, Database!Call(c)
      PROVE  TxInv'
    <2>1. CASE Database!Exec(c)
        BY <2>1, Shapes, TxBecomes DEF Database!Exec
    <2>2. CASE Database!ExecFails(c)
        BY <2>2, Shapes, TxBecomes DEF Database!ExecFails
    <2>3. CASE Database!OnErrorSettles(c)
        BY <2>3, Shapes, TxBecomes DEF Database!OnErrorSettles
    <2>4. CASE Database!PageQuery(c)
        <3> DEFINE j == [query[c] EXCEPT !.elements =
                     [rows |-> Database!PageOf(table, query[c].filter, query[c].page, Database!PageSize)]]
        <3>1. TxSound(j)
            BY <2>4 DEF Database!PageQuery, TxSound, TxInv
        <3> QED
            BY <2>4, <3>1, TxBecomes DEF Database!PageQuery
    <2>5. CASE Database!CountQuery(c)
        <3> DEFINE j == [query[c] EXCEPT !.total = [n |-> Database!Count(table, query[c].filter)]]
        <3>1. TxSound(j)
            BY <2>5 DEF Database!CountQuery, TxSound, TxInv
        <3> QED
            BY <2>5, <3>1, TxBecomes DEF Database!CountQuery
    <2>6. CASE Database!PageSettles(c)
        <3> DEFINE j == [query[c] EXCEPT !.at = "ended"]
        <3>1. TxSound(j)
            BY <2>6 DEF Database!PageSettles, TxSound, TxInv
        <3>2. \A e : TxSound(Database!Caught(e))
            BY Shapes
        <3> HIDE DEF j
        <3>3. Database!Become(c, j) \/ Database!Become(c, Database!Caught("ECONNREFUSED"))
            BY <2>6 DEF Database!PageSettles, j
        <3> QED
            BY <3>1, <3>2, <3>3, TxBecomes
    <2>7. CASE Database!Begin(c)
        BY <2>7, Shapes, ToldSound, TxBecomes
           DEF Database!Begin, Database!Errors
    <2>8. CASE Database!CallbackRejects(c)
        BY <2>8, ToldSound, TxBecomes
           DEF Database!CallbackRejects, Database!Errors, Database!Codes, Database!TransportCodes,
               Database!Exceptions
    <2>9. CASE Database!RollbackHookSettles(c)
        <3> DEFINE j == Database!Told(Database!Translate(query[c].error), query[c].hooks,
                                      query[c].landed, query[c].lost)
        <3>1. Database!Translate(query[c].error) \notin {"ok", "rollbackHook"}
            BY <2>9, Translated DEF Database!RollbackHookSettles, TxInv, TxSound
        <3>2. TxSound(j)
            BY <2>9, <3>1 DEF Database!RollbackHookSettles, TxInv, TxSound, Database!Told
        <3> QED
            BY <2>9, <3>2, TxBecomes DEF Database!RollbackHookSettles
    <2>10. CASE Database!Return(c)
        BY <2>10, Shapes, TxBecomes DEF Database!Return
    <2>11. ASSUME NEW s \in Database!Statement, Database!ExecRuns(c, s)
           PROVE  TxInv'
        BY <2>11, Shapes, TxWrites DEF Database!ExecRuns
    <2>12. ASSUME NEW s \in Database!Statement, Database!Commit(c, s)
           PROVE  TxInv'
        BY <2>12, ToldSound, TxWrites DEF Database!Commit
    <2>13. ASSUME NEW f \in Database!Filter, NEW page \in 0..1, Database!Paginate(c, f, page)
           PROVE  TxInv'
        <3> DEFINE j == [at |-> "page", call |-> "page", pool |-> current, filter |-> f,
                         page |-> page, elements |-> Database!Unread, total |-> Database!Unread,
                         moved |-> FALSE]
        <3>1. TxSound(j)
            BY DEF TxSound
        <3> HIDE DEF j
        <3>2. Database!Become(c, j) \/ Database!Become(c, Database!Caught("NotInitialized"))
            BY <2>13 DEF Database!Paginate, j
        <3> QED
            BY <3>1, <3>2, Shapes, TxBecomes
    <2> QED
        BY <1>2, <2>1, <2>2, <2>3, <2>4, <2>5, <2>6, <2>7, <2>8, <2>9, <2>10, <2>11, <2>12, <2>13
           DEF Database!Call
<1>3. ASSUME NEW s \in Database!Statement, Database!OtherClient(s)
      PROVE  TxInv'
    BY <1>3, Shapes, TxWrites DEF Database!OtherClient
<1>4. ASSUME NEW d \in Drivers, Database!Lifecycle(d)
      PROVE  UNCHANGED query
    BY <1>4 DEF Database!Lifecycle, Database!Open, Database!MarkUp, Database!Close,
        Database!Destroyed, Database!LifecycleRejects, Database!LifecycleGoesOn
<1>5. UNCHANGED Database!vars => UNCHANGED query
    BY DEF Database!vars
<1> QED
    BY <1>1, <1>2, <1>3, <1>4, <1>5 DEF Database!Next

\* For any number of callers and rows, whatever overlaps: what a caller of transaction() and
\* its hooks are told agrees with what the server did.
THEOREM HooksTell == Database!Spec => []HooksTellOutcome
<1>1. Database!Init => TxInv
    BY Shapes DEF Database!Init, TxInv
<1>2. TxInv => HooksTellOutcome
    BY DEF TxInv, TxSound, HooksTellOutcome, Database!HooksTellOutcome
<1> QED
    BY <1>1, <1>2, TxStep, PTL DEF Database!Spec

\* The pages.

LEMMA LeastNumber ==
    ASSUME NEW S \in SUBSET Nat, S # {}
    PROVE  \E x \in S : \A y \in S : x <= y
<1>1. PICK x \in S : \A y \in S : <<y, x>> \notin OpToRel(<, Nat)
    BY WFMin, NatLessThanWellFounded, Zenon
<1>2. \A y \in S : ~(y < x)
    BY <1>1, Zenon DEF OpToRel
<1>3. \A y \in S : x <= y
    BY <1>2
<1> QED
    BY <1>3

\* The operators of the instance are those of the libraries.
LEMMA SameCardinality == \A S : Database!Cardinality(S) = Cardinality(S)
<1>1. \A S : Database!IsFiniteSet(S) = IsFiniteSet(S)
    BY DEF Database!IsFiniteSet, IsFiniteSet
<1> QED
    BY <1>1 DEF Database!Cardinality, Cardinality, Database!IsFiniteSet, IsFiniteSet

LEMMA BeforeIs == \A R, i : Database!Before(R, i) = Cardinality({j \in R : j < i})
BY SameCardinality DEF Database!Before

LEMMA BeforeGrows ==
    ASSUME NEW R \in SUBSET Nat, IsFiniteSet(R), NEW i \in R
    PROVE  /\ Database!Before(R, i) \in Nat /\ Database!Before(R, i) < Cardinality(R)
           /\ \A k \in R : i < k => Database!Before(R, i) < Database!Before(R, k)
<1> DEFINE B(k) == {j \in R : j < k}
<1>1. \A k : B(k) \in SUBSET R
    OBVIOUS
<1>2. \A k : IsFiniteSet(B(k)) /\ Cardinality(B(k)) \in Nat
    BY <1>1, FS_Subset, FS_CardinalityType
<1>3. IsFiniteSet(B(i) \cup {i}) /\ Cardinality(B(i) \cup {i}) = Cardinality(B(i)) + 1
    <2>1. i \notin B(i)
        OBVIOUS
    <2> HIDE DEF B
    <2> QED
        BY <1>2, <2>1, FS_AddElement
<1>4. B(i) \cup {i} \in SUBSET R
    OBVIOUS
<1>5. ASSUME NEW k \in R, i < k
      PROVE  B(i) \cup {i} \in SUBSET B(k)
    <2>1. ASSUME NEW j \in B(i) \cup {i}
          PROVE  j \in B(k)
        <3>1. j \in Nat /\ i \in Nat /\ k \in Nat /\ j <= i /\ j \in R
            OBVIOUS
        <3> QED
            BY <1>5, <3>1
    <2> QED
        BY <2>1
<1>6. Cardinality(R) \in Nat
    BY FS_CardinalityType
<1>7. \A k : Database!Before(R, k) = Cardinality(B(k))
    BY BeforeIs
<1> HIDE DEF B
<1>8. Cardinality(B(i)) + 1 <= Cardinality(R)
    BY <1>3, <1>4, FS_Subset
<1>9. ASSUME NEW k \in R, i < k
      PROVE  Cardinality(B(i)) + 1 <= Cardinality(B(k))
    BY <1>2, <1>3, <1>5, <1>9, FS_Subset
<1> QED
    BY <1>2, <1>6, <1>7, <1>8, <1>9

\* Every rank below the number of rows is that of a row: otherwise there were a least one
\* that is not, and the row after the one before it would have it.
LEMMA RankTaken ==
    ASSUME NEW R \in SUBSET Nat, IsFiniteSet(R), NEW p \in Nat, p < Cardinality(R)
    PROVE  \E i \in R : Database!Before(R, i) = p
<1> DEFINE Free == {q \in Nat : q < Cardinality(R) /\ \A i \in R : Database!Before(R, i) # q}
<1> SUFFICES ASSUME Free # {} PROVE FALSE
    OBVIOUS
<1>1. PICK q \in Free : \A x \in Free : q <= x
    BY LeastNumber
<1>2. q \in Nat /\ q < Cardinality(R) /\ \A i \in R : Database!Before(R, i) # q
    BY <1>1
<1>3. Cardinality(R) \in Nat
    BY FS_CardinalityType
\* The rows that come after all those of smaller rank.
<1>4. PICK S \in SUBSET R : /\ S # R /\ Cardinality(S) = q
                            /\ \A i \in R \ S, j \in S : j < i
    <2>1. CASE q = 0
        <3>1. {} \in SUBSET R /\ {} # R /\ Cardinality({}) = 0
            BY <1>2, <2>1, FS_EmptySet
        <3> QED
            BY <2>1, <3>1
    <2>2. CASE q # 0
        <3>1. q - 1 \in Nat /\ q - 1 < q /\ q - 1 < Cardinality(R)
            BY <1>2, <1>3, <2>2
        <3>2. q - 1 \notin Free
            BY <1>1, <1>2, <3>1
        <3>3. PICK k \in R : Database!Before(R, k) = q - 1
            BY <3>1, <3>2
        <3> DEFINE B == {j \in R : j < k}
                   S == B \cup {k}
        <3>4. B \in SUBSET R /\ k \notin B /\ Cardinality(B) = q - 1
            BY <3>3, BeforeIs
        <3>5. \A i \in R \ S, j \in S : j < i
            OBVIOUS
        <3> HIDE DEF B
        <3>6. Cardinality(S) = q
            <4>1. IsFiniteSet(B)
                BY <3>4, FS_Subset
            <4>2. Cardinality(S) = Cardinality(B) + 1
                BY <3>4, <4>1, FS_AddElement
            <4> QED
                BY <1>2, <3>4, <4>2
        <3>7. S # R
            BY <1>2, <3>6
        <3> QED
            BY <3>4, <3>5, <3>6, <3>7
    <2> QED
        BY <2>1, <2>2
<1>5. PICK m \in R \ S : \A x \in R \ S : m <= x
    BY <1>4, LeastNumber
<1>6. {j \in R : j < m} = S
    <2>1. ASSUME NEW j \in R
          PROVE  j < m <=> j \in S
        <3>1. j \in Nat /\ m \in Nat
            OBVIOUS
        <3>2. j \in S => j < m
            BY <1>4
        <3>3. j \notin S => m <= j
            BY <1>5
        <3> QED
            BY <3>1, <3>2, <3>3
    <2> QED
        BY <2>1
<1> QED
    BY <1>2, <1>4, <1>5, <1>6, BeforeIs

LEMMA PageSize1 ==
    ASSUME NEW R \in SUBSET Nat, IsFiniteSet(R), NEW p \in Nat
    PROVE  Cardinality({i \in R : Database!Before(R, i) = p}) = IF p < Cardinality(R) THEN 1 ELSE 0
<1> DEFINE P == {i \in R : Database!Before(R, i) = p}
<1>1. ASSUME NEW i \in P, NEW k \in P
      PROVE  i = k
    <2>1. i \in Nat /\ k \in Nat
        OBVIOUS
    <2>2. ~(i < k) /\ ~(k < i)
        BY BeforeGrows
    <2> QED
        BY <2>1, <2>2
<1>2. CASE p < Cardinality(R)
    <2>1. PICK i \in P : TRUE
        BY <1>2, RankTaken
    <2>2. P = {i}
        BY <1>1
    <2> QED
        BY <1>2, <2>2, FS_Singleton
<1>3. CASE ~(p < Cardinality(R))
    <2>1. P = {}
        BY <1>3, BeforeGrows
    <2> QED
        BY <1>3, <2>1, FS_EmptySet
<1> QED
    BY <1>2, <1>3

LEMMA PageFits ==
    ASSUME NEW t, NEW f, NEW p \in Nat
    PROVE  Cardinality(Database!PageOf(t, f, p, Database!PageSize)) =
              Max({0, Min({Database!PageSize, Database!Count(t, f) - p * Database!PageSize})})
<1> DEFINE R == Database!Find(t, f)
           n == Cardinality(R)
<1>1. R \in SUBSET Nat /\ IsFiniteSet(R)
    <2>1. R \in SUBSET Ids
        BY DEF Database!Find, Database!Stored
    <2> HIDE DEF R
    <2> QED
        BY <2>1, IdsAssumption, FS_Subset
<1>5. Database!PageSize = 1 /\ Database!Count(t, f) = n
    BY SameCardinality DEF Database!PageSize, Database!Count
<1>8. Database!PageOf(t, f, p, 1) = {i \in R : Database!Before(R, i) \in (p * 1)..(p * 1 + 1 - 1)}
    BY DEF Database!PageOf
<1> HIDE DEF R
<1>2. n \in Nat
    BY <1>1, FS_CardinalityType
<1>3. Database!PageOf(t, f, p, 1) = {i \in R : Database!Before(R, i) = p}
    <2>2. (p * 1)..(p * 1 + 1 - 1) = {p}
        OBVIOUS
    <2> QED
        BY <1>8, <2>2
<1>4. Cardinality(Database!PageOf(t, f, p, 1)) = IF p < n THEN 1 ELSE 0
    BY <1>1, <1>3, PageSize1
<1> HIDE DEF n
<1>6. CASE p < n
    <2>1. n - p * 1 \in Nat /\ n - p * 1 >= 1
        BY <1>2, <1>6
    <2>2. Min({1, n - p * 1}) = 1
        BY <2>1 DEF Min
    <2>3. Max({0, 1}) = 1
        BY DEF Max
    <2> QED
        BY <1>4, <1>5, <1>6, <2>2, <2>3
<1>7. CASE ~(p < n)
    <2>1. PICK m \in Int : m = n - p * 1 /\ m <= 0
        BY <1>2, <1>7
    <2>2. Min({1, m}) = m
        BY <2>1 DEF Min
    <2>3. Max({0, m}) = 0
        BY <2>1 DEF Max
    <2> QED
        BY <1>4, <1>5, <1>7, <2>1, <2>2, <2>3
<1> QED
    BY <1>6, <1>7

Fits(j) ==
    Cardinality(j.elements.rows) =
        Max({0, Min({Database!PageSize, j.total.n - j.page * Database!PageSize})})

PageFields == {"at", "call", "pool", "filter", "page", "elements", "total", "moved"}

\* What paginate() has read is what the table holds, until another writes.
PageSound(j, t) ==
    /\ j.at = "page" =>
         /\ DOMAIN j = PageFields /\ j.call = "page" /\ j.page \in Nat /\ j.moved \in BOOLEAN
         /\ j.elements # Database!Unread /\ j.total = Database!Unread /\ j.moved = FALSE =>
              j.elements.rows = Database!PageOf(t, j.filter, j.page, Database!PageSize)
         /\ j.elements = Database!Unread /\ j.total # Database!Unread /\ j.moved = FALSE =>
              j.total.n = Database!Count(t, j.filter)
         /\ j.elements # Database!Unread /\ j.total # Database!Unread /\ j.moved = FALSE => Fits(j)
    /\ j.at = "ended" /\ j.call = "page" /\ j.moved = FALSE => Fits(j)
    /\ j.at = "ended" /\ j.call = "page" => j.moved \in BOOLEAN

PageInv == DOMAIN query = Consumers /\ \A c \in Consumers : PageSound(query[c], table)

NoPage(j) == j.at # "page" /\ ~(j.at = "ended" /\ j.call = "page")

LEMMA NoPages ==
    /\ NoPage(Database!Idle)
    /\ \A e : NoPage(Database!Caught(e))
    /\ \A how : NoPage(Database!EndedExec(how))
    /\ \A p : NoPage([at |-> "query", pool |-> p]) /\ NoPage([at |-> "callback", pool |-> p])
    /\ \A how, hooks, landed, lost :
         /\ NoPage(Database!Told(how, hooks, landed, lost))
         /\ NoPage(Database!RollingBack(how, hooks, landed, lost))
BY DEF NoPage, Database!Idle, Database!Caught, Database!EndedExec, Database!Told,
       Database!RollingBack

LEMMA NoPageSound == \A j, t : NoPage(j) => PageSound(j, t)
BY DEF NoPage, PageSound

LEMMA PageBecomes ==
    ASSUME PageInv, NEW c \in Consumers, NEW j, NoPage(j) \/ PageSound(j, table), Database!Become(c, j)
    PROVE  PageInv'
<1>1. PageSound(j, table)
    BY NoPageSound
<1>2. table' = table /\ query' = [query EXCEPT ![c] = j]
    BY DEF Database!Become
<1>3. ASSUME NEW x \in Consumers
      PROVE  PageSound(query'[x], table)
    BY <1>1, <1>2 DEF PageInv
<1>4. \A x \in Consumers : PageSound(query'[x], table')
    BY <1>2, <1>3
<1> QED
    BY <1>2, <1>4 DEF PageInv

\* A write moves the table under those that have read half of a page.
LEMMA PageWrites ==
    ASSUME PageInv, NEW s, NEW c, NEW j, NoPage(j), Database!Write(s, c, j)
    PROVE  PageInv'
<1>1. query' = [x \in Consumers |->
                  IF x = c THEN j
                  ELSE IF Database!Between(query[x]) THEN [query[x] EXCEPT !.moved = TRUE]
                  ELSE query[x]]
    BY DEF Database!Write
<1>2. ASSUME NEW x \in Consumers, NEW t
      PROVE  PageSound(query'[x], t)
    <2> DEFINE w == query[x]
    <2>1. PageSound(w, table)
        BY DEF PageInv
    <2>2. CASE x = c
        BY <1>1, <2>2, NoPageSound
    <2>3. CASE x # c /\ Database!Between(w)
        <3> DEFINE n == [w EXCEPT !.moved = TRUE]
        <3>1. query'[x] = n /\ w.at = "page"
            BY <1>1, <2>3 DEF Database!Between
        <3>2. DOMAIN w = PageFields /\ w.call = "page" /\ w.page \in Nat
            BY <2>1, <3>1 DEF PageSound
        <3>3. DOMAIN n = PageFields /\ n.at = "page" /\ n.call = "page" /\ n.page \in Nat /\ n.moved = TRUE
            BY <3>1, <3>2 DEF PageFields
        <3> HIDE DEF n
        <3>4. PageSound(n, t)
            BY <3>3 DEF PageSound
        <3> QED
            BY <3>1, <3>4
    <2>4. CASE x # c /\ ~Database!Between(w)
        <3>1. query'[x] = w
            BY <1>1, <2>4
        <3>2. w.at # "page" \/ ((w.elements = Database!Unread) = (w.total = Database!Unread))
            BY <2>4 DEF Database!Between
        <3> HIDE DEF w
        <3>3. PageSound(w, t)
            BY <2>1, <3>2 DEF PageSound, Fits
        <3> QED
            BY <3>1, <3>3
    <2> QED
        BY <2>2, <2>3, <2>4
<1> QED
    BY <1>1, <1>2 DEF PageInv

LEMMA FitsWhole ==
    ASSUME NEW j, j.page \in Nat,
           j.elements.rows = Database!PageOf(table, j.filter, j.page, Database!PageSize),
           j.total.n = Database!Count(table, j.filter)
    PROVE  Fits(j)
BY PageFits DEF Fits

LEMMA PageCall ==
    ASSUME PageInv, NEW c \in Consumers, Database!Call(c)
    PROVE  PageInv'
<1> DEFINE w == query[c]
<1>1. PageSound(w, table)
    BY DEF PageInv
<1>2. CASE Database!Exec(c)
    BY <1>2, NoPages, PageBecomes DEF Database!Exec
<1>3. CASE Database!ExecFails(c)
    BY <1>3, NoPages, PageBecomes DEF Database!ExecFails
<1>4. CASE Database!OnErrorSettles(c)
    BY <1>4, NoPages, PageBecomes DEF Database!OnErrorSettles
<1>5. CASE Database!PageQuery(c)
    <2> DEFINE e == [rows |-> Database!PageOf(table, w.filter, w.page, Database!PageSize)]
               n == [w EXCEPT !.elements = e]
    <2>1. Database!Become(c, n) /\ w.at = "page" /\ w.elements = Database!Unread
        BY <1>5 DEF Database!PageQuery
    <2>2. e # Database!Unread /\ e.rows = Database!PageOf(table, w.filter, w.page, Database!PageSize)
        <3>1. "unread" \in DOMAIN Database!Unread /\ "unread" \notin DOMAIN e
            BY DEF Database!Unread
        <3> QED
            BY <3>1
    <2> HIDE DEF e
    <2>3. DOMAIN w = PageFields /\ w.call = "page" /\ w.page \in Nat /\ w.moved \in BOOLEAN
        BY <1>1, <2>1 DEF PageSound
    <2>4. /\ DOMAIN n = PageFields /\ n.at = "page" /\ n.call = "page" /\ n.page = w.page
          /\ n.moved = w.moved /\ n.elements = e /\ n.total = w.total /\ n.filter = w.filter
        BY <2>1, <2>3 DEF PageFields
    <2> HIDE DEF n, w
    <2>5. w.total # Database!Unread /\ w.moved = FALSE => Fits(n)
        BY <1>1, <2>1, <2>2, <2>3, <2>4, FitsWhole DEF PageSound
    <2>6. PageSound(n, table)
        BY <2>2, <2>3, <2>4, <2>5 DEF PageSound
    <2> QED
        BY <2>1, <2>6, PageBecomes
<1>6. CASE Database!CountQuery(c)
    <2> DEFINE e == [n |-> Database!Count(table, w.filter)]
               n == [w EXCEPT !.total = e]
    <2>1. Database!Become(c, n) /\ w.at = "page" /\ w.total = Database!Unread
        BY <1>6 DEF Database!CountQuery
    <2>2. e # Database!Unread /\ e.n = Database!Count(table, w.filter)
        <3>1. "unread" \in DOMAIN Database!Unread /\ "unread" \notin DOMAIN e
            BY DEF Database!Unread
        <3> QED
            BY <3>1
    <2> HIDE DEF e
    <2>3. DOMAIN w = PageFields /\ w.call = "page" /\ w.page \in Nat /\ w.moved \in BOOLEAN
        BY <1>1, <2>1 DEF PageSound
    <2>4. /\ DOMAIN n = PageFields /\ n.at = "page" /\ n.call = "page" /\ n.page = w.page
          /\ n.moved = w.moved /\ n.elements = w.elements /\ n.total = e /\ n.filter = w.filter
        BY <2>1, <2>3 DEF PageFields
    <2> HIDE DEF n, w
    <2>5. w.elements # Database!Unread /\ w.moved = FALSE => Fits(n)
        BY <1>1, <2>1, <2>2, <2>3, <2>4, FitsWhole DEF PageSound
    <2>6. PageSound(n, table)
        BY <2>2, <2>3, <2>4, <2>5 DEF PageSound
    <2> QED
        BY <2>1, <2>6, PageBecomes
<1>7. CASE Database!PageSettles(c)
    <2> DEFINE n == [w EXCEPT !.at = "ended"]
    <2>1. /\ w.at = "page"
          /\ \/ /\ w.elements # Database!Unread /\ w.total # Database!Unread
                /\ Database!Become(c, n)
             \/ Database!Become(c, Database!Caught("ECONNREFUSED"))
        BY <1>7 DEF Database!PageSettles
    <2>2. DOMAIN w = PageFields /\ w.call = "page" /\ w.page \in Nat /\ w.moved \in BOOLEAN
        BY <1>1, <2>1 DEF PageSound
    <2>3. /\ n.at = "ended" /\ n.call = "page" /\ n.page = w.page
          /\ n.moved = w.moved /\ n.elements = w.elements /\ n.total = w.total
        BY <2>2 DEF PageFields
    <2> HIDE DEF n, w
    <2>4. w.elements # Database!Unread /\ w.total # Database!Unread => PageSound(n, table)
        BY <1>1, <2>1, <2>2, <2>3 DEF PageSound, Fits
    <2> QED
        BY <2>1, <2>4, NoPages, PageBecomes
<1>8. CASE Database!Begin(c)
    BY <1>8, NoPages, PageBecomes DEF Database!Begin
<1>9. CASE Database!CallbackRejects(c)
    BY <1>9, NoPages, PageBecomes DEF Database!CallbackRejects
<1>10. CASE Database!RollbackHookSettles(c)
    BY <1>10, NoPages, PageBecomes DEF Database!RollbackHookSettles
<1>11. CASE Database!Return(c)
    BY <1>11, NoPages, PageBecomes DEF Database!Return
<1>12. ASSUME NEW s \in Database!Statement, Database!ExecRuns(c, s)
       PROVE  PageInv'
    BY <1>12, NoPages, PageWrites DEF Database!ExecRuns
<1>13. ASSUME NEW s \in Database!Statement, Database!Commit(c, s)
       PROVE  PageInv'
    BY <1>13, NoPages, PageWrites DEF Database!Commit
<1>14. ASSUME NEW f \in Database!Filter, NEW page \in 0..1, Database!Paginate(c, f, page)
       PROVE  PageInv'
    <2> DEFINE n == [at |-> "page", call |-> "page", pool |-> current, filter |-> f,
                     page |-> page, elements |-> Database!Unread, total |-> Database!Unread,
                     moved |-> FALSE]
    <2>1. PageSound(n, table)
        BY DEF PageSound, PageFields
    <2> HIDE DEF n
    <2>2. Database!Become(c, n) \/ Database!Become(c, Database!Caught("NotInitialized"))
        BY <1>14 DEF Database!Paginate, n
    <2> QED
        BY <2>1, <2>2, NoPages, PageBecomes
<1> QED
    BY <1>2, <1>3, <1>4, <1>5, <1>6, <1>7, <1>8, <1>9, <1>10, <1>11, <1>12, <1>13, <1>14
       DEF Database!Call

LEMMA PageStep ==
    ASSUME PageInv, [Database!Next]_(Database!vars)
    PROVE  PageInv'
<1>1. CASE UNCHANGED <<query, table>>
    BY <1>1 DEF PageInv
<1>2. ASSUME NEW d \in Drivers, Database!Lifecycle(d)
      PROVE  UNCHANGED <<query, table>>
    BY <1>2 DEF Database!Lifecycle, Database!Open, Database!MarkUp, Database!Close,
        Database!Destroyed, Database!LifecycleRejects, Database!LifecycleGoesOn
<1>3. ASSUME NEW s \in Database!Statement, Database!OtherClient(s)
      PROVE  PageInv'
    BY <1>3, NoPages, PageWrites DEF Database!OtherClient
<1>4. UNCHANGED Database!vars => UNCHANGED <<query, table>>
    BY DEF Database!vars
<1> QED
    BY <1>1, <1>2, <1>3, <1>4, PageCall DEF Database!Next

\* For any finite set of primary keys, any number of callers, whatever else the server is
\* told: a page and the total beside it fit each other, unless the table changed between
\* the two queries.
THEOREM PagesFit == Database!Spec => []PageFitsTotal
<1>1. Database!Init => PageInv
    BY NoPages, NoPageSound DEF Database!Init, PageInv
<1>2. PageInv => PageFitsTotal
    BY SameCardinality
       DEF PageInv, PageSound, Fits, PageFitsTotal, Database!PageFitsTotal,
           Database!Max, Max, Database!Min, Min
<1> QED
    BY <1>1, <1>2, PageStep, PTL DEF Database!Spec

-----------------------------------------------------------------------------
(* KeyValueRepository: the calls under way, and the store they implement.   *)

Fields == {"at", "req", "todo", "replies", "dropped", "since", "seen", "batch", "last"}

\* No key is there twice.
Once(s) == \A i, j \in DOMAIN s : s[i] = s[j] => i = j

\* A call of c that has begun has answered for the keys it is through with, and only for
\* those; a scan has seen, when it is through, what matches and has been there since it
\* began, and what it has seen and is still there it is about to delete.
JobSound(c, j) ==
    /\ j.at \in {"idle", "sent", "scan", "ended"}
    /\ j.at = "idle" => j.replies = <<>>
    /\ j.at = "sent" =>
         /\ DOMAIN j = Fields
         /\ j.req \in Requests(c) /\ j.req.op # "clear"
         /\ j.todo \in Seq(Used(c)) /\ Once(j.todo)
         /\ ToSet(j.todo) \subseteq ToSet(j.req.keys) \ DOMAIN j.replies
         /\ ToSet(j.req.keys) = DOMAIN j.replies \cup ToSet(j.todo) \/ j.dropped = TRUE
         /\ j.since = {}
    /\ j.at = "scan" =>
         /\ DOMAIN j = Fields
         /\ j.req \in Requests(c) /\ j.req.op = "clear" /\ j.replies = <<>>
         /\ j.batch \subseteq Matched[c]
         /\ j.since \subseteq Prefixed(NsOf[c])
         /\ j.since \cap Matched[c] \cap j.seen \subseteq j.batch
         /\ j.last => j.since \cap Matched[c] \subseteq j.seen
    /\ j.at = "ended" /\ j.result = "ok" =>
         /\ ToSet(j.keys) = DOMAIN j.replies \/ j.dropped = TRUE
         /\ Plain(NsOf[c]) => j.since = {}

Entry == [raw : Values, ttl : BOOLEAN]

KvInv ==
    /\ store \in [StoredKeys -> {Absent} \cup Entry]
    /\ DOMAIN job = Callers
    /\ \A c \in Callers : JobSound(c, job[c])

\* What the abstract store has for told and for asked.
Heard == [c \in Callers |-> job[c].replies]
Wanted == [c \in Callers |-> AskedBy(job[c])]

Same == UNCHANGED <<kind = "memcached", store, Wanted, Heard>>

(* Requests. *)

LEMMA AllKeys ==
    ASSUME NEW S, IsFiniteSet(S)
    PROVE  SetToSeq(S) \in Seq(S) /\ Once(SetToSeq(S))
<1>1. Cardinality(S) \in Nat /\ \E f : f \in Bijection(1..Cardinality(S), S)
    BY FS_CardinalityType DEF ExistsBijection
<1>2. PICK f : f \in Bijection(1..Cardinality(S), S)
    BY <1>1
<1>3. f \in [1..Cardinality(S) -> S] /\ IsInjective(f)
    BY <1>2 DEF Bijection, Injection, IsInjective
<1>4. SetToSeq(S) \in [1..Cardinality(S) -> S] /\ IsInjective(SetToSeq(S))
    BY <1>3 DEF SetToSeq
<1>5. Once(SetToSeq(S))
    BY <1>4 DEF IsInjective, Once
<1> QED
    BY <1>1, <1>4, <1>5

LEMMA HeadTail ==
    ASSUME NEW S, NEW s \in Seq(S), s # <<>>
    PROVE  /\ Head(s) \in S /\ Tail(s) \in Seq(S) /\ ToSet(s) \subseteq S
           /\ ToSet(s) = {Head(s)} \cup ToSet(Tail(s))
<1>1. Head(s) \in S /\ Tail(s) \in Seq(S) /\ Len(s) \in Nat \ {0}
    OBVIOUS
<1>2. ToSet(s) = {s[i] : i \in 1..Len(s)} /\ Head(s) = s[1]
    BY DEF ToSet
<1>3. ToSet(Tail(s)) = {s[i + 1] : i \in 1..(Len(s) - 1)}
    <2>1. DOMAIN Tail(s) = 1..(Len(s) - 1) /\ \A i \in 1..(Len(s) - 1) : Tail(s)[i] = s[i + 1]
        BY <1>1
    <2> HIDE <1>1
    <2> DEFINE t == Tail(s)
    <2>2. ToSet(t) = {t[i] : i \in DOMAIN t}
        BY DEF ToSet
    <2> HIDE DEF t
    <2>3. DOMAIN t = 1..(Len(s) - 1) /\ \A i \in 1..(Len(s) - 1) : t[i] = s[i + 1]
        BY <2>1 DEF t
    <2> QED
        BY <2>2, <2>3 DEF t
<1>4. ASSUME NEW i \in 1..Len(s)
      PROVE  s[i] = Head(s) \/ s[i] \in ToSet(Tail(s))
    <2>1. CASE i = 1
        BY <1>2, <2>1
    <2>2. CASE i # 1
        <3>1. i - 1 \in 1..(Len(s) - 1) /\ (i - 1) + 1 = i
            BY <1>1, <2>2
        <3> QED
            BY <1>3, <3>1
    <2> QED
        BY <2>1, <2>2
<1>5. ASSUME NEW i \in 1..(Len(s) - 1)
      PROVE  s[i + 1] \in ToSet(s)
    BY <1>1, <1>2
<1>6. ToSet(s) \subseteq {Head(s)} \cup ToSet(Tail(s))
    BY <1>2, <1>4
<1>7. {Head(s)} \cup ToSet(Tail(s)) \subseteq ToSet(s)
    <2>1. Head(s) \in ToSet(s)
        BY <1>1, <1>2
    <2> QED
        BY <1>3, <1>5, <2>1
<1> QED
    BY <1>1, <1>2, <1>6, <1>7

LEMMA TailOnce ==
    ASSUME NEW S, NEW s \in Seq(S), s # <<>>, Once(s)
    PROVE  Once(Tail(s)) /\ Head(s) \notin ToSet(Tail(s))
<1>1. Len(s) \in Nat \ {0} /\ DOMAIN s = 1..Len(s) /\ Head(s) = s[1]
    OBVIOUS
<1> DEFINE t == Tail(s)
<1>2. DOMAIN t = 1..(Len(s) - 1) /\ \A i \in 1..(Len(s) - 1) : t[i] = s[i + 1]
    BY <1>1
<1>3. ToSet(t) = {t[i] : i \in DOMAIN t}
    BY DEF ToSet
<1> HIDE DEF t
<1>4. Once(t)
    BY <1>1, <1>2 DEF Once
<1>5. Head(s) \notin ToSet(t)
    BY <1>1, <1>2, <1>3 DEF Once
<1> QED
    BY <1>4, <1>5 DEF t

LEMMA UsedFinite ==
    ASSUME NEW c \in Callers
    PROVE  IsFiniteSet(Used(c))
<1> DEFINE f == [key \in Keys[c] |-> Namespaced(NsOf[c], key)]
<1>1. f \in Surjection(Keys[c], Used(c))
    BY DEF Surjection, Used
<1> QED
    BY <1>1, KeysAssumption, FS_Surjection

\* A key of a caller starts with its namespace.
LEMMA UsedPrefixed ==
    ASSUME NEW c \in Callers
    PROVE  Used(c) \subseteq Prefixed(NsOf[c]) /\ Used(c) \subseteq StoredKeys
<1>1. ASSUME NEW key \in Keys[c]
      PROVE  IsPrefix(NsOf[c], Namespaced(NsOf[c], key))
    <2> DEFINE ns == NsOf[c]
    <2>1. ns \in Seq(Segments) /\ key \in Seq(Segments)
        BY KeysAssumption
    <2> HIDE DEF ns
    <2>2. /\ Len(ns) \in Nat /\ Len(key) \in Nat /\ Len(ns \o key) = Len(ns) + Len(key)
          /\ \A i \in 1..Len(ns) : (ns \o key)[i] = ns[i]
        BY <2>1
    <2>3. SubSeq(ns, 1, Len(ns)) = SubSeq(ns \o key, 1, Len(ns))
        BY <2>1, <2>2
    <2> QED
        BY <2>2, <2>3 DEF IsPrefix, Namespaced, ns
<1>2. Used(c) \subseteq StoredKeys
    BY DEF StoredKeys
<1> QED
    BY <1>1, <1>2 DEF Used, Prefixed

LEMMA Asked ==
    ASSUME NEW c \in Callers, NEW r \in Requests(c)
    PROVE  /\ r.keys \in Seq(Used(c)) /\ Once(r.keys)
           /\ r.op = "clear" => r.keys = <<>>
           /\ r.op \in {"set", "setMany"} => r.raw \in Values
<1>1. SetToSeq(Used(c)) \in Seq(Used(c)) /\ Once(SetToSeq(Used(c)))
    BY UsedFinite, AllKeys
<1>2. /\ <<>> \in Seq(Used(c)) /\ Once(<<>>)
      /\ \A k \in Used(c) : <<k>> \in Seq(Used(c)) /\ Once(<<k>>)
    BY DEF Once
<1> DEFINE all == SetToSeq(Used(c))
           one == {<<k>> : k \in Used(c)}
<1> HIDE DEF all
<1>3. \/ r.keys \in one /\ r.op # "clear" /\ (r.op = "set" => r.raw \in Written) /\ r.op # "setMany"
      \/ r.keys = all /\ r.op # "clear" /\ (r.op = "setMany" => r.raw \in Written) /\ r.op # "set"
      \/ r.keys = <<>> /\ r.op = "clear"
    BY DEF Requests, all
<1>4. /\ all \in Seq(Used(c)) /\ <<>> \in Seq(Used(c)) /\ Once(all) /\ Once(<<>>)
      /\ \A s \in one : s \in Seq(Used(c)) /\ Once(s)
    BY <1>1, <1>2, Zenon DEF all
<1> HIDE DEF one
<1> QED
    BY <1>3, <1>4, ValuesAssumption

\* The abstract call of a request.
Abstract(r) == [r EXCEPT !.keys = ToSet(@)]

LEMMA SeqSet == \A S, s : s \in Seq(S) => ToSet(s) \subseteq S
BY DEF ToSet

LEMMA AbstractCall ==
    ASSUME NEW c \in Callers, NEW r \in Requests(c)
    PROVE  /\ Abstract(r) \in Store!Calls(c)
           /\ Abstract(r).op = r.op /\ Abstract(r).keys = ToSet(r.keys)
           /\ r.op \in {"set", "setMany"} => Abstract(r).raw = r.raw /\ Abstract(r).ttl = r.ttl
           /\ r.op = "increment" => Abstract(r).by = r.by
<1> DEFINE own == Prefixed(NsOf[c])
           ks == ToSet(r.keys)
           all == SetToSeq(Used(c))
           one == {<<k>> : k \in Used(c)}
<1>1. ks \subseteq own
    BY Asked, SeqSet, UsedPrefixed, Zenon
<1>2. ks \in SUBSET own
    BY <1>1
<1>3. r.op = "clear" => ks = {}
    BY Asked DEF ToSet
<1> HIDE DEF own, all, one
<1>4. Requests(c) =
        [op : {"get", "has", "delete"}, keys : one] \cup
        [op : {"set"}, keys : one, raw : Written, ttl : {"none", "zero", "some"}] \cup
        [op : {"increment"}, keys : one, by : Amounts] \cup
        [op : {"getMany"}, keys : {all}] \cup
        [op : {"setMany"}, keys : {all}, raw : Written, ttl : {"some"}] \cup
        [op : {"clear"}, keys : {<<>>}]
    BY DEF Requests, one, all
<1>5. Store!Calls(c) =
        [op : {"get", "has", "delete", "getMany"}, keys : SUBSET own] \cup
        [op : {"set", "setMany"}, keys : SUBSET own, raw : Values,
                                  ttl : {"none", "zero", "some"}] \cup
        [op : {"increment"}, keys : SUBSET own, by : Amounts] \cup
        [op : {"clear"}, keys : {{}}]
    BY DEF Store!Calls, Own, own
<1>6. Abstract(r) = [r EXCEPT !.keys = ks]
    BY DEF Abstract
<1> HIDE DEF ks
<1> DEFINE reads == [op : {"get", "has", "delete", "getMany"}, keys : SUBSET own]
           puts == [op : {"set", "setMany"}, keys : SUBSET own, raw : Values,
                    ttl : {"none", "zero", "some"}]
           adds == [op : {"increment"}, keys : SUBSET own, by : Amounts]
           clears == [op : {"clear"}, keys : {{}}]
<1>11. \A x : x \in reads \/ x \in puts \/ x \in adds \/ x \in clears => x \in Store!Calls(c)
    BY <1>5
<1>7. CASE r \in [op : {"get", "has", "delete"}, keys : one] \cup [op : {"getMany"}, keys : {all}]
    <2>1. /\ Abstract(r) = [op |-> r.op, keys |-> ks]
          /\ r.op \in {"get", "has", "delete", "getMany"}
        BY <1>6, <1>7
    <2>2. Abstract(r) \in reads
        BY <1>2, <2>1
    <2> HIDE DEF reads, puts, adds, clears
    <2> QED
        BY <1>11, <2>1, <2>2 DEF ks
<1>8. CASE r \in [op : {"set"}, keys : one, raw : Written, ttl : {"none", "zero", "some"}] \cup
                 [op : {"setMany"}, keys : {all}, raw : Written, ttl : {"some"}]
    <2>1. /\ Abstract(r) = [op |-> r.op, keys |-> ks, raw |-> r.raw, ttl |-> r.ttl]
          /\ r.op \in {"set", "setMany"} /\ r.raw \in Values /\ r.ttl \in {"none", "zero", "some"}
        BY <1>6, <1>8, ValuesAssumption
    <2>2. Abstract(r) \in puts
        BY <1>2, <2>1
    <2> HIDE DEF reads, puts, adds, clears
    <2> QED
        BY <1>11, <2>1, <2>2 DEF ks
<1>9. CASE r \in [op : {"increment"}, keys : one, by : Amounts]
    <2>1. /\ Abstract(r) = [op |-> r.op, keys |-> ks, by |-> r.by]
          /\ r.op = "increment" /\ r.by \in Amounts
        BY <1>6, <1>9
    <2>2. Abstract(r) \in adds
        BY <1>2, <2>1
    <2> HIDE DEF reads, puts, adds, clears
    <2> QED
        BY <1>11, <2>1, <2>2 DEF ks
<1>10. CASE r \in [op : {"clear"}, keys : {<<>>}]
    <2>1. Abstract(r) = [op |-> r.op, keys |-> ks] /\ r.op = "clear" /\ ks = {}
        BY <1>3, <1>6, <1>10
    <2>2. Abstract(r) \in clears
        BY <2>1
    <2> HIDE DEF reads, puts, adds, clears
    <2> QED
        BY <1>11, <2>1, <2>2 DEF ks
<1> QED
    BY <1>4, <1>7, <1>8, <1>9, <1>10 DEF ks

(* The shapes of a job. *)

LEMMA EndSound ==
    ASSUME NEW c
    PROVE  /\ JobSound(c, Idle)
           /\ \A j, how : how # "ok" => JobSound(c, Ended(j, how))
BY DEF JobSound, Idle, Ended

\* The end of a job has what the job had.
LEMMA Over ==
    ASSUME NEW c, NEW j, ToSet(j.req.keys) = DOMAIN j.replies \/ j.dropped = TRUE,
           Plain(NsOf[c]) => j.since = {}
    PROVE  JobSound(c, Ended(j, "ok"))
BY DEF JobSound, Ended

LEMMA EndedAsks == \A j, how : /\ AskedBy(Ended(j, how)) = Store!Nothing
                               /\ Ended(j, how).replies = j.replies
BY DEF AskedBy, Ended, Store!Nothing

\* A command that answers for the first key, or for all of them.
LEMMA AdvanceSound ==
    ASSUME NEW c \in Callers, NEW j, JobSound(c, j), j.at = "sent", j.todo # <<>>, NEW reply, NEW rest,
           \/ DOMAIN reply = {Head(j.todo)} /\ rest = Tail(j.todo)
           \/ DOMAIN reply = ToSet(j.todo) /\ rest = <<>>
    PROVE  /\ JobSound(c, Advance(j, reply, rest))
           /\ Advance(j, reply, rest).replies = Store!Merged(reply, j.replies)
           /\ AskedBy(Advance(j, reply, rest)) = Abstract(j.req)
<1> DEFINE n == Advance(j, reply, rest)
<1>1. /\ j.todo \in Seq(Used(c)) /\ DOMAIN j = Fields /\ Once(j.todo)
      /\ ToSet(j.todo) \subseteq ToSet(j.req.keys) \ DOMAIN j.replies
    BY DEF JobSound
<1>2. /\ rest \in Seq(Used(c)) /\ DOMAIN reply \cup ToSet(rest) = ToSet(j.todo)
      /\ Once(rest) /\ DOMAIN reply \cap ToSet(rest) = {}
    <2>1. CASE DOMAIN reply = {Head(j.todo)} /\ rest = Tail(j.todo)
        BY <1>1, <2>1, HeadTail, TailOnce
    <2>2. CASE DOMAIN reply = ToSet(j.todo) /\ rest = <<>>
        <3>1. ToSet(<<>>) = {} /\ <<>> \in Seq(Used(c)) /\ Once(<<>>)
            BY DEF ToSet, Once
        <3> QED
            BY <2>2, <3>1
    <2> QED
        BY <2>1, <2>2
<1>3. DOMAIN Store!Merged(reply, j.replies) = DOMAIN reply \cup DOMAIN j.replies
    BY DEF Store!Merged
<1>4. /\ DOMAIN n = Fields /\ n.at = "sent" /\ n.req = j.req /\ n.todo = rest
      /\ n.replies = Store!Merged(reply, j.replies)
      /\ n.dropped = j.dropped /\ n.since = j.since
    BY <1>1 DEF Advance, Fields
<1> HIDE DEF n
<1>5. JobSound(c, n)
    BY <1>1, <1>2, <1>3, <1>4 DEF JobSound
<1>6. AskedBy(n) = Abstract(j.req)
    BY <1>4 DEF AskedBy, Abstract
<1> QED
    BY <1>4, <1>5, <1>6 DEF n

\* What a job becomes as the store does.
Kept(j, new) ==
    IF j.at = "scan" THEN [j EXCEPT !.since = {k \in @ : new[k] # Absent}] ELSE j

LEMMA KeptSound ==
    ASSUME NEW c, NEW j, JobSound(c, j), NEW new
    PROVE  /\ JobSound(c, Kept(j, new)) /\ Kept(j, new).replies = j.replies
           /\ AskedBy(Kept(j, new)) = AskedBy(j)
<1>1. CASE j.at = "scan"
    <2> DEFINE n == [j EXCEPT !.since = {k \in @ : new[k] # Absent}]
    <2>1. DOMAIN j = Fields
        BY <1>1 DEF JobSound
    <2>2. /\ DOMAIN n = Fields /\ n.at = "scan" /\ n.req = j.req /\ n.replies = j.replies
          /\ n.batch = j.batch /\ n.seen = j.seen /\ n.last = j.last /\ n.since \subseteq j.since
        BY <1>1, <2>1 DEF Fields
    <2>3. Kept(j, new) = n
        BY <1>1 DEF Kept
    <2> HIDE DEF n
    <2>4. JobSound(c, n)
        BY <1>1, <2>2 DEF JobSound
    <2> QED
        BY <1>1, <2>2, <2>3, <2>4 DEF AskedBy
<1>2. CASE j.at # "scan"
    BY <1>2 DEF Kept
<1> QED
    BY <1>1, <1>2

LEMMA BecomeSound ==
    ASSUME KvInv, NEW c, NEW new, NEW j, c \in Callers => JobSound(c, j), Become(c, new, j)
    PROVE  /\ DOMAIN job' = Callers
           /\ \A x \in Callers :
                /\ JobSound(x, job'[x])
                /\ job'[x].replies = IF x = c THEN j.replies ELSE job[x].replies
                /\ AskedBy(job'[x]) = IF x = c THEN AskedBy(j) ELSE AskedBy(job[x])
           /\ store' = new /\ kind' = kind
<1>1. job' = [x \in Callers |-> Kept(IF x = c THEN j ELSE job[x], new)]
    BY DEF Become, Kept
<1>2. ASSUME NEW x \in Callers
      PROVE  JobSound(x, IF x = c THEN j ELSE job[x])
    BY DEF KvInv
<1>3. ASSUME NEW x \in Callers
      PROVE  /\ JobSound(x, job'[x])
             /\ job'[x].replies = IF x = c THEN j.replies ELSE job[x].replies
             /\ AskedBy(job'[x]) = IF x = c THEN AskedBy(j) ELSE AskedBy(job[x])
    <2> DEFINE w == IF x = c THEN j ELSE job[x]
    <2>1. job'[x] = Kept(w, new)
        BY <1>1
    <2>2. JobSound(x, w)
        BY <1>2
    <2>3. /\ w.replies = IF x = c THEN j.replies ELSE job[x].replies
          /\ AskedBy(w) = IF x = c THEN AskedBy(j) ELSE AskedBy(job[x])
        OBVIOUS
    <2> HIDE DEF w
    <2> QED
        BY <2>1, <2>2, <2>3, KeptSound
<1> QED
    BY <1>1, <1>3 DEF Become

(* What a step does, job and store together: the abstract step it is. *)

LEMMA Forgets ==
    ASSUME KvInv, NEW k \in StoredKeys
    PROVE  [store EXCEPT ![k] = Absent] \in [StoredKeys -> {Absent} \cup Entry]
BY DEF KvInv

LEMMA Stores ==
    ASSUME KvInv, NEW k \in StoredKeys, NEW v \in Values, NEW t \in BOOLEAN
    PROVE  [store EXCEPT ![k] = [raw |-> v, ttl |-> t]] \in [StoredKeys -> {Absent} \cup Entry]
BY DEF KvInv, Entry

\* A call of c goes on as j.
LEMMA Goes ==
    ASSUME KvInv, NEW c \in Callers, NEW new, NEW j, JobSound(c, j), Become(c, new, j),
           new \in [StoredKeys -> {Absent} \cup Entry]
    PROVE  /\ KvInv' /\ store' = new /\ kind' = kind
           /\ Heard' = [Heard EXCEPT ![c] = j.replies]
           /\ Wanted' = [Wanted EXCEPT ![c] = AskedBy(j)]
<1>1. /\ DOMAIN job' = Callers
      /\ \A x \in Callers :
           /\ JobSound(x, job'[x])
           /\ job'[x].replies = IF x = c THEN j.replies ELSE job[x].replies
           /\ AskedBy(job'[x]) = IF x = c THEN AskedBy(j) ELSE AskedBy(job[x])
      /\ store' = new /\ kind' = kind
    BY BecomeSound
<1>2. KvInv'
    BY <1>1 DEF KvInv
<1>3. Heard' = [Heard EXCEPT ![c] = j.replies]
    BY <1>1 DEF Heard
<1>4. Wanted' = [Wanted EXCEPT ![c] = AskedBy(j)]
    BY <1>1 DEF Wanted
<1> QED
    BY <1>1, <1>2, <1>3, <1>4

\* A call begins, is refused, or is forgotten.
LEMMA Turns ==
    ASSUME KvInv, NEW c \in Callers, NEW n, JobSound(c, n),
           job' = [job EXCEPT ![c] = n], UNCHANGED <<store, kind>>
    PROVE  /\ KvInv'
           /\ Heard' = [Heard EXCEPT ![c] = n.replies]
           /\ Wanted' = [Wanted EXCEPT ![c] = AskedBy(n)]
<1>1. DOMAIN job' = Callers /\ \A x \in Callers : job'[x] = IF x = c THEN n ELSE job[x]
    BY DEF KvInv
<1>2. \A x \in Callers : JobSound(x, job'[x])
    BY <1>1 DEF KvInv
<1>3. KvInv'
    BY <1>1, <1>2 DEF KvInv
<1>4. Heard' = [Heard EXCEPT ![c] = n.replies]
    BY <1>1 DEF Heard
<1>5. Wanted' = [Wanted EXCEPT ![c] = AskedBy(n)]
    BY <1>1 DEF Wanted
<1> QED
    BY <1>3, <1>4, <1>5

LEMMA IdleAsks ==
    ASSUME NEW c \in Callers, job[c] = Idle
    PROVE  Wanted[c] = Store!Nothing /\ Heard[c] = <<>>
BY DEF Wanted, Heard, AskedBy, Idle, Store!Nothing

LEMMA AskStep ==
    ASSUME KvInv, NEW c \in Callers, NEW r \in Requests(c), Call(c, r)
    PROVE  KvInv' /\ (Store!StoreNext \/ Same)
<1> DEFINE j == [at |-> "sent", req |-> r, todo |-> r.keys, replies |-> <<>>, dropped |-> FALSE,
                 since |-> {}, seen |-> {}, batch |-> {}, last |-> FALSE]
           scan == [j EXCEPT !.at = "scan", !.since = {k \in Prefixed(NsOf[c]) : Present(k)}]
           begins == (r.op = "clear" => kind # "memcached" /\ NsOf[c] # <<>>) /\ client # "none"
           n == IF r.op = "clear" /\ kind = "memcached" THEN Ended(j, "KeyValue")
                ELSE IF r.op = "clear" /\ NsOf[c] = <<>> THEN Ended(j, "ok")
                ELSE IF client = "none" THEN Ended(j, "Connection")
                ELSE IF r.op # "clear" THEN j
                ELSE scan
<1>1. job' = [job EXCEPT ![c] = n] /\ UNCHANGED <<store, kind>> /\ job[c] = Idle
    BY DEF Call
<1>2. /\ r.keys \in Seq(Used(c)) /\ Once(r.keys)
      /\ r.op = "clear" => r.keys = <<>>
    BY Asked
<1>3. /\ DOMAIN j = Fields /\ j.at = "sent" /\ j.req = r /\ j.todo = r.keys /\ j.replies = <<>>
      /\ j.since = {} /\ j.seen = {} /\ j.batch = {} /\ j.last = FALSE
    BY DEF Fields
<1>4. /\ DOMAIN scan = Fields /\ scan.at = "scan" /\ scan.req = r /\ scan.replies = <<>>
      /\ scan.seen = {} /\ scan.batch = {} /\ scan.last = FALSE
      /\ scan.since \subseteq Prefixed(NsOf[c])
    BY DEF Fields
<1>5. ToSet(<<>>) = {} /\ DOMAIN <<>> = {}
    BY DEF ToSet
<1> HIDE DEF j, scan
<1>6. r.op # "clear" => JobSound(c, j)
    BY <1>2, <1>3, <1>5 DEF JobSound
<1>7. r.op = "clear" => JobSound(c, scan)
    BY <1>2, <1>4 DEF JobSound
<1>8. \A how : how # "ok" => JobSound(c, Ended(j, how))
    BY EndSound
<1>9. r.op = "clear" => JobSound(c, Ended(j, "ok"))
    BY <1>2, <1>3, <1>5, Over
<1>10. \A how : Ended(j, how).replies = <<>> /\ AskedBy(Ended(j, how)) = Store!Nothing
    BY <1>3, EndedAsks
<1>11. JobSound(c, n) /\ n.replies = <<>>
    BY <1>3, <1>4, <1>6, <1>7, <1>8, <1>9, <1>10
<1>12. AskedBy(n) = IF begins THEN Abstract(r) ELSE Store!Nothing
    <2>1. AskedBy(j) = Abstract(r) /\ AskedBy(scan) = Abstract(r)
        BY <1>3, <1>4 DEF AskedBy, Abstract
    <2> QED
        BY <1>10, <2>1
<1> HIDE DEF n, begins
<1>13. /\ KvInv' /\ Heard' = [Heard EXCEPT ![c] = <<>>]
       /\ Wanted' = [Wanted EXCEPT ![c] = AskedBy(n)]
    BY <1>1, <1>11, Turns
<1>14. Wanted[c] = Store!Nothing /\ Heard[c] = <<>> /\ DOMAIN Wanted = Callers /\ DOMAIN Heard = Callers
    BY <1>1, IdleAsks DEF Wanted, Heard
<1>15. CASE begins
    <2>1. Abstract(r) \in Store!Calls(c)
        BY AbstractCall
    <2>2. Wanted' = [Wanted EXCEPT ![c] = Abstract(r)] /\ Wanted'[c] = Abstract(r)
        BY <1>12, <1>13, <1>14, <1>15
    <2>3. Store!Ask(c)
        BY <1>1, <1>13, <1>14, <2>1, <2>2 DEF Store!Ask, Wanted, Heard
    <2> QED
        BY <1>13, <2>3 DEF Store!StoreNext
<1>16. CASE ~begins
    <2>1. Wanted' = Wanted /\ Heard' = Heard
        BY <1>12, <1>13, <1>14, <1>16 DEF Wanted, Heard
    <2> QED
        BY <1>1, <1>13, <2>1 DEF Same
<1> QED
    BY <1>15, <1>16

LEMMA CommandStep ==
    ASSUME KvInv, NEW c \in Callers, Command(c)
    PROVE  KvInv' /\ Store!StoreNext
<1> DEFINE j == job[c]
           k == Head(j.todo)
<1>1. /\ JobSound(c, j) /\ j.at = "sent" /\ j.todo # <<>>
      /\ j.todo \in Seq(Used(c)) /\ j.req \in Requests(c)
      /\ ToSet(j.todo) \subseteq ToSet(j.req.keys) \ DOMAIN j.replies
    BY DEF Command, KvInv, JobSound
<1>2. k \in ToSet(j.todo) /\ k \in StoredKeys /\ ToSet(j.todo) \subseteq StoredKeys
    <2>1. ToSet(j.todo) \subseteq Used(c) /\ k \in ToSet(j.todo)
        BY <1>1, HeadTail
    <2> QED
        BY <2>1, UsedPrefixed
<1>3. Heard[c] = j.replies /\ Wanted[c] = Abstract(j.req)
    BY <1>1 DEF Heard, Wanted, AskedBy, Abstract
<1>4. /\ Wanted[c].op = j.req.op /\ Wanted[c].keys = ToSet(j.req.keys)
      /\ j.req.op \in {"set", "setMany"} => Wanted[c].raw = j.req.raw /\ Wanted[c].ttl = j.req.ttl
      /\ j.req.op = "increment" => Wanted[c].by = j.req.by
    BY <1>1, <1>3, AbstractCall
<1>5. ToSet(j.todo) \subseteq Store!Due(c) /\ k \in Store!Due(c)
    BY <1>1, <1>2, <1>3, <1>4 DEF Store!Due, Heard, Wanted
<1>6. Wanted = [Wanted EXCEPT ![c] = Abstract(j.req)]
    BY <1>3 DEF Wanted
<1> DEFINE Told(reply) == /\ Heard' = [Heard EXCEPT ![c] = Store!Merged(reply, @)]
                          /\ Wanted' = Wanted /\ kind' = kind
<1> HIDE DEF j, k
\* A command on the first key, or on all of them.
<1>7. ASSUME NEW new \in [StoredKeys -> {Absent} \cup Entry], NEW reply, NEW rest,
             \/ DOMAIN reply = {k} /\ rest = Tail(j.todo)
             \/ DOMAIN reply = ToSet(j.todo) /\ rest = <<>>,
             Become(c, new, Advance(j, reply, rest))
      PROVE  KvInv' /\ store' = new /\ Told(reply)
    <2> DEFINE n == Advance(j, reply, rest)
    <2>1. JobSound(c, n) /\ n.replies = Store!Merged(reply, j.replies) /\ AskedBy(n) = Abstract(j.req)
        BY <1>1, <1>7, AdvanceSound DEF k
    <2> HIDE DEF n
    <2>2. /\ KvInv' /\ store' = new /\ kind' = kind
          /\ Heard' = [Heard EXCEPT ![c] = Store!Merged(reply, j.replies)]
          /\ Wanted' = [Wanted EXCEPT ![c] = Abstract(j.req)]
        BY <1>7, <2>1, Goes DEF n
    <2>3. Heard' = [Heard EXCEPT ![c] = Store!Merged(reply, @)] /\ Wanted' = Wanted
        BY <1>3, <1>6, <2>2
    <2> QED
        BY <2>2, <2>3
<1>8. \A x \in StoredKeys : Content(x) = Store!Raw(x)
    BY DEF Content, Present, Store!Raw
<1>9. CASE Get(c)
    <2> DEFINE ks == IF kind = "redis" THEN ToSet(j.todo) ELSE {k}
               reply == [x \in ks |-> [value |-> Content(x)]]
               rest == IF kind = "redis" THEN <<>> ELSE Tail(j.todo)
    <2>1. Become(c, store, Advance(j, reply, rest)) /\ j.req.op \in {"get", "getMany"}
        BY <1>9 DEF Get, j, k
    <2>2. store \in [StoredKeys -> {Absent} \cup Entry]
        BY DEF KvInv
    <2>3. \/ DOMAIN reply = {k} /\ rest = Tail(j.todo)
          \/ DOMAIN reply = ToSet(j.todo) /\ rest = <<>>
        OBVIOUS
    <2>4. ks \in SUBSET Store!Due(c) /\ ks \subseteq StoredKeys
        BY <1>2, <1>5
    <2> HIDE DEF ks, rest
    <2>5. reply = [x \in ks |-> [value |-> Store!Raw(x)]]
        BY <1>8, <2>4
    <2> HIDE DEF reply
    <2>6. KvInv' /\ store' = store /\ Told(reply)
        BY <1>7, <2>1, <2>2, <2>3
    <2>7. Wanted[c].op \in {"get", "getMany"}
        BY <1>4, <2>1
    <2>8. Store!Read(c)
        BY <2>4, <2>5, <2>6, <2>7 DEF Store!Read, Store!Tell, Wanted, Heard
    <2> QED
        BY <2>6, <2>8 DEF Store!StoreNext
<1>10. CASE Has(c)
    <2> DEFINE reply == [x \in {k} |-> [existed |-> Present(x)]]
    <2>1. Become(c, store, Advance(j, reply, Tail(j.todo))) /\ j.req.op = "has"
        BY <1>10 DEF Has, j, k
    <2>2. reply = [x \in {k} |-> [existed |-> store[x] # Absent]] /\ DOMAIN reply = {k}
        BY DEF Present
    <2>3. store \in [StoredKeys -> {Absent} \cup Entry]
        BY DEF KvInv
    <2> HIDE DEF reply
    <2>4. KvInv' /\ store' = store /\ Told(reply)
        BY <1>7, <2>1, <2>2, <2>3
    <2>5. Wanted[c].op = "has"
        BY <1>4, <2>1
    <2>6. Store!Has(c, k)
        BY <2>2, <2>4, <2>5 DEF Store!Has, Store!Tell, Wanted, Heard
    <2> QED
        BY <1>5, <2>4, <2>6 DEF Store!StoreNext
<1>11. CASE Delete(c)
    <2> DEFINE reply == [x \in {k} |-> [existed |-> Present(x)]]
               new == [store EXCEPT ![k] = Absent]
    <2>1. Become(c, new, Advance(j, reply, Tail(j.todo))) /\ j.req.op = "delete"
        BY <1>11 DEF Delete, j, k
    <2>2. reply = [x \in {k} |-> [existed |-> store[x] # Absent]] /\ DOMAIN reply = {k}
        BY DEF Present
    <2>3. new \in [StoredKeys -> {Absent} \cup Entry]
        BY <1>2, Forgets
    <2> HIDE DEF reply, new
    <2>4. KvInv' /\ store' = new /\ Told(reply)
        BY <1>7, <2>1, <2>2, <2>3
    <2>5. Wanted[c].op = "delete"
        BY <1>4, <2>1
    <2>6. Store!Delete(c, k)
        BY <2>2, <2>4, <2>5 DEF Store!Delete, Store!Tell, Wanted, Heard, new
    <2> QED
        BY <1>5, <2>4, <2>6 DEF Store!StoreNext
<1>12. CASE Set(c)
    <2> DEFINE reply == [x \in {k} |-> [stored |-> TRUE]]
               new == [store EXCEPT ![k] = [raw |-> j.req.raw, ttl |-> j.req.ttl = "some"]]
    <2>1. Become(c, new, Advance(j, reply, Tail(j.todo))) /\ j.req.op \in {"set", "setMany"}
        BY <1>12 DEF Set, j, k
    <2>2. j.req.raw \in Values /\ (j.req.ttl = "some") \in BOOLEAN
        BY <1>1, <2>1, Asked
    <2>3. new \in [StoredKeys -> {Absent} \cup Entry] /\ DOMAIN reply = {k}
        BY <1>2, <2>2, Stores
    <2> HIDE DEF reply, new
    <2>4. KvInv' /\ store' = new /\ Told(reply)
        BY <1>7, <2>1, <2>3
    <2>5. /\ Wanted[c].op \in {"set", "setMany"}
          /\ Wanted[c].raw = j.req.raw /\ Wanted[c].ttl = j.req.ttl
        BY <1>4, <2>1
    <2>6. Store!Put(c, k)
        BY <2>4, <2>5 DEF Store!Put, Store!Tell, Wanted, Heard, new, reply
    <2> QED
        BY <1>5, <2>4, <2>6 DEF Store!StoreNext
<1>13. CASE Increment(c)
    <2> DEFINE n == Sum(k, j.req.by)
               reply == [x \in {k} |-> [count |-> Sum(x, j.req.by)]]
               t == (Present(k) /\ store[k].ttl)
               new == [store EXCEPT ![k] = [raw |-> n, ttl |-> t]]
    <2>1. /\ Become(c, new, Advance(j, reply, Tail(j.todo))) /\ j.req.op = "increment"
          /\ n \in Counts /\ Content(k) \in Counts \cup {Absent}
        BY <1>13 DEF Increment, j, k
    <2>2. n = Store!Added(k, j.req.by)
        BY DEF Sum, Store!Added, Present
    <2>3. t \in BOOLEAN /\ t = (store[k] # Absent /\ store[k].ttl)
        <3>1. Present(k) => store[k] \in Entry
            BY <1>2 DEF KvInv, Present
        <3> QED
            BY <3>1 DEF Present, Entry
    <2>4. reply = [x \in {k} |-> [count |-> Store!Added(x, j.req.by)]] /\ DOMAIN reply = {k}
        BY <2>2
    <2> HIDE DEF reply, n, t
    <2>5. new \in [StoredKeys -> {Absent} \cup Entry]
        BY <1>2, <2>1, <2>3, Stores DEF Values
    <2> HIDE DEF new
    <2>6. KvInv' /\ store' = new /\ Told(reply)
        BY <1>7, <2>1, <2>4, <2>5
    <2>7. Store!Raw(k) \in Counts \cup {Absent}
        BY <1>2, <1>8, <2>1
    <2>8. Wanted[c].op = "increment" /\ Wanted[c].by = j.req.by
        BY <1>4, <2>1
    <2>9. Store!Add(c, k)
        BY <2>2, <2>3, <2>4, <2>6, <2>7, <2>8 DEF Store!Add, Store!Tell, Wanted, Heard, new
    <2> QED
        BY <1>5, <2>6, <2>9 DEF Store!StoreNext
<1> QED
    BY <1>9, <1>10, <1>11, <1>12, <1>13 DEF Command

\* The steps of a call that tell it nothing: it goes on, or it ends.
LEMMA Silent ==
    ASSUME KvInv, NEW c \in Callers, NEW n, JobSound(c, n), n.replies = job[c].replies,
           AskedBy(n) \in {AskedBy(job[c]), Store!Nothing}, Become(c, store, n)
    PROVE  KvInv' /\ (Store!End(c) \/ Same)
<1>1. store \in [StoredKeys -> {Absent} \cup Entry]
    BY DEF KvInv
<1>2. /\ KvInv' /\ Heard' = [Heard EXCEPT ![c] = job[c].replies] /\ store' = store /\ kind' = kind
      /\ Wanted' = [Wanted EXCEPT ![c] = AskedBy(n)]
    BY <1>1, Goes
<1>3. Heard' = Heard
    BY <1>2 DEF Heard
<1>4. CASE AskedBy(n) = AskedBy(job[c])
    <2>1. Wanted' = Wanted
        BY <1>2, <1>4 DEF Wanted
    <2> QED
        BY <1>2, <1>3, <2>1 DEF Same
<1>5. CASE AskedBy(n) = Store!Nothing
    <2>1. Store!End(c)
        BY <1>2, <1>3, <1>5 DEF Store!End, Wanted, Heard
    <2> QED
        BY <1>2, <2>1
<1> QED
    BY <1>4, <1>5

LEMMA SilentStep ==
    ASSUME KvInv, NEW c \in Callers, Dropped(c) \/ Fails(c) \/ Answer(c) \/ Scan(c)
    PROVE  KvInv' /\ (Store!End(c) \/ Same)
<1> DEFINE j == job[c]
<1>1. JobSound(c, j)
    BY DEF KvInv
<1>2. CASE Dropped(c)
    <2> DEFINE n == [j EXCEPT !.todo = Tail(@), !.dropped = TRUE]
    <2>1. j.at = "sent" /\ j.todo # <<>> /\ Become(c, store, n)
        BY <1>2 DEF Dropped
    <2>2. DOMAIN j = Fields /\ j.todo \in Seq(Used(c)) /\ j.req \in Requests(c)
          /\ j.req.op # "clear" /\ j.since = {} /\ Once(j.todo)
          /\ ToSet(j.todo) \subseteq ToSet(j.req.keys) \ DOMAIN j.replies
        BY <1>1, <2>1 DEF JobSound
    <2>3. /\ Tail(j.todo) \in Seq(Used(c)) /\ Once(Tail(j.todo))
          /\ ToSet(Tail(j.todo)) \subseteq ToSet(j.todo)
        BY <2>1, <2>2, HeadTail, TailOnce
    <2>4. /\ DOMAIN n = Fields /\ n.at = "sent" /\ n.req = j.req /\ n.todo = Tail(j.todo)
          /\ n.replies = j.replies /\ n.dropped = TRUE /\ n.since = {}
        BY <2>1, <2>2 DEF Fields
    <2> HIDE DEF n
    <2>5. JobSound(c, n)
        BY <2>2, <2>3, <2>4 DEF JobSound
    <2>6. AskedBy(n) = AskedBy(j)
        BY <2>1, <2>4 DEF AskedBy
    <2> QED
        BY <2>1, <2>4, <2>5, <2>6, Silent
<1>3. CASE Fails(c) \/ Answer(c)
    <2>1. \/ \E how : how # "ok" /\ Become(c, store, Ended(j, how))
          \/ j.at = "sent" /\ j.todo = <<>> /\ Become(c, store, Ended(j, "ok"))
        BY <1>3 DEF Fails, Answer
    <2>2. CASE \E how : how # "ok" /\ Become(c, store, Ended(j, how))
        <3>1. PICK how : how # "ok" /\ Become(c, store, Ended(j, how))
            BY <2>2
        <3>2. JobSound(c, Ended(j, how))
            BY <3>1, EndSound
        <3> QED
            BY <3>1, <3>2, EndedAsks, Silent
    <2>3. CASE j.at = "sent" /\ j.todo = <<>> /\ Become(c, store, Ended(j, "ok"))
        <3>1. ToSet(<<>>) = {}
            BY DEF ToSet
        <3>2. (ToSet(j.req.keys) = DOMAIN j.replies \/ j.dropped = TRUE) /\ j.since = {}
            BY <1>1, <2>3, <3>1 DEF JobSound
        <3>3. JobSound(c, Ended(j, "ok"))
            BY <3>2, Over
        <3> QED
            BY <2>3, <3>3, EndedAsks, Silent
    <2> QED
        BY <2>1, <2>2, <2>3
<1>4. CASE Scan(c)
    <2>1. PICK batch \in SUBSET {k \in Matched[c] : Present(k)}, last \in BOOLEAN :
             /\ last => j.since \cap Matched[c] \subseteq j.seen \cup batch
             /\ Become(c, store, [j EXCEPT !.batch = batch, !.last = last, !.seen = @ \cup batch])
        BY <1>4 DEF Scan
    <2> DEFINE n == [j EXCEPT !.batch = batch, !.last = last, !.seen = @ \cup batch]
    <2>2. j.at = "scan" /\ j.batch = {} /\ DOMAIN j = Fields
        BY <1>1, <1>4 DEF Scan, JobSound
    <2>3. /\ DOMAIN n = Fields /\ n.at = "scan" /\ n.req = j.req /\ n.replies = j.replies
          /\ n.batch = batch /\ n.last = last /\ n.seen = j.seen \cup batch /\ n.since = j.since
        BY <2>2 DEF Fields
    <2>4. Become(c, store, n)
        BY <2>1
    <2> HIDE DEF n
    <2>5. JobSound(c, n)
        BY <1>1, <2>1, <2>2, <2>3 DEF JobSound
    <2>6. AskedBy(n) = AskedBy(j)
        BY <2>2, <2>3 DEF AskedBy
    <2> QED
        BY <2>3, <2>4, <2>5, <2>6, Silent
<1> QED
    BY <1>2, <1>3, <1>4

LEMMA DelStep ==
    ASSUME KvInv, NEW c \in Callers, Del(c)
    PROVE  KvInv' /\ Store!StoreNext
<1> DEFINE j == job[c]
           rest == [k \in StoredKeys |-> IF k \in j.batch THEN Absent ELSE store[k]]
           m == [j EXCEPT !.batch = {}, !.since = {k \in @ : rest[k] # Absent}]
           n == IF m.last THEN Ended(m, "ok") ELSE m
<1>1. /\ JobSound(c, j) /\ j.at = "scan" /\ DOMAIN j = Fields /\ j.req \in Requests(c)
      /\ j.req.op = "clear" /\ j.replies = <<>> /\ j.batch \subseteq Matched[c]
      /\ j.since \subseteq Prefixed(NsOf[c])
      /\ j.since \cap Matched[c] \cap j.seen \subseteq j.batch
      /\ (j.last => j.since \cap Matched[c] \subseteq j.seen)
    BY DEF KvInv, Del, JobSound
<1>2. Become(c, rest, n)
    BY DEF Del
<1>3. /\ DOMAIN m = Fields /\ m.at = "scan" /\ m.req = j.req /\ m.replies = <<>> /\ m.batch = {}
      /\ m.seen = j.seen /\ m.last = j.last /\ m.since = {k \in j.since : rest[k] # Absent}
    BY <1>1 DEF Fields
<1>4. Matched[c] \subseteq StoredKeys
    BY MatchedAssumption
<1>5. rest \in [StoredKeys -> {Absent} \cup Entry] /\ \A k \in j.batch : rest[k] = Absent
    BY <1>1, <1>4 DEF KvInv
<1> HIDE DEF m, rest
<1>6. m.since \cap Matched[c] \cap m.seen = {} /\ (m.last => m.since \cap Matched[c] = {})
    BY <1>1, <1>3, <1>5
<1>7. JobSound(c, m)
    BY <1>1, <1>3, <1>6 DEF JobSound
<1>8. ToSet(<<>>) = {} /\ DOMAIN <<>> = {} /\ j.req.keys = <<>>
    BY <1>1, Asked DEF ToSet
<1>9. m.last /\ Plain(NsOf[c]) => m.since = {}
    BY <1>1, <1>3, <1>6, MatchedAssumption
<1>10. m.last => JobSound(c, Ended(m, "ok"))
    BY <1>1, <1>3, <1>8, <1>9, Over
<1>11. AskedBy(m) = AskedBy(j) /\ AskedBy(j) = Abstract(j.req) /\ Wanted[c] = AskedBy(j)
    BY <1>1, <1>3 DEF AskedBy, Wanted, Abstract
<1>12. JobSound(c, n) /\ n.replies = <<>> /\ AskedBy(n) \in {AskedBy(j), Store!Nothing}
    BY <1>3, <1>7, <1>10, <1>11, EndedAsks
<1> HIDE DEF n
<1>13. /\ KvInv' /\ Heard' = [Heard EXCEPT ![c] = <<>>] /\ store' = rest /\ kind' = kind
       /\ Wanted' = [Wanted EXCEPT ![c] = AskedBy(n)]
    BY <1>2, <1>5, <1>12, Goes
<1>14. Heard' = Heard
    BY <1>1, <1>13 DEF Heard
<1>15. Wanted' \in {Wanted, [Wanted EXCEPT ![c] = Store!Nothing]}
    BY <1>11, <1>12, <1>13 DEF Wanted
<1>16. Wanted[c].op = "clear"
    BY <1>1, <1>11, AbstractCall
<1>17. j.batch \in SUBSET Matched[c]
    BY <1>1
<1>18. Store!Clear(c)
    BY <1>13, <1>14, <1>15, <1>16, <1>17 DEF Store!Clear, Wanted, Heard, rest
<1> QED
    BY <1>13, <1>18 DEF Store!StoreNext

LEMMA ExpireStep ==
    ASSUME KvInv, NEW k \in StoredKeys, Expire(k)
    PROVE  KvInv' /\ Store!StoreNext
<1> DEFINE new == [store EXCEPT ![k] = Absent]
<1>1. Become("backend", new, Idle) /\ store[k] # Absent /\ store[k].ttl
    BY DEF Expire, Present
<1>2. new \in [StoredKeys -> {Absent} \cup Entry]
    BY Forgets
<1> HIDE DEF new
<1>3. /\ DOMAIN job' = Callers
      /\ \A x \in Callers :
           /\ JobSound(x, job'[x])
           /\ job'[x].replies = IF x = "backend" THEN Idle.replies ELSE job[x].replies
           /\ AskedBy(job'[x]) = IF x = "backend" THEN AskedBy(Idle) ELSE AskedBy(job[x])
      /\ store' = new /\ kind' = kind
    BY <1>1, CallersAssumption, BecomeSound
<1>4. Heard' = Heard /\ Wanted' = Wanted
    BY <1>3, CallersAssumption DEF Heard, Wanted
<1>5. Store!Expire(k)
    BY <1>1, <1>3, <1>4 DEF Store!Expire, Heard, Wanted, new
<1> QED
    BY <1>2, <1>3, <1>5 DEF KvInv, Store!StoreNext

LEMMA KvStep ==
    ASSUME KvInv, [Next]_vars
    PROVE  KvInv' /\ (Store!StoreNext \/ Same)
<1>1. CASE UNCHANGED <<kind, store, job>>
    BY <1>1 DEF KvInv, Same, Heard, Wanted
<1>2. ASSUME NEW c \in Callers, Store!End(c) \/ Store!Leave(c)
      PROVE  Store!StoreNext
    BY <1>2 DEF Store!StoreNext
<1>3. ASSUME NEW c \in Callers, EncodeFails(c)
      PROVE  KvInv' /\ Same
    <2> DEFINE e == [req |-> [keys |-> <<>>], replies |-> <<>>, dropped |-> FALSE, since |-> {}]
               n == Ended(e, "Serialization")
    <2>1. job[c] = Idle /\ job' = [job EXCEPT ![c] = n] /\ UNCHANGED <<store, kind>>
        BY <1>3 DEF EncodeFails
    <2>2. JobSound(c, n) /\ n.replies = <<>> /\ AskedBy(n) = Store!Nothing
        BY EndSound, EndedAsks
    <2> HIDE DEF n
    <2>3. /\ KvInv' /\ Heard' = [Heard EXCEPT ![c] = <<>>]
          /\ Wanted' = [Wanted EXCEPT ![c] = Store!Nothing]
        BY <2>1, <2>2, Turns
    <2>4. Heard' = Heard /\ Wanted' = Wanted
        BY <2>1, <2>3, IdleAsks DEF Heard, Wanted
    <2> QED
        BY <2>1, <2>3, <2>4 DEF Same
<1>4. ASSUME NEW c \in Callers, Return(c)
      PROVE  KvInv' /\ Store!Leave(c)
    <2>1. job[c].at = "ended" /\ job' = [job EXCEPT ![c] = Idle] /\ UNCHANGED <<store, kind>>
        BY <1>4 DEF Return
    <2>2. Wanted[c] = Store!Nothing /\ AskedBy(Idle) = Store!Nothing /\ Idle.replies = <<>>
        BY <2>1 DEF Wanted, AskedBy, Idle, Store!Nothing
    <2>3. /\ KvInv' /\ Heard' = [Heard EXCEPT ![c] = <<>>]
          /\ Wanted' = [Wanted EXCEPT ![c] = Store!Nothing]
        BY <2>1, <2>2, EndSound, Turns
    <2>4. Wanted' = Wanted
        BY <2>2, <2>3 DEF Wanted
    <2> QED
        BY <2>1, <2>2, <2>3, <2>4 DEF Store!Leave, Heard, Wanted
<1>5. UNCHANGED vars \/ Open \/ Forget => UNCHANGED <<kind, store, job>>
    BY DEF vars, Open, Forget
<1>6. ASSUME NEW c \in Callers, Dropped(c) \/ Fails(c) \/ Answer(c) \/ Scan(c)
      PROVE  KvInv' /\ (Store!StoreNext \/ Same)
    BY <1>2, <1>6, SilentStep
<1> QED
    BY <1>1, <1>2, <1>3, <1>4, <1>5, <1>6, AskStep, CommandStep, DelStep, ExpireStep DEF Next

LEMMA KvInit == Init => KvInv
BY EndSound DEF Init, KvInv

\* For any number of callers, namespaces, keys and values, under either adapter: a call that
\* reports success has reached every one of its keys, and clear() every key that was there
\* all the time (setMany() of Redis apart, one of whose commands was refused, and clear() of
\* a namespace that is no plain text in a glob).
THEOREM SuccessReachesAll == Spec => []SuccessMeansAll
<1>1. KvInv => SuccessMeansAll
    BY DEF KvInv, JobSound, SuccessMeansAll
<1> QED
    BY <1>1, KvInit, KvStep, PTL DEF Spec

\* For any number of callers, namespaces, keys, values and amounts: every command of either
\* adapter, interleaved with those of other calls and with keys whose time is up, is a step of
\* the abstract store on a key that the call is for and has not reached yet; so are the start
\* and the end of a call, and whatever else a call does changes nothing there.
THEOREM StoreImplemented == Spec => ImplementsKeyValueStore
<1>1. Init => Store!StoreInit
    BY DEF Init, Store!StoreInit, Idle, AskedBy, Store!Nothing
<1>2. ASSUME KvInv, [Next]_vars
      PROVE  [Store!StoreNext]_<<kind = "memcached", store, [c \in Callers |-> AskedBy(job[c])],
                                 [c \in Callers |-> job[c].replies]>>
    BY <1>2, KvStep DEF Heard, Wanted, Same
<1> QED
    BY <1>1, <1>2, KvInit, KvStep, PTL DEF Spec, ImplementsKeyValueStore, Store!StoreSpec

-----------------------------------------------------------------------------
(* RestRepository: the attempts of a call, and the label of its body.       *)

Underway == {"begun", "encode", "dispatch", "wire"}
Causes ==
    {"no client", "thrown", "thrown, repeated", "2xx", "4xx", "429", "5xx", "lost", "timeout",
     "onResponse", "unread", "recovered"}

Calls ==
    [at : Underway \cup {"response", "onError", "backoff", "ended"}, method : {"GET", "POST"},
     attempt : Nat, tries : Nat, err : Rest!Errors \cup {"none"},
     causes : SUBSET Causes, encoding : Rest!Encodings \cup {Rest!NotEncoded}]

\* Why an attempt may be followed by another one, if anything was answered.
Reason(causes) ==
    /\ "2xx" \in causes =>
         causes \cap {"unread", "thrown, repeated"} # {} \/ ("onResponse" \in causes /\ package = "xf-rest")
    /\ policy = "RetryRest" /\ "4xx" \in causes => "thrown, repeated" \in causes

\* Nothing has happened to an attempt that has not come back, and an answer that is being
\* read is nothing but an answer; whenever an error that the policy finds worth it waits
\* for the error hook or for the next attempt, there is a reason to repeat.
CallSound(c) ==
    /\ c.at \in Underway => c.causes = {}
    /\ c.at = "response" => c.causes = {"2xx"}
    /\ c.at = "onError" => (Rest!ShouldRetry(c.err) => Reason(c.causes))
    /\ c.at = "backoff" => Reason(c.causes)

CallInv == call = Rest!NoCall \/ (call \in Calls /\ CallSound(call))

\* The end of an attempt, told or not: another follows for a reason.
LEMMA SettleSound ==
    ASSUME NEW c \in Calls,
           c.err # "none" /\ Rest!ShouldRetry(c.err) => Reason(c.causes)
    PROVE  Rest!Settle(c) \in Calls /\ CallSound(Rest!Settle(c))
<1>1. CASE c.err # "none" /\ Rest!ShouldRetry(c.err) /\ c.attempt < MaxAttempts
    <2> DEFINE n == [c EXCEPT !.at = "backoff"]
    <2>1. Rest!Settle(c) = n
        BY <1>1 DEF Rest!Settle
    <2>2. n \in Calls /\ n.at = "backoff" /\ n.causes = c.causes
        BY DEF Calls, Underway
    <2> HIDE DEF n
    <2> QED
        BY <1>1, <2>1, <2>2 DEF CallSound, Underway
<1>2. CASE ~(c.err # "none" /\ Rest!ShouldRetry(c.err) /\ c.attempt < MaxAttempts)
    <2> DEFINE n == [c EXCEPT !.at = "ended"]
    <2>1. Rest!Settle(c) = n
        BY <1>2 DEF Rest!Settle
    <2>2. n \in Calls /\ n.at = "ended"
        BY DEF Calls
    <2> HIDE DEF n
    <2> QED
        BY <2>1, <2>2 DEF CallSound, Underway
<1> QED
    BY <1>1, <1>2

\* An attempt fails.
LEMMA FailSound ==
    ASSUME NEW c \in Calls, NEW cause \in Causes, NEW e \in Rest!Errors,
           Rest!ShouldRetry(e) => Reason(c.causes \cup {cause})
    PROVE  /\ Rest!Fail(c, cause, e) \in Calls /\ CallSound(Rest!Fail(c, cause, e))
           /\ Rest!FailAtOnce(c, cause, e) \in Calls /\ CallSound(Rest!FailAtOnce(c, cause, e))
<1> DEFINE n == Rest!Fail(c, cause, e)
           m == [c EXCEPT !.err = e, !.causes = @ \cup {cause}]
<1>1. n \in Calls /\ n.at = "onError" /\ n.err = e /\ n.causes = c.causes \cup {cause}
    BY DEF Calls, Rest!Fail
<1>2. m \in Calls /\ m.err = e /\ m.causes = c.causes \cup {cause}
    BY DEF Calls
<1>3. Rest!FailAtOnce(c, cause, e) = Rest!Settle(m)
    BY DEF Rest!FailAtOnce
<1> HIDE DEF n, m
<1>4. CallSound(n)
    BY <1>1 DEF CallSound, Underway
<1>5. Rest!Settle(m) \in Calls /\ CallSound(Rest!Settle(m))
    BY <1>2, SettleSound
<1> QED
    BY <1>1, <1>3, <1>4, <1>5 DEF n

\* What a hook has thrown is a reason where the policy finds it one.
LEMMA ThrownSound ==
    ASSUME NEW e \in Rest!Errors, NEW S
    PROVE  Rest!Thrown(e) \in Causes /\ (Rest!ShouldRetry(e) => Reason(S \cup {Rest!Thrown(e)}))
BY DEF Rest!Thrown, Causes, Reason

\* So is everything that happens to an attempt that nothing has answered, but an answer.
LEMMA UnansweredSound ==
    ASSUME NEW cause \in Causes \ {"2xx", "4xx"}
    PROVE  Reason({} \cup {cause})
BY DEF Reason

LEMMA CallStep ==
    ASSUME CallInv, [Rest!Next]_(Rest!vars)
    PROVE  CallInv'
<1> DEFINE c == call
<1>1. CASE UNCHANGED Rest!vars
    BY <1>1 DEF CallInv, CallSound, Reason, Rest!ShouldRetry, Rest!vars
<1>2. CASE Rest!Lifecycle
    BY <1>2 DEF Rest!Lifecycle, CallInv, CallSound, Reason, Rest!ShouldRetry
<1>3. CASE Rest!Return
    BY <1>3 DEF Rest!Return, CallInv
<1> DEFINE At(at) == c.at = at /\ UNCHANGED <<package, policy>> /\ c \in Calls /\ CallSound(c)
<1>4. ASSUME NEW at, Rest!Go(at), at # "idle"
      PROVE  At(at)
    BY <1>4 DEF CallInv, Rest!Go, Rest!NoCall
<1>5. ASSUME NEW n \in Calls, CallSound(n), call' = n, UNCHANGED <<package, policy>>
      PROVE  CallInv'
    BY <1>5 DEF CallInv, CallSound, Reason, Rest!ShouldRetry
\* An attempt that has not come back goes on.
<1>6. ASSUME NEW n \in Calls, n.at \in Underway, n.causes = {}, call' = n,
             UNCHANGED <<package, policy>>
      PROVE  CallInv'
    <2>1. CallSound(n)
        BY <1>6 DEF CallSound, Underway
    <2> QED
        BY <1>5, <1>6, <2>1
\* An attempt fails.
<1>7. ASSUME NEW d \in Calls, NEW cause \in Causes, NEW e \in Rest!Errors,
             Rest!ShouldRetry(e) => Reason(d.causes \cup {cause}),
             call' = Rest!Fail(d, cause, e) \/ call' = Rest!FailAtOnce(d, cause, e),
             UNCHANGED <<package, policy>>
      PROVE  CallInv'
    BY <1>5, <1>7, FailSound
<1>8. ASSUME NEW d \in Calls, NEW e \in Rest!Errors,
             \/ call' = Rest!Fail(d, Rest!Thrown(e), e)
             \/ call' = Rest!FailAtOnce(d, Rest!Thrown(e), e),
             UNCHANGED <<package, policy>>
      PROVE  CallInv'
    BY <1>7, <1>8, ThrownSound
<1>9. ASSUME NEW d \in Calls, d.causes = {}, NEW cause \in Causes \ {"2xx", "4xx"},
             NEW e \in Rest!Errors,
             call' = Rest!Fail(d, cause, e) \/ call' = Rest!FailAtOnce(d, cause, e),
             UNCHANGED <<package, policy>>
      PROVE  CallInv'
    BY <1>7, <1>9, UnansweredSound
<1>10. "Connection" \in Rest!Errors /\ "other" \in Rest!Errors
       /\ "no client" \in Causes \ {"2xx", "4xx"} /\ {"onResponse", "unread"} \subseteq Causes
    BY DEF Rest!Errors, Causes
<1> HIDE DEF c
<1>11. CASE Rest!Start
    <2>1. PICK method \in {"GET", "POST"} :
              call' = [at |-> "begun", method |-> method, attempt |-> 1, tries |-> 0, err |-> "none",
                       causes |-> {}, encoding |-> Rest!NotEncoded]
        BY <1>11 DEF Rest!Start
    <2>2. call' \in Calls /\ call'.at \in Underway /\ call'.causes = {}
        BY <2>1 DEF Calls, Underway
    <2>3. UNCHANGED <<package, policy>>
        BY <1>11 DEF Rest!Start
    <2> QED
        BY <2>2, <2>3, <1>6
<1>12. CASE Rest!Backoff
    <2> DEFINE n == [c EXCEPT !.at = "begun", !.attempt = @ + 1, !.tries = 0, !.err = "none",
                             !.causes = {}]
    <2>1. At("backoff") /\ call' = n
        BY <1>12, <1>4 DEF Rest!Backoff, c
    <2>2. PICK k \in Nat : k = c.attempt + 1
        BY <2>1 DEF Calls
    <2>3. n = [c EXCEPT !.at = "begun", !.attempt = k, !.tries = 0, !.err = "none", !.causes = {}]
        BY <2>2
    <2>4. n \in Calls /\ n.at \in Underway /\ n.causes = {}
        <3> HIDE DEF n
        <3> QED
            BY <2>1, <2>3 DEF Calls, Underway
    <2>5. call' = n /\ UNCHANGED <<package, policy>>
        BY <2>1
    <2> HIDE DEF At, n
    <2> QED
        BY <2>4, <2>5, <1>6
<1>13. CASE Rest!BeginRest \/ Rest!BeginPipeline
    <2> DEFINE n == [c EXCEPT !.at = "encode"]
    <2>1. /\ At("begun")
          /\ \/ call' = n
             \/ \E e \in Rest!Errors : call' = Rest!FailAtOnce(c, Rest!Thrown(e), e)
             \/ call' = Rest!FailAtOnce(c, "no client", "other")
             \/ call' = Rest!Fail(c, "no client", "other")
        BY <1>13, <1>4 DEF Rest!BeginRest, Rest!BeginPipeline, c
    <2>2. c \in Calls /\ c.causes = {} /\ UNCHANGED <<package, policy>>
        BY <2>1 DEF CallSound, Underway
    <2>3. n \in Calls /\ n.at \in Underway /\ n.causes = {}
        BY <2>2 DEF Calls, Underway
    <2>4. \/ call' = n
          \/ \E e \in Rest!Errors : call' = Rest!FailAtOnce(c, Rest!Thrown(e), e)
          \/ call' = Rest!FailAtOnce(c, "no client", "other")
          \/ call' = Rest!Fail(c, "no client", "other")
        BY <2>1
    <2> HIDE DEF At, n
    <2>5. CASE call' = n
        BY <2>2, <2>3, <2>5, <1>6
    <2>6. ASSUME NEW e \in Rest!Errors, call' = Rest!FailAtOnce(c, Rest!Thrown(e), e)
          PROVE  CallInv'
        BY <2>2, <2>6, <1>8
    <2>7. CASE \/ call' = Rest!FailAtOnce(c, "no client", "other")
               \/ call' = Rest!Fail(c, "no client", "other")
        BY <2>2, <2>7, <1>9, <1>10
    <2> QED
        BY <2>4, <2>5, <2>6, <2>7
<1>14. CASE Rest!Encode
    <2>1. At("encode")
        BY <1>14, <1>4 DEF Rest!Encode
    <2>2. c \in Calls /\ c.causes = {} /\ UNCHANGED <<package, policy>>
        BY <2>1 DEF CallSound, Underway
    <2> HIDE DEF At
    <2>3. ASSUME NEW e \in Rest!Errors,
                 call' = Rest!FailAtOnce(c, Rest!Thrown(e), e) \/ call' = Rest!Fail(c, Rest!Thrown(e), e)
          PROVE  CallInv'
        BY <2>2, <2>3, <1>8
    <2>4. ASSUME NEW encoding \in Rest!Encodings,
                 call' = [c EXCEPT !.at = "dispatch", !.encoding = encoding]
          PROVE  CallInv'
        <3> DEFINE n == [c EXCEPT !.at = "dispatch", !.encoding = encoding]
        <3>1. n \in Calls /\ n.at \in Underway /\ n.causes = {}
            BY <2>2 DEF Calls, Underway
        <3>2. call' = n
            BY <2>4
        <3> HIDE DEF n
        <3> QED
            BY <2>2, <3>1, <3>2, <1>6
    <2> QED
        BY <1>14, <2>3, <2>4 DEF Rest!Encode, c
<1>15. CASE Rest!Dispatch
    <2> DEFINE d == [c EXCEPT !.encoding = Rest!NotEncoded]
               n == [d EXCEPT !.at = "wire"]
    <2>1. At("dispatch") /\ (call' = n \/ call' = Rest!Fail(d, "no client", "Connection"))
        BY <1>15, <1>4 DEF Rest!Dispatch, c
    <2>2. c \in Calls /\ c.causes = {} /\ UNCHANGED <<package, policy>>
        BY <2>1 DEF CallSound, Underway
    <2>3. d \in Calls /\ d.causes = {}
        BY <2>2 DEF Calls, Underway
    <2>4. n \in Calls /\ n.at \in Underway /\ n.causes = {}
        <3> HIDE DEF d
        <3> QED
            BY <2>3 DEF Calls, Underway
    <2>5. call' = n \/ call' = Rest!Fail(d, "no client", "Connection")
        BY <2>1
    <2> HIDE DEF At, n, d
    <2>6. CASE call' = n
        BY <2>2, <2>4, <2>6, <1>6
    <2>7. CASE call' = Rest!Fail(d, "no client", "Connection")
        BY <2>2, <2>3, <2>7, <1>9, <1>10
    <2> QED
        BY <2>5, <2>6, <2>7
<1>16. CASE Rest!Wire
    <2>1. At("wire")
        BY <1>16, <1>4 DEF Rest!Wire
    <2>2. c \in Calls /\ c.at = "wire" /\ c.causes = {} /\ UNCHANGED <<package, policy>>
        BY <2>1 DEF CallSound, Underway
    <2>3. PICK answer \in {"2xx", "4xx", "429", "5xx", "lost", "timeout"} :
              call' = IF answer = "2xx" THEN [c EXCEPT !.at = "response", !.causes = @ \cup {"2xx"}]
                      ELSE IF Rest!KyRepeats(c, answer) THEN [c EXCEPT !.tries = @ + 1]
                      ELSE Rest!Fail(c, answer, IF answer \in {"lost", "timeout"} THEN "Connection"
                                                ELSE answer)
        BY <1>16 DEF Rest!Wire, c
    <2> HIDE DEF At
    <2>4. CASE answer = "2xx"
        <3> DEFINE n == [c EXCEPT !.at = "response", !.causes = @ \cup {"2xx"}]
        <3>1. n \in Calls /\ n.at = "response" /\ n.causes = {"2xx"}
            BY <2>2 DEF Calls, Causes
        <3>2. call' = n
            BY <2>3, <2>4
        <3> HIDE DEF n
        <3>3. CallSound(n)
            BY <3>1 DEF CallSound, Underway
        <3> QED
            BY <2>2, <3>1, <3>2, <3>3, <1>5
    <2>5. CASE answer # "2xx" /\ Rest!KyRepeats(c, answer)
        <3> DEFINE n == [c EXCEPT !.tries = @ + 1]
        <3>1. n \in Calls /\ n.at = "wire" /\ n.causes = {}
            BY <2>2 DEF Calls
        <3>2. call' = n
            BY <2>3, <2>5
        <3> HIDE DEF n
        <3> QED
            BY <2>2, <3>1, <3>2, <1>6 DEF Underway
    <2>6. CASE answer # "2xx" /\ ~Rest!KyRepeats(c, answer)
        <3> DEFINE e == IF answer \in {"lost", "timeout"} THEN "Connection" ELSE answer
        <3>1. call' = Rest!Fail(c, answer, e)
            BY <2>3, <2>6
        <3>2. e \in Rest!Errors /\ answer \in Causes \ {"2xx"} /\ (answer = "4xx" => e = "4xx")
            BY <2>6 DEF Rest!Errors, Causes
        <3> HIDE DEF e
        <3>3. Rest!ShouldRetry(e) => Reason({} \cup {answer})
            BY <3>2 DEF Rest!ShouldRetry, Reason
        <3> QED
            BY <2>2, <3>1, <3>2, <3>3, <1>7
    <2> QED
        BY <2>4, <2>5, <2>6
<1>17. CASE Rest!Response
    <2>1. At("response")
        BY <1>17, <1>4 DEF Rest!Response
    <2>2. c \in Calls /\ UNCHANGED <<package, policy>> /\ c.causes = {"2xx"}
        BY <2>1 DEF CallSound
    <2>3. \/ package = "xf-rest" /\ call' = Rest!Fail(c, "onResponse", "Connection")
          \/ \E e \in Rest!Errors : call' = Rest!Fail(c, Rest!Thrown(e), e)
          \/ call' = Rest!Fail(c, "unread", "Connection")
          \/ call' = Rest!Settle([c EXCEPT !.err = "none"])
        BY <1>17 DEF Rest!Response, c
    <2> HIDE DEF At
    <2>4. CASE package = "xf-rest" /\ call' = Rest!Fail(c, "onResponse", "Connection")
        <3>1. Reason(c.causes \cup {"onResponse"})
            BY <2>2, <2>4 DEF Reason
        <3> QED
            BY <2>2, <2>4, <3>1, <1>7, <1>10
    <2>5. ASSUME NEW e \in Rest!Errors, call' = Rest!Fail(c, Rest!Thrown(e), e)
          PROVE  CallInv'
        BY <2>2, <2>5, <1>8
    <2>6. CASE call' = Rest!Fail(c, "unread", "Connection")
        <3>1. Reason(c.causes \cup {"unread"})
            BY <2>2 DEF Reason
        <3> QED
            BY <2>2, <2>6, <3>1, <1>7, <1>10
    <2>7. CASE call' = Rest!Settle([c EXCEPT !.err = "none"])
        <3> DEFINE n == [c EXCEPT !.err = "none"]
        <3>1. n \in Calls /\ n.err = "none"
            BY <2>2 DEF Calls
        <3>2. call' = Rest!Settle(n)
            BY <2>7
        <3> HIDE DEF n
        <3> QED
            BY <2>2, <3>1, <3>2, <1>5, SettleSound
    <2> QED
        BY <2>3, <2>4, <2>5, <2>6, <2>7
<1>18. CASE Rest!OnError
    <2>1. At("onError")
        BY <1>18, <1>4 DEF Rest!OnError
    <2>2. c \in Calls /\ UNCHANGED <<package, policy>> /\ (Rest!ShouldRetry(c.err) => Reason(c.causes))
        BY <2>1 DEF CallSound
    <2> DEFINE n == [c EXCEPT !.err = "none", !.causes = @ \cup {"recovered"}]
    <2>3. \/ call' = Rest!Settle(c)
          \/ \E e \in Rest!Errors : call' = Rest!FailAtOnce(c, Rest!Thrown(e), e)
          \/ call' = Rest!Settle(n)
        BY <1>18 DEF Rest!OnError, c
    <2>4. n \in Calls /\ n.err = "none"
        BY <2>2 DEF Calls, Causes
    <2> HIDE DEF At, n
    <2>5. ASSUME NEW e \in Rest!Errors, call' = Rest!FailAtOnce(c, Rest!Thrown(e), e)
          PROVE  CallInv'
        BY <2>2, <2>5, <1>8
    <2>6. CASE call' = Rest!Settle(c)
        BY <2>2, <2>6, <1>5, SettleSound
    <2>7. CASE call' = Rest!Settle(n)
        BY <2>2, <2>4, <2>7, <1>5, SettleSound
    <2> QED
        BY <2>3, <2>5, <2>6, <2>7
<1> QED
    BY <1>1, <1>2, <1>3, <1>11, <1>12, <1>13, <1>14, <1>15, <1>16, <1>17, <1>18 DEF Rest!Next

\* The label.
LEMMA Labelled ==
    ASSUME NEW e \in Rest!Encodings, e.known, ~e.defaulted, e.as # "itself"
    PROVE  e.label = e.as
<1>1. PICK t \in Rest!Types, d \in Rest!Types, custom \in SUBSET {"xml"}, body \in {"encoded", "value"} :
          e = [label |-> Rest!Label(t, d, Rest!EncodedAs(t, custom, body)),
               as |-> Rest!EncodedAs(t, custom, body),
               known |-> t \in custom \cup {"none", "json", "form", "text"},
               defaulted |-> t = "none" /\ d # "none"]
    BY DEF Rest!Encodings
<1>2. /\ e.label = Rest!Label(t, d, e.as) /\ e.as = Rest!EncodedAs(t, custom, body)
      /\ t \in custom \cup {"none", "json", "form", "text"}
      /\ ~(t = "none" /\ d # "none")
    BY <1>1
<1> QED
    BY <1>2 DEF Rest!EncodedAs, Rest!PickSerializer, Rest!Label

LEMMA RestInit == Rest!Init => CallInv
BY DEF Rest!Init, CallInv

\* For any bound on the attempts, under every retry policy: a request that was answered is
\* sent again only because its answer could not be read, or because a hook threw an error
\* that the policy, or xf-rest, takes for a failure; and RetryRestRepository sends nothing
\* after a 4xx, unless the error hook has replaced it by an error that is repeated.
THEOREM RepeatsForAReason == Rest!Spec => []RepeatedOnlyWhenUnread
<1>1. ASSUME CallInv
      PROVE  RepeatedOnlyWhenUnread
    <2>1. call.at = "backoff" => Reason(call.causes)
        BY <1>1 DEF CallInv, CallSound, Rest!NoCall
    <2> QED
        BY <2>1 DEF Reason, RepeatedOnlyWhenUnread, Rest!RepeatedOnlyWhenUnread
<1> QED
    BY <1>1, RestInit, CallStep, PTL DEF Rest!Spec

\* For any bound on the attempts: a body that a known serializer encoded, or ky, carries the
\* content type of that encoding, unless it has the type of the default headers.
THEOREM LabelTells == Rest!Spec => []RequestLabelTellsEncoding
<1>1. CallInv => RequestLabelTellsEncoding
    BY Labelled
       DEF CallInv, Calls, RequestLabelTellsEncoding, Rest!RequestLabelTellsEncoding, Rest!NoCall,
           Rest!NotEncoded
<1> QED
    BY <1>1, RestInit, CallStep, PTL DEF Rest!Spec

-----------------------------------------------------------------------------
(* GraphQLWsRepository: the subscriptions of a socket.                      *)

\* Ids are given out in order; a sink that has not been told its end and has not given up
\* is registered, unless a sink has thrown; open() is pending only before any outcome.
SinksInv ==
    /\ counter \in Nat
    /\ sinks \cup over \subseteq 1..counter
    /\ threw \/ sinks \cap over = {}

LEMMA SinksStep ==
    ASSUME SinksInv, SinksEndOnce, opened = "pending" => ~errored /\ ~acked,
           [Ws!Next]_(Ws!vars)
    PROVE  (SinksInv /\ SinksEndOnce /\ (opened = "pending" => ~errored /\ ~acked))'
<1> USE DEF SinksInv, SinksEndOnce, Ws!SinksEndOnce
<1>1. CASE Ws!Opens \/ Ws!Errors \/ Ws!Ack
    BY <1>1 DEF Ws!Opens, Ws!Errors, Ws!Ack, Ws!subscriptions
<1>2. CASE Ws!Subscribe
    BY <1>2 DEF Ws!Subscribe
<1>3. CASE Ws!Closes
    BY <1>3 DEF Ws!Closes
<1>4. ASSUME NEW id \in Ws!SubIds, Ws!Unsubscribe(id)
      PROVE  (SinksInv /\ SinksEndOnce /\ (opened = "pending" => ~errored /\ ~acked))'
    BY <1>4 DEF Ws!Unsubscribe
<1>5. ASSUME NEW id \in Ws!SubIds, Ws!NextMessage(id)
      PROVE  (SinksInv /\ SinksEndOnce /\ (opened = "pending" => ~errored /\ ~acked))'
    BY <1>5 DEF Ws!NextMessage, Ws!Hears
<1>6. ASSUME NEW id \in Ws!SubIds, Ws!EndMessage(id)
      PROVE  (SinksInv /\ SinksEndOnce /\ (opened = "pending" => ~errored /\ ~acked))'
    BY <1>6 DEF Ws!EndMessage, Ws!Hears
<1>7. CASE UNCHANGED Ws!vars
    BY <1>7 DEF Ws!vars
<1> QED
    BY <1>1, <1>2, <1>3, <1>4, <1>5, <1>6, <1>7 DEF Ws!Next

\* For any number of subscriptions, messages and socket events, in any order: a sink that
\* was told of its end, or has given up, is not called again; when the socket is closed every
\* sink has been told, but those that subscribed after that; unless one has thrown.  And
\* open() hangs only when the socket closes before its ack without an error.
THEOREM SinksEnd == Ws!Spec => []SinksEndOnce
<1>1. Ws!Init => SinksInv /\ SinksEndOnce /\ (opened = "pending" => ~errored /\ ~acked)
    BY DEF Ws!Init, SinksInv, SinksEndOnce, Ws!SinksEndOnce
<1> QED
    BY <1>1, SinksStep, PTL DEF Ws!Spec

-----------------------------------------------------------------------------
(* SseRepository: the events that are sent, and the text they travel as.    *)

LEMMA Joined ==
    ASSUME NEW S, NEW s \in Seq(S), NEW t \in Seq(S)
    PROVE  /\ s \o t \in Seq(S) /\ Len(s \o t) = Len(s) + Len(t)
           /\ \A i \in 1..Len(s) : (s \o t)[i] = s[i]
           /\ \A i \in 1..Len(t) : (s \o t)[Len(s) + i] = t[i]
    OBVIOUS

LEMMA Times == \A i \in Nat \ {0}, w \in 2..4 :
    i * w \in Nat /\ (i - 1) * w \in Nat /\ (i - 1) * w + w = i * w
<1> SUFFICES ASSUME NEW i \in Nat \ {0}, NEW w \in 2..4
             PROVE  i * w \in Nat /\ (i - 1) * w \in Nat /\ (i - 1) * w + w = i * w
    OBVIOUS
<1> w = 2 \/ w = 3 \/ w = 4
    OBVIOUS
<1> QED
    OBVIOUS

\* Row and column of a position, when a row has w of them.
LEMMA Rows ==
    ASSUME NEW i \in Nat, NEW w \in 2..4, NEW q \in 1..(i * w)
    PROVE  /\ ((q - 1) \div w) + 1 \in 1..i
           /\ ((q - 1) % w) + 1 \in 1..w
           /\ q > (i - 1) * w =>
                 ((q - 1) \div w) + 1 = i /\ ((q - 1) % w) + 1 = q - (i - 1) * w
<1>1. CASE w = 2
    BY <1>1
<1>2. CASE w = 3
    BY <1>2
<1>3. CASE w = 4
    BY <1>3
<1> QED
    BY <1>1, <1>2, <1>3

\* Pieces of w tokens each, one after the other.
LaidOut(text, seqs, n, w, T) ==
    /\ text \in Seq(T) /\ Len(text) = n * w
    /\ \A q \in 1..(n * w) : text[q] = seqs[((q - 1) \div w) + 1][((q - 1) % w) + 1]

LEMMA FlattenedPieces ==
    ASSUME NEW T, NEW n \in Nat \ {0}, NEW w \in 2..4, NEW seqs \in [1..n -> [1..w -> T]]
    PROVE  LaidOut(Sse!FlattenSeq(seqs), seqs, n, w, T)
<1> DEFINE Row(q) == ((q - 1) \div w) + 1
           Col(q) == ((q - 1) % w) + 1
           Cut(i) == [q \in 1..(i * w) |-> seqs[Row(q)][Col(q)]]
           Grow(f, i) == IF i = 1 THEN seqs[i] ELSE f[i - 1] \o seqs[i]
           cuts == [i \in 1..n |-> Cut(i)]
<1>0. \A i \in 1..n : seqs[i] \in Seq(T) /\ Len(seqs[i]) = w
    OBVIOUS
<1>1. Len(seqs) = n /\ Len(seqs) # 0
    OBVIOUS
<1>2. ASSUME NEW i \in 1..n
      PROVE  /\ i * w \in Nat /\ (i - 1) * w \in Nat /\ (i - 1) * w + w = i * w
             /\ \A q \in 1..(i * w) : Row(q) \in 1..i /\ Col(q) \in 1..w
             /\ \A q \in 1..(i * w) :
                   q > (i - 1) * w => Row(q) = i /\ Col(q) = q - (i - 1) * w
    <2>1. i \in Nat /\ i - 1 \in Nat /\ i * w \in Nat /\ (i - 1) * w \in Nat
          /\ (i - 1) * w + w = i * w
        BY Times
    <2> QED
        BY <2>1, Rows
<1> HIDE DEF Row, Col
<1>3. \A i \in 1..n : Cut(i) = Grow(cuts, i)
    <2> SUFFICES ASSUME NEW i \in 1..n PROVE Cut(i) = Grow(cuts, i)
        OBVIOUS
    <2>1. CASE i = 1
        <3>1. seqs[1] = [q \in 1..w |-> seqs[1][q]]
            OBVIOUS
        <3>2. 1 * w = w /\ (1 - 1) * w = 0 /\ 1 \in 1..n
            OBVIOUS
        <3>3. \A q \in 1..w : Row(q) = 1 /\ Col(q) = q
            BY <1>2, <3>2
        <3> QED
            BY <2>1, <3>1, <3>2, <3>3
    <2>2. CASE i # 1
        <3>1. i - 1 \in 1..n /\ Grow(cuts, i) = Cut(i - 1) \o seqs[i]
            BY <2>2
        <3> DEFINE before == (i - 1) * w
        <3>2. before \in Nat /\ before + w = i * w
            BY <1>2
        <3> HIDE DEF before
        <3>3. /\ seqs[i] \in Seq(T) /\ Len(seqs[i]) = w
              /\ Cut(i - 1) = [q \in 1..before |-> seqs[Row(q)][Col(q)]]
            BY <1>0 DEF before
        <3>4. \A q \in 1..before : seqs[Row(q)][Col(q)] \in T
            <4>1. before \in 1..0 \/ \A q \in 1..before : Row(q) \in 1..(i - 1) /\ Col(q) \in 1..w
                BY <1>2, <3>1 DEF before
            <4>2. \A j \in 1..n : seqs[j] \in Seq(T) /\ Len(seqs[j]) = w
                OBVIOUS
            <4>3. \A j \in 1..n, k \in 1..w : seqs[j][k] \in T
                BY <4>2
            <4>4. \A q \in 1..before : Row(q) \in 1..n /\ Col(q) \in 1..w
                BY <4>1, <3>1
            <4> QED
                BY <4>3, <4>4
        <3>5. Cut(i - 1) \in Seq(T) /\ Len(Cut(i - 1)) = before
            <4> HIDE DEF Cut
            <4>1. Cut(i - 1) \in [1..before -> T]
                BY <3>3, <3>4
            <4> QED
                BY <3>2, <4>1
        <3> DEFINE both == Cut(i - 1) \o seqs[i]
        <3>6. both = [q \in 1..(before + w) |-> IF q <= before THEN Cut(i - 1)[q]
                                               ELSE seqs[i][q - before]]
            <4> HIDE DEF Cut
            <4>1. /\ both \in Seq(T) /\ Len(both) = before + w
                  /\ \A q \in 1..before : both[q] = Cut(i - 1)[q]
                  /\ \A q \in 1..w : both[before + q] = seqs[i][q]
                BY <3>3, <3>5, Joined
            <4> HIDE DEF both
            <4>2. \A q \in 1..(before + w) : ~(q <= before) =>
                     q - before \in 1..w /\ before + (q - before) = q
                BY <3>2
            <4>3. \A q \in 1..(before + w) : q <= before => q \in 1..before
                BY <3>2
            <4>4. \A q \in 1..(before + w) :
                     both[q] = IF q <= before THEN Cut(i - 1)[q] ELSE seqs[i][q - before]
                BY <4>1, <4>2, <4>3
            <4> QED
                BY <4>1, <4>4
        <3>7. \A q \in 1..(before + w) :
                 seqs[Row(q)][Col(q)] = IF q <= before THEN Cut(i - 1)[q] ELSE seqs[i][q - before]
            <4>1. \A q \in 1..(before + w) : q > before => Row(q) = i /\ Col(q) = q - before
                BY <1>2, <3>2 DEF before
            <4> HIDE DEF Cut
            <4>2. \A q \in 1..before : Cut(i - 1)[q] = seqs[Row(q)][Col(q)]
                BY <3>3
            <4>3. \A q \in 1..(before + w) : ~(q <= before) => q > before
                BY <3>2
            <4>4. \A q \in 1..(before + w) : q <= before => q \in 1..before
                BY <3>2
            <4> QED
                BY <4>1, <4>2, <4>3, <4>4
        <3>8. Cut(i) = [q \in 1..(before + w) |-> seqs[Row(q)][Col(q)]]
            BY <3>2
        <3> HIDE DEF Cut, Grow
        <3> QED
            BY <3>1, <3>6, <3>7, <3>8
    <2> QED
        BY <2>1, <2>2
<1> HIDE DEF Cut
<1>4. cuts = [i \in 1..n |-> Grow(cuts, i)]
    BY <1>3
<1> DEFINE flat == CHOOSE f : f = [i \in 1..n |-> Grow(f, i)]
<1>5. flat = [i \in 1..n |-> Grow(flat, i)]
    BY <1>4
<1>6. Sse!FlattenSeq(seqs) = flat[n]
    BY <1>1 DEF Sse!FlattenSeq
<1> HIDE DEF flat
<1>7. \A i \in 1..n : flat[i] = cuts[i]
    <2> DEFINE Off == {i \in 1..n : flat[i] # cuts[i]}
    <2> SUFFICES ASSUME Off # {} PROVE FALSE
        OBVIOUS
    <2>1. PICK i \in Off : \A m \in Off : i <= m
        <3>1. Off \in SUBSET Nat
            OBVIOUS
        <3> HIDE DEF Off
        <3> QED
            BY <3>1, LeastNumber
    <2>2. i # 1 => i - 1 \in 1..n /\ flat[i - 1] = cuts[i - 1]
        BY <2>1
    <2>3. flat[i] = Grow(flat, i)
        BY <1>5
    <2>4. cuts[i] = Grow(cuts, i)
        BY <1>4
    <2> QED
        BY <2>1, <2>2, <2>3, <2>4
<1>8. flat[n] = Cut(n)
    <2>1. n \in 1..n
        OBVIOUS
    <2> HIDE DEF cuts
    <2>2. cuts[n] = Cut(n)
        BY <2>1 DEF cuts
    <2> QED
        BY <1>7, <2>1, <2>2
<1>9. Sse!FlattenSeq(seqs) = Cut(n)
    BY <1>6, <1>8
<1>10. n \in 1..n /\ n * w \in Nat
    BY Times
<1>11. \A q \in 1..(n * w) : seqs[Row(q)][Col(q)] \in T
    <2>1. \A j \in 1..n : seqs[j] \in Seq(T) /\ Len(seqs[j]) = w
        OBVIOUS
    <2>2. \A j \in 1..n, k \in 1..w : seqs[j][k] \in T
        BY <2>1
    <2> QED
        BY <1>2, <1>10, <2>2
<1>12. Cut(n) \in [1..(n * w) -> T] /\ \A q \in 1..(n * w) : Cut(n)[q] = seqs[Row(q)][Col(q)]
    BY <1>11 DEF Cut
<1>13. Cut(n) \in Seq(T) /\ Len(Cut(n)) = n * w
    BY <1>10, <1>12
<1> QED
    BY <1>9, <1>12, <1>13 DEF Row, Col, LaidOut

\* The lines of an event, and how many there are before its data.
Named(e) == IF e.name = NoName THEN 0 ELSE 1
LineCount(e) == Named(e) + Len(e.data)
LineOf(e, j) ==
    IF j <= Named(e) THEN [is |-> "event", val |-> e.name]
    ELSE [is |-> "data", val |-> e.data[j - Named(e)]]
Comment == [is |-> "comment"]
Tokens == {Sse!CR, Sse!LF, Comment} \cup [is : {"event", "data"}, val : Texts \cup {NoName}]

\* What a place of the text holds: token `at` of line `line` of event `ev`, where line
\* 0 is the comment before the event, and token 0 is what is not the end of the line.
Places(end, s) ==
    {p \in [ev : 1..Len(s), line : Nat, at : 0..Len(end)] :
        /\ p.line <= LineCount(s[p.ev]) + 1
        /\ p.line = LineCount(s[p.ev]) + 1 => p.at # 0}
Token(end, s, p) ==
    IF p.at # 0 THEN end[p.at]
    ELSE IF p.line = 0 THEN Comment ELSE LineOf(s[p.ev], p.line)

\* Where a line begins, and the place after another one.
Begins(s, p) == IF p.line = LineCount(s[p.ev]) + 1 THEN p.at = 1 ELSE p.at = 0
Follows(end, s, p, q) ==
    IF p.at < Len(end) THEN q = [p EXCEPT !.at = @ + 1]
    ELSE /\ Begins(s, q)
         /\ IF p.line <= LineCount(s[p.ev]) THEN q.ev = p.ev /\ q.line = p.line + 1
            ELSE q.ev = p.ev + 1 /\ q.line \in {0, 1}

\* The text T holds these places; and it does so down to the end of the last event.
Chain(end, s, places, T) ==
    /\ places \in Seq(Places(end, s))
    /\ Len(places) = Len(T)
    /\ \A i \in 1..Len(T) : T[i] = Token(end, s, places[i])
    /\ \A i \in 1..(Len(T) - 1) : Follows(end, s, places[i], places[i + 1])
Ends(end, s, p) ==
    p.ev = Len(s) /\ p.line = LineCount(s[p.ev]) + 1 /\ p.at = Len(end)
Script(end, s, places, T) ==
    Chain(end, s, places, T) /\ (T # <<>> => Ends(end, s, places[Len(T)]))

\* What the reader has of an event when it has read n of its lines.
FieldsRead(e, n) ==
    [name |-> IF n < Named(e) THEN NoName ELSE e.name,
     data |-> IF n <= Named(e) THEN <<>> ELSE SubSeq(e.data, 1, n - Named(e))]

\* The reader, which has yielded g and has the fields f, stands at the beginning of a
\* line; and what it reads is the text T.
Stands(s, g, f, p) ==
    /\ p.ev = Len(g) + 1
    /\ Begins(s, p)
    /\ f = FieldsRead(s[p.ev], IF p.line = 0 THEN 0 ELSE p.line - 1)
Reads(end, s, g, f, T) ==
    \E places : /\ Script(end, s, places, T)
                /\ IF T = <<>> THEN Len(g) = Len(s) /\ f = Sse!NoFields
                   ELSE Stands(s, g, f, places[1])

LineEnds == {<<Sse!LF>>, <<Sse!CR, Sse!LF>>}

\* What is still to be read is what follows in the text, of which nothing is lost but
\* under a failure.
SseInv ==
    /\ ending \in LineEnds
    /\ ~hurt =>
          /\ sent \in Seq(Events)
          /\ buffer \in Seq(Tokens)
          /\ wire \in Seq(Tokens)
          /\ got = SubSeq(sent, 1, Len(got)) /\ got \in Seq(Events) /\ Len(got) <= Len(sent)
          /\ stream \in {"open", "closed", "failed", "done"}
          /\ stream = "failed" => wire = <<>>
          /\ stream = "done" => wire = <<>> /\ buffer = <<>> /\ got = sent
          /\ buffer # <<>> /\ wire # <<>> => ~(buffer[Len(buffer)] = Sse!CR /\ wire[1] = Sse!LF)
          /\ stream = "failed" /\ Sse!Breaks # {} =>
                \E rest \in Seq(Tokens) : Reads(ending, sent, got, pending, buffer \o rest)
          /\ stream \in {"open", "closed"} => Reads(ending, sent, got, pending, buffer \o wire)

LEMMA EventShape ==
    ASSUME NEW e \in Events
    PROVE  /\ e = [name |-> e.name, data |-> e.data]
           /\ e.data \in Seq(Texts) /\ e.data # <<>> /\ Len(e.data) \in Nat \ {0}
           /\ e.name \in Texts \cup {NoName}
           /\ Named(e) \in {0, 1} /\ LineCount(e) \in Nat \ {0}
           /\ \A j \in 1..LineCount(e) : LineOf(e, j) \in Tokens
           /\ \A j \in 1..LineCount(e) : LineOf(e, j) \notin {Sse!CR, Sse!LF}
<1>1. e \in [name : Texts \cup {NoName}, data : Seq(Texts) \ {<<>>}]
    BY EventsAssumption
<1>2. e.data \in Seq(Texts) /\ e.data # <<>> /\ Len(e.data) \in Nat \ {0}
    BY <1>1
<1>3. Named(e) \in {0, 1} /\ LineCount(e) \in Nat \ {0}
    <2>1. Named(e) \in {0, 1}
        BY DEF Named
    <2> QED
        BY <1>2, <2>1 DEF LineCount
<1>4. ASSUME NEW j \in 1..LineCount(e)
      PROVE  LineOf(e, j) \in [is : {"event", "data"}, val : Texts \cup {NoName}]
    <2>1. j > Named(e) => j - Named(e) \in 1..Len(e.data)
        BY <1>2, <1>3 DEF LineCount
    <2>2. j > Named(e) => e.data[j - Named(e)] \in Texts
        BY <1>2, <2>1
    <2> QED
        BY <1>1, <1>3, <2>2 DEF LineOf
<1>5. \A x \in [is : {"event", "data"}, val : Texts \cup {NoName}] : x \notin {Sse!CR, Sse!LF}
    <2> SUFFICES ASSUME NEW x \in [is : {"event", "data"}, val : Texts \cup {NoName}]
                 PROVE  x \notin {Sse!CR, Sse!LF}
        OBVIOUS
    <2>1. x.is \in {"event", "data"} /\ Sse!CR.is = "CR" /\ Sse!LF.is = "LF"
        BY DEF Sse!CR, Sse!LF
    <2> QED
        BY <2>1
<1> QED
    BY <1>1, <1>2, <1>3, <1>4, <1>5 DEF Tokens

LEMMA EndsDiffer == Sse!CR # Sse!LF /\ Comment \notin {Sse!CR, Sse!LF}
<1>1. Sse!CR.is = "CR" /\ Sse!LF.is = "LF" /\ Comment.is = "comment"
    BY DEF Sse!CR, Sse!LF, Comment
<1> QED
    BY <1>1

LEMMA Endings ==
    ASSUME ending \in LineEnds
    PROVE  /\ ending \in Seq(Tokens) /\ Len(ending) \in 1..2
           /\ \A t \in 1..Len(ending) : ending[t] \in {Sse!CR, Sse!LF}
           /\ ending[Len(ending)] = Sse!LF
           /\ Len(ending) = 1 => ending[1] = Sse!LF
           /\ Len(ending) = 2 => ending[1] = Sse!CR
<1>1. Sse!LF \in Tokens /\ Sse!CR \in Tokens
    BY DEF Tokens
<1>2. CASE ending = <<Sse!LF>>
    BY <1>1, <1>2
<1>3. CASE ending = <<Sse!CR, Sse!LF>>
    BY <1>1, <1>3
<1> QED
    BY <1>2, <1>3 DEF LineEnds

\* The text of an event: its lines, each with its end, and an empty line.
LEMMA Formatted ==
    ASSUME NEW e \in Events, Sse!Whole(e), ending \in LineEnds
    PROVE  LET w == Len(ending) + 1
               n == LineCount(e)
           IN  /\ Sse!Format(e) \in Seq(Tokens)
               /\ Len(Sse!Format(e)) = n * w + Len(ending)
               /\ \A q \in 1..(n * w) :
                     Sse!Format(e)[q] = IF ((q - 1) % w) = 0 THEN LineOf(e, ((q - 1) \div w) + 1)
                                        ELSE ending[(q - 1) % w]
               /\ \A q \in 1..Len(ending) : Sse!Format(e)[n * w + q] = ending[q]
<1> DEFINE w == Len(ending) + 1
           n == LineCount(e)
           lines == (IF e.name = NoName THEN <<>> ELSE <<[is |-> "event", val |-> e.name]>>) \o
                    [i \in DOMAIN e.data |-> [is |-> "data", val |-> e.data[i]]]
           laid == [i \in DOMAIN lines |-> Sse!Laid(lines[i]) \o ending]
           seqs == [i \in DOMAIN lines |-> <<lines[i]>> \o ending]
<1>1. w \in 2..4 /\ ending \in Seq(Tokens) /\ Len(ending) \in 1..2
    BY Endings
<1>2. n \in Nat \ {0} /\ Named(e) \in {0, 1} /\ n = Named(e) + Len(e.data) /\ e.data \in Seq(Texts)
    BY EventShape DEF LineCount
<1>3. lines = [i \in 1..n |-> LineOf(e, i)]
    <2>1. [i \in DOMAIN e.data |-> [is |-> "data", val |-> e.data[i]]] \in Seq([is : {"data"}, val : Texts])
          /\ DOMAIN e.data = 1..Len(e.data)
        <3>1. DOMAIN e.data = 1..Len(e.data) /\ Len(e.data) \in Nat
            BY <1>2
        <3>2. \A i \in 1..Len(e.data) : e.data[i] \in Texts
            BY <1>2
        <3> QED
            BY <3>1, <3>2
    <2>2. CASE e.name = NoName
        <3>1. Named(e) = 0 /\ n = Len(e.data)
            BY <1>2, <2>2 DEF Named
        <3>2. lines = [i \in DOMAIN e.data |-> [is |-> "data", val |-> e.data[i]]]
            BY <2>1, <2>2
        <3>3. \A i \in 1..n : LineOf(e, i) = [is |-> "data", val |-> e.data[i]]
            BY <3>1 DEF LineOf
        <3> HIDE DEF lines, n
        <3> QED
            BY <2>1, <3>1, <3>2, <3>3
    <2>3. CASE e.name # NoName
        <3>1. Named(e) = 1 /\ n = Len(e.data) + 1
            BY <1>2, <2>3 DEF Named
        <3>2. lines = <<[is |-> "event", val |-> e.name]>> \o
                      [i \in DOMAIN e.data |-> [is |-> "data", val |-> e.data[i]]]
            BY <2>3
        <3>3. \A i \in 1..n : LineOf(e, i) = IF i = 1 THEN [is |-> "event", val |-> e.name]
                                            ELSE [is |-> "data", val |-> e.data[i - 1]]
            BY <3>1 DEF LineOf
        <3> DEFINE data == [i \in DOMAIN e.data |-> [is |-> "data", val |-> e.data[i]]]
                   name == [is |-> "event", val |-> e.name]
        <3>4. data \in Seq([is : {"data"}, val : Texts]) /\ Len(data) = Len(e.data)
              /\ \A i \in 1..Len(e.data) : data[i] = [is |-> "data", val |-> e.data[i]]
            BY <2>1
        <3> HIDE DEF data, name
        <3>5. <<name>> \o data = [i \in 1..(Len(e.data) + 1) |-> IF i = 1 THEN name ELSE data[i - 1]]
            BY <3>4
        <3>6. \A i \in 1..n : (IF i = 1 THEN name ELSE data[i - 1]) = LineOf(e, i)
            BY <1>2, <3>1, <3>3, <3>4 DEF name
        <3> HIDE DEF lines, n
        <3> QED
            BY <3>1, <3>2, <3>5, <3>6 DEF data, name
    <2> QED
        BY <2>2, <2>3
<1> HIDE DEF lines
<1>4. DOMAIN lines = 1..n /\ Len(lines) = n /\ \A i \in 1..n : lines[i] = LineOf(e, i) /\ lines[i] \in Tokens
    BY <1>2, <1>3, EventShape
<1> HIDE DEF n, w
<1>4a. laid = seqs
    <2>1. ASSUME NEW i \in 1..n
          PROVE  Sse!Laid(lines[i]) = <<lines[i]>>
        <3>1. lines[i].val = e.name \/ \E k \in 1..Len(e.data) : lines[i].val = e.data[k]
            <4>1. lines[i] = LineOf(e, i)
                BY <1>4
            <4>2. i > Named(e) => i - Named(e) \in 1..Len(e.data)
                BY <1>2, <2>1 DEF n
            <4>3. CASE i > Named(e)
                <5>1. lines[i].val = e.data[i - Named(e)]
                    BY <1>2, <4>1, <4>3 DEF LineOf, n
                <5> QED
                    BY <4>2, <4>3, <5>1
            <4>4. CASE ~(i > Named(e))
                BY <1>2, <4>1, <4>4 DEF LineOf, n
            <4> QED
                BY <4>3, <4>4
        <3>2. \A k \in 1..Len(e.data) : e.data[k] \in Sse!ToSet(e.data)
            BY <1>2 DEF Sse!ToSet
        <3>3. lines[i].val \notin Splitting
            BY <3>1, <3>2 DEF Sse!Whole
        <3> QED
            BY <3>3 DEF Sse!Laid
    <2> QED
        BY <1>4, <2>1
<1>5. ASSUME NEW i \in 1..n
      PROVE  /\ seqs[i] \in Seq(Tokens) /\ Len(seqs[i]) = w
             /\ seqs[i][1] = LineOf(e, i)
             /\ \A t \in 1..Len(ending) : seqs[i][t + 1] = ending[t]
    <2> DEFINE line == <<lines[i]>>
    <2>1. seqs[i] = line \o ending /\ line \in Seq(Tokens) /\ Len(line) = 1
          /\ line[1] = LineOf(e, i)
        BY <1>4
    <2> HIDE DEF line, seqs
    <2>2. line \o ending \in Seq(Tokens) /\ Len(line \o ending) = w
        BY <1>1, <2>1, Joined DEF w
    <2>3. \A t \in 1..Len(line) : (line \o ending)[t] = line[t]
        BY <1>1, <2>1, Joined
    <2>4. line \in Seq(Tokens) /\ ending \in Seq(Tokens)
        BY <1>1, <2>1
    <2>5. \A t \in 1..Len(ending) : (line \o ending)[Len(line) + t] = ending[t]
        BY <2>4, Joined
    <2>6. \A t \in 1..Len(ending) : seqs[i][t + 1] = ending[t]
        <3> SUFFICES ASSUME NEW t \in 1..Len(ending) PROVE seqs[i][t + 1] = ending[t]
            OBVIOUS
        <3>1. Len(line) + t = t + 1
            BY <1>1, <2>1
        <3> QED
            BY <2>1, <2>5, <3>1
    <2>7. seqs[i][1] = LineOf(e, i)
        <3>1. 1 \in 1..Len(line)
            BY <2>1
        <3>2. seqs[i][1] = line[1]
            BY <2>1, <2>3, <3>1
        <3> QED
            BY <2>1, <3>2
    <2> QED
        BY <2>1, <2>2, <2>6, <2>7
<1>6. seqs \in [1..n -> [1..w -> Tokens]]
    <2>1. \A i \in 1..n : seqs[i] \in [1..w -> Tokens]
        <3> HIDE DEF seqs
        <3> QED
            BY <1>5
    <2> QED
        BY <1>4, <2>1
<1> DEFINE text == Sse!FlattenSeq(seqs)
<1>7. /\ text \in Seq(Tokens) /\ Len(text) = n * w
      /\ \A q \in 1..(n * w) : text[q] = seqs[((q - 1) \div w) + 1][((q - 1) % w) + 1]
    <2> HIDE DEF seqs
    <2> QED
        <3>1. LaidOut(text, seqs, n, w, Tokens)
            BY <1>1, <1>2, <1>6, FlattenedPieces
        <3> HIDE DEF text
        <3> QED
            BY <3>1 DEF LaidOut
<1>8. Sse!Format(e) = text \o ending
    <2>1. lines = Sse!Lines(e)
        BY DEF lines, Sse!Lines
    <2>2. Sse!Format(e) = Sse!FlattenSeq(laid) \o ending
        BY <2>1 DEF Sse!Format
    <2> HIDE DEF laid, seqs
    <2> QED
        BY <1>4a, <2>2
<1>9. ASSUME NEW q \in 1..(n * w)
      PROVE  text[q] = (IF ((q - 1) % w) = 0 THEN LineOf(e, ((q - 1) \div w) + 1)
                        ELSE ending[(q - 1) % w])
    <2>1. ((q - 1) \div w) + 1 \in 1..n /\ ((q - 1) % w) + 1 \in 1..w
        BY <1>1, <1>2, Rows
    <2>2. ((q - 1) % w) = 0 \/ ((q - 1) % w) \in 1..Len(ending)
        BY <1>1, <2>1 DEF w
    <2> DEFINE i == ((q - 1) \div w) + 1
               t == (q - 1) % w
    <2>3. text[q] = seqs[i][t + 1]
        <3> HIDE DEF seqs, text
        <3> QED
            BY <1>7
    <2> HIDE DEF i, t, text, seqs
    <2>4. i \in 1..n /\ (t = 0 \/ t \in 1..Len(ending))
        BY <2>1, <2>2 DEF i, t
    <2>5. text[q] = IF t = 0 THEN LineOf(e, i) ELSE ending[t]
        <3>1. CASE t = 0
            BY <1>5, <2>3, <2>4, <3>1
        <3>2. CASE t \in 1..Len(ending)
            BY <1>1, <1>5, <2>3, <2>4, <3>2
        <3> QED
            BY <2>4, <3>1, <3>2
    <2> QED
        BY <2>5 DEF i, t
<1> HIDE DEF text, seqs
<1>10. /\ Sse!Format(e) \in Seq(Tokens) /\ Len(Sse!Format(e)) = n * w + Len(ending)
       /\ \A q \in 1..(n * w) : Sse!Format(e)[q] = text[q]
       /\ \A q \in 1..Len(ending) : Sse!Format(e)[n * w + q] = ending[q]
    <2>1. text \o ending \in Seq(Tokens) /\ Len(text \o ending) = Len(text) + Len(ending)
        BY <1>1, <1>7, Joined
    <2>2. \A q \in 1..Len(text) : (text \o ending)[q] = text[q]
        BY <1>1, <1>7, Joined
    <2>3. \A q \in 1..Len(ending) : (text \o ending)[Len(text) + q] = ending[q]
        BY <1>1, <1>7, Joined
    <2> QED
        BY <1>7, <1>8, <2>1, <2>2, <2>3
<1>11. \A q \in 1..(n * w) :
          Sse!Format(e)[q] = IF ((q - 1) % w) = 0 THEN LineOf(e, ((q - 1) \div w) + 1)
                             ELSE ending[(q - 1) % w]
    BY <1>9, <1>10
<1> QED
    BY <1>10, <1>11 DEF n, w

LEMMA ChainGrows ==
    ASSUME NEW s \in Seq(Events), NEW e \in Events, NEW places, NEW T, Chain(ending, s, places, T)
    PROVE  Chain(ending, Append(s, e), places, T)
<1> DEFINE t == Append(s, e)
<1>1. Len(t) = Len(s) + 1 /\ \A i \in 1..Len(s) : t[i] = s[i]
    OBVIOUS
<1> HIDE DEF t
<1>2. Places(ending, s) \subseteq Places(ending, t)
    BY <1>1 DEF Places
<1>3. \A p \in Places(ending, s) : Token(ending, t, p) = Token(ending, s, p) /\ (Begins(t, p) <=> Begins(s, p))
    BY <1>1 DEF Places, Token, Begins
<1>4. \A p, q \in Places(ending, s) : Follows(ending, s, p, q) => Follows(ending, t, p, q)
    <2>1. \A p \in Places(ending, s) : t[p.ev] = s[p.ev]
        BY <1>1 DEF Places
    <2> QED
        BY <1>3, <2>1 DEF Follows
<1>5. places \in Seq(Places(ending, s)) /\ places \in Seq(Places(ending, t)) /\ Len(places) = Len(T)
    BY <1>2 DEF Chain
<1>6. \A i \in 1..Len(T) : places[i] \in Places(ending, s)
    BY <1>5
<1>7. \A i \in 1..(Len(T) - 1) : i \in 1..Len(T) /\ i + 1 \in 1..Len(T)
    BY <1>5
<1> QED
    BY <1>3, <1>4, <1>5, <1>6, <1>7 DEF Chain, t

LEMMA ChainJoin ==
    ASSUME NEW s \in Seq(Events), NEW p1, NEW T1 \in Seq(Tokens), NEW p2, NEW T2 \in Seq(Tokens),
           Chain(ending, s, p1, T1), Chain(ending, s, p2, T2),
           T1 # <<>> /\ T2 # <<>> => Follows(ending, s, p1[Len(T1)], p2[1])
    PROVE  Chain(ending, s, p1 \o p2, T1 \o T2)
<1> DEFINE P == p1 \o p2
           T == T1 \o T2
<1>1. p1 \in Seq(Places(ending, s)) /\ p2 \in Seq(Places(ending, s)) /\ Len(p1) = Len(T1) /\ Len(p2) = Len(T2)
    BY DEF Chain
<1>2. /\ P \in Seq(Places(ending, s)) /\ Len(P) = Len(T1) + Len(T2)
      /\ \A i \in 1..Len(T1) : P[i] = p1[i]
      /\ \A i \in 1..Len(T2) : P[Len(T1) + i] = p2[i]
    <2> DEFINE S == Places(ending, s)
    <2>1. p1 \in Seq(S) /\ p2 \in Seq(S)
        BY <1>1
    <2> HIDE DEF S
    <2>2. P \in Seq(S) /\ Len(P) = Len(p1) + Len(p2)
        BY <2>1, Joined
    <2>3. \A i \in 1..Len(p1) : P[i] = p1[i]
        BY <2>1, Joined
    <2>4. \A i \in 1..Len(p2) : P[Len(p1) + i] = p2[i]
        BY <2>1, Joined
    <2> QED
        BY <1>1, <2>2, <2>3, <2>4 DEF S
<1>3. /\ T \in Seq(Tokens) /\ Len(T) = Len(T1) + Len(T2)
      /\ \A i \in 1..Len(T1) : T[i] = T1[i]
      /\ \A i \in 1..Len(T2) : T[Len(T1) + i] = T2[i]
    BY Joined
<1>4. Len(T1) \in Nat /\ Len(T2) \in Nat
    OBVIOUS
<1> HIDE DEF P, T
<1>5. ASSUME NEW i \in 1..Len(T)
      PROVE  T[i] = Token(ending, s, P[i])
    <2>1. CASE i <= Len(T1)
        BY <1>2, <1>3, <1>4, <2>1 DEF Chain
    <2>2. CASE i > Len(T1)
        <3>1. i - Len(T1) \in 1..Len(T2) /\ Len(T1) + (i - Len(T1)) = i
            BY <1>3, <1>4, <2>2
        <3>2. T[i] = T2[i - Len(T1)] /\ P[i] = p2[i - Len(T1)]
            BY <1>2, <1>3, <3>1
        <3> QED
            BY <3>1, <3>2 DEF Chain
    <2> QED
        BY <1>3, <1>4, <2>1, <2>2
<1>6. ASSUME NEW i \in 1..(Len(T) - 1)
      PROVE  Follows(ending, s, P[i], P[i + 1])
    <2>1. CASE i < Len(T1)
        <3>1. i \in 1..(Len(T1) - 1) /\ i \in 1..Len(T1) /\ i + 1 \in 1..Len(T1)
            BY <1>4, <2>1
        <3> QED
            BY <1>2, <3>1 DEF Chain
    <2>2. CASE i = Len(T1)
        <3>1. i \in 1..Len(T1) /\ 1 \in 1..Len(T2) /\ T1 # <<>> /\ T2 # <<>>
            BY <1>3, <1>4, <2>2
        <3> QED
            BY <1>2, <2>2, <3>1
    <2>3. CASE i > Len(T1)
        <3>1. /\ i - Len(T1) \in 1..(Len(T2) - 1) /\ Len(T1) + (i - Len(T1)) = i
              /\ i - Len(T1) \in 1..Len(T2)
              /\ (i - Len(T1)) + 1 \in 1..Len(T2) /\ Len(T1) + ((i - Len(T1)) + 1) = i + 1
            BY <1>3, <1>4, <2>3
        <3> QED
            BY <1>2, <3>1 DEF Chain
    <2> QED
        BY <1>3, <1>4, <2>1, <2>2, <2>3
<1> QED
    BY <1>2, <1>3, <1>5, <1>6 DEF Chain, P, T

LEMMA PauseChain ==
    ASSUME NEW s \in Seq(Events), s # <<>>, ending \in LineEnds
    PROVE  LET pause == <<Comment>> \o ending
               pl == [q \in 1..(Len(ending) + 1) |-> [ev |-> Len(s), line |-> 0, at |-> q - 1]]
           IN  /\ Chain(ending, s, pl, pause)
               /\ Len(pause) = Len(ending) + 1 /\ pause \in Seq(Tokens)
<1> DEFINE pause == <<Comment>> \o ending
           pl == [q \in 1..(Len(ending) + 1) |-> [ev |-> Len(s), line |-> 0, at |-> q - 1]]
<1>1. ending \in Seq(Tokens) /\ Len(ending) \in 1..2 /\ <<Comment>> \in Seq(Tokens)
    <2>1. Comment \in Tokens
        BY DEF Tokens
    <2> QED
        BY <2>1, Endings
<1>2. /\ pause \in Seq(Tokens) /\ Len(pause) = Len(ending) + 1
      /\ pause[1] = Comment /\ \A q \in 1..Len(ending) : pause[q + 1] = ending[q]
    BY <1>1
<1>3. Len(s) \in 1..Len(s) /\ s[Len(s)] \in Events /\ LineCount(s[Len(s)]) \in Nat \ {0}
    BY EventShape
<1>4. \A q \in 1..(Len(ending) + 1) : pl[q] \in Places(ending, s)
    BY <1>1, <1>3 DEF Places
<1>5. pl \in Seq(Places(ending, s)) /\ Len(pl) = Len(ending) + 1
    <2> DEFINE S == Places(ending, s)
    <2>1. pl \in [1..(Len(ending) + 1) -> S]
        BY <1>4
    <2> HIDE DEF S
    <2> QED
        <3>1. Len(ending) + 1 \in Nat
            BY <1>1
        <3> HIDE DEF pl
        <3>2. pl \in Seq(S) /\ Len(pl) = Len(ending) + 1
            BY <2>1, <3>1
        <3> QED
            BY <3>2 DEF S
<1>6. \A q \in 1..Len(pause) : pause[q] = Token(ending, s, pl[q])
    <2>1. Token(ending, s, pl[1]) = Comment
        BY <1>1 DEF Token
    <2>2. ASSUME NEW q \in 1..Len(ending) PROVE Token(ending, s, pl[q + 1]) = ending[q]
        BY <1>1, <2>2 DEF Token
    <2>3. \A q \in 1..Len(pause) : q = 1 \/ (q - 1 \in 1..Len(ending) /\ (q - 1) + 1 = q)
        BY <1>1, <1>2
    <2> HIDE DEF pl, pause
    <2> QED
        BY <1>2, <2>1, <2>2, <2>3
<1>7. \A q \in 1..(Len(pause) - 1) : Follows(ending, s, pl[q], pl[q + 1])
    <2> SUFFICES ASSUME NEW q \in 1..(Len(pause) - 1) PROVE Follows(ending, s, pl[q], pl[q + 1])
        OBVIOUS
    <2>1. q \in 1..Len(ending)
        BY <1>1, <1>2
    <2>2. /\ pl[q] = [ev |-> Len(s), line |-> 0, at |-> q - 1]
          /\ pl[q + 1] = [ev |-> Len(s), line |-> 0, at |-> q]
        BY <1>1, <2>1
    <2>3. q - 1 < Len(ending) /\ (q - 1) + 1 = q
        BY <1>1, <2>1
    <2> HIDE DEF pl
    <2>4. pl[q + 1] = [pl[q] EXCEPT !.at = @ + 1]
        BY <2>2, <2>3
    <2>5. pl[q].at < Len(ending)
        BY <2>2, <2>3
    <2> QED
        BY <2>4, <2>5 DEF Follows
<1> QED
    BY <1>2, <1>5, <1>6, <1>7 DEF Chain

LEMMA EventChain ==
    ASSUME NEW s \in Seq(Events), s # <<>>, Sse!Whole(s[Len(s)]), ending \in LineEnds
    PROVE  LET text == Sse!Format(s[Len(s)])
           IN  /\ text \in Seq(Tokens) /\ Len(text) \in Nat \ {0}
               /\ \E pl : /\ Script(ending, s, pl, text)
                          /\ pl[1] = [ev |-> Len(s), line |-> 1, at |-> 0]
<1> DEFINE e == s[Len(s)]
           text == Sse!Format(e)
           k == Len(ending)
           w == k + 1
           n == LineCount(e)
           m == n * w
           pl == [q \in 1..(m + k) |->
                     IF q <= m THEN [ev |-> Len(s), line |-> ((q - 1) \div w) + 1, at |-> (q - 1) % w]
                     ELSE [ev |-> Len(s), line |-> n + 1, at |-> q - m]]
<1>1. Len(s) \in 1..Len(s) /\ e \in Events /\ n \in Nat \ {0} /\ k \in 1..2 /\ w \in 2..3
    <2>1. Len(s) \in 1..Len(s) /\ e \in Events
        OBVIOUS
    <2>2. k \in 1..2 /\ w \in 2..3
        BY Endings
    <2> HIDE DEF e
    <2>3. n \in Nat \ {0}
        BY <2>1, EventShape
    <2> QED
        BY <2>1, <2>2, <2>3
<1>2. /\ text \in Seq(Tokens) /\ Len(text) = m + k
      /\ \A q \in 1..m : text[q] = IF ((q - 1) % w) = 0 THEN LineOf(e, ((q - 1) \div w) + 1)
                                   ELSE ending[(q - 1) % w]
      /\ \A q \in 1..k : text[m + q] = ending[q]
    BY <1>1, Formatted
<1>3. m \in Nat \ {0} /\ m >= w
    <2>1. CASE k = 1
        BY <1>1, <2>1
    <2>2. CASE k = 2
        BY <1>1, <2>2
    <2> QED
        BY <1>1, <2>1, <2>2
<1>4. \A q \in 1..m : /\ ((q - 1) \div w) + 1 \in 1..n /\ (q - 1) % w \in 0..k
                      /\ (q - 1) % w < k => q < m /\ (q % w) = ((q - 1) % w) + 1 /\ (q \div w) = ((q - 1) \div w)
                      /\ (q - 1) % w = k /\ q < m =>
                            (q % w) = 0 /\ (q \div w) = ((q - 1) \div w) + 1
                            /\ ((q - 1) \div w) + 1 < n
                      /\ (q - 1) % w = k /\ q = m => ((q - 1) \div w) + 1 = n
    <2> SUFFICES ASSUME NEW q \in 1..m
                 PROVE  /\ ((q - 1) \div w) + 1 \in 1..n /\ (q - 1) % w \in 0..k
                        /\ (q - 1) % w < k => q < m /\ (q % w) = ((q - 1) % w) + 1 /\ (q \div w) = ((q - 1) \div w)
                        /\ (q - 1) % w = k /\ q < m =>
                              (q % w) = 0 /\ (q \div w) = ((q - 1) \div w) + 1
                              /\ ((q - 1) \div w) + 1 < n
                        /\ (q - 1) % w = k /\ q = m => ((q - 1) \div w) + 1 = n
        OBVIOUS
    <2> HIDE DEF n
    <2>1. CASE k = 1
        BY <1>1, <2>1
    <2>2. CASE k = 2
        BY <1>1, <2>2
    <2> QED
        BY <1>1, <2>1, <2>2
<1> HIDE DEF m
<1>5. ASSUME NEW q \in 1..(m + k)
      PROVE  /\ pl[q] \in Places(ending, s) /\ text[q] = Token(ending, s, pl[q])
             /\ q < m + k => Follows(ending, s, pl[q], pl[q + 1])
    <2>1. CASE q < m \/ q = m
        <3> DEFINE j == ((q - 1) \div w) + 1
                   t == (q - 1) % w
        <3>1. q \in 1..m /\ pl[q] = [ev |-> Len(s), line |-> j, at |-> t]
            BY <1>3, <2>1
        <3>2. j \in 1..n /\ t \in 0..k
            BY <1>4, <3>1
        <3>3. text[q] = IF t = 0 THEN LineOf(e, j) ELSE ending[t]
            BY <1>2, <3>1
        <3>4. q = m => /\ t = k /\ j = n
                       /\ pl[q + 1] = [ev |-> Len(s), line |-> n + 1, at |-> 1]
            <4>1. q = m => t = k /\ j = n
                <5>1. (t < k => q < m) /\ (t = k /\ q = m => j = n)
                    BY <1>4, <3>1
                <5> HIDE DEF j, t
                <5> QED
                    BY <1>1, <1>3, <3>2, <5>1
            <4>2. q = m => q + 1 \in 1..(m + k) /\ ~(q + 1 <= m) /\ (q + 1) - m = 1
                BY <1>1, <1>3
            <4> QED
                BY <4>1, <4>2
        <3>5. q < m => pl[q + 1] = [ev |-> Len(s), line |-> (q \div w) + 1, at |-> q % w]
            <4>1. q < m => q + 1 \in 1..(m + k) /\ q + 1 <= m /\ (q + 1) - 1 = q
                BY <1>1, <1>3
            <4> QED
                BY <4>1
        <3>6. q < m /\ t < k => pl[q + 1] = [ev |-> Len(s), line |-> j, at |-> t + 1]
            BY <1>4, <3>1, <3>5
        <3>7. q < m /\ t = k => pl[q + 1] = [ev |-> Len(s), line |-> j + 1, at |-> 0] /\ j < n
            BY <1>4, <3>1, <3>5
        <3>8. t < k => q < m
            BY <1>4, <3>1
        <3> HIDE DEF j, t, pl, m, text
        <3>9. pl[q] \in Places(ending, s) /\ text[q] = Token(ending, s, pl[q])
            BY <1>1, <3>1, <3>2, <3>3 DEF Places, Token
        <3>10. CASE t < k
            BY <3>1, <3>6, <3>8, <3>10, <3>9 DEF Follows
        <3>11. CASE t = k /\ q < m
            BY <1>1, <3>1, <3>2, <3>7, <3>9, <3>11 DEF Follows, Begins
        <3>12. CASE t = k /\ q = m
            BY <1>1, <3>1, <3>2, <3>4, <3>9, <3>12 DEF Follows, Begins
        <3> QED
            BY <1>1, <2>1, <3>2, <3>10, <3>11, <3>12
    <2>2. CASE q > m
        <3>1. /\ q - m \in 1..k /\ m + (q - m) = q
              /\ pl[q] = [ev |-> Len(s), line |-> n + 1, at |-> q - m]
            BY <1>1, <1>3, <2>2
        <3>2. text[q] = ending[q - m]
            BY <1>2, <3>1
        <3>3. q < m + k => pl[q + 1] = [ev |-> Len(s), line |-> n + 1, at |-> (q - m) + 1]
                           /\ q - m < k
            <4>1. q < m + k => /\ q + 1 \in 1..(m + k) /\ ~(q + 1 <= m)
                               /\ (q + 1) - m = (q - m) + 1 /\ q - m < k
                BY <1>1, <1>3, <2>2
            <4> QED
                BY <4>1
        <3> HIDE DEF pl, m, text
        <3>4. pl[q] \in Places(ending, s) /\ text[q] = Token(ending, s, pl[q])
            BY <1>1, <3>1, <3>2 DEF Places, Token
        <3> QED
            BY <3>1, <3>3, <3>4 DEF Follows
    <2> QED
        BY <1>3, <2>1, <2>2
<1>6. pl \in Seq(Places(ending, s)) /\ Len(pl) = m + k
    <2> DEFINE S == Places(ending, s)
    <2> HIDE DEF m
    <2>1. pl \in [1..(m + k) -> S]
        BY <1>5
    <2> HIDE DEF S, pl
    <2>2. m + k \in Nat
        BY <1>1, <1>3
    <2>3. pl \in Seq(S) /\ Len(pl) = m + k
        BY <2>1, <2>2
    <2> QED
        BY <2>3 DEF S
<1>7. m + k \in 1..(m + k) /\ pl[m + k] = [ev |-> Len(s), line |-> n + 1, at |-> k]
    <2>1. m + k \in 1..(m + k) /\ ~(m + k <= m) /\ (m + k) - m = k
        BY <1>1, <1>3
    <2> QED
        BY <2>1
<1>8. pl[1] = [ev |-> Len(s), line |-> 1, at |-> 0]
    <2>1. 1 \in 1..(m + k) /\ 1 <= m /\ (1 - 1) \div w = 0 /\ (1 - 1) % w = 0
        BY <1>1, <1>3
    <2> QED
        BY <2>1
<1> HIDE DEF pl, m, text
<1>9. Chain(ending, s, pl, text)
    <2> DEFINE size == m + k
    <2>2. Len(text) = size /\ size \in Nat
        BY <1>1, <1>2, <1>3
    <2> HIDE DEF size
    <2>3. \A q \in 1..(size - 1) : q \in 1..size /\ q < size
        BY <2>2
    <2>1. \A q \in 1..(Len(text) - 1) : q \in 1..(m + k) /\ q < m + k
        BY <2>2, <2>3 DEF size
    <2> QED
        BY <1>2, <1>5, <1>6, <2>1 DEF Chain
<1>10. Script(ending, s, pl, text)
    BY <1>2, <1>7, <1>9 DEF Script, Ends
<1>11. Len(text) \in Nat \ {0}
    BY <1>1, <1>2, <1>3
<1> QED
    BY <1>2, <1>8, <1>10, <1>11 DEF text

LEMMA Associative ==
    ASSUME NEW s \in Seq(Tokens), NEW t \in Seq(Tokens), NEW u \in Seq(Tokens)
    PROVE  (s \o t) \o u = s \o (t \o u)
    OBVIOUS

LEMMA Appended ==
    ASSUME NEW s \in Seq(Events), NEW e \in Events, Sse!Whole(e), NEW places,
           NEW T \in Seq(Tokens), Script(ending, s, places, T), ending \in LineEnds,
           NEW pause \in {<<>>, <<Comment>> \o ending}
    PROVE  LET t == Append(s, e)
               X == pause \o Sse!Format(e)
           IN  /\ X \in Seq(Tokens) /\ X # <<>>
               /\ \E pl : /\ Script(ending, t, pl, T \o X)
                          /\ T # <<>> => pl[1] = places[1]
                          /\ T = <<>> => /\ pl[1].ev = Len(t) /\ pl[1].at = 0
                                         /\ pl[1].line \in {0, 1}
<1> DEFINE t == Append(s, e)
           text == Sse!Format(e)
           X == pause \o text
           k == Len(ending)
<1>1. /\ t \in Seq(Events) /\ t # <<>> /\ t[Len(t)] = e /\ Len(t) = Len(s) + 1
      /\ \A i \in 1..Len(s) : t[i] = s[i]
    OBVIOUS
<1>2. k \in 1..2
    BY Endings
<1> HIDE DEF t
<1>3. LineCount(e) \in Nat \ {0}
    BY EventShape
<1>4. text \in Seq(Tokens) /\ Len(text) \in Nat \ {0}
    BY <1>1, EventChain
<1>5. PICK pe : Script(ending, t, pe, text) /\ pe[1] = [ev |-> Len(t), line |-> 1, at |-> 0]
    BY <1>1, EventChain
<1> HIDE DEF text
<1>6. /\ X \in Seq(Tokens) /\ Len(X) \in Nat \ {0}
      /\ \E px : /\ Script(ending, t, px, X)
                 /\ px[1].ev = Len(t) /\ px[1].at = 0 /\ px[1].line \in {0, 1}
    <2>1. CASE pause = <<>>
        <3>1. X = text
            BY <1>4, <2>1
        <3>2. /\ Script(ending, t, pe, X)
              /\ pe[1].ev = Len(t) /\ pe[1].at = 0 /\ pe[1].line \in {0, 1}
            BY <1>5, <3>1
        <3>3. X \in Seq(Tokens) /\ Len(X) \in Nat \ {0}
            BY <1>4, <3>1
        <3> QED
            BY <3>2, <3>3
    <2>2. CASE pause = <<Comment>> \o ending
        <3> DEFINE pp == [q \in 1..(k + 1) |-> [ev |-> Len(t), line |-> 0, at |-> q - 1]]
        <3>1. Chain(ending, t, pp, pause) /\ Len(pause) = k + 1 /\ pause \in Seq(Tokens)
            BY <1>1, <2>2, PauseChain
        <3>2. /\ pp[Len(pause)] = [ev |-> Len(t), line |-> 0, at |-> k]
              /\ pp[1] = [ev |-> Len(t), line |-> 0, at |-> 0]
            BY <1>2, <3>1
        <3> HIDE DEF pp
        <3>3. Follows(ending, t, pp[Len(pause)], pe[1])
            BY <1>1, <1>2, <1>3, <1>5, <3>2 DEF Follows, Begins
        <3>4. Chain(ending, t, pp \o pe, X)
            BY <1>1, <1>4, <1>5, <3>1, <3>3, ChainJoin DEF Script
        <3> DEFINE px == pp \o pe
        <3>5. /\ X \in Seq(Tokens) /\ Len(X) = Len(pause) + Len(text)
              /\ Len(pp) = Len(pause) /\ Len(pe) = Len(text)
              /\ pp \in Seq(Places(ending, t)) /\ pe \in Seq(Places(ending, t))
            BY <1>4, <1>5, <3>1, Joined DEF Chain, Script
        <3>6. px[1] = pp[1] /\ px[Len(X)] = pe[Len(text)]
            <4> DEFINE S == Places(ending, t)
            <4>1. pp \in Seq(S) /\ pe \in Seq(S)
                BY <3>5
            <4> HIDE DEF S
            <4>2. 1 \in 1..Len(pp) /\ Len(pe) \in 1..Len(pe)
                BY <1>2, <1>4, <3>1, <3>5
            <4>3. px[1] = pp[1]
                BY <4>1, <4>2, Joined
            <4>4. px[Len(pp) + Len(pe)] = pe[Len(pe)]
                BY <4>1, <4>2, Joined
            <4> QED
                BY <3>5, <4>3, <4>4
        <3> HIDE DEF px
        <3>7. Script(ending, t, px, X)
            <4>1. text # <<>>
                BY <1>4
            <4> QED
                BY <1>5, <3>4, <3>6, <4>1 DEF Script, px
        <3>8. Len(X) \in Nat \ {0}
            BY <1>2, <1>4, <3>1, <3>5
        <3> QED
            BY <3>2, <3>5, <3>6, <3>7, <3>8
    <2> QED
        BY <2>1, <2>2
<1>7. PICK px : /\ Script(ending, t, px, X)
                /\ px[1].ev = Len(t) /\ px[1].at = 0 /\ px[1].line \in {0, 1}
    BY <1>6
<1> HIDE DEF X
<1>8. Chain(ending, t, places, T)
    BY ChainGrows DEF Script, t
<1>9. T # <<>> => Follows(ending, t, places[Len(T)], px[1])
    <2> SUFFICES ASSUME T # <<>> PROVE Follows(ending, t, places[Len(T)], px[1])
        OBVIOUS
    <2>1. Ends(ending, s, places[Len(T)])
        BY DEF Script
    <2>2. places[Len(T)] \in Places(ending, s)
        <3> DEFINE S == Places(ending, s)
        <3>1. places \in Seq(S) /\ Len(places) = Len(T) /\ Len(T) \in 1..Len(T)
            BY DEF Script, Chain
        <3> HIDE DEF S
        <3>2. places[Len(T)] \in S
            BY <3>1
        <3> QED
            BY <3>2 DEF S
    <2>3. places[Len(T)].ev \in 1..Len(s) /\ places[Len(T)].line \in Nat
        BY <2>2 DEF Places
    <2>4. t[places[Len(T)].ev] = s[places[Len(T)].ev] /\ s[places[Len(T)].ev] \in Events
        BY <1>1, <2>3
    <2>5. LineCount(s[places[Len(T)].ev]) \in Nat
        BY <2>4, EventShape
    <2>6. Begins(t, px[1])
        BY <1>1, <1>3, <1>7 DEF Begins
    <2> QED
        BY <1>1, <1>2, <1>7, <2>1, <2>3, <2>4, <2>5, <2>6 DEF Follows, Ends
<1> DEFINE pl == places \o px
<1>10. Chain(ending, t, pl, T \o X)
    BY <1>1, <1>6, <1>7, <1>8, <1>9, ChainJoin DEF Script
<1>11. /\ places \in Seq(Places(ending, t)) /\ px \in Seq(Places(ending, t))
       /\ Len(places) = Len(T) /\ Len(px) = Len(X)
    BY <1>7, <1>8 DEF Script, Chain
<1>12. /\ pl[Len(T) + Len(X)] = px[Len(X)]
       /\ T # <<>> => pl[1] = places[1]
       /\ T = <<>> => pl[1] = px[1]
    <2> DEFINE S == Places(ending, t)
    <2>1. places \in Seq(S) /\ px \in Seq(S)
        BY <1>11
    <2> HIDE DEF S
    <2>2. Len(px) \in 1..Len(px) /\ 1 \in 1..Len(px)
        BY <1>6, <1>11
    <2>3. pl[Len(places) + Len(px)] = px[Len(px)] /\ pl[Len(places) + 1] = px[1]
        BY <2>1, <2>2, Joined
    <2>4. T # <<>> => 1 \in 1..Len(places)
        BY <1>11
    <2>5. T # <<>> => pl[1] = places[1]
        BY <2>1, <2>4, Joined
    <2>6. T = <<>> => Len(places) + 1 = 1
        BY <1>11
    <2>7. T = <<>> => pl[1] = px[1]
        BY <2>3, <2>6
    <2>8. pl[Len(T) + Len(X)] = px[Len(X)]
        BY <1>11, <2>3
    <2> QED
        BY <2>5, <2>7, <2>8
<1>13. Len(T \o X) = Len(T) + Len(X)
    BY <1>6
<1> HIDE DEF pl
<1>14. Script(ending, t, pl, T \o X)
    <2>1. Ends(ending, t, px[Len(X)])
        BY <1>6, <1>7 DEF Script
    <2> QED
        BY <1>10, <1>12, <1>13, <2>1 DEF Script
<1> QED
    BY <1>6, <1>7, <1>12, <1>14 DEF X, t, text

LEMMA Produced ==
    ASSUME SseInv, Sse!Produce
    PROVE  SseInv'
<1> SUFFICES ASSUME ~hurt' PROVE SseInv'
    BY DEF SseInv, Sse!Produce, LineEnds
<1>0. ~hurt
    BY DEF Sse!Produce
<1>1. /\ ending \in LineEnds /\ sent \in Seq(Events) /\ buffer \in Seq(Tokens) /\ wire \in Seq(Tokens)
      /\ got = SubSeq(sent, 1, Len(got)) /\ got \in Seq(Events) /\ Len(got) <= Len(sent)
      /\ stream = "open" /\ Reads(ending, sent, got, pending, buffer \o wire)
      /\ buffer # <<>> /\ wire # <<>> => ~(buffer[Len(buffer)] = Sse!CR /\ wire[1] = Sse!LF)
    BY <1>0 DEF SseInv, Sse!Produce, LineEnds
<1>2. PICK e \in Events, pause \in {<<>>, <<Comment>> \o ending} :
         /\ sent' = Append(sent, e)
         /\ wire' = wire \o pause \o Sse!Format(e)
         /\ Sse!Whole(e)
         /\ UNCHANGED <<ending, buffer, pending, got, stream>>
    BY DEF Sse!Produce, Comment
<1> DEFINE T == buffer \o wire
           X == pause \o Sse!Format(e)
<1>3. T \in Seq(Tokens) /\ Len(T) = Len(buffer) + Len(wire)
    BY <1>1, Joined
<1>4. PICK places : /\ Script(ending, sent, places, T)
                    /\ IF T = <<>> THEN Len(got) = Len(sent) /\ pending = Sse!NoFields
                       ELSE Stands(sent, got, pending, places[1])
    BY <1>1 DEF Reads
<1>5. /\ X \in Seq(Tokens) /\ X # <<>>
      /\ \E pl : /\ Script(ending, Append(sent, e), pl, T \o X)
                 /\ T # <<>> => pl[1] = places[1]
                 /\ T = <<>> => /\ pl[1].ev = Len(Append(sent, e)) /\ pl[1].at = 0
                                /\ pl[1].line \in {0, 1}
    <2> HIDE DEF T
    <2> QED
        BY <1>1, <1>2, <1>3, <1>4, Appended
<1>6. PICK pl : /\ Script(ending, sent', pl, T \o X)
                /\ T # <<>> => pl[1] = places[1]
                /\ T = <<>> => /\ pl[1].ev = Len(sent') /\ pl[1].at = 0
                               /\ pl[1].line \in {0, 1}
    BY <1>2, <1>5
<1>7. wire' = wire \o X /\ buffer' \o wire' = T \o X
    <2> DEFINE F == Sse!Format(e)
    <2>1. pause \in Seq(Tokens) /\ Comment \in Tokens
        <3>1. Comment \in Tokens
            BY DEF Tokens
        <3>2. <<Comment>> \in Seq(Tokens) /\ ending \in Seq(Tokens)
            BY <1>1, <3>1, Endings
        <3>3. <<Comment>> \o ending \in Seq(Tokens)
            BY <3>2, Joined
        <3>4. <<>> \in Seq(Tokens)
            OBVIOUS
        <3> QED
            BY <1>2, <3>1, <3>3, <3>4
    <2>2. F \in Seq(Tokens)
        BY <1>1, <1>2, Formatted
    <2> HIDE DEF F
    <2>3. wire' = wire \o (pause \o F)
        <3>1. wire' = (wire \o pause) \o F
            BY <1>2 DEF F
        <3>2. wire \in Seq(Tokens) /\ pause \in Seq(Tokens)
            BY <1>1, <2>1
        <3>3. (wire \o pause) \o F = wire \o (pause \o F)
            BY <2>2, <3>2, Associative, Zenon
        <3> QED
            BY <3>1, <3>3
    <2>4. X = pause \o F
        BY DEF F
    <2> HIDE DEF X
    <2>5. buffer \in Seq(Tokens) /\ wire \in Seq(Tokens) /\ X \in Seq(Tokens)
        BY <1>1, <1>5
    <2>6. (buffer \o wire) \o X = buffer \o (wire \o X)
        BY <2>5, Associative, Zenon
    <2> QED
        BY <1>2, <2>3, <2>4, <2>6
<1> HIDE DEF X
<1>8. /\ sent' \in Seq(Events) /\ sent'[Len(sent')] = e /\ Len(sent') = Len(sent) + 1
      /\ \A i \in 1..Len(sent) : sent'[i] = sent[i]
    BY <1>1, <1>2
<1>9. got = SubSeq(sent', 1, Len(got)) /\ Len(got) <= Len(sent')
    BY <1>1, <1>2, <1>8
<1>10. wire' \in Seq(Tokens) /\ T \o X \in Seq(Tokens) /\ T \o X # <<>>
    BY <1>1, <1>3, <1>5, <1>7, Joined
<1>11. /\ pl[1].ev = Len(got) + 1 /\ Begins(sent', pl[1])
       /\ pending = FieldsRead(sent'[pl[1].ev], IF pl[1].line = 0 THEN 0 ELSE pl[1].line - 1)
    <2>1. CASE T = <<>>
        <3>1. LineCount(e) \in Nat \ {0} /\ Named(e) \in {0, 1}
            BY EventShape
        <3>2. FieldsRead(e, 0) = Sse!NoFields
            BY <3>1 DEF FieldsRead, Sse!NoFields, Named
        <3>3. (IF pl[1].line = 0 THEN 0 ELSE pl[1].line - 1) = 0
            BY <1>6, <2>1
        <3> HIDE DEF T
        <3> QED
            BY <1>4, <1>6, <1>8, <2>1, <3>1, <3>2, <3>3 DEF Begins
    <2>2. CASE T # <<>>
        <3> DEFINE P == Places(ending, sent)
        <3>1. places \in Seq(P) /\ Len(places) = Len(T)
            BY <1>4 DEF Script, Chain
        <3> HIDE DEF P, T
        <3>2. places[1] \in P
            BY <1>3, <2>2, <3>1
        <3>3. places[1].ev \in 1..Len(sent)
            BY <3>2 DEF P, Places
        <3> QED
            BY <1>4, <1>6, <1>8, <2>2, <3>3 DEF Stands, Begins
    <2> QED
        BY <2>1, <2>2
<1>12. Reads(ending, sent, got, pending, buffer \o wire)'
    <2>1. ending' = ending /\ got' = got /\ pending' = pending
        BY <1>2
    <2>2. Stands(sent', got', pending', pl[1])
        BY <1>11, <2>1 DEF Stands
    <2>3. Script(ending', sent', pl, buffer' \o wire')
        BY <1>6, <1>7, <2>1
    <2>4. buffer' \o wire' # <<>>
        BY <1>7, <1>10
    <2> QED
        BY <2>2, <2>3, <2>4 DEF Reads
<1>13. buffer' # <<>> /\ wire' # <<>> => ~(buffer'[Len(buffer')] = Sse!CR /\ wire'[1] = Sse!LF)
    <2> SUFFICES ASSUME buffer # <<>> PROVE ~(buffer[Len(buffer)] = Sse!CR /\ wire'[1] = Sse!LF)
        BY <1>2
    <2>1. CASE wire # <<>>
        <3>1. 1 \in 1..Len(wire)
            BY <1>1, <2>1
        <3>2. wire'[1] = wire[1]
            BY <1>1, <1>5, <1>7, <3>1, Joined
        <3> QED
            BY <1>1, <2>1, <3>2
    <2>2. CASE wire = <<>>
        <3>1. T = buffer
            BY <1>1, <2>2
        <3>2. Ends(ending, sent, places[Len(T)])
            BY <1>4, <3>1 DEF Script
        <3>3. T[Len(T)] = Token(ending, sent, places[Len(T)])
            <4>1. Len(T) \in 1..Len(T)
                BY <1>1, <3>1
            <4> QED
                BY <1>4, <4>1 DEF Script, Chain
        <3>4. T[Len(T)] = Sse!LF
            BY <1>1, <3>2, <3>3, Endings DEF Ends, Token
        <3> QED
            BY <3>1, <3>4, EndsDiffer
    <2> QED
        BY <2>1, <2>2
<1> QED
    BY <1>1, <1>2, <1>8, <1>9, <1>10, <1>12, <1>13 DEF SseInv, LineEnds

LEMMA OneMore ==
    ASSUME NEW S, NEW d \in Seq(S), NEW i \in 1..Len(d)
    PROVE  SubSeq(d, 1, i) = Append(SubSeq(d, 1, i - 1), d[i])
<1> DEFINE longer == SubSeq(d, 1, i)
           shorter == SubSeq(d, 1, i - 1)
           grown == Append(shorter, d[i])
<1>1. longer \in Seq(S) /\ Len(longer) = i /\ \A k \in 1..i : longer[k] = d[k]
    OBVIOUS
<1>2. shorter \in Seq(S) /\ Len(shorter) = i - 1 /\ \A k \in 1..(i - 1) : shorter[k] = d[k]
    OBVIOUS
<1>3. d[i] \in S /\ i - 1 \in Nat
    OBVIOUS
<1> HIDE DEF longer, shorter
<1>4. grown \in Seq(S) /\ Len(grown) = i /\ grown[i] = d[i]
      /\ \A k \in 1..(i - 1) : grown[k] = shorter[k]
    BY <1>2, <1>3
<1> HIDE DEF grown
<1>5. \A k \in 1..i : grown[k] = longer[k]
    BY <1>1, <1>2, <1>4
<1>6. grown = longer
    BY <1>1, <1>4, <1>5
<1> QED
    BY <1>6 DEF grown, longer, shorter

LEMMA FieldStep ==
    ASSUME NEW e \in Events
    PROVE  /\ FieldsRead(e, 0) = Sse!NoFields
           /\ FieldsRead(e, LineCount(e)) = e
           /\ \A j \in 1..LineCount(e) :
                 LET l == LineOf(e, j)
                     f == FieldsRead(e, j - 1)
                 IN  \/ l.is = "event" /\ [f EXCEPT !.name = l.val] = FieldsRead(e, j)
                     \/ l.is = "data" /\ [f EXCEPT !.data = Append(@, l.val)] = FieldsRead(e, j)
<1>1. /\ e = [name |-> e.name, data |-> e.data]
      /\ e.data \in Seq(Texts) /\ Len(e.data) \in Nat \ {0}
      /\ Named(e) \in {0, 1}
    BY EventShape
<1>2. LineCount(e) = Named(e) + Len(e.data)
    BY DEF LineCount
<1>3. Named(e) = 0 => e.name = NoName
    BY DEF Named
<1>4. FieldsRead(e, 0) = Sse!NoFields
    BY <1>1, <1>3 DEF FieldsRead, Sse!NoFields
<1>5. FieldsRead(e, LineCount(e)) = e
    <2>1. SubSeq(e.data, 1, Len(e.data)) = e.data
        BY <1>1
    <2>2. ~(LineCount(e) < Named(e)) /\ ~(LineCount(e) <= Named(e))
          /\ LineCount(e) - Named(e) = Len(e.data)
        BY <1>1, <1>2
    <2> QED
        BY <1>1, <2>1, <2>2 DEF FieldsRead
<1>6. ASSUME NEW j \in 1..LineCount(e)
      PROVE  LET l == LineOf(e, j)
                 f == FieldsRead(e, j - 1)
             IN  \/ l.is = "event" /\ [f EXCEPT !.name = l.val] = FieldsRead(e, j)
                 \/ l.is = "data" /\ [f EXCEPT !.data = Append(@, l.val)] = FieldsRead(e, j)
    <2>1. CASE j <= Named(e)
        <3>1. j = 1 /\ Named(e) = 1
            BY <1>1, <2>1
        <3>2. FieldsRead(e, j - 1) = [name |-> NoName, data |-> <<>>]
            BY <3>1 DEF FieldsRead
        <3>3. FieldsRead(e, j) = [name |-> e.name, data |-> <<>>]
            BY <3>1 DEF FieldsRead
        <3>4. LineOf(e, j) = [is |-> "event", val |-> e.name]
            BY <2>1 DEF LineOf
        <3> QED
            BY <3>2, <3>3, <3>4
    <2>2. CASE ~(j <= Named(e))
        <3> DEFINE i == j - Named(e)
        <3>1. i \in 1..Len(e.data) /\ i - 1 \in 0..Len(e.data)
              /\ (j - 1) - Named(e) = i - 1
            BY <1>1, <1>2, <2>2
        <3>2. ~(j < Named(e)) /\ ~(j - 1 < Named(e))
            BY <1>1, <2>2
        <3>3. j - 1 <= Named(e) => i = 1
            BY <1>1, <2>2
        <3>4. LineOf(e, j) = [is |-> "data", val |-> e.data[i]]
            BY <2>2 DEF LineOf
        <3>5. FieldsRead(e, j) = [name |-> e.name, data |-> SubSeq(e.data, 1, i)]
            BY <2>2, <3>2 DEF FieldsRead
        <3> HIDE DEF i
        <3>6. FieldsRead(e, j - 1) = [name |-> e.name, data |-> SubSeq(e.data, 1, i - 1)]
            <4>1. CASE j - 1 <= Named(e)
                <5>1. SubSeq(e.data, 1, i - 1) = <<>>
                    BY <1>1, <3>3, <4>1
                <5> QED
                    BY <3>2, <4>1, <5>1 DEF FieldsRead
            <4>2. CASE ~(j - 1 <= Named(e))
                BY <3>1, <3>2, <4>2 DEF FieldsRead
            <4> QED
                BY <4>1, <4>2
        <3>7. SubSeq(e.data, 1, i) = Append(SubSeq(e.data, 1, i - 1), e.data[i])
            BY <1>1, <3>1, OneMore
        <3> DEFINE before == SubSeq(e.data, 1, i - 1)
                   f == FieldsRead(e, j - 1)
                   l == LineOf(e, j)
        <3>8. l.is = "data" /\ l.val = e.data[i]
            BY <3>4
        <3>9. f = [name |-> e.name, data |-> before]
            BY <3>6
        <3> HIDE DEF before, f, l
        <3>10. [f EXCEPT !.data = Append(@, l.val)] = [name |-> e.name, data |-> Append(before, l.val)]
            BY <3>9
        <3>11. [f EXCEPT !.data = Append(@, l.val)] = FieldsRead(e, j)
            BY <3>5, <3>7, <3>8, <3>10 DEF before
        <3> QED
            BY <3>8, <3>11 DEF f, l
    <2> QED
        BY <2>1, <2>2
<1> QED
    BY <1>4, <1>5, <1>6

\* What is left of the text behind its first m tokens.
LEMMA ScriptRest ==
    ASSUME NEW s, NEW places, NEW T \in Seq(Tokens), NEW m \in 1..Len(T),
           Script(ending, s, places, T)
    PROVE  LET U == SubSeq(T, m + 1, Len(T))
               pl == SubSeq(places, m + 1, Len(T))
           IN  /\ U \in Seq(Tokens) /\ Script(ending, s, pl, U)
               /\ U # <<>> => m + 1 <= Len(T) /\ pl[1] = places[m + 1]
               /\ U = <<>> => m = Len(T)
<1> DEFINE U == SubSeq(T, m + 1, Len(T))
           pl == SubSeq(places, m + 1, Len(T))
           S == Places(ending, s)
<1>1. places \in Seq(S) /\ Len(places) = Len(T) /\ Len(T) \in Nat
    BY DEF Script, Chain
<1>2. /\ \A i \in 1..Len(T) : T[i] = Token(ending, s, places[i])
      /\ \A i \in 1..(Len(T) - 1) : Follows(ending, s, places[i], places[i + 1])
      /\ T # <<>> => Ends(ending, s, places[Len(T)])
    BY DEF Script, Chain
<1> HIDE DEF S
<1>3. U \in Seq(Tokens) /\ Len(U) = Len(T) - m /\ \A i \in 1..Len(U) : U[i] = T[m + i]
    OBVIOUS
<1>4. pl \in Seq(S) /\ Len(pl) = Len(T) - m /\ \A i \in 1..Len(U) : pl[i] = places[m + i]
    BY <1>1, <1>3
<1> HIDE DEF U, pl
<1>5. \A i \in 1..Len(U) : m + i \in 1..Len(T)
    BY <1>1, <1>3
<1>6. \A i \in 1..(Len(U) - 1) : i \in 1..Len(U) /\ i + 1 \in 1..Len(U) /\ m + i \in 1..(Len(T) - 1)
                                 /\ m + (i + 1) = (m + i) + 1
    BY <1>1, <1>3
<1>7. \A i \in 1..Len(U) : U[i] = Token(ending, s, pl[i])
    BY <1>2, <1>3, <1>4, <1>5
<1>8. ASSUME NEW i \in 1..(Len(U) - 1)
      PROVE  Follows(ending, s, pl[i], pl[i + 1])
    <2>1. i \in 1..Len(U) /\ i + 1 \in 1..Len(U) /\ m + (i + 1) = (m + i) + 1
        BY <1>6
    <2>2. pl[i] = places[m + i]
        BY <1>4, <2>1
    <2>3. pl[i + 1] = places[m + (i + 1)]
        BY <1>4, <2>1
    <2> QED
        BY <1>2, <1>6, <2>1, <2>2, <2>3
<1>9. U # <<>> => Len(U) \in 1..Len(U) /\ m + Len(U) = Len(T) /\ 1 \in 1..Len(U) /\ T # <<>>
    BY <1>1, <1>3
<1>10. U # <<>> => Ends(ending, s, pl[Len(U)])
    BY <1>2, <1>4, <1>9
<1>11. Len(pl) = Len(U) /\ pl \in Seq(Places(ending, s))
    BY <1>3, <1>4 DEF S
<1>12. Script(ending, s, pl, U)
    BY <1>7, <1>8, <1>10, <1>11 DEF Script, Chain
<1>13. U # <<>> => m + 1 <= Len(T) /\ pl[1] = places[m + 1]
    BY <1>1, <1>3, <1>4, <1>9
<1>14. U = <<>> => m = Len(T)
    BY <1>1, <1>3
<1> QED
    BY <1>3, <1>12, <1>13, <1>14 DEF U, pl

LEMMA Behind ==
    ASSUME NEW S, NEW tail \in Seq(S), NEW m \in 0..Len(tail)
    PROVE  LET c == SubSeq(tail, m + 1, Len(tail))
           IN  c \in Seq(S) /\ Len(c) = Len(tail) - m /\ \A i \in 1..Len(c) : c[i] = tail[m + i]
    OBVIOUS

LEMMA CutJoined ==
    ASSUME NEW tail \in Seq(Tokens), NEW r \in Seq(Tokens), NEW m \in 0..Len(tail)
    PROVE  SubSeq(tail \o r, m + 1, Len(tail \o r)) = SubSeq(tail, m + 1, Len(tail)) \o r
<1> DEFINE T == tail \o r
           U == SubSeq(T, m + 1, Len(T))
           c == SubSeq(tail, m + 1, Len(tail))
           V == c \o r
<1>1. /\ T \in Seq(Tokens) /\ Len(T) = Len(tail) + Len(r)
      /\ \A i \in 1..Len(tail) : T[i] = tail[i]
      /\ \A i \in 1..Len(r) : T[Len(tail) + i] = r[i]
    BY Joined
<1>2. c \in Seq(Tokens) /\ Len(c) = Len(tail) - m /\ \A i \in 1..Len(c) : c[i] = tail[m + i]
    BY Behind
<1> HIDE DEF T, c
<1>3. U \in Seq(Tokens) /\ Len(U) = Len(T) - m /\ \A i \in 1..Len(U) : U[i] = T[m + i]
    BY <1>1
<1>4. /\ V \in Seq(Tokens) /\ Len(V) = Len(c) + Len(r)
      /\ \A i \in 1..Len(c) : V[i] = c[i]
      /\ \A i \in 1..Len(r) : V[Len(c) + i] = r[i]
    <2>1. c \in Seq(Tokens)
        BY <1>2
    <2>2. V \in Seq(Tokens) /\ Len(V) = Len(c) + Len(r)
        BY <2>1, Joined
    <2>3. \A i \in 1..Len(c) : V[i] = c[i]
        BY <2>1, Joined
    <2>4. \A i \in 1..Len(r) : V[Len(c) + i] = r[i]
        BY <2>1, Joined
    <2> QED
        BY <2>2, <2>3, <2>4
<1> HIDE DEF U, V
<1>5. ASSUME NEW i \in 1..Len(U)
      PROVE  U[i] = V[i]
    <2>1. CASE i <= Len(c)
        <3>1. i \in 1..Len(c) /\ m + i \in 1..Len(tail)
            BY <1>2, <1>3, <2>1
        <3> QED
            BY <1>1, <1>2, <1>3, <1>4, <3>1
    <2>2. CASE i > Len(c)
        <3> DEFINE j == i - Len(c)
        <3>1. j \in 1..Len(r) /\ i = Len(c) + j /\ m + i = Len(tail) + j
            BY <1>1, <1>2, <1>3, <2>2
        <3> HIDE DEF j
        <3>2. T[m + i] = r[j] /\ V[i] = r[j]
            BY <1>1, <1>4, <3>1
        <3> QED
            BY <1>3, <3>2
    <2> QED
        BY <1>2, <2>1, <2>2
<1>6. Len(U) = Len(V)
    BY <1>1, <1>2, <1>3, <1>4
<1>7. U = V
    BY <1>3, <1>4, <1>5, <1>6
<1> QED
    BY <1>7 DEF U, V, T, c

\* Where the first line of the buffer ends.
FirstBreak == CHOOSE k \in Sse!Breaks : \A j \in Sse!Breaks : k <= j
LinePast ==
    IF FirstBreak < Len(buffer) /\ buffer[FirstBreak] = Sse!CR /\ buffer[FirstBreak + 1] = Sse!LF
    THEN FirstBreak + 1 ELSE FirstBreak

\* Place i of the text and what it holds.
Holds(end, s, places, T, i) ==
    /\ places[i].ev \in 1..Len(s) /\ places[i].line \in Nat /\ places[i].at \in 0..Len(end)
    /\ places[i] = [ev |-> places[i].ev, line |-> places[i].line, at |-> places[i].at]
    /\ s[places[i].ev] \in Events /\ places[i].line <= LineCount(s[places[i].ev]) + 1
    /\ places[i].at = 0 => places[i].line <= LineCount(s[places[i].ev])
    /\ T[i] = Token(end, s, places[i])
    /\ T[i] \in {Sse!CR, Sse!LF} <=> places[i].at # 0

LEMMA PlaceShape ==
    ASSUME NEW s \in Seq(Events), NEW places, NEW T, Script(ending, s, places, T),
           ending \in LineEnds, NEW i \in 1..Len(T)
    PROVE  Holds(ending, s, places, T, i)
<1> DEFINE S == Places(ending, s)
<1>1. places \in Seq(S) /\ Len(places) = Len(T) /\ T[i] = Token(ending, s, places[i])
    BY DEF Script, Chain
<1> HIDE DEF S
<1>2. places[i] \in S
    BY <1>1
<1> DEFINE p == places[i]
<1> HIDE DEF p
<1>3. p \in [ev : 1..Len(s), line : Nat, at : 0..Len(ending)]
      /\ p.line <= LineCount(s[p.ev]) + 1
      /\ (p.line = LineCount(s[p.ev]) + 1 => p.at # 0)
    BY <1>2 DEF S, Places, p
<1>4. p.ev \in 1..Len(s) /\ p.line \in Nat /\ p.at \in 0..Len(ending)
      /\ p = [ev |-> p.ev, line |-> p.line, at |-> p.at]
    BY <1>3
<1>5. s[p.ev] \in Events
    BY <1>4
<1>6. LineCount(s[p.ev]) \in Nat \ {0}
    BY <1>5, EventShape
<1>7. p.at = 0 => p.line <= LineCount(s[p.ev])
    BY <1>3, <1>4, <1>6
<1>8. T[i] \in {Sse!CR, Sse!LF} <=> p.at # 0
    <2>1. T[i] = Token(ending, s, p)
        BY <1>1 DEF p
    <2>2. CASE p.at # 0
        <3>1. p.at \in 1..Len(ending)
            BY <1>4, <2>2, Endings
        <3>2. T[i] = ending[p.at]
            BY <2>1, <2>2 DEF Token
        <3> QED
            BY <2>2, <3>1, <3>2, Endings
    <2>3. CASE p.at = 0 /\ p.line = 0
        <3>1. T[i] = Comment
            BY <2>1, <2>3 DEF Token
        <3> QED
            BY <2>3, <3>1, EndsDiffer
    <2>4. CASE p.at = 0 /\ p.line # 0
        <3>1. T[i] = LineOf(s[p.ev], p.line)
            BY <2>1, <2>4 DEF Token
        <3>2. p.line \in 1..LineCount(s[p.ev])
            BY <1>4, <1>6, <1>7, <2>4
        <3> QED
            BY <1>5, <2>4, <3>1, <3>2, EventShape
    <2> QED
        BY <2>2, <2>3, <2>4
<1> QED
    BY <1>1, <1>3, <1>4, <1>5, <1>7, <1>8 DEF p, Holds

LEMMA HeldPlaces ==
    ASSUME NEW s \in Seq(Events), NEW places, NEW T, Script(ending, s, places, T),
           ending \in LineEnds
    PROVE  /\ \A i \in 1..Len(T) : T[i] = Token(ending, s, places[i])
           /\ \A i \in 1..Len(T) : T[i] \in {Sse!CR, Sse!LF} <=> places[i].at # 0
<1> SUFFICES ASSUME NEW i \in 1..Len(T)
             PROVE  /\ T[i] = Token(ending, s, places[i])
                    /\ T[i] \in {Sse!CR, Sse!LF} <=> places[i].at # 0
    OBVIOUS
<1>1. Holds(ending, s, places, T, i)
    BY PlaceShape
<1> QED
    BY <1>1 DEF Holds

LEMMA EndingLength ==
    ASSUME ending \in LineEnds
    PROVE  0 < Len(ending)
    BY Endings

LEMMA LineTaken ==
    ASSUME ending \in LineEnds, NEW s \in Seq(Events), buffer \in Seq(Tokens),
           NEW rest \in Seq(Tokens), NEW places, Script(ending, s, places, buffer \o rest),
           Begins(s, places[1]), Sse!Breaks # {}
    PROVE  /\ FirstBreak = (IF places[1].at = 0 THEN 2 ELSE 1)
           /\ places[1].at = 0 \/ places[1].line = LineCount(s[places[1].ev]) + 1
           /\ LinePast \in 1..Len(buffer)
           /\ \/ places[LinePast] = [places[1] EXCEPT !.at = Len(ending)]
              \/ /\ LinePast = Len(buffer) /\ buffer[Len(buffer)] = Sse!CR
                 /\ rest # <<>> /\ rest[1] = Sse!LF
<1> DEFINE T == buffer \o rest
           i == IF places[1].at = 0 THEN 2 ELSE 1
<1>1. /\ T \in Seq(Tokens) /\ Len(T) = Len(buffer) + Len(rest)
      /\ \A j \in 1..Len(buffer) : T[j] = buffer[j]
      /\ \A j \in 1..Len(rest) : T[Len(buffer) + j] = rest[j]
    BY Joined
<1> HIDE DEF T
<1>2. Script(ending, s, places, T)
    BY DEF T
<1>16. \A j \in 1..Len(T) : T[j] = Token(ending, s, places[j])
    BY <1>2, HeldPlaces, Zenon
<1>3. Sse!Breaks \subseteq 1..Len(buffer) /\ Len(buffer) \in Nat \ {0} /\ Len(rest) \in Nat
    BY DEF Sse!Breaks
<1>4. Sse!Breaks = {j \in 1..Len(buffer) : places[j].at # 0}
    <2>1. \A j \in 1..Len(buffer) : j \in 1..Len(T)
        BY <1>1, <1>3
    <2>2. \A j \in 1..Len(T) : T[j] \in {Sse!CR, Sse!LF} <=> places[j].at # 0
        BY <1>2, HeldPlaces, Zenon
    <2>4. \A j \in 1..Len(buffer) : buffer[j] \in {Sse!CR, Sse!LF} <=> places[j].at # 0
        BY <1>1, <2>1, <2>2
    <2>3. DOMAIN buffer = 1..Len(buffer)
        OBVIOUS
    <2> QED
        BY <2>3, <2>4 DEF Sse!Breaks
<1>5. Len(ending) \in 1..2
    BY Endings
<1>6. \A j \in 1..(Len(T) - 1) : Follows(ending, s, places[j], places[j + 1])
    BY <1>2 DEF Script, Chain
<1> DEFINE p == places[1]
<1>7. 1 \in 1..Len(T)
    BY <1>1, <1>3
<1>8. p = [ev |-> p.ev, line |-> p.line, at |-> p.at] /\ p.at \in 0..Len(ending)
    <2>1. Holds(ending, s, places, T, 1)
        BY <1>2, <1>7, PlaceShape
    <2> QED
        BY <2>1 DEF Holds
<1>9. p.at = 0 \/ (p.at = 1 /\ p.line = LineCount(s[p.ev]) + 1)
    BY DEF Begins
<1>10. i \in Sse!Breaks /\ places[i] = [p EXCEPT !.at = 1] /\ \A j \in Sse!Breaks : i <= j
    <2>1. CASE p.at = 0
        <3>1. 1 \notin Sse!Breaks
            BY <1>4, <2>1
        <3>2. Len(buffer) >= 2 /\ \A j \in Sse!Breaks : 2 <= j
            <4> DEFINE B == Sse!Breaks
            <4>1. B \subseteq 1..Len(buffer) /\ B # {} /\ 1 \notin B
                BY <1>3, <3>1
            <4> HIDE DEF B
            <4>2. \A j \in B : j \in 1..Len(buffer) /\ j # 1
                BY <4>1
            <4>3. \A j \in B : 2 <= j /\ j <= Len(buffer) /\ j \in Nat
                BY <1>3, <4>2
            <4>4. PICK j \in B : TRUE
                BY <4>1
            <4>5. j \in Nat /\ 2 <= j /\ j <= Len(buffer)
                BY <4>3
            <4>6. Len(buffer) >= 2
                BY <1>3, <4>5
            <4> QED
                BY <4>3, <4>6 DEF B
        <3>3. 1 \in 1..(Len(T) - 1)
            BY <1>1, <1>3, <3>2
        <3>4. Follows(ending, s, places[1], places[1 + 1])
            BY <1>6, <3>3
        <3>5. places[2] = [p EXCEPT !.at = @ + 1]
            <4>1. 0 < Len(ending)
                BY EndingLength, Zenon
            <4>2. p.at < Len(ending)
                BY <2>1, <4>1, Zenon
            <4>3. Follows(ending, s, p, places[2])
                BY <3>4
            <4> QED
                BY <4>2, <4>3 DEF Follows
        <3>6. places[2] = [p EXCEPT !.at = 1] /\ places[2].at = 1
            BY <1>8, <2>1, <3>5
        <3>7. 2 \in Sse!Breaks
            <4>1. 2 \in 1..Len(buffer) /\ places[2].at # 0
                BY <1>3, <3>2, <3>6
            <4> QED
                BY <1>4, <4>1
        <3> QED
            BY <2>1, <3>2, <3>6, <3>7
    <2>2. CASE p.at = 1
        <3>1. 1 \in Sse!Breaks
            BY <1>3, <1>4, <2>2
        <3>2. [p EXCEPT !.at = 1] = p
            BY <1>8, <2>2
        <3> QED
            BY <1>3, <2>2, <3>1, <3>2
    <2> QED
        BY <1>9, <2>1, <2>2
<1> HIDE DEF i
<1>11. FirstBreak = i
    <2>1. FirstBreak \in Sse!Breaks /\ \A j \in Sse!Breaks : FirstBreak <= j
        <3> DEFINE B == Sse!Breaks
        <3>1. \E k \in B : \A j \in B : k <= j
            BY <1>10
        <3> HIDE DEF B
        <3>2. (CHOOSE k \in B : \A j \in B : k <= j) \in B
              /\ \A j \in B : (CHOOSE k \in B : \A l \in B : k <= l) <= j
            BY <3>1
        <3> QED
            BY <3>2 DEF B, FirstBreak
    <2>2. FirstBreak <= i /\ i <= FirstBreak /\ FirstBreak \in Nat /\ i \in Nat
        BY <1>3, <1>10, <2>1
    <2> QED
        BY <2>2
<1>12. i \in 1..Len(buffer) /\ i \in 1..Len(T) /\ buffer[i] = T[i]
    BY <1>1, <1>3, <1>10
<1>13. places[i].at = 1 /\ T[i] = ending[1]
    <2>1. places[i].at = 1
        BY <1>8, <1>10
    <2>2. T[i] = Token(ending, s, places[i])
        BY <1>12, <1>16
    <2> QED
        BY <2>1, <2>2 DEF Token
<1>14. CASE Len(ending) = 1
    <2>1. buffer[i] = Sse!LF
        BY <1>12, <1>13, <1>14, Endings
    <2>2. LinePast = i
        BY <1>11, <2>1, EndsDiffer DEF LinePast
    <2> QED
        BY <1>9, <1>10, <1>11, <1>12, <1>14, <2>2 DEF i
<1>15. CASE Len(ending) = 2
    <2>1. buffer[i] = Sse!CR
        BY <1>12, <1>13, <1>15, Endings
    <2>2. i < Len(T)
        <3>1. Ends(ending, s, places[Len(T)])
            BY <1>2, <1>7 DEF Script
        <3>2. places[Len(T)].at = 2
            BY <1>15, <3>1 DEF Ends
        <3> QED
            BY <1>1, <1>12, <1>13, <3>2
    <2>3. i \in 1..(Len(T) - 1) /\ i + 1 \in 1..Len(T)
        BY <1>1, <1>12, <2>2
    <2>4. places[i + 1] = [places[i] EXCEPT !.at = @ + 1]
        <3>1. Follows(ending, s, places[i], places[i + 1])
            BY <1>6, <2>3
        <3> QED
            BY <1>13, <1>15, <3>1 DEF Follows
    <2>5. places[i + 1] = [p EXCEPT !.at = 2] /\ places[i + 1].at = 2
        <3> DEFINE head == places[i]
                   tail == places[i + 1]
        <3>1. head = [p EXCEPT !.at = 1] /\ tail = [head EXCEPT !.at = @ + 1]
            BY <1>10, <2>4
        <3> HIDE DEF head, tail, p
        <3>2. head = [ev |-> p.ev, line |-> p.line, at |-> 1]
            BY <1>8, <3>1
        <3>3. tail = [ev |-> p.ev, line |-> p.line, at |-> 2]
            <4>1. head.at = 1 /\ head.ev = p.ev /\ head.line = p.line
                BY <3>2
            <4>2. head.at + 1 = 2
                BY <4>1
            <4>3. tail = [head EXCEPT !.at = 2]
                BY <3>1, <4>2
            <4> QED
                BY <3>2, <4>3
        <3>4. tail = [p EXCEPT !.at = 2] /\ tail.at = 2
            BY <1>8, <3>3
        <3> QED
            BY <3>4 DEF tail, p
    <2>6. T[i + 1] = Sse!LF
        <3>1. T[i + 1] = ending[2]
            <4>1. T[i + 1] = Token(ending, s, places[i + 1])
                BY <1>16, <2>3
            <4> QED
                BY <2>5, <4>1 DEF Token
        <3> QED
            BY <1>15, <3>1, Endings
    <2>7. CASE i < Len(buffer)
        <3>1. i + 1 \in 1..Len(buffer)
            BY <1>3, <1>12, <2>7
        <3>2. buffer[i + 1] = Sse!LF
            BY <1>1, <2>6, <3>1
        <3>3. LinePast = i + 1
            BY <1>11, <2>1, <2>7, <3>2 DEF LinePast
        <3> QED
            BY <1>9, <1>11, <1>15, <2>5, <3>1, <3>3 DEF i
    <2>8. CASE ~(i < Len(buffer))
        <3>1. i = Len(buffer)
            BY <1>3, <1>12, <2>8
        <3>2. LinePast = i
            BY <1>11, <2>8 DEF LinePast
        <3>3. 1 \in 1..Len(rest) /\ rest # <<>>
            BY <1>1, <1>3, <2>2, <3>1
        <3>4. rest[1] = Sse!LF
            BY <1>1, <2>6, <3>1, <3>3
        <3> QED
            BY <1>9, <1>11, <1>12, <2>1, <3>1, <3>2, <3>3, <3>4 DEF i
    <2> QED
        BY <2>7, <2>8
<1> QED
    BY <1>5, <1>14, <1>15

LEMMA LineBefore ==
    ASSUME NEW head, NEW tail \in Nat, head = tail + 1
    PROVE  (IF head = 0 THEN 0 ELSE head - 1) = tail
    OBVIOUS

LEMMA Longer ==
    ASSUME NEW S, NEW g \in Seq(S), NEW x \in S
    PROVE  Append(g, x) \in Seq(S) /\ Len(Append(g, x)) = Len(g) + 1
    OBVIOUS

LEMMA OneEventMore ==
    ASSUME NEW s \in Seq(Events), NEW g \in Seq(Events), Len(g) + 1 \in 1..Len(s),
           g = SubSeq(s, 1, Len(g))
    PROVE  Append(g, s[Len(g) + 1]) = SubSeq(s, 1, Len(g) + 1)
<1> DEFINE i == Len(g) + 1
<1>1. i \in 1..Len(s) /\ i - 1 = Len(g)
    OBVIOUS
<1> HIDE DEF i
<1>2. SubSeq(s, 1, i) = Append(SubSeq(s, 1, i - 1), s[i])
    BY <1>1, OneMore
<1> QED
    BY <1>1, <1>2 DEF i

\* What the first line does to the fields and to what is yielded.
LEMMA LineMeans ==
    ASSUME ending \in LineEnds, sent \in Seq(Events), buffer \in Seq(Tokens),
           NEW rest \in Seq(Tokens), NEW places, Script(ending, sent, places, buffer \o rest),
           Stands(sent, got, pending, places[1]), Sse!Line
    PROVE  LET p == places[1]
               e == sent[Len(got) + 1]
           IN  /\ Len(got) + 1 \in 1..Len(sent) /\ p.ev = Len(got) + 1
               /\ p = [ev |-> p.ev, line |-> p.line, at |-> p.at] /\ p.line \in Nat
               /\ p.at = 0 => /\ got' = got /\ pending' = FieldsRead(e, p.line)
                              /\ p.line <= LineCount(e)
               /\ p.at # 0 => /\ got' = Append(got, e) /\ pending' = Sse!NoFields
                              /\ p.line = LineCount(e) + 1
<1> DEFINE p == places[1]
           e == sent[Len(got) + 1]
           T == buffer \o rest
<1>1. Sse!Breaks # {} /\ Begins(sent, p)
    BY DEF Sse!Line, Stands
<1>2. /\ FirstBreak = (IF p.at = 0 THEN 2 ELSE 1)
      /\ p.at = 0 \/ p.line = LineCount(sent[p.ev]) + 1
    BY <1>1, LineTaken
<1>3. 1 \in 1..Len(buffer)
    BY <1>1 DEF Sse!Breaks
<1>4. T \in Seq(Tokens) /\ T[1] = buffer[1] /\ 1 \in 1..Len(T)
    BY <1>3, Joined
<1> HIDE DEF T
<1>5. Holds(ending, sent, places, T, 1)
    BY <1>4, PlaceShape DEF T
<1>6. p.ev = Len(got) + 1 /\ pending = FieldsRead(e, IF p.line = 0 THEN 0 ELSE p.line - 1)
    BY DEF Stands
<1>7. /\ Len(got) + 1 \in 1..Len(sent) /\ e \in Events
      /\ p = [ev |-> p.ev, line |-> p.line, at |-> p.at] /\ p.line \in Nat
      /\ p.at = 0 => p.line <= LineCount(e)
      /\ p.at = 0 \/ p.line = LineCount(e) + 1
      /\ T[1] = Token(ending, sent, p)
    BY <1>2, <1>5, <1>6 DEF Holds
<1>8. /\ got' = IF FirstBreak = 1 THEN Sse!Dispatched ELSE got
      /\ pending' = CASE FirstBreak = 1 -> Sse!NoFields
                      [] FirstBreak # 1 /\ buffer[1].is = "event" -> [pending EXCEPT !.name = buffer[1].val]
                      [] FirstBreak # 1 /\ buffer[1].is = "data" ->
                           [pending EXCEPT !.data = Append(@, buffer[1].val)]
                      [] OTHER -> pending
    BY DEF Sse!Line, FirstBreak
<1>9. LineCount(e) \in Nat \ {0}
    BY <1>7, EventShape
<1>10. CASE p.at = 0
    <2>1. FirstBreak = 2
        BY <1>2, <1>10
    <2>2. got' = got
        BY <1>8, <2>1
    <2>3. pending' = FieldsRead(e, p.line)
        <3>1. CASE p.line = 0
            <4>1. buffer[1] = Comment
                BY <1>4, <1>7, <1>10, <3>1 DEF Token
            <4>2. buffer[1].is = "comment"
                BY <4>1 DEF Comment
            <4>3. pending' = pending
                BY <1>8, <2>1, <4>2
            <4> QED
                BY <1>6, <3>1, <4>3
        <3>2. CASE p.line # 0
            <4> DEFINE l == buffer[1]
            <4>1. l = LineOf(e, p.line)
                BY <1>4, <1>6, <1>7, <1>10, <3>2 DEF Token
            <4>2. p.line \in 1..LineCount(e)
                BY <1>7, <1>9, <1>10, <3>2
            <4>3. pending = FieldsRead(e, p.line - 1)
                BY <1>6, <3>2
            <4> HIDE DEF l, e, p
            <4>4. \/ l.is = "event" /\ [pending EXCEPT !.name = l.val] = FieldsRead(e, p.line)
                  \/ l.is = "data" /\ [pending EXCEPT !.data = Append(@, l.val)] = FieldsRead(e, p.line)
                <5>1. e \in Events
                    BY <1>7
                <5>2. \A j \in 1..LineCount(e) :
                          \/ LineOf(e, j).is = "event"
                             /\ [FieldsRead(e, j - 1) EXCEPT !.name = LineOf(e, j).val] = FieldsRead(e, j)
                          \/ LineOf(e, j).is = "data"
                             /\ [FieldsRead(e, j - 1) EXCEPT !.data = Append(@, LineOf(e, j).val)] = FieldsRead(e, j)
                    BY <5>1, FieldStep
                <5>3. \/ LineOf(e, p.line).is = "event"
                         /\ [FieldsRead(e, p.line - 1) EXCEPT !.name = LineOf(e, p.line).val] = FieldsRead(e, p.line)
                      \/ LineOf(e, p.line).is = "data"
                         /\ [FieldsRead(e, p.line - 1) EXCEPT !.data = Append(@, LineOf(e, p.line).val)] = FieldsRead(e, p.line)
                    BY <4>2, <5>2, Zenon
                <5> QED
                    BY <4>1, <4>3, <5>3, Zenon
            <4>5. pending' = CASE FirstBreak = 1 -> Sse!NoFields
                      [] FirstBreak # 1 /\ l.is = "event" -> [pending EXCEPT !.name = l.val]
                      [] FirstBreak # 1 /\ l.is = "data" ->
                           [pending EXCEPT !.data = Append(@, l.val)]
                      [] OTHER -> pending
                BY <1>8 DEF l
            <4>6. CASE l.is = "event" /\ [pending EXCEPT !.name = l.val] = FieldsRead(e, p.line)
                <5>1. FirstBreak # 1
                    BY <2>1
                <5>2. l.is # "data"
                    BY <4>6
                <5> QED
                    BY <4>5, <4>6, <5>1, <5>2
            <4>7. CASE l.is = "data" /\ [pending EXCEPT !.data = Append(@, l.val)] = FieldsRead(e, p.line)
                <5>1. FirstBreak # 1
                    BY <2>1
                <5>2. l.is # "event"
                    BY <4>7
                <5> QED
                    BY <4>5, <4>7, <5>1, <5>2
            <4> QED
                BY <4>4, <4>6, <4>7
        <3> QED
            BY <3>1, <3>2
    <2> QED
        BY <1>6, <1>7, <1>10, <2>2, <2>3
<1>11. CASE p.at # 0
    <2>1. FirstBreak = 1
        BY <1>2, <1>11
    <2>2. p.line = LineCount(e) + 1
        BY <1>7, <1>11
    <2>3. (IF p.line = 0 THEN 0 ELSE p.line - 1) = LineCount(e)
        BY <1>9, <2>2
    <2>4. pending = e
        BY <1>6, <1>7, <2>3, FieldStep
    <2>5. e.data # <<>>
        BY <1>7, EventShape
    <2>6. got' = Append(got, e) /\ pending' = Sse!NoFields
        BY <1>8, <2>1, <2>4, <2>5 DEF Sse!Dispatched
    <2> QED
        BY <1>6, <1>7, <1>11, <2>2, <2>6
<1> QED
    BY <1>10, <1>11

LEMMA LineRead ==
    ASSUME ending \in LineEnds, sent \in Seq(Events), buffer \in Seq(Tokens),
           NEW rest \in Seq(Tokens), got = SubSeq(sent, 1, Len(got)), got \in Seq(Events),
           Len(got) <= Len(sent), Reads(ending, sent, got, pending, buffer \o rest), Sse!Line
    PROVE  /\ buffer' \in Seq(Tokens)
           /\ got' = SubSeq(sent, 1, Len(got')) /\ got' \in Seq(Events) /\ Len(got') <= Len(sent)
           /\ buffer' # <<>> => buffer'[Len(buffer')] = buffer[Len(buffer)]
           /\ \/ Reads(ending, sent, got', pending', buffer' \o rest)
              \/ /\ buffer' = <<>> /\ buffer # <<>> /\ buffer[Len(buffer)] = Sse!CR
                 /\ rest # <<>> /\ rest[1] = Sse!LF
<1> DEFINE T == buffer \o rest
           m == LinePast
<1>1. Sse!Breaks # {} /\ buffer' = SubSeq(buffer, m + 1, Len(buffer)) /\ 1 \in 1..Len(buffer)
    BY DEF Sse!Line, LinePast, FirstBreak, Sse!Breaks
<1>2. T \in Seq(Tokens) /\ 1 \in 1..Len(T) /\ Len(T) = Len(buffer) + Len(rest) /\ Len(rest) \in Nat
    BY <1>1, Joined
<1>3. PICK places : Script(ending, sent, places, T) /\ Stands(sent, got, pending, places[1])
    <2> HIDE DEF T
    <2> QED
        BY <1>2 DEF Reads, T
<1> DEFINE p == places[1]
           e == sent[Len(got) + 1]
<1>4. /\ Len(got) + 1 \in 1..Len(sent) /\ p.ev = Len(got) + 1
      /\ p = [ev |-> p.ev, line |-> p.line, at |-> p.at] /\ p.line \in Nat
      /\ p.at = 0 => /\ got' = got /\ pending' = FieldsRead(e, p.line)
                     /\ p.line <= LineCount(e)
      /\ p.at # 0 => /\ got' = Append(got, e) /\ pending' = Sse!NoFields
                     /\ p.line = LineCount(e) + 1
    BY <1>3, LineMeans
<1>5. /\ m \in 1..Len(buffer)
      /\ \/ places[m] = [p EXCEPT !.at = Len(ending)]
         \/ /\ m = Len(buffer) /\ buffer[Len(buffer)] = Sse!CR
            /\ rest # <<>> /\ rest[1] = Sse!LF
    <2>1. Begins(sent, places[1])
        BY <1>3 DEF Stands
    <2> QED
        BY <1>1, <1>3, <2>1, LineTaken
<1>6. e \in Events /\ LineCount(e) \in Nat \ {0}
    <2>1. e \in Events
        BY <1>4
    <2> QED
        BY <2>1, EventShape
<1> HIDE DEF m, T, p, e
<1>7. got' = SubSeq(sent, 1, Len(got')) /\ got' \in Seq(Events) /\ Len(got') <= Len(sent)
    <2>1. CASE p.at = 0
        BY <1>4, <2>1
    <2>2. CASE p.at # 0
        <3>1. got' = SubSeq(sent, 1, Len(got) + 1)
            BY <1>4, <2>2, OneEventMore DEF e
        <3>2. got' = Append(got, e)
            BY <1>4, <2>2
        <3>3. got' \in Seq(Events) /\ Len(got') = Len(got) + 1
            BY <1>6, <3>2, Longer
        <3>4. Len(got) \in Nat /\ Len(sent) \in Nat /\ Len(got) + 1 <= Len(sent)
            BY <1>4
        <3>5. Len(got') <= Len(sent) /\ got' = SubSeq(sent, 1, Len(got'))
            BY <3>1, <3>3, <3>4
        <3> QED
            BY <3>3, <3>5
    <2> QED
        BY <2>1, <2>2
<1>8. /\ buffer' \in Seq(Tokens) /\ Len(buffer') = Len(buffer) - m
      /\ \A i \in 1..Len(buffer') : buffer'[i] = buffer[m + i]
    <2>1. m \in 0..Len(buffer)
        BY <1>5
    <2> QED
        BY <1>1, <2>1, Behind
<1>9. buffer' # <<>> => buffer'[Len(buffer')] = buffer[Len(buffer)]
    <2> SUFFICES ASSUME buffer' # <<>> PROVE buffer'[Len(buffer')] = buffer[Len(buffer)]
        OBVIOUS
    <2>1. Len(buffer') \in 1..Len(buffer') /\ m + Len(buffer') = Len(buffer)
        BY <1>5, <1>8
    <2> QED
        BY <1>8, <2>1
<1>10. CASE /\ m = Len(buffer) /\ buffer[Len(buffer)] = Sse!CR
            /\ rest # <<>> /\ rest[1] = Sse!LF
    <2>1. buffer' = <<>> /\ buffer # <<>>
        BY <1>1, <1>8, <1>10
    <2> QED
        BY <1>7, <1>8, <1>9, <1>10, <2>1
<1>11. CASE places[m] = [p EXCEPT !.at = Len(ending)]
    <2> DEFINE U == SubSeq(T, m + 1, Len(T))
               pl == SubSeq(places, m + 1, Len(T))
    <2>1. m \in 1..Len(T) /\ m \in 0..Len(buffer)
        BY <1>2, <1>5
    <2>2. /\ U \in Seq(Tokens) /\ Script(ending, sent, pl, U)
          /\ U # <<>> => m + 1 <= Len(T) /\ pl[1] = places[m + 1]
          /\ U = <<>> => m = Len(T)
        BY <1>2, <1>3, <2>1, ScriptRest
    <2>3. U = buffer' \o rest
        BY <1>1, <2>1, CutJoined DEF T
    <2> HIDE DEF U, pl
    <2>4. places[m].ev = Len(got) + 1 /\ places[m].line = p.line /\ places[m].at = Len(ending)
        BY <1>4, <1>11
    <2>5. U = <<>> => Len(got') = Len(sent) /\ pending' = Sse!NoFields
        <3> SUFFICES ASSUME U = <<>> PROVE Len(got') = Len(sent) /\ pending' = Sse!NoFields
            OBVIOUS
        <3>1. Ends(ending, sent, places[m])
            BY <1>2, <1>3, <2>2 DEF Script
        <3>2. p.line = LineCount(e) + 1 /\ Len(got) + 1 = Len(sent)
            BY <2>4, <3>1 DEF Ends, e
        <3>3. p.at # 0
            BY <1>4, <1>6, <3>2
        <3> QED
            BY <1>4, <1>6, <3>2, <3>3
    <2>6. U # <<>> => Stands(sent, got', pending', pl[1])
        <3> SUFFICES ASSUME U # <<>> PROVE Stands(sent, got', pending', pl[1])
            OBVIOUS
        <3> DEFINE q == places[m + 1]
        <3>1. m \in 1..(Len(T) - 1)
            BY <1>2, <2>1, <2>2
        <3>2. Follows(ending, sent, places[m], q)
            BY <1>3, <3>1 DEF Script, Chain
        <3> HIDE DEF q
        <3>3. ~(places[m].at < Len(ending))
            BY <2>4, Endings
        <3>4. /\ Begins(sent, q)
              /\ IF p.line <= LineCount(e) THEN q.ev = Len(got) + 1 /\ q.line = p.line + 1
                 ELSE q.ev = (Len(got) + 1) + 1 /\ q.line \in {0, 1}
            BY <2>4, <3>2, <3>3 DEF Follows, e
        <3>5. pl[1] = q
            BY <2>2 DEF q
        <3>6. CASE p.at = 0
            <4>1. q.ev = Len(got) + 1 /\ q.line = p.line + 1 /\ got' = got /\ pending' = FieldsRead(e, p.line)
                BY <1>4, <3>4, <3>6
            <4>2. (IF q.line = 0 THEN 0 ELSE q.line - 1) = p.line
                <5>1. p.line \in Nat /\ q.line = p.line + 1
                    BY <1>4, <4>1
                <5> QED
                    BY <5>1, LineBefore, Zenon
            <4> QED
                BY <3>4, <3>5, <4>1, <4>2 DEF Stands, e
        <3>7. CASE p.at # 0
            <4>1. ~(p.line <= LineCount(e)) /\ got' = Append(got, e) /\ pending' = Sse!NoFields
                BY <1>4, <1>6, <3>7
            <4>2. Len(got') = Len(got) + 1
                BY <1>6, <4>1
            <4>3. q.ev = Len(got') + 1 /\ q.line \in {0, 1}
                BY <3>4, <4>1, <4>2
            <4>4. (IF q.line = 0 THEN 0 ELSE q.line - 1) = 0
                BY <4>3
            <4>5. sent[q.ev] \in Events
                <5>1. pl[1].ev \in 1..Len(sent)
                    <6>1. 1 \in 1..Len(U)
                        BY <2>2
                    <6>2. Holds(ending, sent, pl, U, 1)
                        BY <2>2, <6>1, PlaceShape
                    <6> QED
                        BY <6>2 DEF Holds
                <5> QED
                    BY <3>5, <5>1
            <4>6. FieldsRead(sent[q.ev], 0) = Sse!NoFields
                BY <4>5, FieldStep
            <4> QED
                BY <3>4, <3>5, <4>1, <4>3, <4>4, <4>6 DEF Stands
        <3> QED
            BY <3>6, <3>7
    <2>7. Reads(ending, sent, got', pending', U)
        BY <2>2, <2>5, <2>6 DEF Reads
    <2> QED
        BY <1>7, <1>8, <1>9, <2>3, <2>7
<1> QED
    BY <1>5, <1>10, <1>11

LEMMA CutWhole ==
    ASSUME NEW w \in Seq(Tokens), NEW n \in 1..Len(w)
    PROVE  LET head == SubSeq(w, 1, n)
               tail == SubSeq(w, n + 1, Len(w))
           IN  /\ head \in Seq(Tokens) /\ tail \in Seq(Tokens) /\ head \o tail = w
               /\ Len(head) = n /\ head[n] = w[n]
               /\ tail # <<>> => n < Len(w) /\ tail[1] = w[n + 1]
<1> DEFINE head == SubSeq(w, 1, n)
           tail == SubSeq(w, n + 1, Len(w))
           c == head \o tail
<1>1. head \in Seq(Tokens) /\ Len(head) = n /\ \A i \in 1..n : head[i] = w[i]
    OBVIOUS
<1>2. n \in 0..Len(w) /\ n \in 1..n
    OBVIOUS
<1>3. tail \in Seq(Tokens) /\ Len(tail) = Len(w) - n /\ \A i \in 1..Len(tail) : tail[i] = w[n + i]
    BY <1>2, Behind
<1> HIDE DEF head, tail
<1>4. c \in Seq(Tokens) /\ Len(c) = Len(head) + Len(tail)
    BY <1>1, <1>3, Joined
<1>5. \A i \in 1..Len(head) : c[i] = head[i]
    BY <1>1, <1>3, Joined
<1>6. \A i \in 1..Len(tail) : c[Len(head) + i] = tail[i]
    BY <1>1, <1>3, Joined
<1> HIDE DEF c
<1>7. ASSUME NEW i \in 1..Len(w)
      PROVE  c[i] = w[i]
    <2>1. CASE i <= n
        BY <1>1, <1>5, <2>1
    <2>2. CASE i > n
        <3> DEFINE j == i - n
        <3>1. j \in 1..Len(tail) /\ i = Len(head) + j /\ i = n + j
            BY <1>1, <1>3, <2>2
        <3> HIDE DEF j
        <3> QED
            BY <1>3, <1>6, <3>1
    <2> QED
        BY <2>1, <2>2
<1>8. Len(c) = Len(w)
    BY <1>1, <1>3, <1>4
<1>9. c = w
    BY <1>4, <1>7, <1>8
<1>10. tail # <<>> => n < Len(w) /\ 1 \in 1..Len(tail)
    BY <1>3
<1> QED
    BY <1>1, <1>2, <1>3, <1>9, <1>10 DEF head, tail, c

LEMMA ReadKept ==
    ASSUME SseInv, Sse!Read
    PROVE  SseInv'
<1> SUFFICES ASSUME ~hurt' PROVE SseInv'
    BY DEF SseInv, Sse!Read, LineEnds
<1>1. PICK n \in DOMAIN wire :
         /\ buffer' = buffer \o SubSeq(wire, 1, n)
         /\ wire' = SubSeq(wire, n + 1, Len(wire))
         /\ hurt' = (hurt \/ (wire[n] = Sse!CR /\ n < Len(wire) /\ wire[n + 1] = Sse!LF))
    BY DEF Sse!Read
<1>2. ~hurt /\ ~(wire[n] = Sse!CR /\ n < Len(wire) /\ wire[n + 1] = Sse!LF)
    BY <1>1
<1>3. UNCHANGED <<ending, sent, pending, got, stream>>
    BY DEF Sse!Read
<1>4. /\ ending \in LineEnds /\ sent \in Seq(Events) /\ buffer \in Seq(Tokens) /\ wire \in Seq(Tokens)
      /\ got = SubSeq(sent, 1, Len(got)) /\ got \in Seq(Events) /\ Len(got) <= Len(sent)
      /\ stream \in {"open", "closed", "failed", "done"}
      /\ stream \in {"failed", "done"} => wire = <<>>
      /\ stream \in {"open", "closed"} => Reads(ending, sent, got, pending, buffer \o wire)
    BY <1>2 DEF SseInv
<1>5. n \in 1..Len(wire) /\ wire # <<>>
    BY <1>1, <1>4
<1>6. stream \in {"open", "closed"}
    BY <1>4, <1>5
<1> DEFINE head == SubSeq(wire, 1, n)
           tail == SubSeq(wire, n + 1, Len(wire))
<1>7. /\ head \in Seq(Tokens) /\ tail \in Seq(Tokens) /\ head \o tail = wire
      /\ Len(head) = n /\ head[n] = wire[n]
      /\ tail # <<>> => n < Len(wire) /\ tail[1] = wire[n + 1]
    BY <1>4, <1>5, CutWhole
<1>8. buffer' = buffer \o head /\ wire' = tail
    BY <1>1
<1> HIDE DEF head, tail
<1>9. buffer' \o wire' = buffer \o wire
    <2>1. buffer \in Seq(Tokens) /\ head \in Seq(Tokens) /\ tail \in Seq(Tokens)
        BY <1>4, <1>7
    <2>2. (buffer \o head) \o tail = buffer \o (head \o tail)
        BY <2>1, Associative, Zenon
    <2> QED
        BY <1>7, <1>8, <2>2, Zenon
<1>10. buffer' \in Seq(Tokens) /\ wire' \in Seq(Tokens) /\ buffer'[Len(buffer')] = wire[n]
    <2>1. buffer \in Seq(Tokens) /\ head \in Seq(Tokens) /\ n \in 1..Len(head)
        BY <1>4, <1>5, <1>7
    <2>2. buffer \o head \in Seq(Tokens) /\ Len(buffer \o head) = Len(buffer) + Len(head)
        BY <2>1, Joined
    <2>3. (buffer \o head)[Len(buffer) + n] = head[n]
        BY <2>1, Joined
    <2> QED
        BY <1>7, <1>8, <2>2, <2>3
<1>11. buffer' # <<>> /\ wire' # <<>> => ~(buffer'[Len(buffer')] = Sse!CR /\ wire'[1] = Sse!LF)
    BY <1>2, <1>7, <1>8, <1>10
<1>12. Reads(ending, sent, got, pending, buffer \o wire)'
    <2>1. Reads(ending, sent, got, pending, buffer \o wire)
        BY <1>4, <1>6
    <2> QED
        BY <1>3, <1>9, <2>1, Zenon DEF Reads, Script, Chain, Ends, Stands, Sse!NoFields
<1> QED
    BY <1>3, <1>4, <1>6, <1>10, <1>11, <1>12 DEF SseInv, LineEnds

LEMMA LineKept ==
    ASSUME SseInv, Sse!Line
    PROVE  SseInv'
<1> SUFFICES ASSUME ~hurt PROVE SseInv'
    BY DEF SseInv, Sse!Line, LineEnds
<1>1. UNCHANGED <<ending, sent, wire, stream, hurt>> /\ Sse!Breaks # {}
    BY DEF Sse!Line
<1>2. /\ ending \in LineEnds /\ sent \in Seq(Events) /\ buffer \in Seq(Tokens) /\ wire \in Seq(Tokens)
      /\ got = SubSeq(sent, 1, Len(got)) /\ got \in Seq(Events) /\ Len(got) <= Len(sent)
      /\ stream \in {"open", "closed", "failed", "done"}
      /\ stream = "failed" => wire = <<>>
      /\ stream = "done" => buffer = <<>>
      /\ buffer # <<>> /\ wire # <<>> => ~(buffer[Len(buffer)] = Sse!CR /\ wire[1] = Sse!LF)
      /\ stream = "failed" /\ Sse!Breaks # {} =>
            \E rest \in Seq(Tokens) : Reads(ending, sent, got, pending, buffer \o rest)
      /\ stream \in {"open", "closed"} => Reads(ending, sent, got, pending, buffer \o wire)
    BY DEF SseInv
<1>3. stream # "done"
    <2>1. buffer = <<>> => DOMAIN buffer = {}
        OBVIOUS
    <2>2. buffer = <<>> => Sse!Breaks = {}
        BY <2>1 DEF Sse!Breaks
    <2> QED
        BY <1>1, <1>2, <2>2
<1> DEFINE Rests == IF stream = "failed" THEN Seq(Tokens) ELSE {wire}
<1>4. PICK rest \in Rests : rest \in Seq(Tokens) /\ Reads(ending, sent, got, pending, buffer \o rest)
    <2>1. CASE stream = "failed"
        BY <1>1, <1>2, <2>1
    <2>2. CASE stream \in {"open", "closed"}
        BY <1>2, <2>2
    <2> QED
        BY <1>2, <1>3, <2>1, <2>2
<1>5. /\ buffer' \in Seq(Tokens)
      /\ got' = SubSeq(sent, 1, Len(got')) /\ got' \in Seq(Events) /\ Len(got') <= Len(sent)
      /\ buffer' # <<>> => buffer'[Len(buffer')] = buffer[Len(buffer)]
      /\ \/ Reads(ending, sent, got', pending', buffer' \o rest)
         \/ /\ buffer' = <<>> /\ buffer # <<>> /\ buffer[Len(buffer)] = Sse!CR
            /\ rest # <<>> /\ rest[1] = Sse!LF
    <2>1. rest \in Seq(Tokens) /\ Reads(ending, sent, got, pending, buffer \o rest)
        BY <1>4
    <2>2. sent \in Seq(Events) /\ ending \in LineEnds /\ buffer \in Seq(Tokens)
          /\ got = SubSeq(sent, 1, Len(got)) /\ got \in Seq(Events) /\ Len(got) <= Len(sent)
        BY <1>2
    <2> HIDE DEF Rests
    <2> QED
        BY <2>1, <2>2, LineRead
<1>6. stream = "failed" /\ Sse!Breaks' # {} =>
         \E r \in Seq(Tokens) : Reads(ending, sent, got', pending', buffer' \o r)
    <2> SUFFICES ASSUME Sse!Breaks' # {}
                 PROVE  Reads(ending, sent, got', pending', buffer' \o rest)
        BY <1>4
    <2>1. buffer' # <<>>
        <3>1. buffer' = <<>> => DOMAIN buffer' = {}
            OBVIOUS
        <3> QED
            BY <3>1 DEF Sse!Breaks
    <2> QED
        BY <1>5, <2>1
<1>7. stream \in {"open", "closed"} => Reads(ending, sent, got', pending', buffer' \o wire)
    BY <1>2, <1>4, <1>5
<1>8. buffer' # <<>> /\ wire' # <<>> => ~(buffer'[Len(buffer')] = Sse!CR /\ wire'[1] = Sse!LF)
    <2> SUFFICES ASSUME buffer' # <<>>, wire # <<>>
                 PROVE  ~(buffer'[Len(buffer')] = Sse!CR /\ wire[1] = Sse!LF)
        BY <1>1
    <2>1. buffer # <<>>
        <3>1. buffer = <<>> => DOMAIN buffer = {}
            OBVIOUS
        <3> QED
            BY <1>1, <3>1 DEF Sse!Breaks
    <2> QED
        BY <1>2, <1>5, <2>1
<1>9. /\ (stream = "failed" /\ Sse!Breaks # {} =>
            \E r \in Seq(Tokens) : Reads(ending, sent, got, pending, buffer \o r))'
      /\ (stream \in {"open", "closed"} => Reads(ending, sent, got, pending, buffer \o wire))'
    BY <1>1, <1>6, <1>7
<1> QED
    BY <1>1, <1>2, <1>3, <1>5, <1>8, <1>9 DEF SseInv, LineEnds

LEMMA DoneKept ==
    ASSUME SseInv, Sse!Done
    PROVE  SseInv'
<1> SUFFICES ASSUME ~hurt PROVE SseInv'
    BY DEF SseInv, Sse!Done, LineEnds
<1>1. /\ ending \in LineEnds /\ sent \in Seq(Events) /\ buffer \in Seq(Tokens)
      /\ got = SubSeq(sent, 1, Len(got)) /\ got \in Seq(Events) /\ Len(got) <= Len(sent)
      /\ stream = "closed" /\ wire = <<>> /\ Sse!Breaks = {}
      /\ Reads(ending, sent, got, pending, buffer \o wire)
    BY DEF SseInv, Sse!Done
<1>2. buffer \o wire = buffer
    BY <1>1
<1>3. PICK places : /\ Script(ending, sent, places, buffer)
                    /\ IF buffer = <<>> THEN Len(got) = Len(sent) /\ pending = Sse!NoFields
                       ELSE Stands(sent, got, pending, places[1])
    BY <1>1, <1>2 DEF Reads
<1>4. buffer = <<>>
    <2> SUFFICES ASSUME buffer # <<>> PROVE FALSE
        OBVIOUS
    <2>1. Len(buffer) \in 1..Len(buffer) /\ DOMAIN buffer = 1..Len(buffer)
        BY <1>1
    <2>2. places[Len(buffer)].at = Len(ending)
        BY <1>3 DEF Script, Ends
    <2>3. places[Len(buffer)].at # 0
        BY <1>1, <2>2, Endings
    <2>4. buffer[Len(buffer)] \in {Sse!CR, Sse!LF}
        <3>1. \A i \in 1..Len(buffer) : buffer[i] \in {Sse!CR, Sse!LF} <=> places[i].at # 0
            BY <1>1, <1>3, HeldPlaces, Zenon
        <3> QED
            BY <2>1, <2>3, <3>1
    <2> QED
        BY <1>1, <2>1, <2>4 DEF Sse!Breaks
<1>5. Len(got) = Len(sent) /\ pending = Sse!NoFields
    BY <1>3, <1>4
<1>6. got = sent
    BY <1>1, <1>5
<1>7. /\ got' = got /\ buffer' = <<>> /\ stream' = "done"
      /\ UNCHANGED <<ending, sent, wire, hurt>>
    BY <1>5 DEF Sse!Done, Sse!Dispatched, Sse!NoFields
<1>8. Sse!Breaks' = {}
    <2>1. DOMAIN buffer' = {}
        BY <1>7
    <2> QED
        BY <2>1 DEF Sse!Breaks
<1> QED
    BY <1>1, <1>6, <1>7, <1>8 DEF SseInv, LineEnds

LEMMA CutOffKept ==
    ASSUME SseInv, Sse!CutOff
    PROVE  SseInv'
<1> SUFFICES ASSUME ~hurt' PROVE SseInv'
    BY DEF SseInv, Sse!CutOff, LineEnds
<1>1. /\ ~hurt /\ stream = "open" /\ stream' = "failed" /\ wire' = <<>>
      /\ UNCHANGED <<ending, sent, buffer, pending, got>>
    BY DEF Sse!CutOff
<1>2. /\ ending \in LineEnds /\ sent \in Seq(Events) /\ buffer \in Seq(Tokens) /\ wire \in Seq(Tokens)
      /\ got = SubSeq(sent, 1, Len(got)) /\ got \in Seq(Events) /\ Len(got) <= Len(sent)
      /\ Reads(ending, sent, got, pending, buffer \o wire)
    BY <1>1 DEF SseInv
<1>3. \E rest \in Seq(Tokens) : Reads(ending', sent', got', pending', buffer' \o rest)
    <2>1. Reads(ending', sent', got', pending', buffer' \o wire)
        BY <1>1, <1>2
    <2> QED
        BY <1>2, <2>1
<1>4. (\E rest \in Seq(Tokens) : Reads(ending, sent, got, pending, buffer \o rest))'
    BY <1>3
<1>5. wire' \in Seq(Tokens)
    BY <1>1
<1> QED
    BY <1>1, <1>2, <1>4, <1>5 DEF SseInv, LineEnds

LEMMA CloseKept ==
    ASSUME SseInv, Sse!Close
    PROVE  SseInv'
<1> SUFFICES ASSUME ~hurt PROVE SseInv'
    BY DEF SseInv, Sse!Close, LineEnds
<1>1. /\ stream = "open" /\ stream' = "closed"
      /\ UNCHANGED <<ending, sent, wire, buffer, pending, got, hurt>>
    BY DEF Sse!Close
<1>2. Reads(ending, sent, got, pending, buffer \o wire)
    BY <1>1 DEF SseInv
<1>3. Reads(ending, sent, got, pending, buffer \o wire)'
    BY <1>1, <1>2
<1> QED
    BY <1>1, <1>3 DEF SseInv, LineEnds

LEMMA SseInit ==
    ASSUME Sse!Init
    PROVE  SseInv
<1>1. /\ ending \in LineEnds /\ sent = <<>> /\ buffer = <<>> /\ wire = <<>> /\ got = <<>>
      /\ pending = Sse!NoFields /\ stream = "open"
    BY DEF Sse!Init, LineEnds
<1>2. Reads(ending, sent, got, pending, buffer \o wire)
    <2>1. buffer \o wire = <<>>
        BY <1>1
    <2> DEFINE S == Places(ending, sent)
    <2>2. <<>> \in Seq(S) /\ Len(<<>>) = 0
        OBVIOUS
    <2>3. Script(ending, sent, <<>>, <<>>)
        BY <2>2 DEF Script, Chain
    <2> QED
        BY <1>1, <2>1, <2>3 DEF Reads
<1>3. /\ sent \in Seq(Events) /\ buffer \in Seq(Tokens) /\ wire \in Seq(Tokens)
      /\ got = SubSeq(sent, 1, Len(got)) /\ got \in Seq(Events) /\ Len(got) <= Len(sent)
    BY <1>1
<1> QED
    BY <1>1, <1>2, <1>3 DEF SseInv

\* A step that changes nothing.
LEMMA SseStutter ==
    ASSUME SseInv, UNCHANGED Sse!vars
    PROVE  SseInv'
<1>1. UNCHANGED <<ending, sent, wire, buffer, pending, got, stream, hurt>>
    BY DEF Sse!vars
<1>2. Sse!Breaks' = Sse!Breaks
    BY <1>1 DEF Sse!Breaks
<1> QED
    BY <1>1, <1>2 DEF SseInv, LineEnds

\* EventsSurviveChunks (SseUtils.ts, SseRepository.ts): whatever the chunks, what is
\* yielded is a prefix of what was sent, and all of it when the stream is through, as long
\* as no CR LF is cut in two, the stream is not cut off, and no text holds a line end that
\* format() leaves in it.
THEOREM EventsKept == Sse!Spec => []EventsSurviveChunks
<1>1. Sse!Init => SseInv
    BY SseInit
<1>2. SseInv /\ [Sse!Next]_(Sse!vars) => SseInv'
    <2> SUFFICES ASSUME SseInv, [Sse!Next]_(Sse!vars)
                 PROVE  SseInv'
        OBVIOUS
    <2>1. CASE Sse!Produce
        BY <2>1, Produced
    <2>2. CASE Sse!Close
        BY <2>2, CloseKept
    <2>3. CASE Sse!CutOff
        BY <2>3, CutOffKept
    <2>4. CASE Sse!Read
        BY <2>4, ReadKept
    <2>5. CASE Sse!Line
        BY <2>5, LineKept
    <2>6. CASE Sse!Done
        BY <2>6, DoneKept
    <2>7. CASE UNCHANGED Sse!vars
        BY <2>7, SseStutter
    <2> QED
        BY <2>1, <2>2, <2>3, <2>4, <2>5, <2>6, <2>7 DEF Sse!Next
<1>3. SseInv => EventsSurviveChunks
    <2> SUFFICES ASSUME SseInv, ~hurt
                 PROVE  Sse!IsPrefix(got, sent) /\ (stream = "done" => got = sent)
        BY DEF EventsSurviveChunks, Sse!EventsSurviveChunks
    <2>1. /\ sent \in Seq(Events) /\ got \in Seq(Events) /\ got = SubSeq(sent, 1, Len(got))
          /\ Len(got) <= Len(sent) /\ (stream = "done" => got = sent)
        BY DEF SseInv
    <2>2. SubSeq(got, 1, Len(got)) = got
        BY <2>1
    <2>3. Sse!IsPrefix(got, sent)
        BY <2>1, <2>2 DEF Sse!IsPrefix
    <2> QED
        BY <2>1, <2>3
<1> QED
    BY <1>1, <1>2, <1>3, PTL DEF Sse!Spec
=============================================================================
