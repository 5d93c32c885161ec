--------------------- MODULE ConnectableRepositoryProofs ---------------------
(***************************************************************************)
(* TypeOK, AtMostOncePerTransition and LastHeardIsTrue, for any set of     *)
(* subscribers and any number of times that the connection comes up.       *)
(***************************************************************************)
EXTENDS ConnectableRepository, SequenceTheorems, TLAPS

\* Nobody is twice in q.
Once(q) == \A i, j \in DOMAIN q : q[i] = q[j] => i = j

\* The listeners are registered ones, none of them twice.
ListenersInv ==
    \A k \in Kinds :
        /\ Once(listeners[k])
        /\ \A i \in DOMAIN listeners[k] : listeners[k][i] \in seen[k]

\* A transition has one loop at most, and those in its snapshot that are still to be
\* called have been registered and not called.
LoopsInv ==
    /\ \A l \in loops :
          /\ l.epoch <= epoch
          /\ connected /\ l.epoch = epoch => l.kind = "connect"
          /\ Once(l.rest)
          /\ \A i \in DOMAIN l.rest :
                l.rest[i] \in seen[l.kind] /\ calls[l.kind][l.rest[i]][l.epoch] = 0
    /\ \A l, m \in loops : l.kind = m.kind /\ l.epoch = m.epoch => l = m

\* No call for a transition to come, nor of a listener that is not registered.
CallsInv ==
    \A k \in Kinds, s \in Subscribers, e \in Epochs :
        /\ calls[k][s][e] <= 1
        /\ e > epoch => calls[k][s][e] = 0
        /\ connected /\ e = epoch /\ k = "disconnect" => calls[k][s][e] = 0
        /\ s \notin seen[k] => calls[k][s][e] = 0

\* While the connection is up it has come up.
EpochInv == connected => epoch \in Epochs

Inv == TypeOK /\ ListenersInv /\ LoopsInv /\ CallsInv /\ EpochInv

LEMMA InitInv == Init => Inv
<1> SUFFICES ASSUME Init
             PROVE  Inv
    OBVIOUS
<1>1. << >> \in Seq(Subscribers)
    OBVIOUS
<1>2. TypeOK
    <2>1. calls \in [Kinds -> [Subscribers -> [Epochs -> Nat]]]
        BY DEF Init
    <2>2. listeners \in [Kinds -> Seq(Subscribers)]
        BY <1>1 DEF Init
    <2>3. /\ seen \in [Kinds -> SUBSET Subscribers]
          /\ lastHeard \in [Subscribers -> Kinds \cup {"nothing"}]
        BY DEF Init
    <2>4. epoch \in 0..MaxEpochs /\ loops \subseteq Loop
        BY ConnectableAssumption DEF Init
    <2>5. connected \in BOOLEAN /\ overlapped \in BOOLEAN
        BY Zenon DEF Init
    <2> QED
        BY <2>1, <2>2, <2>3, <2>4, <2>5 DEF TypeOK
<1>3. ListenersInv
    <2>1. \A k \in Kinds : Len(listeners[k]) = 0 /\ listeners[k] \in Seq(Subscribers)
        BY <1>1 DEF Init
    <2>2. \A k \in Kinds : DOMAIN listeners[k] = {}
        BY <2>1
    <2> QED
        BY <2>2 DEF ListenersInv, Once
<1>4. LoopsInv /\ CallsInv /\ EpochInv
    BY DEF Init, LoopsInv, CallsInv, EpochInv, Kinds, Epochs
<1> QED
    BY <1>2, <1>3, <1>4 DEF Inv

\* Registering at the end, removing from the middle.
LEMMA AppendOnce ==
    ASSUME NEW q \in Seq(Subscribers), NEW s \in Subscribers, NEW S,
           Once(q), \A i \in DOMAIN q : q[i] \in S, s \notin S
    PROVE  /\ Append(q, s) \in Seq(Subscribers)
           /\ Once(Append(q, s))
           /\ \A i \in DOMAIN Append(q, s) : Append(q, s)[i] \in S \cup {s}
BY DEF Once

LEMMA RemoveAtOnce ==
    ASSUME NEW q \in Seq(Subscribers), NEW i \in DOMAIN q, NEW S,
           Once(q), \A j \in DOMAIN q : q[j] \in S
    PROVE  /\ RemoveAt(q, i) \in Seq(Subscribers)
           /\ Once(RemoveAt(q, i))
           /\ \A j \in DOMAIN RemoveAt(q, i) : RemoveAt(q, i)[j] \in S
<1> DEFINE front == SubSeq(q, 1, i - 1)
           back == SubSeq(q, i + 1, Len(q))
           r == RemoveAt(q, i)
<1>1. i \in 1..Len(q) /\ Len(q) \in Nat /\ DOMAIN q = 1..Len(q)
    OBVIOUS
<1>a. /\ front \in Seq(Subscribers) /\ Len(front) = i - 1
      /\ \A j \in 1..(i - 1) : front[j] = q[j]
    BY <1>1, SubSeqProperties, Z3
<1>b. /\ back \in Seq(Subscribers) /\ Len(back) = Len(q) - i
      /\ \A j \in 1..(Len(q) - i) : back[j] = q[j + i]
    BY <1>1, SubSeqProperties, Z3
<1>c. r = front \o back
    BY DEF RemoveAt
<1> HIDE DEF front, back, r
<1>d. /\ r \in Seq(Subscribers)
      /\ Len(r) = Len(front) + Len(back)
      /\ \A j \in 1..(Len(front) + Len(back)) :
            r[j] = IF j <= Len(front) THEN front[j] ELSE back[j - Len(front)]
    BY <1>a, <1>b, <1>c, ConcatProperties, Zenon
<1>2. r \in Seq(Subscribers) /\ Len(r) = Len(q) - 1
    BY <1>1, <1>a, <1>b, <1>d
<1>3. \A j \in 1..Len(r) : r[j] = IF j < i THEN q[j] ELSE q[j + 1]
    <2> TAKE j \in 1..Len(r)
    <2>1. CASE j < i
        BY <2>1, <1>1, <1>2, <1>a, <1>b, <1>d
    <2>2. CASE ~(j < i)
        <3>1. j - (i - 1) \in 1..(Len(q) - i) /\ (j - (i - 1)) + i = j + 1
            BY <2>2, <1>1, <1>2
        <3>2. j \in 1..(Len(front) + Len(back))
            BY <1>d
        <3>3. ~(j <= Len(front))
            BY <2>2, <1>1, <1>2, <1>a
        <3>4. r[j] = back[j - Len(front)]
            BY <3>2, <3>3, <1>d, Zenon
        <3>5. r[j] = back[j - (i - 1)]
            BY <3>4, <1>a, Zenon
        <3> QED
            BY <2>2, <3>1, <3>5, <1>b
    <2> QED
        BY <2>1, <2>2
<1>4. DOMAIN r = 1..Len(r)
    BY <1>2
<1> DEFINE was(j) == IF j < i THEN j ELSE j + 1
<1>5. \A j \in DOMAIN r : was(j) \in DOMAIN q /\ r[j] = q[was(j)]
    <2> TAKE j \in DOMAIN r
    <2>1. was(j) \in DOMAIN q
        BY <1>1, <1>2, <1>4
    <2>2. r[j] = q[was(j)]
        BY <1>3, <1>4, Zenon
    <2> QED
        BY <2>1, <2>2
<1>6. \A j, k \in DOMAIN r : was(j) = was(k) => j = k
    BY <1>1, <1>2, <1>4
<1> HIDE DEF was
<1>7. Once(r)
    BY <1>5, <1>6, Zenon DEF Once
<1>8. \A j \in DOMAIN r : r[j] \in S
    BY <1>5, Zenon
<1> QED
    BY <1>2, <1>7, <1>8 DEF r

\* The rest of a loop's snapshot.
LEMMA TailOnce ==
    ASSUME NEW q \in Seq(Subscribers), q # << >>, Once(q)
    PROVE  /\ Head(q) \in Subscribers /\ Tail(q) \in Seq(Subscribers)
           /\ Head(q) = q[1] /\ 1 \in DOMAIN q
           /\ Once(Tail(q))
           /\ \A i \in DOMAIN Tail(q) :
                 i + 1 \in DOMAIN q /\ Tail(q)[i] = q[i + 1] /\ Tail(q)[i] # Head(q)
<1>1. DOMAIN q = 1..Len(q) /\ DOMAIN Tail(q) = 1..(Len(q) - 1) /\ Len(q) >= 1
    BY HeadTailProperties
<1>2. \A i \in DOMAIN Tail(q) : Tail(q)[i] = q[i + 1]
    BY <1>1, HeadTailProperties
<1>3. Head(q) = q[1] /\ Head(q) \in Subscribers /\ Tail(q) \in Seq(Subscribers)
    BY <1>1
<1> QED
    BY <1>1, <1>2, <1>3 DEF Once

-----------------------------------------------------------------------------
(* What a call and a loop do, beside what else their action does to the latch. *)

\* No call has been made for a transition that is still to come after the action.
Uncalled ==
    \A k \in Kinds, s \in Subscribers, e \in Epochs :
        /\ e > epoch' => calls[k][s][e] = 0
        /\ connected' /\ e = epoch' /\ k = "disconnect" => calls[k][s][e] = 0

\* The latch after the action has been through the transition k of epoch e.
Been(k, e) == e <= epoch' /\ (connected' /\ e = epoch' => k = "connect")

LEMMA InvokeInv ==
    ASSUME TypeOK, CallsInv, Uncalled, epoch' \in 0..MaxEpochs,
           NEW k \in Kinds, NEW s \in Subscribers, NEW e \in Epochs,
           Invoke(k, s, e), Been(k, e),
           \A j \in Kinds : seen[j] \subseteq seen'[j],
           calls[k][s][e] = 0, s \in seen'[k]
    PROVE  /\ calls' \in [Kinds -> [Subscribers -> [Epochs -> Nat]]]
           /\ lastHeard' \in [Subscribers -> Kinds \cup {"nothing"}]
           /\ CallsInv'
           /\ \A j \in Kinds, r \in Subscribers, f \in Epochs :
                 ~(j = k /\ r = s /\ f = e) => calls'[j][r][f] = calls[j][r][f]
<1>1. calls' \in [Kinds -> [Subscribers -> [Epochs -> Nat]]]
    BY DEF TypeOK, Invoke
<1>2. \A j \in Kinds, r \in Subscribers, f \in Epochs :
          calls'[j][r][f] = IF j = k /\ r = s /\ f = e THEN 1 ELSE calls[j][r][f]
    BY DEF TypeOK, Invoke
<1>3. CallsInv'
    <2>1. Epochs \subseteq Nat
        BY DEF Epochs
    <2>2. SUFFICES ASSUME NEW j \in Kinds, NEW r \in Subscribers, NEW f \in Epochs
                   PROVE  /\ calls'[j][r][f] <= 1
                          /\ f > epoch' => calls'[j][r][f] = 0
                          /\ connected' /\ f = epoch' /\ j = "disconnect" => calls'[j][r][f] = 0
                          /\ r \notin seen'[j] => calls'[j][r][f] = 0
        BY Zenon DEF CallsInv
    <2>3. CASE j = k /\ r = s /\ f = e
        <3>1. calls'[j][r][f] = 1
            BY <1>2, <2>3
        <3>2. ~(f > epoch')
            BY <2>1, <2>3 DEF Been
        <3>3. ~(connected' /\ f = epoch' /\ j = "disconnect")
            BY <2>3 DEF Been
        <3> QED
            BY <2>3, <3>1, <3>2, <3>3
    <2>4. CASE ~(j = k /\ r = s /\ f = e)
        <3>1. calls'[j][r][f] = calls[j][r][f]
            BY <1>2, <2>4
        <3>2. calls[j][r][f] <= 1 /\ (r \notin seen[j] => calls[j][r][f] = 0)
            BY DEF CallsInv
        <3>3. /\ f > epoch' => calls[j][r][f] = 0
              /\ connected' /\ f = epoch' /\ j = "disconnect" => calls[j][r][f] = 0
            BY Zenon DEF Uncalled
        <3> QED
            BY <3>1, <3>2, <3>3
    <2> QED
        BY <2>3, <2>4
<1>4. lastHeard' \in [Subscribers -> Kinds \cup {"nothing"}]
    BY DEF TypeOK, Invoke
<1> QED
    BY <1>1, <1>2, <1>3, <1>4

\* The snapshot q of listeners that are still to be called for the transition.
Snapshot(k, e, q) ==
    /\ q \in Seq(Subscribers) /\ Once(q)
    /\ \A i \in DOMAIN q : q[i] \in seen[k] /\ calls[k][q[i]][e] = 0

\* The loops of other transitions.
Others(others, k, e) ==
    \A l \in others : l \in loops /\ Been(l.kind, l.epoch) /\ ~(l.kind = k /\ l.epoch = e)

LEMMA RunLoopInv ==
    ASSUME TypeOK, CallsInv, LoopsInv, Uncalled, epoch' \in 0..MaxEpochs, UNCHANGED seen,
           NEW others, NEW k \in Kinds, NEW e \in Epochs, NEW q,
           RunLoop(others, k, e, q), Been(k, e), Snapshot(k, e, q), Others(others, k, e)
    PROVE  /\ calls' \in [Kinds -> [Subscribers -> [Epochs -> Nat]]]
           /\ lastHeard' \in [Subscribers -> Kinds \cup {"nothing"}]
           /\ loops' \subseteq Loop
           /\ CallsInv' /\ LoopsInv'
<1> USE DEF Snapshot, Others
<1>1. CASE q = << >>
    <2>1. UNCHANGED <<calls, lastHeard>> /\ loops' = others
        BY <1>1 DEF RunLoop
    <2>2. CallsInv'
        BY <2>1 DEF CallsInv, Uncalled
    <2>3. LoopsInv'
        BY <2>1 DEF LoopsInv, Been
    <2> QED
        BY <2>1, <2>2, <2>3 DEF TypeOK
<1>2. CASE q # << >>
    <2> DEFINE new == [kind |-> k, epoch |-> e, current |-> Head(q), rest |-> Tail(q)]
    <2>1. loops' = others \cup {new} /\ Invoke(k, Head(q), e)
        BY <1>2 DEF RunLoop
    <2>2. /\ Head(q) \in Subscribers /\ Tail(q) \in Seq(Subscribers)
          /\ Head(q) = q[1] /\ 1 \in DOMAIN q /\ Once(Tail(q))
          /\ \A i \in DOMAIN Tail(q) :
                i + 1 \in DOMAIN q /\ Tail(q)[i] = q[i + 1] /\ Tail(q)[i] # Head(q)
        BY <1>2, TailOnce
    <2>3. Head(q) \in seen'[k] /\ calls[k][Head(q)][e] = 0
        BY <2>2
    <2>4. /\ calls' \in [Kinds -> [Subscribers -> [Epochs -> Nat]]]
          /\ lastHeard' \in [Subscribers -> Kinds \cup {"nothing"}]
          /\ CallsInv'
          /\ \A j \in Kinds, r \in Subscribers, f \in Epochs :
                ~(j = k /\ r = Head(q) /\ f = e) => calls'[j][r][f] = calls[j][r][f]
        BY <2>1, <2>2, <2>3, InvokeInv
    <2>5. new \in Loop
        BY <2>2 DEF Loop
    <2>6. \A l \in others :
             /\ l \in Loop /\ Been(l.kind, l.epoch) /\ Once(l.rest)
             /\ \A i \in DOMAIN l.rest :
                   l.rest[i] \in seen'[l.kind] /\ calls'[l.kind][l.rest[i]][l.epoch] = 0
        <3> TAKE l \in others
        <3>1. l \in Loop /\ l \in loops
            BY DEF TypeOK
        <3>2. l.kind \in Kinds /\ l.epoch \in Epochs /\ l.rest \in Seq(Subscribers)
            BY <3>1 DEF Loop
        <3>3. ASSUME NEW i \in DOMAIN l.rest
              PROVE  l.rest[i] \in seen'[l.kind] /\ calls'[l.kind][l.rest[i]][l.epoch] = 0
            <4>1. l.rest[i] \in seen[l.kind] /\ calls[l.kind][l.rest[i]][l.epoch] = 0
                BY <3>1 DEF LoopsInv
            <4>2. l.rest[i] \in Subscribers
                BY <3>2
            <4>3. calls'[l.kind][l.rest[i]][l.epoch] = calls[l.kind][l.rest[i]][l.epoch]
                BY <2>4, <3>2, <4>2
            <4> QED
                BY <4>1, <4>3
        <3> QED
            BY <3>1, <3>3 DEF LoopsInv
    <2>7. \A i \in DOMAIN Tail(q) : Tail(q)[i] \in seen'[k] /\ calls'[k][Tail(q)[i]][e] = 0
        <3> TAKE i \in DOMAIN Tail(q)
        <3>1. Tail(q)[i] \in seen[k] /\ calls[k][Tail(q)[i]][e] = 0 /\ Tail(q)[i] # Head(q)
            BY <2>2
        <3>2. Tail(q)[i] \in Subscribers
            BY <2>2
        <3> QED
            BY <2>4, <3>1, <3>2
    <2>8. /\ new.kind = k /\ new.epoch = e /\ new.rest = Tail(q)
          /\ Been(new.kind, new.epoch) /\ Once(new.rest)
          /\ \A i \in DOMAIN new.rest :
                new.rest[i] \in seen'[new.kind] /\ calls'[new.kind][new.rest[i]][new.epoch] = 0
        BY <2>2, <2>7
    <2> HIDE DEF new
    <2>9. LoopsInv'
        <3>1. \A l \in loops' :
                 /\ Been(l.kind, l.epoch) /\ Once(l.rest)
                 /\ \A i \in DOMAIN l.rest :
                       l.rest[i] \in seen'[l.kind] /\ calls'[l.kind][l.rest[i]][l.epoch] = 0
            BY <2>1, <2>6, <2>8
        <3>2. \A l, m \in loops' : l.kind = m.kind /\ l.epoch = m.epoch => l = m
            BY <2>1, <2>8 DEF LoopsInv
        <3> QED
            BY <3>1, <3>2 DEF LoopsInv, Been
    <2> QED
        BY <2>1, <2>4, <2>5, <2>6, <2>9
<1> QED
    BY <1>1, <1>2
-----------------------------------------------------------------------------
(* The actions. *)

LEMMA RegisterInv ==
    ASSUME Inv, NEW k \in Kinds, NEW s \in Subscribers, Register(k, s)
    PROVE  /\ listeners' \in [Kinds -> Seq(Subscribers)]
           /\ seen' \in [Kinds -> SUBSET Subscribers]
           /\ ListenersInv'
           /\ \A j \in Kinds : seen[j] \subseteq seen'[j]
           /\ s \in seen'[k]
<1>1. /\ listeners[k] \in Seq(Subscribers) /\ Once(listeners[k]) /\ s \notin seen[k]
      /\ \A i \in DOMAIN listeners[k] : listeners[k][i] \in seen[k]
    BY DEF Inv, TypeOK, ListenersInv, Register
<1>2. DEFINE longer == Append(listeners[k], s)
<1>3. /\ longer \in Seq(Subscribers) /\ Once(longer)
      /\ \A i \in DOMAIN longer : longer[i] \in seen[k] \cup {s}
    BY <1>1, AppendOnce
<1> HIDE DEF longer
<1>4. listeners' = [listeners EXCEPT ![k] = longer] /\ seen' = [seen EXCEPT ![k] = @ \cup {s}]
    BY DEF Register, longer
<1>5. /\ listeners' \in [Kinds -> Seq(Subscribers)]
      /\ seen' \in [Kinds -> SUBSET Subscribers]
    BY <1>3, <1>4 DEF Inv, TypeOK
<1>6. \A j \in Kinds : /\ listeners'[j] = IF j = k THEN longer ELSE listeners[j]
                       /\ seen'[j] = IF j = k THEN seen[j] \cup {s} ELSE seen[j]
    BY <1>4 DEF Inv, TypeOK
<1>7. ListenersInv'
    BY <1>3, <1>6 DEF Inv, ListenersInv
<1> QED
    BY <1>5, <1>6, <1>7

LEMMA OnConnectInv == ASSUME Inv, NEW s \in Subscribers, OnConnect(s) PROVE Inv'
<1>1. "connect" \in Kinds /\ Register("connect", s)
    BY DEF Kinds, OnConnect
<1>2. /\ listeners' \in [Kinds -> Seq(Subscribers)]
      /\ seen' \in [Kinds -> SUBSET Subscribers]
      /\ ListenersInv'
      /\ \A j \in Kinds : seen[j] \subseteq seen'[j]
      /\ s \in seen'["connect"]
    BY <1>1, RegisterInv
<1>3. UNCHANGED <<connected, epoch, loops, overlapped>>
    BY DEF OnConnect
<1>4. s \notin seen["connect"]
    BY <1>1 DEF Register
<1>5. CASE connected
    <2>1. epoch \in Epochs /\ epoch \in 0..MaxEpochs /\ Invoke("connect", s, epoch)
        BY <1>5 DEF Inv, EpochInv, TypeOK, OnConnect
    <2>2. Uncalled /\ Been("connect", epoch)
        BY <1>3, <2>1 DEF Inv, CallsInv, Uncalled, Been, Epochs
    <2>3. calls["connect"][s][epoch] = 0
        BY <1>1, <1>4, <2>1 DEF Inv, CallsInv
    <2>4. /\ calls' \in [Kinds -> [Subscribers -> [Epochs -> Nat]]]
          /\ lastHeard' \in [Subscribers -> Kinds \cup {"nothing"}]
          /\ CallsInv'
          /\ \A j \in Kinds, r \in Subscribers, f \in Epochs :
                ~(j = "connect" /\ r = s /\ f = epoch) => calls'[j][r][f] = calls[j][r][f]
        BY <1>1, <1>2, <1>3, <2>1, <2>2, <2>3, InvokeInv DEF Inv
    <2>5. \A l \in loops : \A i \in DOMAIN l.rest :
              l.rest[i] \in seen'[l.kind] /\ calls'[l.kind][l.rest[i]][l.epoch] = 0
        <3> TAKE l \in loops
        <3> TAKE i \in DOMAIN l.rest
        <3>1. l.kind \in Kinds /\ l.epoch \in Epochs /\ l.rest[i] \in Subscribers
            BY DEF Inv, TypeOK, Loop
        <3>2. l.rest[i] \in seen[l.kind] /\ calls[l.kind][l.rest[i]][l.epoch] = 0
            BY DEF Inv, LoopsInv
        <3>3. ~(l.kind = "connect" /\ l.rest[i] = s)
            BY <1>4, <3>2
        <3> QED
            BY <1>2, <2>4, <3>1, <3>2, <3>3
    <2>6. LoopsInv'
        BY <1>3, <2>5 DEF Inv, LoopsInv
    <2>7. TypeOK'
        BY <1>2, <1>3, <2>4 DEF Inv, TypeOK
    <2> QED
        BY <1>2, <1>3, <2>4, <2>6, <2>7 DEF Inv, EpochInv
<1>6. CASE ~connected
    <2>1. UNCHANGED <<calls, lastHeard>>
        BY <1>6 DEF OnConnect
    <2>2. LoopsInv'
        <3>1. \A l \in loops : l.kind \in Kinds
            BY DEF Inv, TypeOK, Loop
        <3> QED
            BY <1>2, <1>3, <2>1, <3>1 DEF Inv, LoopsInv
    <2>3. CallsInv'
        BY <1>2, <1>3, <2>1 DEF Inv, CallsInv
    <2>4. TypeOK'
        BY <1>2, <1>3, <2>1 DEF Inv, TypeOK
    <2> QED
        BY <1>2, <1>3, <2>2, <2>3, <2>4 DEF Inv, EpochInv
<1> QED
    BY <1>5, <1>6

LEMMA OnDisconnectInv == ASSUME Inv, NEW s \in Subscribers, OnDisconnect(s) PROVE Inv'
<1>1. "disconnect" \in Kinds /\ Register("disconnect", s)
    BY DEF Kinds, OnDisconnect
<1>2. /\ listeners' \in [Kinds -> Seq(Subscribers)]
      /\ seen' \in [Kinds -> SUBSET Subscribers]
      /\ ListenersInv'
      /\ \A j \in Kinds : seen[j] \subseteq seen'[j]
    BY <1>1, RegisterInv
<1>3. UNCHANGED <<connected, epoch, loops, calls, lastHeard, overlapped>>
    BY DEF OnDisconnect
<1>4. LoopsInv'
    <2>1. \A l \in loops : l.kind \in Kinds
        BY DEF Inv, TypeOK, Loop
    <2> QED
        BY <1>2, <1>3, <2>1 DEF Inv, LoopsInv
<1>5. CallsInv'
    BY <1>2, <1>3 DEF Inv, CallsInv
<1>6. TypeOK'
    BY <1>2, <1>3 DEF Inv, TypeOK
<1> QED
    BY <1>2, <1>3, <1>4, <1>5, <1>6 DEF Inv, EpochInv

\* Taking listeners away touches nothing but their registry.
LEMMA FewerInv ==
    ASSUME Inv, listeners' \in [Kinds -> Seq(Subscribers)], ListenersInv',
           UNCHANGED <<seen, connected, epoch, loops, calls, lastHeard, overlapped>>
    PROVE  Inv'
<1>1. TypeOK'
    BY DEF Inv, TypeOK
<1>2. LoopsInv' /\ CallsInv' /\ EpochInv'
    BY DEF Inv, LoopsInv, CallsInv, EpochInv
<1> QED
    BY <1>1, <1>2 DEF Inv

LEMMA RemoveListenerInv ==
    ASSUME Inv, NEW k \in Kinds, NEW s \in Subscribers, RemoveListener(k, s)
    PROVE  Inv'
<1>1. PICK i \in DOMAIN listeners[k] :
          listeners' = [listeners EXCEPT ![k] = RemoveAt(listeners[k], i)]
    BY DEF RemoveListener
<1>2. /\ listeners[k] \in Seq(Subscribers) /\ Once(listeners[k])
      /\ \A j \in DOMAIN listeners[k] : listeners[k][j] \in seen[k]
    BY DEF Inv, TypeOK, ListenersInv
<1> DEFINE fewer == RemoveAt(listeners[k], i)
<1>3. fewer \in Seq(Subscribers) /\ Once(fewer) /\ \A j \in DOMAIN fewer : fewer[j] \in seen[k]
    BY <1>2, RemoveAtOnce
<1>4. listeners' = [listeners EXCEPT ![k] = fewer]
    BY <1>1
<1> HIDE DEF fewer
<1>5. listeners' \in [Kinds -> Seq(Subscribers)]
    BY <1>3, <1>4 DEF Inv, TypeOK
<1>6. \A j \in Kinds : listeners'[j] = IF j = k THEN fewer ELSE listeners[j]
    BY <1>4 DEF Inv, TypeOK
<1>7. UNCHANGED <<seen, connected, epoch, loops, calls, lastHeard, overlapped>>
    BY DEF RemoveListener
<1>8. ListenersInv'
    BY <1>3, <1>6, <1>7 DEF Inv, ListenersInv
<1> QED
    BY <1>5, <1>7, <1>8, FewerInv

LEMMA ClearListenersInv == ASSUME Inv, ClearListeners PROVE Inv'
<1>1. << >> \in Seq(Subscribers)
    OBVIOUS
<1>2. listeners' \in [Kinds -> Seq(Subscribers)]
    BY <1>1 DEF ClearListeners
<1>3. \A k \in Kinds : Len(listeners'[k]) = 0 /\ listeners'[k] \in Seq(Subscribers)
    BY <1>1 DEF ClearListeners
<1>4. ListenersInv'
    <2>1. \A k \in Kinds : DOMAIN listeners'[k] = {}
        BY <1>3
    <2> QED
        BY <2>1 DEF ListenersInv, Once
<1> QED
    BY <1>2, <1>4, FewerInv DEF ClearListeners

\* What is left when the loop has made its step.
LEMMA LoopStepInv ==
    ASSUME Inv, UNCHANGED <<listeners, seen>>, epoch' \in 0..MaxEpochs,
           connected' \in BOOLEAN, overlapped' \in BOOLEAN, EpochInv',
           calls' \in [Kinds -> [Subscribers -> [Epochs -> Nat]]],
           lastHeard' \in [Subscribers -> Kinds \cup {"nothing"}],
           loops' \subseteq Loop, CallsInv', LoopsInv'
    PROVE  Inv'
<1>1. TypeOK'
    BY DEF Inv, TypeOK
<1>2. ListenersInv'
    BY DEF Inv, ListenersInv
<1> QED
    BY <1>1, <1>2 DEF Inv

LEMMA OverlapType == ASSUME Inv, Overlap PROVE overlapped' \in BOOLEAN
BY Zenon DEF Inv, TypeOK, Overlap

LEMMA MarkConnectedInv == ASSUME Inv, MarkConnected PROVE Inv'
<1>1. epoch' = epoch + 1 /\ epoch' \in 0..MaxEpochs /\ epoch' \in Epochs /\ epoch \in Nat
    BY ConnectableAssumption DEF MarkConnected, Inv, TypeOK, Epochs
<1>2. connected' = TRUE /\ "connect" \in Kinds /\ UNCHANGED <<listeners, seen>>
    BY DEF MarkConnected, Kinds
<1>3. Uncalled
    BY <1>1 DEF Inv, CallsInv, Uncalled, Epochs
<1>4. /\ listeners["connect"] \in Seq(Subscribers) /\ Once(listeners["connect"])
      /\ \A i \in DOMAIN listeners["connect"] : listeners["connect"][i] \in seen["connect"]
    BY <1>2 DEF Inv, TypeOK, ListenersInv
<1>5. \A i \in DOMAIN listeners["connect"] :
          calls["connect"][listeners["connect"][i]][epoch'] = 0
    <2> TAKE i \in DOMAIN listeners["connect"]
    <2>1. listeners["connect"][i] \in Subscribers
        BY <1>4
    <2> QED
        BY <1>1, <1>2, <2>1 DEF Inv, CallsInv
<1>6. \A l \in loops : Been(l.kind, l.epoch) /\ ~(l.kind = "connect" /\ l.epoch = epoch')
    <2> TAKE l \in loops
    <2>1. l.epoch \in Nat /\ l.epoch <= epoch
        BY DEF Inv, TypeOK, Loop, Epochs, LoopsInv
    <2>2. l.epoch <= epoch' /\ l.epoch # epoch'
        BY <1>1, <2>1
    <2> QED
        BY <2>2 DEF Been
<1>7. Been("connect", epoch')
    BY <1>1 DEF Been
<1>8. RunLoop(loops, "connect", epoch', listeners["connect"])
    BY <1>1 DEF MarkConnected
<1>9. /\ TypeOK /\ CallsInv /\ LoopsInv /\ UNCHANGED seen
      /\ Snapshot("connect", epoch', listeners["connect"])
      /\ Others(loops, "connect", epoch')
    BY <1>2, <1>4, <1>5, <1>6 DEF Inv, Snapshot, Others
<1>10. /\ calls' \in [Kinds -> [Subscribers -> [Epochs -> Nat]]]
       /\ lastHeard' \in [Subscribers -> Kinds \cup {"nothing"}]
       /\ loops' \subseteq Loop
       /\ CallsInv' /\ LoopsInv'
    BY <1>1, <1>2, <1>3, <1>7, <1>8, <1>9, RunLoopInv
<1>11. EpochInv' /\ connected' \in BOOLEAN
    BY <1>1, <1>2 DEF EpochInv
<1>12. overlapped' \in BOOLEAN
    BY OverlapType DEF MarkConnected
<1> QED
    BY <1>1, <1>2, <1>10, <1>11, <1>12, LoopStepInv

LEMMA MarkDisconnectedInv == ASSUME Inv, MarkDisconnected PROVE Inv'
<1>1. /\ connected /\ epoch' = epoch /\ epoch' \in 0..MaxEpochs /\ epoch \in Epochs
    BY DEF MarkDisconnected, Inv, TypeOK, EpochInv
<1>2. connected' = FALSE /\ "disconnect" \in Kinds /\ UNCHANGED <<listeners, seen>>
    BY DEF MarkDisconnected, Kinds
<1>3. Uncalled
    BY <1>1, <1>2 DEF Inv, CallsInv, Uncalled
<1>4. /\ listeners["disconnect"] \in Seq(Subscribers) /\ Once(listeners["disconnect"])
      /\ \A i \in DOMAIN listeners["disconnect"] :
            listeners["disconnect"][i] \in seen["disconnect"]
    BY <1>2 DEF Inv, TypeOK, ListenersInv
<1>5. \A i \in DOMAIN listeners["disconnect"] :
          calls["disconnect"][listeners["disconnect"][i]][epoch] = 0
    <2> TAKE i \in DOMAIN listeners["disconnect"]
    <2>1. listeners["disconnect"][i] \in Subscribers
        BY <1>4
    <2> QED
        BY <1>1, <1>2, <2>1 DEF Inv, CallsInv
<1>6. \A l \in loops : Been(l.kind, l.epoch) /\ ~(l.kind = "disconnect" /\ l.epoch = epoch)
    BY <1>1, <1>2 DEF Inv, LoopsInv, Been
<1>7. Been("disconnect", epoch)
    BY <1>1, <1>2 DEF Been, Epochs
<1>8. RunLoop(loops, "disconnect", epoch, listeners["disconnect"])
    BY DEF MarkDisconnected
<1>9. /\ TypeOK /\ CallsInv /\ LoopsInv /\ UNCHANGED seen
      /\ Snapshot("disconnect", epoch, listeners["disconnect"])
      /\ Others(loops, "disconnect", epoch)
    BY <1>2, <1>4, <1>5, <1>6 DEF Inv, Snapshot, Others
<1>10. /\ calls' \in [Kinds -> [Subscribers -> [Epochs -> Nat]]]
       /\ lastHeard' \in [Subscribers -> Kinds \cup {"nothing"}]
       /\ loops' \subseteq Loop
       /\ CallsInv' /\ LoopsInv'
    BY <1>1, <1>2, <1>3, <1>7, <1>8, <1>9, RunLoopInv
<1>11. EpochInv' /\ connected' \in BOOLEAN
    BY <1>1, <1>2 DEF EpochInv
<1>12. overlapped' \in BOOLEAN
    BY OverlapType DEF MarkDisconnected
<1> QED
    BY <1>1, <1>2, <1>10, <1>11, <1>12, LoopStepInv

LEMMA ListenerSettlesInv == ASSUME Inv, NEW l \in loops, ListenerSettles(l) PROVE Inv'
<1>1. UNCHANGED <<listeners, seen, connected, epoch, overlapped>>
    BY DEF ListenerSettles
<1>2. epoch' \in 0..MaxEpochs /\ connected' \in BOOLEAN /\ overlapped' \in BOOLEAN /\ EpochInv'
    BY <1>1 DEF Inv, TypeOK, EpochInv
<1>3. Uncalled
    BY <1>1 DEF Inv, CallsInv, Uncalled
<1>4. l.kind \in Kinds /\ l.epoch \in Epochs /\ l.rest \in Seq(Subscribers)
    BY DEF Inv, TypeOK, Loop
<1>5. /\ Once(l.rest) /\ Been(l.kind, l.epoch)
      /\ \A i \in DOMAIN l.rest :
            l.rest[i] \in seen[l.kind] /\ calls[l.kind][l.rest[i]][l.epoch] = 0
    BY <1>1 DEF Inv, LoopsInv, Been
<1>6. \A m \in loops \ {l} : Been(m.kind, m.epoch) /\ ~(m.kind = l.kind /\ m.epoch = l.epoch)
    BY <1>1 DEF Inv, LoopsInv, Been
<1>7. RunLoop(loops \ {l}, l.kind, l.epoch, l.rest)
    BY DEF ListenerSettles
<1>8. /\ TypeOK /\ CallsInv /\ LoopsInv /\ UNCHANGED seen
      /\ Snapshot(l.kind, l.epoch, l.rest)
      /\ Others(loops \ {l}, l.kind, l.epoch)
    BY <1>1, <1>4, <1>5, <1>6 DEF Inv, Snapshot, Others
<1>9. /\ calls' \in [Kinds -> [Subscribers -> [Epochs -> Nat]]]
      /\ lastHeard' \in [Subscribers -> Kinds \cup {"nothing"}]
      /\ loops' \subseteq Loop
      /\ CallsInv' /\ LoopsInv'
    BY <1>2, <1>3, <1>4, <1>5, <1>7, <1>8, RunLoopInv
<1> QED
    BY <1>1, <1>2, <1>9, LoopStepInv

LEMMA StepInv == Inv /\ [Next]_vars => Inv'
<1> SUFFICES ASSUME Inv, [Next]_vars
             PROVE  Inv'
    OBVIOUS
<1>1. CASE \E s \in Subscribers : OnConnect(s) \/ OnDisconnect(s)
    BY <1>1, OnConnectInv, OnDisconnectInv
<1>2. CASE \E k \in Kinds, s \in Subscribers : RemoveListener(k, s)
    BY <1>2, RemoveListenerInv
<1>3. CASE ClearListeners
    BY <1>3, ClearListenersInv
<1>4. CASE MarkConnected
    BY <1>4, MarkConnectedInv
<1>5. CASE MarkDisconnected
    BY <1>5, MarkDisconnectedInv
<1>6. CASE \E l \in loops : ListenerSettles(l)
    BY <1>6, ListenerSettlesInv
<1>7. CASE UNCHANGED vars
    <2>1. TypeOK'
        BY <1>7 DEF vars, Inv, TypeOK
    <2>2. ListenersInv' /\ LoopsInv' /\ CallsInv' /\ EpochInv'
        BY <1>7 DEF vars, Inv, ListenersInv, LoopsInv, CallsInv, EpochInv
    <2> QED
        BY <2>1, <2>2 DEF Inv
<1> QED
    BY <1>1, <1>2, <1>3, <1>4, <1>5, <1>6, <1>7 DEF Next

LEMMA InvAlways == Spec => []Inv
BY InitInv, StepInv, PTL DEF Spec

\* The registries, the latch and the loops under way have their types.
THEOREM ConnectableTypeOK == Spec => []TypeOK
<1>1. Inv => TypeOK
    BY DEF Inv
<1> QED
    BY <1>1, InvAlways, PTL

\* For any number of subscribers and of reconnects, and however registrations,
\* removals, marks and slow listeners interleave, no listener is told twice of the
\* same transition: neither by the replay and the loop, nor by two loops.
THEOREM ToldOnce == Spec => []AtMostOncePerTransition
<1>1. Inv => AtMostOncePerTransition
    BY DEF Inv, CallsInv, AtMostOncePerTransition
<1> QED
    BY <1>1, InvAlways, PTL

-----------------------------------------------------------------------------
(* What a subscriber was told last, while no mark overtakes another. *)

In(q, s) == \E i \in DOMAIN q : q[i] = s

\* One loop at most, and of the transition that came last.
OneLoop ==
    /\ \A l, m \in loops : l = m
    /\ \A l \in loops : l.epoch = epoch /\ l.kind = IF connected THEN "connect" ELSE "disconnect"

\* A registered listener has heard of the connection, or the loop will come to it.
UpHeard ==
    connected => \A s \in Subscribers : In(listeners["connect"], s) =>
        lastHeard[s] = "connect" \/ \E l \in loops : In(l.rest, s)

\* Nobody who has heard of the end of the epoch has heard of anything later.
DownHeard ==
    ~connected => \A s \in Subscribers, e \in Epochs :
        e = epoch /\ calls["disconnect"][s][e] > 0 => lastHeard[s] = "disconnect"

HeardInv == ~overlapped => OneLoop /\ UpHeard /\ DownHeard

\* What one step of the only loop tells.
LEMMA LoopTells ==
    ASSUME TypeOK, NEW k \in Kinds, NEW e \in Epochs, NEW q \in Seq(Subscribers),
           RunLoop({}, k, e, q)
    PROVE  /\ \A l, m \in loops' : l = m
           /\ \A l \in loops' : l.kind = k /\ l.epoch = e
           /\ \A s \in Subscribers : lastHeard'[s] \in {lastHeard[s], k}
           /\ \A s \in Subscribers : In(q, s) =>
                 lastHeard'[s] = k \/ \E l \in loops' : In(l.rest, s)
           /\ \A s \in Subscribers : calls'[k][s][e] > 0 =>
                 lastHeard'[s] = k \/ calls[k][s][e] > 0
<1>1. CASE q = << >>
    <2>1. DOMAIN q = {}
        BY <1>1
    <2> QED
        BY <1>1, <2>1 DEF RunLoop, In
<1>2. CASE q # << >>
    <2> DEFINE l == [kind |-> k, epoch |-> e, current |-> Head(q), rest |-> Tail(q)]
    <2>1. loops' = {l} /\ Invoke(k, Head(q), e)
        BY <1>2 DEF RunLoop
    <2>2. l.kind = k /\ l.epoch = e /\ l.rest = Tail(q)
        OBVIOUS
    <2> HIDE DEF l
    <2>3. \A s \in Subscribers : lastHeard'[s] = IF s = Head(q) THEN k ELSE lastHeard[s]
        BY <2>1 DEF Invoke, TypeOK
    <2>4. \A s \in Subscribers : s # Head(q) => calls'[k][s][e] = calls[k][s][e]
        BY <2>1 DEF Invoke, TypeOK
    <2>5. \A s \in Subscribers : In(q, s) => s = Head(q) \/ In(Tail(q), s)
        <3> SUFFICES ASSUME NEW i \in DOMAIN q, q[i] # Head(q)
                     PROVE  In(Tail(q), q[i])
            BY DEF In
        <3>1. /\ i \in 1..Len(q) /\ Len(q) \in Nat /\ Head(q) = q[1]
              /\ Tail(q) \in Seq(Subscribers) /\ Len(Tail(q)) = Len(q) - 1
              /\ \A j \in 1..Len(Tail(q)) : Tail(q)[j] = q[j + 1]
            BY <1>2, HeadTailProperties
        <3>2. i - 1 \in 1..Len(Tail(q)) /\ (i - 1) + 1 = i
            BY <3>1
        <3> QED
            BY <3>1, <3>2 DEF In
    <2> QED
        BY <2>1, <2>2, <2>3, <2>4, <2>5
<1> QED
    BY <1>1, <1>2

LEMMA HeardInit == Init => HeardInv
<1> SUFFICES ASSUME Init
             PROVE  HeardInv
    OBVIOUS
<1> QED
    BY DEF Init, HeardInv, OneLoop, UpHeard, DownHeard, Kinds

\* Registering while the connection is up tells at once; while it is down, nobody.
LEMMA OnConnectHeard ==
    ASSUME Inv, HeardInv, NEW s \in Subscribers, OnConnect(s)
    PROVE  HeardInv'
<1>1. /\ UNCHANGED <<connected, epoch, loops, overlapped>>
      /\ listeners' = [listeners EXCEPT !["connect"] = Append(@, s)]
      /\ listeners["connect"] \in Seq(Subscribers) /\ TypeOK
    BY DEF OnConnect, Register, Inv, TypeOK, Kinds
<1>2. SUFFICES ASSUME ~overlapped, OneLoop, UpHeard, DownHeard
               PROVE  OneLoop' /\ UpHeard' /\ DownHeard'
    BY <1>1 DEF HeardInv
<1>3. OneLoop'
    BY <1>1, <1>2 DEF OneLoop
<1>4. CASE connected
    <2>1. \A r \in Subscribers : lastHeard'[r] = IF r = s THEN "connect" ELSE lastHeard[r]
        BY <1>1, <1>4 DEF OnConnect, Invoke, TypeOK
    <2>2. listeners'["connect"] = Append(listeners["connect"], s)
        BY <1>1 DEF TypeOK, Kinds
    <2>3. \A r \in Subscribers : In(listeners'["connect"], r) =>
              r = s \/ In(listeners["connect"], r)
        BY <1>1, <2>2 DEF In
    <2> QED
        BY <1>1, <1>2, <1>3, <1>4, <2>1, <2>3 DEF UpHeard, DownHeard
<1>5. CASE ~connected
    BY <1>1, <1>2, <1>3, <1>5 DEF OnConnect, UpHeard, DownHeard
<1> QED
    BY <1>4, <1>5

\* A step that tells nobody, and registers nobody for the connection.
LEMMA SilentHeard ==
    ASSUME HeardInv, UNCHANGED <<connected, epoch, loops, calls, lastHeard, overlapped>>,
           \A s \in Subscribers : In(listeners'["connect"], s) => In(listeners["connect"], s)
    PROVE  HeardInv'
BY DEF HeardInv, OneLoop, UpHeard, DownHeard

LEMMA FewerHear ==
    ASSUME Inv, NEW s \in Subscribers,
           OnDisconnect(s) \/ (\E k \in Kinds : RemoveListener(k, s)) \/ ClearListeners
    PROVE  \A r \in Subscribers : In(listeners'["connect"], r) => In(listeners["connect"], r)
<1>0. "connect" \in Kinds /\ "disconnect" \in Kinds /\ listeners \in [Kinds -> Seq(Subscribers)]
    BY DEF Inv, TypeOK, Kinds
<1>1. CASE OnDisconnect(s)
    BY <1>0, <1>1 DEF OnDisconnect, Register
<1>2. ASSUME NEW k \in Kinds, RemoveListener(k, s)
      PROVE  \A r \in Subscribers : In(listeners'["connect"], r) => In(listeners["connect"], r)
    <2>1. PICK i \in DOMAIN listeners[k] :
              listeners' = [listeners EXCEPT ![k] = RemoveAt(listeners[k], i)]
        BY <1>2 DEF RemoveListener
    <2> DEFINE fewer == RemoveAt(listeners[k], i)
               all == {listeners[k][j] : j \in DOMAIN listeners[k]}
    <2>2. listeners[k] \in Seq(Subscribers) /\ Once(listeners[k])
        BY <1>0 DEF Inv, ListenersInv
    <2>3. \A j \in DOMAIN listeners[k] : listeners[k][j] \in all
        OBVIOUS
    <2>4. \A j \in DOMAIN fewer : fewer[j] \in all
        <3> HIDE DEF all
        <3> QED
            BY <2>2, <2>3, RemoveAtOnce
    <2>5. listeners'[k] = fewer /\ (k # "connect" => listeners'["connect"] = listeners["connect"])
        BY <1>0, <2>1
    <2> QED
        BY <2>4, <2>5 DEF In
<1>3. CASE ClearListeners
    <2>1. listeners'["connect"] = << >>
        BY <1>0, <1>3 DEF ClearListeners
    <2>2. DOMAIN listeners'["connect"] = {}
        BY <2>1
    <2> QED
        BY <2>2 DEF In
<1> QED
    BY <1>1, <1>2, <1>3

\* A mark that is not awaited while another runs starts the only loop.
LEMMA MarkConnectedHeard == ASSUME Inv, HeardInv, MarkConnected PROVE HeardInv'
<1>1. SUFFICES ASSUME ~overlapped'
               PROVE  OneLoop' /\ UpHeard' /\ DownHeard'
    BY DEF HeardInv
<1>2. loops = {}
    BY <1>1 DEF MarkConnected, Overlap
<1>3. /\ connected' = TRUE /\ epoch' = epoch + 1 /\ listeners' = listeners
      /\ "connect" \in Kinds /\ epoch + 1 \in Epochs
      /\ listeners["connect"] \in Seq(Subscribers)
      /\ RunLoop({}, "connect", epoch + 1, listeners["connect"])
    BY <1>2, ConnectableAssumption DEF MarkConnected, Inv, TypeOK, Epochs, Kinds
<1>4. OneLoop' /\ UpHeard'
    BY <1>3, LoopTells DEF OneLoop, UpHeard, Inv
<1> QED
    BY <1>3, <1>4 DEF DownHeard

LEMMA MarkDisconnectedHeard == ASSUME Inv, HeardInv, MarkDisconnected PROVE HeardInv'
<1>1. SUFFICES ASSUME ~overlapped'
               PROVE  OneLoop' /\ UpHeard' /\ DownHeard'
    BY DEF HeardInv
<1>2. loops = {}
    BY <1>1 DEF MarkDisconnected, Overlap
<1>3. /\ connected /\ connected' = FALSE /\ epoch' = epoch /\ listeners' = listeners
      /\ "disconnect" \in Kinds /\ epoch \in Epochs
      /\ listeners["disconnect"] \in Seq(Subscribers)
      /\ RunLoop({}, "disconnect", epoch, listeners["disconnect"])
    BY <1>2 DEF MarkDisconnected, Inv, TypeOK, EpochInv, Kinds
<1>4. \A s \in Subscribers : calls["disconnect"][s][epoch] = 0
    BY <1>3 DEF Inv, CallsInv
<1>5. \A s \in Subscribers : calls'["disconnect"][s][epoch] > 0 => lastHeard'[s] = "disconnect"
    BY <1>3, <1>4, LoopTells DEF Inv
<1>6. OneLoop'
    BY <1>3, LoopTells DEF OneLoop, Inv
<1> QED
    BY <1>3, <1>5, <1>6 DEF UpHeard, DownHeard

\* The loop tells the next listener of what is still true.
LEMMA SettlesHeard == ASSUME Inv, HeardInv, NEW l \in loops, ListenerSettles(l) PROVE HeardInv'
<1>1. UNCHANGED <<listeners, seen, connected, epoch, overlapped>>
    BY DEF ListenerSettles
<1>2. SUFFICES ASSUME ~overlapped, OneLoop, UpHeard, DownHeard
               PROVE  OneLoop' /\ UpHeard' /\ DownHeard'
    BY <1>1 DEF HeardInv
<1>3. loops = {l} /\ loops \ {l} = {}
    BY <1>2 DEF OneLoop
<1>4. /\ l.kind \in Kinds /\ l.epoch \in Epochs /\ l.rest \in Seq(Subscribers) /\ TypeOK
      /\ l.epoch = epoch /\ l.kind = IF connected THEN "connect" ELSE "disconnect"
    BY <1>2 DEF Inv, TypeOK, Loop, OneLoop
<1>5. RunLoop({}, l.kind, l.epoch, l.rest)
    BY <1>3 DEF ListenerSettles
<1>6. OneLoop'
    BY <1>1, <1>4, <1>5, LoopTells DEF OneLoop
<1>7. CASE connected
    <2>1. \A s \in Subscribers : In(listeners["connect"], s) =>
              lastHeard[s] = "connect" \/ In(l.rest, s)
        BY <1>2, <1>3, <1>7 DEF UpHeard
    <2>2. /\ l.kind = "connect"
          /\ \A s \in Subscribers : lastHeard'[s] \in {lastHeard[s], "connect"}
          /\ \A s \in Subscribers : In(l.rest, s) =>
                lastHeard'[s] = "connect" \/ \E m \in loops' : In(m.rest, s)
        BY <1>4, <1>5, <1>7, LoopTells
    <2> QED
        BY <1>1, <1>6, <1>7, <2>1, <2>2 DEF UpHeard, DownHeard
<1>8. CASE ~connected
    <2>1. /\ l.kind = "disconnect"
          /\ \A s \in Subscribers : lastHeard'[s] \in {lastHeard[s], "disconnect"}
          /\ \A s \in Subscribers : calls'["disconnect"][s][epoch] > 0 =>
                lastHeard'[s] = "disconnect" \/ calls["disconnect"][s][epoch] > 0
        BY <1>4, <1>5, <1>8, LoopTells
    <2>2. \A s \in Subscribers : calls["disconnect"][s][epoch] > 0 => lastHeard[s] = "disconnect"
        BY <1>2, <1>4, <1>8 DEF DownHeard
    <2> QED
        BY <1>1, <1>6, <1>8, <2>1, <2>2 DEF UpHeard, DownHeard
<1> QED
    BY <1>7, <1>8

LEMMA HeardStep == Inv /\ HeardInv /\ [Next]_vars => HeardInv'
<1> SUFFICES ASSUME Inv, HeardInv, [Next]_vars
             PROVE  HeardInv'
    OBVIOUS
<1>1. CASE \E s \in Subscribers : OnConnect(s)
    BY <1>1, OnConnectHeard
<1>2. ASSUME NEW s \in Subscribers, OnDisconnect(s)
      PROVE  HeardInv'
    BY <1>2, FewerHear, SilentHeard DEF OnDisconnect
<1>3. ASSUME NEW k \in Kinds, NEW s \in Subscribers, RemoveListener(k, s)
      PROVE  HeardInv'
    BY <1>3, FewerHear, SilentHeard DEF RemoveListener
<1>4. CASE ClearListeners
    <2>1. CASE Subscribers = {}
        BY <1>4, <2>1, SilentHeard DEF ClearListeners
    <2>2. CASE Subscribers # {}
        BY <1>4, <2>2, FewerHear, SilentHeard DEF ClearListeners
    <2> QED
        BY <2>1, <2>2
<1>5. CASE MarkConnected
    BY <1>5, MarkConnectedHeard
<1>6. CASE MarkDisconnected
    BY <1>6, MarkDisconnectedHeard
<1>7. CASE \E l \in loops : ListenerSettles(l)
    BY <1>7, SettlesHeard
<1>8. CASE UNCHANGED vars
    BY <1>8 DEF vars, HeardInv, OneLoop, UpHeard, DownHeard
<1> QED
    BY <1>1, <1>2, <1>3, <1>4, <1>5, <1>6, <1>7, <1>8 DEF Next

\* While the owner awaits its marks, and whatever else interleaves, what a subscriber
\* heard last is true whenever no loop is under way.
THEOREM HeardLast == Spec => []LastHeardIsTrue
<1>1. Inv /\ HeardInv => LastHeardIsTrue
    <2> SUFFICES ASSUME Inv, HeardInv, ~overlapped, loops = {}, NEW s \in Subscribers
                 PROVE  /\ connected /\ Contains(listeners["connect"], s) => lastHeard[s] = "connect"
                        /\ ~connected /\ epoch > 0 /\ calls["disconnect"][s][epoch] > 0 =>
                                lastHeard[s] = "disconnect"
        BY DEF LastHeardIsTrue
    <2>1. UpHeard /\ DownHeard
        BY DEF HeardInv
    <2>2. Contains(listeners["connect"], s) => In(listeners["connect"], s)
        BY DEF Contains, In, Inv, TypeOK, Kinds
    <2>3. epoch > 0 => epoch \in Epochs
        BY ConnectableAssumption DEF Inv, TypeOK, Epochs
    <2> QED
        BY <2>1, <2>2, <2>3 DEF UpHeard, DownHeard
<1> QED
    BY <1>1, InitInv, StepInv, HeardInit, HeardStep, PTL DEF Spec
=============================================================================
