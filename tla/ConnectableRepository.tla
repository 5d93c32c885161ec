----------------------- MODULE ConnectableRepository -----------------------
(***************************************************************************)
(* The connection latch of                                                 *)
(* packages/xf/src/repository/general/ConnectableRepository.ts.            *)
(*                                                                         *)
(* A subscriber stands for one connect listener and one disconnect         *)
(* listener (registrations have ids of their own, so a listener registered *)
(* again is another subscriber).  Listeners are asynchronous: the owner,   *)
(* other subscribers and late registrations run while one is pending.      *)
(* A listener that throws or rejects is caught by invoke, so it settles    *)
(* like any other.                                                         *)
(***************************************************************************)
EXTENDS Naturals, Sequences, SequencesExt

CONSTANTS
    Subscribers,   \* the registrations that are ever made
    MaxEpochs      \* bound of the model: how many times the connection comes up

ASSUME ConnectableAssumption == MaxEpochs \in Nat

Kinds == {"connect", "disconnect"}
Epochs == 1..MaxEpochs

VARIABLES
    listeners,   \* connectListeners and disconnectListeners, in registration order
    seen,        \* history: the listeners ever registered, per kind
    connected,   \* private connected
    epoch,       \* history: how many times the connection came up
    loops,       \* the mark calls whose loop is awaiting a listener
    calls,       \* history: how often a listener was invoked for an epoch
    lastHeard,   \* history: what each subscriber was told last
    overlapped   \* history: was a mark made before the one before it was awaited?

vars == <<listeners, seen, connected, epoch, loops, calls, lastHeard, overlapped>>

Init ==
    /\ listeners = [k \in Kinds |-> <<>>]
    /\ seen = [k \in Kinds |-> {}]
    /\ connected = FALSE
    /\ epoch = 0
    /\ loops = {}
    /\ calls = [k \in Kinds |-> [s \in Subscribers |-> [e \in Epochs |-> 0]]]
    /\ lastHeard = [s \in Subscribers |-> "nothing"]
    /\ overlapped = FALSE

\* invoke(): the synchronous start of a listener, for epoch e.
Invoke(k, s, e) ==
    /\ calls' = [calls EXCEPT ![k][s][e] = @ + 1]
    /\ lastHeard' = [lastHeard EXCEPT ![s] = k]

Register(k, s) ==
    /\ s \notin seen[k]
    /\ seen' = [seen EXCEPT ![k] = @ \cup {s}]
    /\ listeners' = [listeners EXCEPT ![k] = Append(@, s)]

\* Mutant: a connect listener registered late is not told.
OnConnectNoReplay(s) ==
    /\ Register("connect", s)
    /\ UNCHANGED <<calls, lastHeard, connected, epoch, loops, overlapped>>

\* onConnect(): a latch, not an event - fires at once when already connected.
\* Nobody awaits that invocation, so when it settles changes nothing.
OnConnect(s) ==
    /\ Register("connect", s)
    /\ IF connected
       THEN Invoke("connect", s, epoch)
       ELSE UNCHANGED <<calls, lastHeard>>
    /\ UNCHANGED <<connected, epoch, loops, overlapped>>

\* onDisconnect(): no replay.
OnDisconnect(s) ==
    /\ Register("disconnect", s)
    /\ UNCHANGED <<connected, epoch, loops, calls, lastHeard, overlapped>>

\* remove(): the ids of a subscriber's two listeners differ.
RemoveListener(k, s) ==
    /\ \E i \in DOMAIN listeners[k] :
          /\ listeners[k][i] = s
          /\ listeners' = [listeners EXCEPT ![k] = RemoveAt(@, i)]
    /\ UNCHANGED <<seen, connected, epoch, loops, calls, lastHeard, overlapped>>

\* clearConnectionListeners().
ClearListeners ==
    /\ listeners' = [k \in Kinds |-> <<>>]
    /\ UNCHANGED <<seen, connected, epoch, loops, calls, lastHeard, overlapped>>

\* Mutant: the loop ends after its first listener.
RunLoopOnce(others, k, e, q) ==
    IF q = <<>>
    THEN loops' = others /\ UNCHANGED <<calls, lastHeard>>
    ELSE /\ loops' = others \cup {[kind |-> k, epoch |-> e, current |-> Head(q), rest |-> <<>>]}
         /\ Invoke(k, Head(q), e)

\* The for loop of a mark over its snapshot q, up to the next await.
RunLoop(others, k, e, q) ==
    IF q = <<>>
    THEN loops' = others /\ UNCHANGED <<calls, lastHeard>>
    ELSE /\ loops' = others \cup {[kind |-> k, epoch |-> e, current |-> Head(q), rest |-> Tail(q)]}
         /\ Invoke(k, Head(q), e)

Overlap == overlapped' = (overlapped \/ loops # {})

\* Mutant: markConnected() is not idempotent.
MarkConnectedAgain ==
    /\ epoch < MaxEpochs
    /\ connected' = TRUE
    /\ epoch' = IF connected THEN epoch ELSE epoch + 1
    /\ Overlap
    /\ RunLoop(loops, "connect", epoch', listeners["connect"])
    /\ UNCHANGED <<listeners, seen>>

\* markConnected(): idempotent; the flag first, then a snapshot of listeners.
MarkConnected ==
    /\ ~connected
    /\ epoch < MaxEpochs
    /\ connected' = TRUE
    /\ epoch' = epoch + 1
    /\ Overlap
    /\ RunLoop(loops, "connect", epoch + 1, listeners["connect"])
    /\ UNCHANGED <<listeners, seen>>

\* markDisconnected().
MarkDisconnected ==
    /\ connected
    /\ connected' = FALSE
    /\ Overlap
    /\ RunLoop(loops, "disconnect", epoch, listeners["disconnect"])
    /\ UNCHANGED <<listeners, seen, epoch>>

\* The listener a loop awaits settles: on to the next one of the snapshot.
ListenerSettles(l) ==
    /\ RunLoop(loops \ {l}, l.kind, l.epoch, l.rest)
    /\ UNCHANGED <<listeners, seen, connected, epoch, overlapped>>

Next ==
    \/ \E s \in Subscribers : OnConnect(s) \/ OnDisconnect(s)
    \/ \E k \in Kinds, s \in Subscribers : RemoveListener(k, s)
    \/ ClearListeners
    \/ MarkConnected
    \/ MarkDisconnected
    \/ \E l \in loops : ListenerSettles(l)

Spec == Init /\ [][Next]_vars

\* Listeners settle, those of every loop.
Fairness ==
    \A k \in Kinds, e \in Epochs :
        WF_vars(\E l \in loops : l.kind = k /\ l.epoch = e /\ ListenerSettles(l))

FairSpec == Spec /\ Fairness

-----------------------------------------------------------------------------
Loop == [kind : Kinds, epoch : Epochs, current : Subscribers, rest : Seq(Subscribers)]

TypeOK ==
    /\ listeners \in [Kinds -> Seq(Subscribers)]
    /\ seen \in [Kinds -> SUBSET Subscribers]
    /\ connected \in BOOLEAN
    /\ epoch \in 0..MaxEpochs
    /\ loops \subseteq Loop
    /\ calls \in [Kinds -> [Subscribers -> [Epochs -> Nat]]]
    /\ lastHeard \in [Subscribers -> Kinds \cup {"nothing"}]
    /\ overlapped \in BOOLEAN

\* "Callback invoked once per connect transition" (lines 86, 103): however
\* registrations, snapshots of earlier transitions and removals interleave,
\* no listener is told twice of the same transition.
AtMostOncePerTransition ==
    \A k \in Kinds, s \in Subscribers, e \in Epochs : calls[k][s][e] <= 1

\* No late-subscriber trap (lines 15-30): a connect listener registered at any
\* moment of an epoch, before or after the connection came up, hears of that
\* epoch, even if the connection drops meanwhile, unless it is removed.
EverySubscriberHears ==
    \A s \in Subscribers, e \in Epochs :
        (connected /\ epoch = e /\ s \in seen["connect"]) ~>
            (calls["connect"][s][e] = 1 \/ ~Contains(listeners["connect"], s))

\* While the owner awaits its marks (lines 39-40), a subscriber was last told
\* the truth whenever no loop is running: connect if the connection is up,
\* disconnect if it is down and the subscriber was told of this epoch's end.
LastHeardIsTrue ==
    ~overlapped /\ loops = {} =>
        \A s \in Subscribers :
            /\ connected /\ Contains(listeners["connect"], s) => lastHeard[s] = "connect"
            /\ ~connected /\ epoch > 0 /\ calls["disconnect"][s][epoch] > 0 =>
                    lastHeard[s] = "disconnect"
=============================================================================
