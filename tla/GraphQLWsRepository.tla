-------------------------- MODULE GraphQLWsRepository --------------------------
(***************************************************************************)
(* GraphQL subscriptions over one socket: GraphQLWsRepository.ts and       *)
(* WebSocketRepository.ts of packages/xf-client-http.  The server may send *)
(* anything at any time; a sink may throw or unsubscribe when it is called.*)
(***************************************************************************)
EXTENDS Naturals

CONSTANT MaxSubs    \* bound of the model: how often subscribe() is called

SubIds == 1..MaxSubs

VARIABLES
    socket,     \* "opening", "open", "failed" but not closed yet, "closed"
    opened,     \* what open() has come to: "pending", "client", "rejected"
    acked,      \* the local of handshake()
    errored,    \* history: has the socket reported an error before its ack?
    sinks,      \* the sinks registered, by id
    counter,    \* the last id
    over,       \* history: the subscriptions that were told their end, or gave up
    late,       \* history: those that were called after that
    threw,      \* history: has a sink thrown?
    orphans     \* history: those made when the socket was closed

vars == <<socket, opened, acked, errored, sinks, counter, over, late, threw, orphans>>

Init ==
    /\ socket = "opening"
    /\ opened = "pending"
    /\ acked = FALSE
    /\ errored = FALSE
    /\ sinks = {}
    /\ counter = 0
    /\ over = {}
    /\ late = {}
    /\ threw = FALSE
    /\ orphans = {}

subscriptions == <<sinks, counter, over, late, threw, orphans>>

\* connect(): the socket opens, or reports an error and is closed.
Opens ==
    /\ socket = "opening"
    /\ socket' = "open"
    /\ UNCHANGED <<opened, acked, errored, subscriptions>>

\* An error of the socket rejects open() as long as there is no ack; the socket is
\* closed right after it.
Errors ==
    /\ socket \in {"opening", "open"}
    /\ socket' = "failed"
    /\ errored' = ~acked
    /\ opened' = IF acked THEN opened ELSE "rejected"
    /\ UNCHANGED <<acked, subscriptions>>

Ack ==
    /\ socket = "open"
    /\ acked' = TRUE
    /\ opened' = IF acked THEN opened ELSE "client"
    /\ UNCHANGED <<socket, errored, subscriptions>>

\* subscribe(): on a socket that is closed the message is discarded.
Subscribe ==
    /\ opened = "client"
    /\ counter < MaxSubs
    /\ counter' = counter + 1
    /\ sinks' = sinks \cup {counter'}
    /\ orphans' = IF socket = "closed" THEN orphans \cup {counter'} ELSE orphans
    /\ UNCHANGED <<socket, opened, acked, errored, over, late, threw>>

\* Mutant: the server is told, and the sink stays.
UnsubscribeKeepsSink(id) ==
    /\ id \in sinks
    /\ over' = over \cup {id}
    /\ UNCHANGED <<socket, opened, acked, errored, sinks, counter, late, threw, orphans>>

\* What subscribe() returns: the sink is gone at once, whatever is on its way.
Unsubscribe(id) ==
    /\ id \in sinks
    /\ sinks' = sinks \ {id}
    /\ over' = over \cup {id}
    /\ UNCHANGED <<socket, opened, acked, errored, counter, late, threw, orphans>>

Hears(id) == late' = IF id \in over THEN late \cup {id} ELSE late

\* A message "next", with errors or without: it does not end the subscription.
NextMessage(id) ==
    /\ socket = "open"
    /\ id \in sinks
    /\ Hears(id)
    /\ \/ UNCHANGED <<sinks, over, threw>>
       \/ threw' = TRUE /\ UNCHANGED <<sinks, over>>
       \/ sinks' = sinks \ {id} /\ over' = over \cup {id} /\ UNCHANGED threw
    /\ UNCHANGED <<socket, opened, acked, errored, counter, orphans>>

\* "error" and "complete": the sink is called and then removed, in that order, so
\* one that throws is not removed.
EndMessage(id) ==
    /\ socket = "open"
    /\ id \in sinks
    /\ Hears(id)
    /\ over' = over \cup {id}
    /\ \/ sinks' = sinks \ {id} /\ UNCHANGED threw
       \/ threw' = TRUE /\ UNCHANGED sinks
    /\ UNCHANGED <<socket, opened, acked, errored, counter, orphans>>

\* The socket is closed, by dispose() or by the server: all sinks complete, unless
\* one of them throws, which leaves it and the rest of them registered.
Closes ==
    /\ socket \in {"open", "failed"}
    /\ socket' = "closed"
    /\ \E told \in SUBSET sinks, throws \in BOOLEAN :
        /\ IF throws THEN told # {} ELSE told = sinks
        /\ threw' = (threw \/ throws)
        /\ over' = over \cup told
        /\ late' = late \cup (told \cap over)
        /\ sinks' = IF throws THEN sinks ELSE {}
    /\ UNCHANGED <<opened, acked, errored, counter, orphans>>

Next ==
    \/ Opens \/ Errors \/ Ack \/ Subscribe \/ Closes
    \/ \E id \in SubIds : Unsubscribe(id) \/ NextMessage(id) \/ EndMessage(id)

Spec == Init /\ [][Next]_vars

-----------------------------------------------------------------------------
\* A sink that was told of its end, or has given up, is not called again; when the
\* socket is closed every sink has been told, but those that subscribed after
\* that; and open() hangs for ever in one case only: the server closes the socket
\* before its ack without an error.  A sink that throws voids the first two.
SinksEndOnce ==
    /\ threw \/ late = {}
    /\ socket = "closed" => threw \/ sinks \subseteq orphans
    /\ opened = "pending" /\ socket = "closed" => ~errored /\ ~acked
=============================================================================
