------------------------------ MODULE MCClients ------------------------------
(* The clients of packages/xf-sql, xf-kv, xf-rest, xf-client and xf-client-http, *)
(* one of them per behaviour: a database, a key-value store, and a REST server,  *)
(* its events and its GraphQL subscriptions.                                     *)
EXTENDS KeyValueRepository

CONSTANTS
    Drivers, Consumers, Ids, Cells, Null, MaxPools,
    MaxAttempts, KyRetries, Texts, Splitting, Events, MaxEvents, MaxSubs,
    NoName, a, b, crText

ASSUME IdsAssumption == IsFiniteSet(Ids) /\ Ids \subseteq Nat

\* The data of an event has a line at least, which may be empty.
ASSUME EventsAssumption ==
    Events \subseteq [name : Texts \cup {NoName}, data : Seq(Texts) \ {<<>>}]

VARIABLES
    part,
    shared, current, open, ended, nextPool, connected, step, mine, crossed, table, query,
    package, policy, restClient, call,
    ending, sent, wire, buffer, pending, got, stream, hurt,
    socket, opened, acked, errored, sinks, counter, over, late, threw, orphans

kvVars == vars
databaseVars ==
    <<shared, current, open, ended, nextPool, connected, step, mine, crossed, table, query>>
restVars == <<package, policy, restClient, call>>
sseVars == <<ending, sent, wire, buffer, pending, got, stream, hurt>>
wsVars == <<socket, opened, acked, errored, sinks, counter, over, late, threw, orphans>>

DriverSymmetry == Permutations(Drivers)

\* Two key-value repositories: the namespace "a:[b]" of the second continues the "a" of
\* the first, and the key "[b]:x" of the first is the key "x" of the second.  The glob
\* "a:[b]:*" of the second matches "a:b:x", a key of the first, and not its own.
MCSegments == {"a", "b", "[b]", "x"}
MCSpecial == {"[b]"}
MCNsOf == [c \in Callers |-> IF c = "first" THEN <<"a">> ELSE <<"a", "[b]">>]
MCKeys ==
    [c \in Callers |-> IF c = "first" THEN {<<"b", "x">>, <<"[b]", "x">>} ELSE {<<"x">>}]
MCMatched ==
    [c \in Callers |-> IF c = "first" THEN {<<"a", "b", "x">>, <<"a", "[b]", "x">>}
                       ELSE {<<"a", "b", "x">>}]
MCAmounts == {-1, 1}
MCCounts == 0..1

\* The text crText holds a CR.
MCEvents ==
    {[name |-> NoName, data |-> <<a>>], [name |-> NoName, data |-> <<crText>>],
     [name |-> b, data |-> <<a, b>>]}
MCSplitting == {crText}

Database ==
    INSTANCE DatabaseRepository WITH Callers <- Consumers, Values <- Cells, job <- query
Rest == INSTANCE RestRepository WITH client <- restClient
Sse == INSTANCE SseRepository
Ws == INSTANCE GraphQLWsRepository

\* Bound of the run: lifecycle calls that overlap, or replace an open pool, are
\* followed as long as no call is in flight.
OverlapsAlone == crossed => \A c \in Consumers : query[c] = Database!Idle

\* The parts that do not run keep one of their initial states.
MCInit ==
    /\ part \in {"database", "keyvalue", "rest", "sse", "ws"}
    /\ Init /\ Database!Init /\ Rest!Init /\ Sse!Init /\ Ws!Init
    /\ part # "database" => ~shared /\ table = [i \in Ids |-> Absent]
    /\ part # "keyvalue" => kind = "redis"
    /\ part # "rest" => package = "xf-rest" /\ policy = "none"
    /\ part # "sse" => ending = <<Sse!LF>>

MCNext ==
    /\ UNCHANGED part
    /\ \/ part = "database" /\ Database!Next /\ UNCHANGED <<kvVars, restVars, sseVars, wsVars>>
       \/ part = "keyvalue" /\ Next
          /\ UNCHANGED <<databaseVars, restVars, sseVars, wsVars>>
       \/ part = "rest" /\ Rest!Next /\ UNCHANGED <<databaseVars, kvVars, sseVars, wsVars>>
       \/ part = "sse" /\ Sse!Next /\ UNCHANGED <<databaseVars, kvVars, restVars, wsVars>>
       \/ part = "ws" /\ Ws!Next /\ UNCHANGED <<databaseVars, kvVars, restVars, sseVars>>

MCSpec == MCInit /\ [][MCNext]_<<part, databaseVars, kvVars, restVars, sseVars, wsVars>>

\* The properties of the instances; those of KeyValueRepository are in scope.
LatchTellsPool == Database!LatchTellsPool
HooksTellOutcome == Database!HooksTellOutcome
PageFitsTotal == Database!PageFitsTotal
RepeatedOnlyWhenUnread == Rest!RepeatedOnlyWhenUnread
RequestLabelTellsEncoding == Rest!RequestLabelTellsEncoding
EventsSurviveChunks == Sse!EventsSurviveChunks
SinksEndOnce == Ws!SinksEndOnce
=============================================================================
