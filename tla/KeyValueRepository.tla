-------------------------- MODULE KeyValueRepository --------------------------
(***************************************************************************)
(* The key-value repositories: the operations of                           *)
(* packages/xf-kv/src/repository/general/KeyValueRepository.ts over the    *)
(* raw primitives of the Redis and of the Memcached adapter.               *)
(*                                                                         *)
(* Two repositories share a backend.  The backend runs one command at a    *)
(* time; a call is one command, a pipeline (Redis setMany), a scan with    *)
(* deletes (Redis clear) or a loop of awaited commands (Memcached getMany  *)
(* and setMany), and between two commands anything may happen.  A key is a *)
(* sequence of segments, the namespace's first: ':' joins them.            *)
(***************************************************************************)
EXTENDS Integers, Sequences, FiniteSets, SequencesExt

CONSTANTS
    Callers,
    Segments,   \* what keys and namespaces are made of
    Special,    \* the segments with a character that a glob gives a meaning: * ? [ ] \
    NsOf,       \* [Callers -> the namespace of the repository it calls]
    Keys,       \* [Callers -> the keys it uses, without the namespace]
    Matched,    \* [Callers -> the keys that the glob of its clear() matches]
    Counts,     \* bound of the model: the numbers a counter takes
    Amounts,    \* bound of the model: the numbers that are added
    Text,       \* a stored value that is no number
    Written,    \* bound of the model: the values that callers set
    Absent

Values == Counts \cup {Text}

ASSUME KeysAssumption ==
    \A c \in Callers :
        NsOf[c] \in Seq(Segments) /\ Keys[c] \subseteq Seq(Segments) /\ IsFiniteSet(Keys[c])
ASSUME CallersAssumption == "backend" \notin Callers
ASSUME ValuesAssumption ==
    /\ Counts \cup Amounts \subseteq Int
    /\ Written \subseteq Values
    /\ Absent \notin Values \cup [raw : Values, ttl : BOOLEAN]

\* KeyUtils.namespaced(): an empty namespace leaves the key as it is.
Namespaced(ns, key) == ns \o key

\* The keys of a caller, and those of the backend.
Used(c) == {Namespaced(NsOf[c], key) : key \in Keys[c]}
StoredKeys == UNION {Used(c) : c \in Callers}

\* The keys that start with KeyUtils.prefix(): those of the namespace and those
\* of every namespace that continues it.
Prefixed(ns) == {k \in StoredKeys : IsPrefix(ns, k)}

\* The keys of each caller's namespace.
Own == [c \in Callers |-> Prefixed(NsOf[c])]

\* clear() of Redis puts the prefix into a glob as it is: without a special
\* character that matches what starts with it, and with one whatever it means.
Plain(ns) == ToSet(ns) \cap Special = {}

ASSUME MatchedAssumption ==
    \A c \in Callers :
        /\ Matched[c] \subseteq StoredKeys
        /\ Plain(NsOf[c]) => Matched[c] = Prefixed(NsOf[c])

VARIABLES
    kind,       \* the adapter
    client,     \* have the repositories a client?
    store,      \* [StoredKeys -> Absent or what the backend holds]
    job         \* [Callers -> the call in flight or the one that ended last]

vars == <<kind, client, store, job>>

Present(k) == store[k] # Absent

Idle == [at |-> "idle", replies |-> <<>>]

Init ==
    /\ kind \in {"redis", "memcached"}
    /\ client = "none"
    /\ store = [k \in StoredKeys |-> Absent]
    /\ job = [c \in Callers |-> Idle]

-----------------------------------------------------------------------------
(* Connection and calls. *)

\* init() makes a client and overwrites the one there was; terminate() quits it
\* and, once it has quit, forgets it (a quit that rejects forgets nothing).  The
\* layer opens and closes its repositories together.
Open ==
    /\ client' = "open"
    /\ UNCHANGED <<kind, store, job>>

Forget ==
    /\ client' = "none"
    /\ UNCHANGED <<kind, store, job>>

Ended(j, how) == [at |-> "ended", keys |-> j.req.keys, replies |-> j.replies,
                  dropped |-> j.dropped, since |-> j.since, result |-> how]

\* The operations, and what they are given.  decrement() adds a negative number;
\* ttl() and get() are both reads.
Requests(c) ==
    LET one == {<<k>> : k \in Used(c)}
        all == SetToSeq(Used(c))
    IN  [op : {"get", "has", "delete"}, keys : one] \cup
        [op : {"set"}, keys : one, raw : Written, ttl : {"none", "zero", "some"}] \cup
        [op : {"increment"}, keys : one, by : Amounts] \cup
        [op : {"getMany"}, keys : {all}] \cup
        [op : {"setMany"}, keys : {all}, raw : Written, ttl : {"some"}] \cup
        [op : {"clear"}, keys : {<<>>}]

\* A call: the value is encoded before anything else; without a client every
\* operation is refused; clear() of a repository without a namespace does
\* nothing, and of Memcached always throws.
Call(c, r) ==
    LET j == [at |-> "sent", req |-> r, todo |-> r.keys, replies |-> <<>>, dropped |-> FALSE,
              since |-> {}, seen |-> {}, batch |-> {}, last |-> FALSE]
    IN  /\ job[c] = Idle
        /\ job' = [job EXCEPT ![c] =
             IF r.op = "clear" /\ kind = "memcached" THEN Ended(j, "KeyValue")
             ELSE IF r.op = "clear" /\ NsOf[c] = <<>> THEN Ended(j, "ok")
             ELSE IF client = "none" THEN Ended(j, "Connection")
             ELSE IF r.op # "clear" THEN j
             ELSE [j EXCEPT !.at = "scan", !.since = {k \in Prefixed(NsOf[c]) : Present(k)}]]
        /\ UNCHANGED <<kind, client, store>>

EncodeFails(c) ==
    /\ job[c] = Idle
    /\ job' = [job EXCEPT ![c] =
                  Ended([req |-> [keys |-> <<>>], replies |-> <<>>, dropped |-> FALSE,
                         since |-> {}], "Serialization")]
    /\ UNCHANGED <<kind, client, store>>

-----------------------------------------------------------------------------
(* Commands. *)

\* The backend holds new from here on; the job of c goes on as j, and a scan
\* keeps track of the keys that have been there since it began.
Become(c, new, j) ==
    /\ store' = new
    /\ job' = [x \in Callers |->
                  LET w == IF x = c THEN j ELSE job[x]
                  IN  IF w.at = "scan" THEN [w EXCEPT !.since = {k \in @ : new[k] # Absent}]
                      ELSE w]
    /\ UNCHANGED <<kind, client>>

Content(k) == IF Present(k) THEN store[k].raw ELSE Absent

\* The request of a call under way, its keys in no order.
AskedBy(j) ==
    IF j.at \in {"sent", "scan"} THEN [j.req EXCEPT !.keys = ToSet(@)]
    ELSE [op |-> "none", keys |-> {}]

\* What this module implements.
Store == INSTANCE KeyValueStore WITH
    floors <- kind = "memcached",
    content <- store,
    asked <- [c \in Callers |-> AskedBy(job[c])],
    told <- [c \in Callers |-> job[c].replies],
    Own <- Own,
    Scope <- Matched

\* A command of the call has been run and has answered reply[k] for its keys k;
\* the keys rest are still to come.
Advance(j, reply, rest) ==
    [j EXCEPT !.replies = Store!Merged(reply, @), !.todo = rest]

\* MGET reads all keys at one moment; Memcached reads them one after the other.
Get(c) ==
    LET j == job[c]
        ks == IF kind = "redis" THEN ToSet(j.todo) ELSE {Head(j.todo)}
    IN  /\ j.req.op \in {"get", "getMany"}
        /\ Become(c, store, Advance(j, [k \in ks |-> [value |-> Content(k)]],
                                 IF kind = "redis" THEN <<>> ELSE Tail(j.todo)))

Has(c) ==
    LET j == job[c]
    IN  /\ j.req.op = "has"
        /\ Become(c, store, Advance(j, [k \in {Head(j.todo)} |-> [existed |-> Present(k)]], Tail(j.todo)))

Delete(c) ==
    LET j == job[c]
    IN  /\ j.req.op = "delete"
        /\ Become(c, [store EXCEPT ![Head(j.todo)] = Absent],
                  Advance(j, [k \in {Head(j.todo)} |-> [existed |-> Present(k)]], Tail(j.todo)))

\* Redis refuses a lifetime of zero; to Memcached it means for ever.
Set(c) ==
    LET j == job[c]
    IN  /\ j.req.op \in {"set", "setMany"}
        /\ ~(kind = "redis" /\ j.req.ttl = "zero")
        /\ Become(c, [store EXCEPT ![Head(j.todo)] = [raw |-> j.req.raw, ttl |-> j.req.ttl = "some"]],
                  Advance(j, [k \in {Head(j.todo)} |-> [stored |-> TRUE]], Tail(j.todo)))

\* INCRBY, and the counters of Memcached, which stop at zero.
Sum(k, by) ==
    LET n == by + (IF Present(k) THEN store[k].raw ELSE 0)
    IN  IF kind = "memcached" /\ n < 0 THEN 0 ELSE n

\* Mutant: the new value is told, and the amount stored.
IncrementTells(c) ==
    LET j == job[c]
        k == Head(j.todo)
    IN  /\ j.req.op = "increment"
        /\ Content(k) \in Counts \cup {Absent}
        /\ Sum(k, j.req.by) \in Counts
        /\ Become(c, [store EXCEPT ![k] = [raw |-> j.req.by, ttl |-> FALSE]],
                  Advance(j, [x \in {k} |-> [count |-> Sum(x, j.req.by)]], Tail(j.todo)))

\* A counter that is there keeps its lifetime; a new one has none.
Increment(c) ==
    LET j == job[c]
        k == Head(j.todo)
    IN  /\ j.req.op = "increment"
        /\ Content(k) \in Counts \cup {Absent}
        /\ kind = "memcached" /\ Present(k) => store[k].raw >= 0
        /\ Sum(k, j.req.by) \in Counts
        /\ Become(c, [store EXCEPT ![k] = [raw |-> Sum(k, j.req.by),
                                           ttl |-> Present(k) /\ store[k].ttl]],
                  Advance(j, [x \in {k} |-> [count |-> Sum(x, j.req.by)]], Tail(j.todo)))

Command(c) ==
    /\ job[c].at = "sent"
    /\ job[c].todo # <<>>
    /\ Get(c) \/ Has(c) \/ Delete(c) \/ Set(c) \/ Increment(c)

\* One command of a Redis pipeline is refused: exec() resolves all the same, and
\* setMany() does not look at what it resolves with.
Dropped(c) ==
    LET j == job[c]
    IN  /\ kind = "redis"
        /\ j.at = "sent"
        /\ j.req.op = "setMany"
        /\ j.todo # <<>>
        /\ Become(c, store, [j EXCEPT !.todo = Tail(@), !.dropped = TRUE])

\* Mutant: the loop of Memcached goes on to say that all is well.
FailsSilently(c) ==
    /\ job[c].at \in {"sent", "scan"}
    /\ ~(kind = "redis" /\ job[c].req.op = "setMany")
    /\ Become(c, store, Ended(job[c], "ok"))

\* The command at hand rejects, whether the backend ran it or not (todo says
\* which), and ends the call: an error of the transport is translated, any
\* other goes on as it is.
Fails(c) ==
    /\ job[c].at \in {"sent", "scan"}
    /\ ~(kind = "redis" /\ job[c].req.op = "setMany")
    /\ \E e \in {"Connection", "other"} : Become(c, store, Ended(job[c], e))

\* The last answer has come; what a read got may be nothing the codec can decode.
Answer(c) ==
    /\ job[c].at = "sent"
    /\ job[c].todo = <<>>
    /\ \E how \in {"ok", "Serialization"} :
          /\ how = "ok" \/ job[c].req.op \in {"get", "getMany"}
          /\ Become(c, store, Ended(job[c], how))

(* clear() of Redis. *)

\* SCAN returns some of the keys that match, and has returned every one of them that
\* was there all the time when it says that it is through.
Scan(c) ==
    /\ job[c].at = "scan"
    /\ job[c].batch = {}
    /\ ~job[c].last
    /\ \E batch \in SUBSET {k \in Matched[c] : Present(k)}, last \in BOOLEAN :
          /\ last => job[c].since \cap Matched[c] \subseteq job[c].seen \cup batch
          /\ Become(c, store, [job[c] EXCEPT !.batch = batch, !.last = last,
                                             !.seen = @ \cup batch])

\* DEL of the batch, if it has any keys, later than the scan that found them.
Del(c) ==
    LET rest == [k \in StoredKeys |-> IF k \in job[c].batch THEN Absent ELSE store[k]]
        j == [job[c] EXCEPT !.batch = {}, !.since = {k \in @ : rest[k] # Absent}]
    IN  /\ job[c].at = "scan"
        /\ job[c].batch # {} \/ job[c].last
        /\ Become(c, rest, IF j.last THEN Ended(j, "ok") ELSE j)

\* A key whose time is up.
Expire(k) ==
    /\ Present(k)
    /\ store[k].ttl
    /\ Become("backend", [store EXCEPT ![k] = Absent], Idle)

Return(c) ==
    /\ job[c].at = "ended"
    /\ job' = [job EXCEPT ![c] = Idle]
    /\ UNCHANGED <<kind, client, store>>

Next ==
    \/ Open \/ Forget
    \/ \E c \in Callers :
        \/ \E r \in Requests(c) : Call(c, r)
        \/ EncodeFails(c) \/ Command(c) \/ Dropped(c) \/ Fails(c) \/ Answer(c)
        \/ Scan(c) \/ Del(c) \/ Return(c)
    \/ \E k \in StoredKeys : Expire(k)

Spec == Init /\ [][Next]_vars

-----------------------------------------------------------------------------
(* Properties. *)

\* One content, read and written key by key, under either adapter: a call reaches
\* keys of its own namespace only, each at most once, and is told what was there or
\* what became of it at that moment; a counter becomes its value and the amount (or
\* zero, where Memcached stops), so that no addition is lost or done twice; a key goes
\* by delete(), by a clear() under way whose glob matches it, or when its time is up.
ImplementsKeyValueStore == Store!StoreSpec

\* A call that reports success has reached every one of its keys, and clear() every
\* key of the namespace that was there when it was called (those written meanwhile may
\* survive it).  The exceptions: setMany() of Redis reports success whatever became of
\* the commands of its pipeline, and clear() of a namespace with a special character
\* deletes what its glob matches.
SuccessMeansAll ==
    \A c \in Callers : job[c].at = "ended" /\ job[c].result = "ok" =>
        /\ ToSet(job[c].keys) = DOMAIN job[c].replies \/ job[c].dropped
        /\ Plain(NsOf[c]) => job[c].since = {}
=============================================================================
