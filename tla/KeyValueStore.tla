---------------------------- MODULE KeyValueStore ----------------------------
(***************************************************************************)
(* What packages/xf-kv/src/repository/general/KeyValueRepository.ts        *)
(* promises whatever the adapter: one content, read and written key by     *)
(* key.  A call on several keys is a call on each of them, in some order   *)
(* and at most once; what a call is told of a key is what the content was  *)
(* or became at the moment the call reached that key.                      *)
(***************************************************************************)
EXTENDS Integers

CONSTANTS
    Callers,
    StoredKeys,     \* the keys of the backend, namespace and all
    Counts,         \* the values a counter may have
    Amounts,        \* the numbers that are added
    Values,         \* the values that may be stored, Counts among them
    Absent,
    Own,            \* [Callers -> the keys of the caller's namespace]
    Scope           \* [Callers -> the keys that clear() may delete]

VARIABLES
    floors,         \* do the counters of this backend stop at zero?
    content,        \* [StoredKeys -> Absent or a value, and whether it may expire]
    asked,          \* [Callers -> the call under way]
    told            \* [Callers -> what the call has been told, by key]

Entries == [raw : Values, ttl : BOOLEAN]

\* The calls of c: on some keys of its own namespace, and of no other.
Calls(c) ==
    [op : {"get", "has", "delete", "getMany"}, keys : SUBSET Own[c]] \cup
    [op : {"set", "setMany"}, keys : SUBSET Own[c], raw : Values,
                              ttl : {"none", "zero", "some"}] \cup
    [op : {"increment"}, keys : SUBSET Own[c], by : Amounts] \cup
    [op : {"clear"}, keys : {{}}]

Nothing == [op |-> "none", keys |-> {}]

StoreInit ==
    /\ floors \in BOOLEAN
    /\ content = [k \in StoredKeys |-> Absent]
    /\ asked = [c \in Callers |-> Nothing]
    /\ told = [c \in Callers |-> <<>>]

-----------------------------------------------------------------------------
(* The calls. *)

\* asked'[c] is what the caller asks for.
Ask(c) ==
    /\ asked[c] = Nothing
    /\ asked'[c] \in Calls(c)
    /\ asked' = [asked EXCEPT ![c] = asked'[c]]
    /\ told' = [told EXCEPT ![c] = <<>>]
    /\ UNCHANGED <<floors, content>>

\* A call ends, well or not, and reaches no key any more.
End(c) ==
    /\ asked' = [asked EXCEPT ![c] = Nothing]
    /\ UNCHANGED <<floors, content, told>>

\* The caller goes on with what it was told.
Leave(c) ==
    /\ asked[c] = Nothing
    /\ told' = [told EXCEPT ![c] = <<>>]
    /\ UNCHANGED <<floors, content, asked>>

-----------------------------------------------------------------------------
(* The keys. *)

\* The keys that the call of c is for and has not reached.
Due(c) == asked[c].keys \ DOMAIN told[c]

\* What is known by new, or else by old.
Merged(new, old) ==
    [k \in DOMAIN new \cup DOMAIN old |-> IF k \in DOMAIN new THEN new[k] ELSE old[k]]

\* The call of c has reached some keys k and learns reply[k] of each.
Tell(c, reply) ==
    /\ told' = [told EXCEPT ![c] = Merged(reply, @)]
    /\ UNCHANGED <<floors, asked>>

Raw(k) == IF content[k] = Absent THEN Absent ELSE content[k].raw

\* get(), and getMany() for the keys it reads at one moment.
Read(c) ==
    /\ asked[c].op \in {"get", "getMany"}
    /\ \E ks \in SUBSET Due(c) : Tell(c, [k \in ks |-> [value |-> Raw(k)]])
    /\ UNCHANGED content

Has(c, k) ==
    /\ asked[c].op = "has"
    /\ Tell(c, [x \in {k} |-> [existed |-> content[x] # Absent]])
    /\ UNCHANGED content

Put(c, k) ==
    /\ asked[c].op \in {"set", "setMany"}
    /\ content' = [content EXCEPT ![k] = [raw |-> asked[c].raw, ttl |-> asked[c].ttl = "some"]]
    /\ Tell(c, [x \in {k} |-> [stored |-> TRUE]])

Delete(c, k) ==
    /\ asked[c].op = "delete"
    /\ content' = [content EXCEPT ![k] = Absent]
    /\ Tell(c, [x \in {k} |-> [existed |-> content[x] # Absent]])

\* What a counter becomes: an absent one is 0.
Added(k, by) ==
    LET n == by + (IF content[k] = Absent THEN 0 ELSE content[k].raw)
    IN  IF floors /\ n < 0 THEN 0 ELSE n

\* The amount is added to what is there, and the sum is told; a lifetime stays.
Add(c, k) ==
    /\ asked[c].op = "increment"
    /\ Raw(k) \in Counts \cup {Absent}
    /\ content' = [content EXCEPT ![k] = [raw |-> Added(k, asked[c].by),
                                          ttl |-> content[k] # Absent /\ content[k].ttl]]
    /\ Tell(c, [x \in {k} |-> [count |-> Added(x, asked[c].by)]])

\* A clear() under way deletes what is in its scope, and nothing else, some keys at
\* a time; it may end with the last of them.
Clear(c) ==
    /\ asked[c].op = "clear"
    /\ \E ks \in SUBSET Scope[c] :
          content' = [k \in StoredKeys |-> IF k \in ks THEN Absent ELSE content[k]]
    /\ asked' \in {asked, [asked EXCEPT ![c] = Nothing]}
    /\ UNCHANGED <<floors, told>>

\* The time of a key that has a lifetime is up.
Expire(k) ==
    /\ content[k] # Absent
    /\ content[k].ttl
    /\ content' = [content EXCEPT ![k] = Absent]
    /\ UNCHANGED <<floors, asked, told>>

StoreNext ==
    \/ \E c \in Callers :
        \/ End(c) \/ Ask(c) \/ Leave(c) \/ Read(c) \/ Clear(c)
        \/ \E k \in Due(c) : Has(c, k) \/ Put(c, k) \/ Delete(c, k) \/ Add(c, k)
    \/ \E k \in StoredKeys : Expire(k)

StoreSpec == StoreInit /\ [][StoreNext]_<<floors, content, asked, told>>
=============================================================================
