------------------------- MODULE CacheableBusiness --------------------------
(***************************************************************************)
(* The memoising cache of packages/xf/src/business/general/                *)
(* CacheableBusiness.ts with the two observer pools of                     *)
(* ObservableCacheableBusiness.ts; without observers it is the former.     *)
(*                                                                         *)
(* fetch() is asynchronous and reads a downstream source that changes by   *)
(* itself.  Fetches of one key are not merged: several may be in flight    *)
(* and return in any order.  Observers do not mutate the cache             *)
(* (CacheableBusiness.ts:57-60).  One observer per key and one of the      *)
(* whole cache stand for the pools.                                        *)
(***************************************************************************)
EXTENDS Naturals, FiniteSets

CONSTANTS
    Keys,
    Callers,        \* each has at most one fetch of a key outstanding
    MaxVersion,     \* bound of the model: how often the source changes
    MaxEnding,      \* bound of the model: calls of terminate() under way
    Expiring        \* is the TTL finite?

VARIABLES
    source,      \* [Keys -> version] of the downstream value
    cache,       \* [Keys -> version], 0 when there is no entry
    expired,     \* the keys whose entry is past its expiresAt
    fetching,    \* [Callers -> [Keys -> stage of the outstanding fetch]]
    got,         \* [Callers -> [Keys -> version the fetch read]]
    keyHeard,    \* [Keys -> what the key observer heard last]
    stateHeard,  \* the snapshot the whole-cache observer heard last
    ending,      \* the calls of terminate() that have still to drop the observers
    floor,       \* history: [Keys -> source at the last invalidation]
    raced,       \* history: keys invalidated while a fetch held an older value
    threw        \* history: has a key observer thrown?

vars == <<source, cache, expired, fetching, got, keyHeard, stateHeard, ending, floor,
          raced, threw>>

Versions == 1..MaxVersion

Off == MaxVersion + 1        \* no observer is registered
Unheard == MaxVersion + 2    \* registered, and not called yet

NoSnapshot == [k \in Keys |-> Unheard]
NoObserver == [k \in Keys |-> Off]

Cached == {k \in Keys : cache[k] # 0}

Init ==
    /\ source = [k \in Keys |-> 1]
    /\ cache = [k \in Keys |-> 0]
    /\ expired = {}
    /\ fetching = [c \in Callers |-> [k \in Keys |-> "none"]]
    /\ got = [c \in Callers |-> [k \in Keys |-> 0]]
    /\ keyHeard = NoObserver
    /\ stateHeard = NoObserver
    /\ ending = 0
    /\ floor = [k \in Keys |-> 1]
    /\ raced = {}
    /\ threw = FALSE

observers == <<keyHeard, stateHeard, ending>>
history == <<floor, raced, threw>>

SourceChanges(k) ==
    /\ source[k] < MaxVersion
    /\ source' = [source EXCEPT ![k] = @ + 1]
    /\ UNCHANGED <<cache, expired, fetching, got, observers, history>>

\* The clock passes the entry's expiresAt.
Expire(k) ==
    /\ Expiring
    /\ k \in Cached
    /\ expired' = expired \cup {k}
    /\ UNCHANGED <<source, cache, fetching, got, observers, history>>

\* refresh(k) up to its await: fetch, whatever is cached.
Refresh(c, k) ==
    /\ fetching[c][k] = "none"
    /\ fetching' = [fetching EXCEPT ![c][k] = "called"]
    /\ UNCHANGED <<source, cache, expired, got, observers, history>>

\* get(k): a fresh entry is returned as it is; otherwise refresh(k).
Get(c, k) ==
    /\ k \notin Cached \/ k \in expired
    /\ Refresh(c, k)

\* refreshAll(): refresh every cached key in parallel.
RefreshAll(c) ==
    /\ Cached # {}
    /\ \A k \in Cached : fetching[c][k] = "none"
    /\ fetching' = [fetching EXCEPT ![c] =
                       [k \in Keys |-> IF k \in Cached THEN "called" ELSE @[k]]]
    /\ UNCHANGED <<source, cache, expired, got, observers, history>>

\* The downstream component reads its value.
FetchReads(c, k) ==
    /\ fetching[c][k] = "called"
    /\ fetching' = [fetching EXCEPT ![c][k] = "read"]
    /\ got' = [got EXCEPT ![c][k] = source[k]]
    /\ UNCHANGED <<source, cache, expired, observers, history>>

\* The fetch rejects; the other keys of a refreshAll go on.
FetchRejects(c, k) ==
    /\ fetching[c][k] # "none"
    /\ fetching' = [fetching EXCEPT ![c][k] = "none"]
    /\ got' = [got EXCEPT ![c][k] = 0]
    /\ UNCHANGED <<source, cache, expired, observers, history>>

\* onEntryChanged for the keys ks in turn, after the entries are as in c: the
\* key observers first, then the whole-cache observer.  An observer that
\* throws ends the loop and, as the last one called, keeps the snapshot from
\* the whole-cache observer for its own key.
Notify(ks, c) ==
    \/ /\ keyHeard' = [k \in Keys |-> IF k \in ks /\ keyHeard[k] # Off THEN c[k]
                                      ELSE keyHeard[k]]
       /\ stateHeard' = IF stateHeard # NoObserver /\ ks # {} THEN c ELSE stateHeard
       /\ UNCHANGED threw
    \/ /\ threw' = TRUE
       /\ \E reached \in SUBSET ks, last \in ks :
             /\ last \notin reached
             /\ keyHeard[last] # Off
             /\ keyHeard' = [k \in Keys |->
                                IF k \in reached \cup {last} /\ keyHeard[k] # Off
                                THEN c[k] ELSE keyHeard[k]]
             /\ stateHeard' = IF stateHeard # NoObserver /\ reached # {}
                              THEN c ELSE stateHeard

\* Mutant: observers are told before the entry is stored.
FetchReturnsNotifiesFirst(c, k) ==
    /\ fetching[c][k] = "read"
    /\ cache' = [cache EXCEPT ![k] = got[c][k]]
    /\ expired' = expired \ {k}
    /\ Notify({k}, cache)
    /\ fetching' = [fetching EXCEPT ![c][k] = "none"]
    /\ got' = [got EXCEPT ![c][k] = 0]
    /\ UNCHANGED <<source, ending, floor, raced>>

\* The continuation of refresh(): store, with a new expiry, and notify.
FetchReturns(c, k) ==
    /\ fetching[c][k] = "read"
    /\ cache' = [cache EXCEPT ![k] = got[c][k]]
    /\ expired' = expired \ {k}
    /\ Notify({k}, cache')
    /\ fetching' = [fetching EXCEPT ![c][k] = "none"]
    /\ got' = [got EXCEPT ![c][k] = 0]
    /\ UNCHANGED <<source, ending, floor, raced>>

\* A fetch in flight has read a version of k that is no longer the source's.
HoldsOlder(k) ==
    \E c \in Callers : fetching[c][k] = "read" /\ got[c][k] < source[k]

\* Mutant: an entry that has expired is taken for dropped already.
DropFresh(ks) ==
    /\ cache' = [k \in Keys |-> IF k \in ks \ expired THEN 0 ELSE cache[k]]
    /\ floor' = [k \in Keys |-> IF k \in ks THEN source[k] ELSE floor[k]]
    /\ raced' = (raced \ ks) \cup {k \in ks : HoldsOlder(k)}
    /\ UNCHANGED <<source, expired, fetching, got>>

\* Drop the entries of ks; the history notes what was dropped.
Drop(ks) ==
    /\ cache' = [k \in Keys |-> IF k \in ks THEN 0 ELSE cache[k]]
    /\ expired' = expired \ ks
    /\ floor' = [k \in Keys |-> IF k \in ks THEN source[k] ELSE floor[k]]
    /\ raced' = (raced \ ks) \cup {k \in ks : HoldsOlder(k)}
    /\ UNCHANGED <<source, fetching, got>>

\* invalidate(k) notifies only if there was an entry.
Invalidate(k) ==
    /\ Drop({k})
    /\ IF k \in Cached THEN Notify({k}, cache') ELSE UNCHANGED <<observers, threw>>
    /\ UNCHANGED ending

\* invalidate(): clear, then notify for every key there was.
InvalidateAll ==
    /\ Drop(Keys)
    /\ Notify(Cached, cache')
    /\ UNCHANGED ending

\* terminate() up to its await: the cache is cleared, silently, and fetches stay in
\* flight.
Terminate ==
    /\ ending < MaxEnding
    /\ Drop(Keys)
    /\ ending' = ending + 1
    /\ UNCHANGED <<keyHeard, stateHeard, threw>>

\* super.terminate() has returned: the observers are dropped.
TerminateReturns ==
    /\ ending > 0
    /\ keyHeard' = NoObserver
    /\ stateHeard' = NoObserver
    /\ ending' = ending - 1
    /\ UNCHANGED <<source, cache, expired, fetching, got, history>>

ObserveKey(k) ==
    /\ keyHeard[k] = Off
    /\ keyHeard' = [keyHeard EXCEPT ![k] = Unheard]
    /\ UNCHANGED <<source, cache, expired, fetching, got, stateHeard, ending, history>>

RemoveKey(k) ==
    /\ keyHeard' = [keyHeard EXCEPT ![k] = Off]
    /\ UNCHANGED <<source, cache, expired, fetching, got, stateHeard, ending, history>>

Observe ==
    /\ stateHeard = NoObserver
    /\ stateHeard' = NoSnapshot
    /\ UNCHANGED <<source, cache, expired, fetching, got, keyHeard, ending, history>>

Remove ==
    /\ stateHeard' = NoObserver
    /\ UNCHANGED <<source, cache, expired, fetching, got, keyHeard, ending, history>>

Next ==
    \/ \E k \in Keys :
          \/ SourceChanges(k)
          \/ Expire(k)
          \/ Invalidate(k)
          \/ ObserveKey(k)
          \/ RemoveKey(k)
    \/ \E c \in Callers, k \in Keys :
          \/ Get(c, k)
          \/ Refresh(c, k)
          \/ FetchReads(c, k)
          \/ FetchRejects(c, k)
          \/ FetchReturns(c, k)
    \/ \E c \in Callers : RefreshAll(c)
    \/ InvalidateAll
    \/ Terminate
    \/ TerminateReturns
    \/ Observe
    \/ Remove

Spec == Init /\ [][Next]_vars

-----------------------------------------------------------------------------

\* An observer that was called since it registered knows the entry as it is, and that
\* of the whole cache all of them ("called ... on every entry change", Observable-
\* CacheableBusiness.ts:8-10), as long as no observer throws: no refresh, expiry,
\* removal or parallel refreshAll goes past it.  A key observer that throws keeps the
\* change from the observers of the whole cache.  terminate() clears the cache in silence:
\* until it has dropped the observers they keep what they heard of an entry that is gone,
\* but of none that a fetch has stored since.
ObserversCurrent ==
    ~threw =>
        /\ \A k \in Keys :
              keyHeard[k] \in {Off, Unheard, cache[k]} \/ (ending > 0 /\ k \notin Cached)
        /\ stateHeard \in {NoObserver, NoSnapshot, cache} \/ (ending > 0 /\ Cached = {})

\* An entry older than the source was at the last invalidation of its key was
\* stored by a fetch that had read its value before the invalidation.
StaleOnlyFromOlderFetch ==
    \A k \in Keys : cache[k] # 0 /\ cache[k] < floor[k] => k \in raced
=============================================================================
