---------------------------- MODULE BusinessProofs ----------------------------
(*****************************************************************************)
(* Proofs about the five parts of MCBusiness, for any number of timers, keys,*)
(* callers, versions, observers, tasks, layers and views.  Each section is   *)
(* about the specification of one part, which no other part disturbs.        *)
(*****************************************************************************)
EXTENDS MCBusiness, FiniteSetTheorems, SequenceTheorems, WellFoundedInduction, TLAPS

-----------------------------------------------------------------------------
(* ScheduleBusiness: the timers, and what terminate() leaves of them.      *)

\* The types of the variables hold in every reachable state.
THEOREM ScheduleTypeOK == Spec => []TypeOK
<1> DEFINE Numbers ==
        /\ intervals \subseteq Handles
        /\ timeouts \subseteq Handles
        /\ intervalId \in 0..MaxTimers
        /\ timeoutId \in 0..MaxTimers
        /\ nextTimer \in 1..(MaxTimers + 1)
        /\ running \in 0..MaxRunning
        /\ orphans \subseteq Handles
<1> DEFINE Flag == stopped \in BOOLEAN
<1>1. Init => Numbers
  BY ScheduleAssumption DEF Init, Handles
<1>2. Init => Flag
  BY DEF Init
<1>3. Numbers /\ [Next]_vars => Numbers'
  <2> SUFFICES ASSUME Numbers, [Next]_vars PROVE Numbers'
    OBVIOUS
  <2> USE ScheduleAssumption DEF Handles, StartRun
  <2>1. CASE Interval
    BY <2>1 DEF Interval
  <2>2. CASE IntervalNow
    BY <2>2 DEF IntervalNow
  <2>3. CASE IntervalNowRearmsInterval
    BY <2>3 DEF IntervalNowRearmsInterval
  <2>4. CASE IntervalNowRearmsDelay
    BY <2>4 DEF IntervalNowRearmsDelay
  <2>5. CASE Delay
    BY <2>5 DEF Delay
  <2>6. ASSUME NEW t \in Handles, IntervalFires(t) PROVE Numbers'
    BY <2>6 DEF IntervalFires
  <2>7. ASSUME NEW t \in Handles, TimeoutFires(t) PROVE Numbers'
    BY <2>7 DEF TimeoutFires
  <2>8. CASE RunSettles
    BY <2>8 DEF RunSettles
  <2>9. CASE Terminate
    BY <2>9 DEF Terminate
  <2>10. CASE UNCHANGED vars
    BY <2>10 DEF vars
  <2> QED
    BY <2>1, <2>2, <2>3, <2>4, <2>5, <2>6, <2>7, <2>8, <2>9, <2>10 DEF Next
<1>4. Flag /\ [Next]_vars => Flag'
  BY DEF Next, vars, Interval, IntervalNow, IntervalNowRearmsInterval,
         IntervalNowRearmsDelay, Delay, IntervalFires, TimeoutFires, RunSettles,
         Terminate
<1>5. Numbers /\ Flag => TypeOK
  BY DEF TypeOK
<1> HIDE DEF Numbers, Flag
<1> QED
  BY <1>1, <1>2, <1>3, <1>4, <1>5, PTL DEF Spec

\* Every armed timer is the one its field names: interval() and delay()
\* replace, they never add, except for the intervals run() arms while
\* interval(ms, true) is still on the stack.
THEOREM TimersTracked == Spec => []OnlyTrackedTimersLive
<1>1. Init => OnlyTrackedTimersLive
  BY DEF Init, OnlyTrackedTimersLive
<1>2. OnlyTrackedTimersLive /\ [Next]_vars => OnlyTrackedTimersLive'
  BY DEF OnlyTrackedTimersLive, Next, vars, Interval, IntervalNow,
         IntervalNowRearmsInterval, IntervalNowRearmsDelay, Delay, IntervalFires,
         TimeoutFires, RunSettles, Terminate
<1> QED
  BY <1>1, <1>2, PTL DEF Spec

\* No timer of a terminated component can fire until something is scheduled
\* again, with the same exception.  The inductive invariant adds that every
\* armed timer is tracked, so that clearing the two fields clears the rest.
THEOREM TerminateIsFinal == Spec => []TerminateSilences
<1>1. Init => TerminateSilences
  BY DEF Init, TerminateSilences
<1>2. OnlyTrackedTimersLive /\ TerminateSilences /\ [Next]_vars => TerminateSilences'
  <2> SUFFICES ASSUME OnlyTrackedTimersLive, TerminateSilences, [Next]_vars
               PROVE  TerminateSilences'
    OBVIOUS
  <2>1. CASE Terminate
    BY <2>1 DEF Terminate, OnlyTrackedTimersLive, TerminateSilences
  <2>2. CASE ~Terminate
    BY <2>2 DEF TerminateSilences, Next, vars, Interval, IntervalNow,
         IntervalNowRearmsInterval, IntervalNowRearmsDelay, Delay,
         IntervalFires, TimeoutFires, RunSettles
  <2> QED
    BY <2>1, <2>2
<1> QED
  BY <1>1, <1>2, TimersTracked, PTL DEF Spec

-----------------------------------------------------------------------------
(* ConcurrentBusiness: what a call of parallel() is told.                  *)

ParallelBounds == MaxTasks \in Nat /\ MaxLimit \in Nat

TaskResults == {"none", "running", "done", "failed"}
Outcomes == {Pending, [is |-> "resolved"]} \cup [is : {"rejected"}, by : Tasks]

ParallelTypes ==
    /\ tasks \in Nat /\ maxConcurrency \in Nat
    /\ nextIndex \in 1..(tasks + 1)
    /\ DOMAIN worker \subseteq 1..Limit
    /\ worker \in [DOMAIN worker -> 0..tasks]
    /\ results \in [Tasks -> TaskResults]
    /\ first \in 0..tasks
    /\ outcome \in Outcomes

\* The tasks below the index have started, and each that runs is one worker's.
WorkersInv ==
    /\ \A t \in Tasks : results[t] = "none" <=> t >= nextIndex
    /\ \A w \in DOMAIN worker : worker[w] # 0 => results[worker[w]] = "running"
    /\ \A t \in Tasks : results[t] = "running" => \E w \in DOMAIN worker : worker[w] = t
    /\ \A v, w \in DOMAIN worker : worker[v] = worker[w] /\ worker[v] # 0 => v = w

\* What the caller has been told, or will be.
OutcomeInv ==
    /\ outcome.is = "pending" =>
          /\ first = 0
          /\ \A t \in Tasks : results[t] # "failed"
    /\ outcome.is = "resolved" => \A t \in Tasks : results[t] = "done"
    /\ outcome.is = "rejected" => first \in Tasks /\ outcome.by = first /\ results[first] = "failed"

ParallelInv == ParallelTypes /\ WorkersInv /\ OutcomeInv

\* There are no more workers than tasks, nor than the limit, which is at least one.
LEMMA LimitBounds ==
    ASSUME tasks \in Nat, maxConcurrency \in Nat
    PROVE  /\ Limit \in 0..tasks
           /\ Limit <= (IF maxConcurrency = 0 THEN 1 ELSE maxConcurrency)
BY DEF Limit

\* The outcomes are told apart by their kind.
LEMMA Kinds ==
    ASSUME NEW o \in Outcomes
    PROVE  /\ o = Pending <=> o.is = "pending"
           /\ o.is \in {"pending", "resolved", "rejected"}
           /\ o.is = "rejected" => o.by \in Tasks
BY DEF Outcomes, Pending

LEMMA ParallelStarts == ParallelBounds /\ ParallelInit => ParallelInv
<1> SUFFICES ASSUME ParallelBounds, ParallelInit
             PROVE  ParallelInv
    OBVIOUS
<1>1. tasks \in Nat /\ maxConcurrency \in Nat
    BY DEF ParallelBounds, ParallelInit
<1>2. Limit \in 0..tasks
    BY <1>1, LimitBounds
<1>3. ParallelTypes
    BY <1>1, <1>2 DEF ParallelInit, ParallelTypes, TaskResults, Outcomes, Tasks
<1>4. WorkersInv
    BY <1>1, <1>2 DEF ParallelInit, WorkersInv, Tasks
<1>5. OutcomeInv
    BY DEF ParallelInit, OutcomeInv, Pending
<1> QED
    BY <1>3, <1>4, <1>5 DEF ParallelInv

LEMMA TakeInv == ASSUME ParallelInv, NEW w \in 1..Limit, Take(w) PROVE ParallelInv'
<1> USE DEF ParallelInv, Take, Tasks
<1>1. ParallelTypes'
    BY DEF ParallelTypes, TaskResults, Outcomes, Limit
<1>2. WorkersInv'
    BY DEF ParallelTypes, WorkersInv
<1>3. OutcomeInv'
    BY DEF ParallelTypes, WorkersInv, OutcomeInv
<1> QED
    BY <1>1, <1>2, <1>3

LEMMA TaskResolvesInv == ASSUME ParallelInv, NEW w \in 1..Limit, TaskResolves(w) PROVE ParallelInv'
<1> USE DEF ParallelInv, TaskResolves, Tasks
<1>1. ParallelTypes'
    BY DEF ParallelTypes, TaskResults, Outcomes, Limit
<1>2. WorkersInv'
    BY DEF ParallelTypes, WorkersInv
<1>3. OutcomeInv'
    BY DEF ParallelTypes, WorkersInv, OutcomeInv
<1> QED
    BY <1>1, <1>2, <1>3

LEMMA TaskRejectsInv == ASSUME ParallelInv, NEW w \in 1..Limit, TaskRejects(w) PROVE ParallelInv'
<1> USE DEF ParallelInv, Tasks
<1>1. worker[w] \in Tasks /\ results[worker[w]] = "running"
    BY DEF TaskRejects, ParallelTypes, WorkersInv
<1>2. ParallelTypes'
    <2>1. outcome' \in Outcomes
        BY <1>1 DEF TaskRejects, ParallelTypes, Outcomes
    <2>2. DOMAIN worker' \subseteq 1..Limit /\ worker' \in [DOMAIN worker' -> 0..tasks]
        BY DEF TaskRejects, ParallelTypes
    <2>3. results' \in [Tasks -> TaskResults] /\ first' \in 0..tasks
        BY <1>1 DEF TaskRejects, ParallelTypes, TaskResults
    <2> QED
        BY <2>1, <2>2, <2>3 DEF TaskRejects, ParallelTypes, Outcomes, Limit
<1>3. WorkersInv'
    BY <1>1 DEF TaskRejects, ParallelTypes, WorkersInv
<1>4. OutcomeInv'
    <2>1. CASE outcome = Pending
        <3>1. outcome.is = "pending" /\ first = 0
            BY <2>1 DEF Pending, OutcomeInv
        <3>2. outcome' = [is |-> "rejected", by |-> worker[w]] /\ first' = worker[w]
            BY <2>1, <3>1 DEF TaskRejects
        <3>3. results'[worker[w]] = "failed"
            BY <1>1 DEF TaskRejects, ParallelTypes
        <3> QED
            BY <1>1, <3>2, <3>3 DEF TaskRejects, OutcomeInv
    <2>2. CASE outcome # Pending
        <3>1. outcome' = outcome /\ outcome.is = "rejected"
            BY <1>1, <2>2, Kinds DEF TaskRejects, ParallelTypes, OutcomeInv
        <3>2. first' = first
            BY <3>1 DEF TaskRejects, OutcomeInv
        <3> QED
            BY <1>1, <3>1, <3>2 DEF TaskRejects, ParallelTypes, OutcomeInv
    <2> QED
        BY <2>1, <2>2
<1> QED
    BY <1>2, <1>3, <1>4

LEMMA ResolvesInv == ASSUME ParallelInv, Resolves PROVE ParallelInv'
<1> USE DEF ParallelInv, Resolves, Tasks
<1>1. ParallelTypes'
    BY DEF ParallelTypes, Outcomes, Limit
<1>2. WorkersInv'
    BY DEF WorkersInv
<1>3. outcome'.is = "resolved"
    OBVIOUS
<1>4. outcome.is = "pending"
    BY DEF Pending
<1>5. \A t \in Tasks : results[t] = "done"
    BY <1>4 DEF ParallelTypes, WorkersInv, OutcomeInv, TaskResults
<1>6. OutcomeInv'
    BY <1>3, <1>5 DEF OutcomeInv
<1> QED
    BY <1>1, <1>2, <1>6

LEMMA ParallelStep == ParallelInv /\ [ParallelNext]_parallelVars => ParallelInv'
<1> SUFFICES ASSUME ParallelInv, [ParallelNext]_parallelVars
             PROVE  ParallelInv'
    OBVIOUS
<1>1. CASE \E w \in 1..Limit : Take(w)
    BY <1>1, TakeInv
<1>2. CASE \E w \in 1..Limit : TaskResolves(w)
    BY <1>2, TaskResolvesInv
<1>3. CASE \E w \in 1..Limit : TaskRejects(w)
    BY <1>3, TaskRejectsInv
<1>4. CASE Resolves
    BY <1>4, ResolvesInv
<1>5. CASE UNCHANGED parallelVars
    BY <1>5 DEF parallelVars, ParallelInv, ParallelTypes, WorkersInv, OutcomeInv, Outcomes, Tasks, Limit
<1> QED
    BY <1>1, <1>2, <1>3, <1>4, <1>5 DEF ParallelNext

\* No more tasks run than there are workers.
LEMMA FewRun == ParallelInv => Cardinality(Running) <= (IF maxConcurrency = 0 THEN 1 ELSE maxConcurrency)
<1> SUFFICES ASSUME ParallelInv
             PROVE  Cardinality(Running) <= (IF maxConcurrency = 0 THEN 1 ELSE maxConcurrency)
    OBVIOUS
<1> DEFINE of == [t \in Running |-> CHOOSE w \in DOMAIN worker : worker[w] = t]
<1>1. \A t \in Running : of[t] \in DOMAIN worker /\ worker[of[t]] = t
    BY DEF Running, ParallelInv, WorkersInv
<1>2. of \in [Running -> 1..Limit]
    BY <1>1 DEF ParallelInv, ParallelTypes
<1>3. of \in Injection(Running, 1..Limit)
    <2>1. \A t, u \in Running : of[t] = of[u] => t = u
        BY <1>1
    <2> HIDE DEF of
    <2> QED
        BY <1>2, <2>1 DEF Injection, IsInjective
<1>4. Limit \in Nat /\ Limit <= (IF maxConcurrency = 0 THEN 1 ELSE maxConcurrency)
    BY LimitBounds DEF ParallelInv, ParallelTypes
<1>5. IsFiniteSet(1..Limit) /\ Cardinality(1..Limit) = Limit
    BY <1>4, FS_Interval
<1> HIDE DEF of
<1>6. IsFiniteSet(Running) /\ Cardinality(Running) <= Limit
    BY <1>3, <1>5, FS_Injection
<1>7. Cardinality(Running) \in Nat
    BY <1>6, FS_CardinalityType
<1> QED
    BY <1>4, <1>6, <1>7 DEF ParallelInv, ParallelTypes

\* Each running task is one worker's.
LEMMA OneWorker == ParallelInv => \A t \in Running : Cardinality({w \in DOMAIN worker : worker[w] = t}) = 1
<1> SUFFICES ASSUME ParallelInv, NEW t \in Running
             PROVE  Cardinality({w \in DOMAIN worker : worker[w] = t}) = 1
    OBVIOUS
<1>1. t \in Tasks /\ t # 0 /\ results[t] = "running"
    BY DEF Running, Tasks, ParallelInv, ParallelTypes
<1>2. PICK w \in DOMAIN worker : worker[w] = t
    BY <1>1 DEF ParallelInv, WorkersInv
<1>3. {v \in DOMAIN worker : worker[v] = t} = {w}
    BY <1>1, <1>2 DEF ParallelInv, WorkersInv
<1> QED
    BY <1>3, FS_Singleton

\* For every number of tasks and every limit: parallel() resolves only with all the
\* results, rejects with the first task to reject, and never runs more tasks at once
\* than maxConcurrency, nor any of them twice.
THEOREM ParallelOutcome == ASSUME ParallelBounds PROVE ParallelSpec => []OutcomeMatchesTasks
<1>1. ParallelInit => ParallelInv
    BY ParallelStarts
<1>2. ParallelInv /\ [ParallelNext]_parallelVars => ParallelInv'
    BY ParallelStep
<1>3. ParallelInv => OutcomeMatchesTasks
    <2> SUFFICES ASSUME ParallelInv
                 PROVE  OutcomeMatchesTasks
        OBVIOUS
    <2>1. \A t \in Tasks : results[t] # "none" => \A u \in Tasks : u < t => results[u] # "none"
        BY DEF ParallelInv, ParallelTypes, WorkersInv, Tasks
    <2> QED
        BY <2>1, FewRun, OneWorker DEF OutcomeMatchesTasks, ParallelInv, OutcomeInv
<1> QED
    BY <1>1, <1>2, <1>3, PTL DEF ParallelSpec

-----------------------------------------------------------------------------
(* Lifecycle: the layers of XF and the views of a page.                    *)

\* The sets of layers that leave none above one that is down.
Grounded == {{}, {"R"}, {"R", "B"}, {"R", "B", "A"}}

\* What init() has brought up and what terminate() has taken down so far.
LayersInv ==
    /\ starting \in {"none", "done"} \cup Layers
    /\ stopping \in {"none", "done"} \cup Layers
    /\ overlapped \in BOOLEAN
    /\ ~overlapped =>
          /\ up \in Grounded
          /\ starting \in Layers => stopping \notin Layers
          /\ starting \in {"none", "R"} => up = {}
          /\ starting = "B" => up = {"R"}
          /\ starting = "A" => up = {"R", "B"}
          /\ stopping = "A" => "A" \notin up
          /\ stopping = "B" => up \subseteq {"R"}
          /\ stopping = "R" => up = {}

\* Both a view that still holds something and one whose init() is in flight were
\* unmounted too soon, if they are not mounted.
ViewsInv ==
    /\ pending \in [Views -> Nat]
    /\ holding \subseteq Views
    /\ \A v \in Views \ mounted : v \in holding \/ pending[v] > 0 => v \in hasty

LEMMA LayersInit == LifecycleInit => LayersInv
BY DEF LifecycleInit, LayersInv, Layers, Grounded

LEMMA LayersStep == LayersInv /\ [LifecycleNext]_lifecycleVars => LayersInv'
<1> SUFFICES ASSUME LayersInv, [LifecycleNext]_lifecycleVars
             PROVE  LayersInv'
    OBVIOUS
<1> USE DEF LayersInv, Layers, Grounded
<1>1. CASE Start
    BY <1>1 DEF Start
<1>2. CASE LayerReady
    BY <1>2 DEF LayerReady, Above
<1>3. CASE LayerFails
    BY <1>3 DEF LayerFails
<1>4. CASE Stop
    BY <1>4 DEF Stop
<1>5. CASE LayerStopped
    BY <1>5 DEF LayerStopped, Below
<1>6. CASE LayerStopFails
    BY <1>6 DEF LayerStopFails
<1>7. CASE UNCHANGED layers
    BY <1>7 DEF layers
<1> QED
    BY <1>1, <1>2, <1>3, <1>4, <1>5, <1>6, <1>7
       DEF LifecycleNext, Mount, InitSettles, Unmount, lifecycleVars

LEMMA ViewsInit == LifecycleInit => ViewsInv
BY DEF LifecycleInit, ViewsInv

LEMMA ViewsStep == ViewsInv /\ [LifecycleNext]_lifecycleVars => ViewsInv'
<1> SUFFICES ASSUME ViewsInv, [LifecycleNext]_lifecycleVars
             PROVE  ViewsInv'
    OBVIOUS
<1> USE DEF ViewsInv
<1>1. CASE \E v \in Views : Mount(v)
    BY <1>1 DEF Mount
<1>2. CASE \E v \in Views : InitSettles(v)
    BY <1>2 DEF InitSettles
<1>3. CASE \E v \in Views : Unmount(v)
    BY <1>3 DEF Unmount
<1>4. CASE UNCHANGED views
    BY <1>4 DEF views
<1> QED
    BY <1>1, <1>2, <1>3, <1>4
       DEF LifecycleNext, Start, LayerReady, LayerFails, Stop, LayerStopped, LayerStopFails, lifecycleVars

\* However starts, failures, shutdowns, mounts and unmounts interleave, no layer of
\* XF stays up above one that is down and no view holds anything after its unmount,
\* with the exceptions that NothingOutlivesItsBase names.
THEOREM BaseOutlives == LifecycleSpec => []NothingOutlivesItsBase
<1>1. LifecycleInit => LayersInv /\ ViewsInv
    BY LayersInit, ViewsInit
<1>2. LayersInv /\ ViewsInv /\ [LifecycleNext]_lifecycleVars => (LayersInv /\ ViewsInv)'
    BY LayersStep, ViewsStep
<1>3. LayersInv /\ ViewsInv => NothingOutlivesItsBase
    <2> SUFFICES ASSUME LayersInv, ViewsInv
                 PROVE  NothingOutlivesItsBase
        OBVIOUS
    <2>1. ~overlapped => \A l \in up \ {"R"} : Below(l) \in up
        BY DEF LayersInv, Layers, Grounded, Below
    <2>2. \A v \in holding \ mounted : v \in hasty
        BY DEF ViewsInv
    <2> QED
        BY <2>1, <2>2 DEF NothingOutlivesItsBase
<1> QED
    BY <1>1, <1>2, <1>3, PTL DEF LifecycleSpec

-----------------------------------------------------------------------------
(* CacheableBusiness: what entries and observers hold of the source.       *)

\* The cache: its entries, what the fetches hold, and what an invalidation noted.
EntryTypes ==
    /\ source \in [Keys -> 1..MaxVersion]
    /\ cache \in [Keys -> 0..MaxVersion]
    /\ floor \in [Keys -> 1..MaxVersion]
FetchTypes ==
    /\ fetching \in [Callers -> [Keys -> {"none", "called", "read"}]]
    /\ got \in [Callers -> [Keys -> 0..MaxVersion]]
HeardTypes ==
    /\ DOMAIN keyHeard = Keys
    /\ keyHeard = [k \in Keys |-> keyHeard[k]]
EndingType == ending \in Nat
CacheTypes == EntryTypes /\ FetchTypes /\ HeardTypes /\ EndingType

\* An invalidation notes the source as it is, and a fetch that holds an older value
\* then, or later brings one, is known to have raced it.
FloorInv ==
    /\ \A k \in Keys : floor[k] <= source[k]
    /\ \A c \in Callers, k \in Keys :
          fetching[c][k] = "read" /\ got[c][k] < floor[k] => k \in raced

LEMMA DropTypes ==
    ASSUME EntryTypes, NEW ks \in SUBSET Keys, Cacheable!Drop(ks)
    PROVE  EntryTypes'
BY CacheAssumption DEF Cacheable!Drop, EntryTypes

LEMMA NotifyTypes ==
    ASSUME NEW ks, NEW c, Cacheable!Notify(ks, c)
    PROVE  HeardTypes'
BY DEF Cacheable!Notify, HeardTypes

\* Without a throw every registered observer of the keys has heard them as they are.
LEMMA NotifyTells ==
    ASSUME NEW ks, NEW c, Cacheable!Notify(ks, c), ~threw'
    PROVE  /\ \A k \in Keys : keyHeard'[k] = IF k \in ks /\ keyHeard[k] # Cacheable!Off
                                             THEN c[k] ELSE keyHeard[k]
           /\ stateHeard' = IF stateHeard # Cacheable!NoObserver /\ ks # {}
                            THEN c ELSE stateHeard
           /\ ~threw
BY DEF Cacheable!Notify

LEMMA CacheInit == Cacheable!Init => CacheTypes /\ FloorInv
<1> SUFFICES ASSUME Cacheable!Init
             PROVE  CacheTypes /\ FloorInv
    OBVIOUS
<1>1. EntryTypes
    BY CacheAssumption DEF Cacheable!Init, EntryTypes
<1>2. FetchTypes
    BY CacheAssumption DEF Cacheable!Init, FetchTypes
<1>3. HeardTypes
    BY DEF Cacheable!Init, Cacheable!NoObserver, HeardTypes
<1>4. FloorInv
    BY CacheAssumption DEF Cacheable!Init, FloorInv
<1>5. EndingType
    BY DEF Cacheable!Init, EndingType
<1> QED
    BY <1>1, <1>2, <1>3, <1>4, <1>5 DEF CacheTypes

LEMMA EntryStep ==
    ASSUME EntryTypes, FetchTypes, [Cacheable!Next]_(Cacheable!vars)
    PROVE  EntryTypes'
<1>1. CASE UNCHANGED <<source, cache, floor>>
    BY <1>1 DEF EntryTypes
<1>2. ASSUME NEW ks \in SUBSET Keys, Cacheable!Drop(ks)
      PROVE  EntryTypes'
    BY <1>2, DropTypes
<1>3. ASSUME NEW k \in Keys, Cacheable!SourceChanges(k)
      PROVE  EntryTypes'
    BY <1>3, CacheAssumption DEF Cacheable!SourceChanges, Cacheable!history, EntryTypes
<1>4. ASSUME NEW c \in Callers, NEW k \in Keys, Cacheable!FetchReturns(c, k)
      PROVE  EntryTypes'
    BY <1>4, CacheAssumption DEF Cacheable!FetchReturns, FetchTypes, EntryTypes
<1>5. ASSUME NEW k \in Keys, Cacheable!Invalidate(k)
      PROVE  EntryTypes'
    BY <1>5, <1>2 DEF Cacheable!Invalidate
<1>6. CASE Cacheable!InvalidateAll \/ Cacheable!Terminate
    BY <1>6, <1>2 DEF Cacheable!InvalidateAll, Cacheable!Terminate
<1> QED
    BY <1>1, <1>3, <1>4, <1>5, <1>6
       DEF Cacheable!Next, Cacheable!vars, Cacheable!history, Cacheable!Expire, Cacheable!ObserveKey, Cacheable!RemoveKey,
           Cacheable!Get, Cacheable!Refresh, Cacheable!FetchReads, Cacheable!FetchRejects, Cacheable!RefreshAll, Cacheable!Observe, Cacheable!Remove, Cacheable!TerminateReturns

\* Changing one entry of a matrix keeps it one.
LEMMA NestedExcept ==
    ASSUME NEW S, NEW T, NEW V, NEW f \in [S -> [T -> V]],
           NEW s \in S, NEW t \in T, NEW v \in V
    PROVE  [f EXCEPT ![s][t] = v] \in [S -> [T -> V]]
OBVIOUS

LEMMA FetchStep ==
    ASSUME EntryTypes, FetchTypes, [Cacheable!Next]_(Cacheable!vars)
    PROVE  FetchTypes'
<1>1. CASE UNCHANGED <<fetching, got>>
    BY <1>1 DEF FetchTypes
<1>2. ASSUME NEW c \in Callers, NEW k \in Keys, Cacheable!Refresh(c, k)
      PROVE  FetchTypes'
    BY <1>2 DEF Cacheable!Refresh, FetchTypes
<1>4. ASSUME NEW c \in Callers, NEW k \in Keys, Cacheable!FetchReads(c, k)
      PROVE  FetchTypes'
    <2>1. source[k] \in 0..MaxVersion
        BY CacheAssumption DEF EntryTypes
    <2>2. fetching' \in [Callers -> [Keys -> {"none", "called", "read"}]]
        BY <1>4 DEF Cacheable!FetchReads, FetchTypes
    <2>3. got' \in [Callers -> [Keys -> 0..MaxVersion]]
        BY <1>4, <2>1, NestedExcept DEF Cacheable!FetchReads, FetchTypes
    <2> QED
        BY <2>2, <2>3 DEF FetchTypes
<1>5. ASSUME NEW c \in Callers, NEW k \in Keys,
             \/ Cacheable!FetchRejects(c, k)
             \/ Cacheable!FetchReturns(c, k)
      PROVE  FetchTypes'
    <2>1. fetching' = [fetching EXCEPT ![c][k] = "none"] /\ got' = [got EXCEPT ![c][k] = 0]
        BY <1>5 DEF Cacheable!FetchRejects, Cacheable!FetchReturns
    <2>2. 0 \in 0..MaxVersion
        BY CacheAssumption
    <2> QED
        BY <2>1, <2>2, NestedExcept DEF FetchTypes
<1>3. ASSUME NEW c \in Callers, Cacheable!RefreshAll(c)
      PROVE  FetchTypes'
    BY <1>3 DEF Cacheable!RefreshAll, FetchTypes
<1> QED
    BY <1>1, <1>2, <1>3, <1>4, <1>5
       DEF Cacheable!Next, Cacheable!vars, Cacheable!Drop, Cacheable!SourceChanges, Cacheable!Expire, Cacheable!Invalidate, Cacheable!InvalidateAll, Cacheable!Terminate, Cacheable!ObserveKey, Cacheable!RemoveKey,
           Cacheable!Get, Cacheable!Observe, Cacheable!Remove, Cacheable!TerminateReturns

LEMMA HeardStep ==
    ASSUME HeardTypes, [Cacheable!Next]_(Cacheable!vars)
    PROVE  HeardTypes'
<1>1. CASE UNCHANGED keyHeard
    BY <1>1 DEF HeardTypes
<1>2. ASSUME NEW ks, NEW c, Cacheable!Notify(ks, c)
      PROVE  HeardTypes'
    BY <1>2, NotifyTypes
<1>3. ASSUME NEW k \in Keys, Cacheable!ObserveKey(k) \/ Cacheable!RemoveKey(k)
      PROVE  HeardTypes'
    BY <1>3 DEF Cacheable!ObserveKey, Cacheable!RemoveKey, HeardTypes
<1>4. CASE Cacheable!TerminateReturns
    BY <1>4 DEF Cacheable!TerminateReturns, Cacheable!NoObserver, HeardTypes
<1>5. ASSUME NEW k \in Keys, Cacheable!Invalidate(k)
      PROVE  HeardTypes'
    BY <1>5, <1>1, <1>2 DEF Cacheable!Invalidate, Cacheable!observers
<1>6. ASSUME NEW c \in Callers, NEW k \in Keys, Cacheable!FetchReturns(c, k)
      PROVE  HeardTypes'
    BY <1>6, <1>2 DEF Cacheable!FetchReturns
<1>7. CASE Cacheable!InvalidateAll
    BY <1>7, <1>2 DEF Cacheable!InvalidateAll
<1> QED
    BY <1>1, <1>3, <1>4, <1>5, <1>6, <1>7
       DEF Cacheable!Next, Cacheable!vars, Cacheable!observers, Cacheable!SourceChanges, Cacheable!Expire,
           Cacheable!Get, Cacheable!Refresh, Cacheable!FetchReads, Cacheable!FetchRejects, Cacheable!RefreshAll, Cacheable!Observe, Cacheable!Remove, Cacheable!Terminate

LEMMA EndingStep ==
    ASSUME EndingType, [Cacheable!Next]_(Cacheable!vars)
    PROVE  EndingType'
<1> USE DEF EndingType
<1>1. CASE UNCHANGED ending
    BY <1>1
<1>2. CASE Cacheable!Terminate
    BY <1>2 DEF Cacheable!Terminate
<1>3. CASE Cacheable!TerminateReturns
    BY <1>3 DEF Cacheable!TerminateReturns
<1> QED
    BY <1>1, <1>2, <1>3
       DEF Cacheable!Next, Cacheable!vars, Cacheable!observers, Cacheable!SourceChanges, Cacheable!Expire,
           Cacheable!Invalidate, Cacheable!InvalidateAll, Cacheable!ObserveKey, Cacheable!RemoveKey,
           Cacheable!Get, Cacheable!Refresh, Cacheable!RefreshAll, Cacheable!FetchReads,
           Cacheable!FetchRejects, Cacheable!FetchReturns, Cacheable!Observe, Cacheable!Remove

\* The entries, the fetches under way and what observers have heard have their types, for
\* any keys, callers and versions.
THEOREM CacheTypeOK == Cacheable!Spec => []CacheTypes
<1>1. Cacheable!Init => CacheTypes
    BY CacheInit
<1>2. CacheTypes /\ [Cacheable!Next]_(Cacheable!vars) => CacheTypes'
    BY EntryStep, FetchStep, HeardStep, EndingStep DEF CacheTypes
<1> QED
    BY <1>1, <1>2, PTL DEF Cacheable!Spec

LEMMA FloorStep ==
    ASSUME CacheTypes, FloorInv, [Cacheable!Next]_(Cacheable!vars)
    PROVE  FloorInv'
<1> USE DEF CacheTypes
<1>1. CASE UNCHANGED <<source, fetching, got, floor, raced>>
    BY <1>1 DEF FloorInv
<1>2. ASSUME NEW ks \in SUBSET Keys, Cacheable!Drop(ks)
      PROVE  FloorInv'
    <2>1. \A k \in Keys : floor'[k] <= source'[k]
        BY <1>2, CacheAssumption DEF Cacheable!Drop, FloorInv, EntryTypes
    <2>2. ASSUME NEW c \in Callers, NEW k \in Keys,
                 fetching'[c][k] = "read", got'[c][k] < floor'[k]
          PROVE  k \in raced'
        <3>1. CASE k \in ks
            BY <3>1, <1>2, <2>2 DEF Cacheable!Drop, Cacheable!HoldsOlder
        <3>2. CASE k \notin ks
            BY <3>2, <1>2, <2>2 DEF Cacheable!Drop, FloorInv
        <3> QED
            BY <3>1, <3>2
    <2> QED
        BY <2>1, <2>2 DEF FloorInv
<1>3. ASSUME NEW k \in Keys, Cacheable!SourceChanges(k)
      PROVE  FloorInv'
    BY <1>3, CacheAssumption
       DEF Cacheable!SourceChanges, Cacheable!history, FloorInv, EntryTypes
<1>4. ASSUME NEW c \in Callers, NEW k \in Keys, Cacheable!Refresh(c, k)
      PROVE  FloorInv'
    BY <1>4 DEF Cacheable!Refresh, Cacheable!history, FloorInv, FetchTypes
<1>5. ASSUME NEW c \in Callers, NEW k \in Keys, Cacheable!FetchReads(c, k)
      PROVE  FloorInv'
    <2>1. ~(source[k] < floor[k])
        BY CacheAssumption DEF FloorInv, EntryTypes
    <2> QED
        BY <1>5, <2>1 DEF Cacheable!FetchReads, Cacheable!history, FloorInv, FetchTypes
<1>6. ASSUME NEW c \in Callers, NEW k \in Keys,
             Cacheable!FetchRejects(c, k) \/ Cacheable!FetchReturns(c, k)
      PROVE  FloorInv'
    BY <1>6
       DEF Cacheable!FetchRejects, Cacheable!FetchReturns, Cacheable!history, FloorInv, FetchTypes
<1>7. ASSUME NEW c \in Callers, Cacheable!RefreshAll(c)
      PROVE  FloorInv'
    BY <1>7 DEF Cacheable!RefreshAll, Cacheable!history, FloorInv, FetchTypes
<1>8. ASSUME NEW k \in Keys, Cacheable!Invalidate(k)
      PROVE  FloorInv'
    BY <1>8, <1>2 DEF Cacheable!Invalidate
<1>9. CASE Cacheable!InvalidateAll \/ Cacheable!Terminate
    BY <1>9, <1>2 DEF Cacheable!InvalidateAll, Cacheable!Terminate
<1> QED
    BY <1>1, <1>3, <1>4, <1>5, <1>6, <1>7, <1>8, <1>9
       DEF Cacheable!Next, Cacheable!vars, Cacheable!history, Cacheable!Expire, Cacheable!Get,
           Cacheable!ObserveKey, Cacheable!RemoveKey, Cacheable!Observe, Cacheable!Remove, Cacheable!TerminateReturns

LEMMA StaleStep ==
    ASSUME CacheTypes, FloorInv, StaleOnlyFromOlderFetch, [Cacheable!Next]_(Cacheable!vars)
    PROVE  StaleOnlyFromOlderFetch'
<1> USE DEF CacheTypes, StaleOnlyFromOlderFetch, Cacheable!StaleOnlyFromOlderFetch
<1>1. CASE UNCHANGED <<cache, floor, raced>>
    BY <1>1
<1>2. ASSUME NEW ks \in SUBSET Keys, Cacheable!Drop(ks)
      PROVE  StaleOnlyFromOlderFetch'
    BY <1>2 DEF Cacheable!Drop
<1>3. ASSUME NEW c \in Callers, NEW k \in Keys, Cacheable!FetchReturns(c, k)
      PROVE  StaleOnlyFromOlderFetch'
    <2>1. got[c][k] < floor[k] => k \in raced
        BY <1>3 DEF Cacheable!FetchReturns, FloorInv
    <2> QED
        BY <1>3, <2>1 DEF Cacheable!FetchReturns, EntryTypes
<1>4. ASSUME NEW k \in Keys, Cacheable!Invalidate(k)
      PROVE  StaleOnlyFromOlderFetch'
    BY <1>4, <1>2 DEF Cacheable!Invalidate
<1>5. CASE Cacheable!InvalidateAll \/ Cacheable!Terminate
    BY <1>5, <1>2 DEF Cacheable!InvalidateAll, Cacheable!Terminate
<1> QED
    BY <1>1, <1>3, <1>4, <1>5
       DEF Cacheable!Next, Cacheable!vars, Cacheable!history, Cacheable!SourceChanges, Cacheable!Expire,
           Cacheable!Get, Cacheable!Refresh, Cacheable!RefreshAll, Cacheable!FetchReads, Cacheable!FetchRejects,
           Cacheable!ObserveKey, Cacheable!RemoveKey, Cacheable!Observe, Cacheable!Remove, Cacheable!TerminateReturns

\* For any keys, callers and versions: an invalidation leaves no older entry behind but
\* one that a fetch has stored which had read its value before.  The inductive invariant
\* adds what each fetch holds of the source it has read.
THEOREM CacheStaleness == Cacheable!Spec => []StaleOnlyFromOlderFetch
<1>1. Cacheable!Init => CacheTypes /\ FloorInv /\ StaleOnlyFromOlderFetch
    BY CacheInit DEF Cacheable!Init, StaleOnlyFromOlderFetch, Cacheable!StaleOnlyFromOlderFetch
<1>2. CacheTypes /\ FloorInv /\ StaleOnlyFromOlderFetch /\ [Cacheable!Next]_(Cacheable!vars)
      => (CacheTypes /\ FloorInv /\ StaleOnlyFromOlderFetch)'
    BY EntryStep, FetchStep, HeardStep, EndingStep, FloorStep, StaleStep DEF CacheTypes
<1> QED
    BY <1>1, <1>2, PTL DEF Cacheable!Spec

LEMMA ObserversStep ==
    ASSUME CacheTypes, ObserversCurrent, [Cacheable!Next]_(Cacheable!vars)
    PROVE  ObserversCurrent'
<1> USE DEF CacheTypes, ObserversCurrent, Cacheable!ObserversCurrent
<1>1. CASE UNCHANGED <<cache, keyHeard, stateHeard, ending, threw>>
    BY <1>1 DEF Cacheable!NoObserver, Cacheable!Cached
<1>2. ASSUME NEW ks \in SUBSET Keys, Cacheable!Notify(ks, cache'), UNCHANGED ending,
             \A k \in Keys \ ks : cache'[k] = cache[k],
             ks = {} => cache' = cache
      PROVE  ObserversCurrent'
    <2> SUFFICES ASSUME ~threw'
                 PROVE  ObserversCurrent'
        OBVIOUS
    <2>1. /\ \A k \in Keys : keyHeard'[k] = IF k \in ks /\ keyHeard[k] # Cacheable!Off
                                             THEN cache'[k] ELSE keyHeard[k]
          /\ stateHeard' = IF stateHeard # Cacheable!NoObserver /\ ks # {}
                           THEN cache' ELSE stateHeard
          /\ ~threw
        BY <1>2, NotifyTells
    <2>2. ASSUME NEW k \in Keys
          PROVE  \/ keyHeard'[k] \in {Cacheable!Off, Cacheable!Unheard, cache'[k]}
                 \/ ending' > 0 /\ k \notin Cacheable!Cached'
        BY <1>2, <2>1 DEF Cacheable!Cached
    <2>3. \/ stateHeard' \in {Cacheable!NoObserver, Cacheable!NoSnapshot, cache'}
          \/ ending' > 0 /\ Cacheable!Cached' = {}
        BY <1>2, <2>1 DEF Cacheable!Cached
    <2> QED
        BY <2>2, <2>3
<1>3. ASSUME NEW k \in Keys, Cacheable!Invalidate(k)
      PROVE  ObserversCurrent'
    <2>1. CASE k \in Cacheable!Cached
        BY <1>3, <2>1, <1>2 DEF Cacheable!Invalidate, Cacheable!Drop
    <2>2. CASE k \notin Cacheable!Cached
        <3>1. cache' = cache
            BY <1>3, <2>2 DEF Cacheable!Invalidate, Cacheable!Drop, Cacheable!Cached, EntryTypes
        <3> QED
            BY <1>3, <2>2, <3>1, <1>1 DEF Cacheable!Invalidate, Cacheable!observers
    <2> QED
        BY <2>1, <2>2
<1>4. ASSUME NEW c \in Callers, NEW k \in Keys, Cacheable!FetchReturns(c, k)
      PROVE  ObserversCurrent'
    BY <1>4, <1>2 DEF Cacheable!FetchReturns, EntryTypes
<1>5. CASE Cacheable!InvalidateAll
    <2>1. /\ \A k \in Keys \ Cacheable!Cached : cache'[k] = cache[k]
          /\ Cacheable!Cached = {} => cache' = cache
          /\ Cacheable!Cached \subseteq Keys
        BY <1>5 DEF Cacheable!InvalidateAll, Cacheable!Drop, Cacheable!Cached, EntryTypes
    <2> QED
        BY <1>5, <2>1, <1>2 DEF Cacheable!InvalidateAll
<1>6. CASE Cacheable!Terminate
    <2>1. ending' > 0 /\ Cacheable!Cached' = {}
        BY <1>6 DEF Cacheable!Terminate, Cacheable!Drop, Cacheable!Cached, EndingType
    <2> QED
        BY <2>1
<1>9. CASE Cacheable!TerminateReturns
    BY <1>9 DEF Cacheable!TerminateReturns, Cacheable!NoObserver, Cacheable!history
<1>7. ASSUME NEW k \in Keys, Cacheable!ObserveKey(k) \/ Cacheable!RemoveKey(k)
      PROVE  ObserversCurrent'
    BY <1>7 DEF Cacheable!ObserveKey, Cacheable!RemoveKey, Cacheable!history, Cacheable!Cached,
                HeardTypes
<1>8. CASE Cacheable!Observe \/ Cacheable!Remove
    BY <1>8 DEF Cacheable!Observe, Cacheable!Remove, Cacheable!history, Cacheable!Cached
<1> QED
    BY <1>1, <1>3, <1>4, <1>5, <1>6, <1>7, <1>8, <1>9
       DEF Cacheable!Next, Cacheable!vars, Cacheable!observers, Cacheable!history, Cacheable!SourceChanges,
           Cacheable!Expire, Cacheable!Get, Cacheable!Refresh, Cacheable!RefreshAll, Cacheable!FetchReads,
           Cacheable!FetchRejects

\* For any keys and callers: an observer that was called since it registered knows the
\* entries as they are, as long as no observer throws, but for those that a terminate()
\* under way has cleared.  The inductive invariant counts the calls under way.
THEOREM CacheObservers == Cacheable!Spec => []ObserversCurrent
<1>1. Cacheable!Init => CacheTypes /\ ObserversCurrent
    BY CacheInit DEF Cacheable!Init, Cacheable!NoObserver, ObserversCurrent, Cacheable!ObserversCurrent
<1>2. CacheTypes /\ ObserversCurrent /\ [Cacheable!Next]_(Cacheable!vars)
      => (CacheTypes /\ ObserversCurrent)'
    BY EntryStep, FetchStep, HeardStep, EndingStep, ObserversStep DEF CacheTypes
<1> QED
    BY <1>1, <1>2, PTL DEF Cacheable!Spec

-----------------------------------------------------------------------------
(* The observer pools: the snapshots of nested notifications.              *)

\* A non-empty set of numbers has a least one.
LEMMA LeastNumber ==
    ASSUME NEW S \in SUBSET Nat, S # {}
    PROVE  \E x \in S : \A y \in S : x <= y
<1>1. PICK x \in S : \A y \in S : <<y, x>> \notin OpToRel(<, Nat)
    BY WFMin, NatLessThanWellFounded, Zenon
<1>2. \A y \in S : ~(y < x)
    BY <1>1, Zenon DEF OpToRel
<1>3. \A y \in S : x <= y
    BY <1>2
<1> QED
    BY <1>3

LEMMA MinIsLeast ==
    ASSUME NEW S \in SUBSET Nat, S # {}
    PROVE  Observers!Min(S) \in S /\ \A y \in S : Observers!Min(S) <= y
BY LeastNumber DEF Observers!Min

Frames == [pool : {"state", "transition"}, at : Nat, inside : BOOLEAN, value : Values]

PoolTypes ==
    /\ state \in Values
    /\ observers \subseteq 1..(nextId - 1)
    /\ listeners \subseteq 1..(nextId - 1)
    /\ nextId \in 1..(MaxIds + 1)
    /\ stack \in Seq(Frames)
    /\ owed \subseteq 1..(nextId - 1)

HeardFun ==
    /\ DOMAIN heard = Observers!Ids
    /\ \A i \in Observers!Ids : i >= nextId => heard[i] = Observers!Unheard

\* Frame n of the stack will still call observer i of the state.
WillCall(n, i) == stack[n].pool = "transition" \/ i > stack[n].at

Settled(i) ==
    \/ heard[i] = Observers!Value(state)
    \/ heard[i] = Observers!Unheard /\ i \notin owed

\* The React view calls with the snapshot of the fan-out: with one of them under way
\* it is the state.
SnapshotInv ==
    ~nested => Len(stack) <= 1 /\ \A n \in 1..Len(stack) : stack[n].value = state

FanOutInv ==
    ~cut /\ ~(class = "react" /\ nested) =>
        \A i \in observers : Settled(i) \/ \E n \in 1..Len(stack) : WillCall(n, i)

\* All but the last of a sequence.
LEMMA FrontProperties ==
    ASSUME NEW S, NEW s \in Seq(S), s # <<>>
    PROVE  /\ Observers!Front(s) \in Seq(S)
           /\ Len(s) \in Nat \ {0}
           /\ Len(Observers!Front(s)) = Len(s) - 1
           /\ \A n \in 1..(Len(s) - 1) : Observers!Front(s)[n] = s[n]
<1>1. Len(s) \in Nat \ {0}
    BY EmptySeq
<1>2. PICK m \in Nat : m = Len(s) - 1
    BY <1>1
<1>3. \A n \in 1..m : s[n] \in S
    BY <1>1, <1>2, ElementOfSeq
<1>4. /\ SubSeq(s, 1, m) \in Seq(S)
      /\ Len(SubSeq(s, 1, m)) = m
      /\ \A n \in 1..m : SubSeq(s, 1, m)[n] = s[n]
    <2>1. \A n \in 1..m : 1 + n - 1 = n
        OBVIOUS
    <2>2. 1..(m - 1 + 1) = 1..m /\ (1 <= m => m - 1 + 1 = m) /\ (~(1 <= m) => m = 0)
        OBVIOUS
    <2> QED
        BY <1>3, <2>1, <2>2, SubSeqProperties
<1> QED
    BY <1>1, <1>2, <1>4 DEF Observers!Front

LEMMA ReplaceTop ==
    ASSUME NEW S, stack \in Seq(S), stack # <<>>, NEW f \in S, Observers!Replace(f)
    PROVE  /\ stack' \in Seq(S)
           /\ Len(stack') = Len(stack)
           /\ stack'[Len(stack)] = f
           /\ \A n \in 1..(Len(stack) - 1) : stack'[n] = stack[n]
           /\ Len(stack) \in Nat \ {0}
BY FrontProperties, AppendProperties DEF Observers!Replace

LEMMA TopFrame ==
    ASSUME PoolTypes, stack # <<>>
    PROVE  /\ Len(stack) \in Nat \ {0}
           /\ Observers!Last(stack) = stack[Len(stack)]
           /\ Observers!Last(stack) \in Frames
BY EmptySeq, ElementOfSeq DEF PoolTypes, Observers!Last

\* The next observer to visit is one that is registered, and none before it is left.
LEMMA NextAhead ==
    ASSUME PoolTypes, stack # <<>>, Observers!Ahead # {}
    PROVE  /\ Observers!Min(Observers!Ahead) \in Observers!Ahead
           /\ Observers!Min(Observers!Ahead) \in observers \cup listeners
           /\ Observers!Min(Observers!Ahead) \in Nat
           /\ \A i \in Observers!Ahead : Observers!Min(Observers!Ahead) <= i
<1>1. Observers!Ahead \subseteq observers \cup listeners
    BY DEF Observers!Ahead
<1>2. Observers!Ahead \subseteq Nat
    BY <1>1, ObserverAssumption DEF PoolTypes
<1> QED
    BY <1>1, <1>2, MinIsLeast

LEMMA PoolInit == Observers!Init => PoolTypes /\ HeardFun /\ SnapshotInv /\ FanOutInv
<1> SUFFICES ASSUME Observers!Init
             PROVE  PoolTypes /\ HeardFun /\ SnapshotInv /\ FanOutInv
    OBVIOUS
<1>1. stack = <<>> /\ Len(stack) = 0 /\ stack \in Seq(Frames)
    BY EmptySeq DEF Observers!Init
<1>2. PoolTypes
    BY <1>1, ObserverAssumption DEF Observers!Init, PoolTypes
<1>3. HeardFun
    BY DEF Observers!Init, HeardFun
<1>4. SnapshotInv
    BY <1>1 DEF Observers!Init, SnapshotInv
<1>5. FanOutInv
    BY DEF Observers!Init, FanOutInv
<1> QED
    BY <1>2, <1>3, <1>4, <1>5

LEMMA PoolTypesStep ==
    ASSUME PoolTypes, [Observers!Next]_(Observers!vars)
    PROVE  PoolTypes'
<1> USE ObserverAssumption DEF PoolTypes
<1>1. CASE Observers!Observe
    BY <1>1 DEF Observers!Observe, Observers!Ids
<1>2. CASE Observers!ObserveTransition
    BY <1>2 DEF Observers!ObserveTransition, Observers!Ids
<1>3. ASSUME NEW i \in Observers!Ids, Observers!RemoveObserver(i)
      PROVE  PoolTypes'
    BY <1>3 DEF Observers!RemoveObserver
<1>4. CASE Observers!Terminate
    BY <1>4 DEF Observers!Terminate
<1>5. ASSUME NEW pool \in {"state", "transition"}, NEW v \in Values,
             Observers!Begin(pool, v), UNCHANGED Observers!registry
      PROVE  PoolTypes'
    <2>1. [pool |-> pool, at |-> 0, inside |-> FALSE, value |-> v] \in Frames
        BY DEF Frames
    <2>2. stack' \in Seq(Frames)
        BY <2>1, <1>5, AppendProperties DEF Observers!Begin
    <2> QED
        BY <2>2, <1>5 DEF Observers!Begin, Observers!registry
<1>6. ASSUME NEW v \in Values, Observers!Notify(v) \/ Observers!Transition(v)
      PROVE  PoolTypes'
    BY <1>6, <1>5 DEF Observers!Notify, Observers!Transition
<1>7. CASE Observers!Visit
    <2>1. stack # <<>> /\ Observers!Ahead # {}
        BY <1>7 DEF Observers!Visit
    <2> DEFINE i == Observers!Min(Observers!Ahead)
               f == [Observers!Last(stack) EXCEPT !.at = i, !.inside = TRUE]
    <2>2. Observers!Last(stack) \in Frames /\ i \in Nat
        BY <2>1, TopFrame, NextAhead
    <2>3. f \in Frames
        BY <2>2 DEF Frames
    <2>4. Observers!Replace(f) /\ UNCHANGED <<state, Observers!registry>> /\ owed' = owed \ {i}
        BY <1>7 DEF Observers!Visit
    <2> HIDE DEF i, f
    <2>5. stack' \in Seq(Frames)
        BY <2>1, <2>3, <2>4, ReplaceTop
    <2> QED
        BY <2>4, <2>5 DEF Observers!registry
<1>8. ASSUME stack # <<>>,
             \/ stack' = Observers!Front(stack)
             \/ Observers!Replace([Observers!Last(stack) EXCEPT !.inside = FALSE])
             \/ Observers!Replace([Observers!Last(stack) EXCEPT !.pool = "state", !.at = 0]),
             UNCHANGED <<Observers!registry, state, owed>>
      PROVE  PoolTypes'
    <2>1. Observers!Last(stack) \in Frames
        BY <1>8, TopFrame
    <2>2. /\ [Observers!Last(stack) EXCEPT !.inside = FALSE] \in Frames
          /\ [Observers!Last(stack) EXCEPT !.pool = "state", !.at = 0] \in Frames
        BY <2>1 DEF Frames
    <2>3. stack' \in Seq(Frames)
        BY <1>8, <2>2, ReplaceTop, FrontProperties
    <2> QED
        BY <1>8, <2>3 DEF Observers!registry
<1>9. CASE Observers!Returns \/ Observers!Throws \/ Observers!Ends
    BY <1>9, <1>8 DEF Observers!Returns, Observers!Throws, Observers!Ends
<1>10. CASE UNCHANGED Observers!vars
    BY <1>10 DEF Observers!vars
<1> QED
    BY <1>1, <1>2, <1>3, <1>4, <1>6, <1>7, <1>9, <1>10 DEF Observers!Next

LEMMA HeardFunStep ==
    ASSUME PoolTypes, HeardFun, [Observers!Next]_(Observers!vars)
    PROVE  HeardFun'
<1> USE DEF HeardFun, Observers!Ids
<1>1. CASE Observers!Observe
    BY <1>1, ObserverAssumption DEF Observers!Observe, PoolTypes
<1>2. CASE Observers!Visit
    <2>1. Observers!Min(Observers!Ahead) \in observers \cup listeners
        BY <1>2, NextAhead DEF Observers!Visit
    <2> HIDE DEF Observers!Min, Observers!Ahead
    <2>2. PICK i \in 1..(nextId - 1) :
              heard' = heard \/ \E v : heard' = [heard EXCEPT ![i] = v]
        BY <1>2, <2>1 DEF Observers!Visit, PoolTypes
    <2>3. nextId' = nextId
        BY <1>2 DEF Observers!Visit, Observers!registry
    <2> QED
        BY <2>2, <2>3, ObserverAssumption DEF PoolTypes
<1>3. CASE UNCHANGED heard /\ nextId' \in {nextId, nextId + 1}
    BY <1>3, ObserverAssumption DEF PoolTypes
<1> QED
    BY <1>1, <1>2, <1>3
       DEF Observers!Next, Observers!vars, Observers!registry, Observers!ObserveTransition,
           Observers!RemoveObserver, Observers!Terminate, Observers!Notify, Observers!Transition,
           Observers!Returns, Observers!Throws, Observers!Ends

LEMMA BeginPushes ==
    ASSUME PoolTypes, NEW pool \in {"state", "transition"}, NEW v \in Values,
           Observers!Begin(pool, v)
    PROVE  /\ Len(stack) \in Nat
           /\ Len(stack') = Len(stack) + 1
           /\ stack'[Len(stack) + 1] = [pool |-> pool, at |-> 0, inside |-> FALSE, value |-> v]
           /\ stack = <<>> => Len(stack) = 0
<1>1. [pool |-> pool, at |-> 0, inside |-> FALSE, value |-> v] \in Frames
    BY DEF Frames
<1>2. stack \in Seq(Frames) /\ Len(stack) \in Nat
    BY LenProperties DEF PoolTypes
<1> QED
    BY <1>1, <1>2, EmptySeq, AppendProperties DEF Observers!Begin

LEMMA SnapshotStep ==
    ASSUME PoolTypes, SnapshotInv, [Observers!Next]_(Observers!vars)
    PROVE  SnapshotInv'
<1> USE DEF SnapshotInv
<1>1. CASE UNCHANGED <<state, stack, nested>>
    BY <1>1
<1>2. ASSUME NEW pool \in {"state", "transition"}, NEW v \in Values, Observers!Begin(pool, v)
      PROVE  SnapshotInv'
    <2>1. CASE stack # <<>>
        <3>1. nested'
            BY <1>2, <2>1 DEF Observers!Begin
        <3> QED
            BY <3>1
    <2>2. CASE stack = <<>>
        <3>0. /\ Len(stack') = Len(stack) + 1
              /\ stack'[Len(stack) + 1] = [pool |-> pool, at |-> 0, inside |-> FALSE, value |-> v]
              /\ Len(stack) = 0
            BY <1>2, <2>2, BeginPushes
        <3>1. Len(stack') = 1 /\ stack'[1].value = v
            BY <3>0
        <3>2. state' = v
            BY <1>2 DEF Observers!Begin
        <3>3. \A n \in 1..Len(stack') : n = 1
            BY <3>1
        <3> QED
            BY <3>1, <3>2, <3>3
    <2> QED
        BY <2>1, <2>2
<1>3. ASSUME stack # <<>>, NEW f \in Frames, f.value = Observers!Last(stack).value,
             Observers!Replace(f), UNCHANGED <<state, nested>>
      PROVE  SnapshotInv'
    <2>1. /\ Len(stack') = Len(stack)
          /\ stack'[Len(stack)] = f
          /\ \A n \in 1..(Len(stack) - 1) : stack'[n] = stack[n]
          /\ Len(stack) \in Nat \ {0}
        BY <1>3, ReplaceTop DEF PoolTypes
    <2>2. f.value = stack[Len(stack)].value
        BY <1>3, TopFrame
    <2>3. ASSUME ~nested, NEW n \in 1..Len(stack)
          PROVE  stack'[n].value = state
        <3>1. stack[n].value = state
            BY <2>3
        <3>2. CASE n = Len(stack)
            BY <3>1, <3>2, <2>1, <2>2
        <3>3. CASE n # Len(stack)
            BY <3>1, <3>3, <2>1
        <3> QED
            BY <3>2, <3>3
    <2>4. ~nested => Len(stack) <= 1
        OBVIOUS
    <2> QED
        BY <2>1, <2>3, <2>4, <1>3
<1>4. ASSUME stack # <<>>, stack' = Observers!Front(stack), UNCHANGED <<state, nested>>
      PROVE  SnapshotInv'
    BY <1>4, FrontProperties DEF PoolTypes
<1>5. CASE Observers!Visit
    <2>1. /\ stack # <<>> /\ Observers!Ahead # {}
          /\ Observers!Replace([Observers!Last(stack) EXCEPT !.at = Observers!Min(Observers!Ahead), !.inside = TRUE])
          /\ UNCHANGED <<state, nested>>
        BY <1>5 DEF Observers!Visit
    <2>2. Observers!Min(Observers!Ahead) \in Nat /\ Observers!Last(stack) \in Frames
        BY <2>1, NextAhead, TopFrame
    <2> QED
        BY <2>1, <2>2, <1>3 DEF Frames
<1>6. CASE Observers!Returns \/ Observers!Throws \/ Observers!Ends
    <2>1. stack # <<>>
        BY <1>6 DEF Observers!Returns, Observers!Throws, Observers!Ends
    <2>2. Observers!Last(stack) \in Frames
        BY <2>1, TopFrame
    <2>3. /\ [Observers!Last(stack) EXCEPT !.inside = FALSE] \in Frames
          /\ [Observers!Last(stack) EXCEPT !.inside = FALSE].value = Observers!Last(stack).value
          /\ [Observers!Last(stack) EXCEPT !.pool = "state", !.at = 0] \in Frames
          /\ [Observers!Last(stack) EXCEPT !.pool = "state", !.at = 0].value = Observers!Last(stack).value
        BY <2>2 DEF Frames
    <2> QED
        BY <1>6, <2>1, <2>3, <1>3, <1>4 DEF Observers!Returns, Observers!Throws, Observers!Ends
<1> QED
    BY <1>1, <1>2, <1>5, <1>6
       DEF Observers!Next, Observers!vars, Observers!Observe, Observers!ObserveTransition,
           Observers!RemoveObserver, Observers!Terminate, Observers!Notify, Observers!Transition

LEMMA FanOutStep ==
    ASSUME PoolTypes, HeardFun, SnapshotInv, FanOutInv, [Observers!Next]_(Observers!vars)
    PROVE  FanOutInv'
<1>1. CASE UNCHANGED <<class, state, stack, heard, owed, cut, nested>> /\ observers' \subseteq observers
    BY <1>1 DEF FanOutInv, Settled, WillCall
<1>2. CASE Observers!Observe
    <2>1. /\ observers' = observers \cup {nextId} /\ nextId \in Observers!Ids
          /\ heard' = heard \/ heard' = [heard EXCEPT ![nextId] = Observers!Value(state)]
          /\ UNCHANGED <<class, state, stack, owed, cut, nested>>
        BY <1>2 DEF Observers!Observe
    <2>2. PICK new \in Observers!Ids : new = nextId
        BY <2>1
    <2>3. Settled(new)'
        <3>1. new \notin owed
            BY <2>2, ObserverAssumption DEF PoolTypes
        <3>2. heard[new] = Observers!Unheard
            BY <2>1, <2>2, ObserverAssumption DEF HeardFun, PoolTypes, Observers!Ids
        <3>3. heard'[new] \in {heard[new], Observers!Value(state)}
            BY <2>1, <2>2 DEF HeardFun
        <3> QED
            BY <2>1, <3>1, <3>2, <3>3 DEF Settled, Observers!Value, Observers!Unheard
    <2>4. ASSUME NEW i \in observers
          PROVE  heard'[i] = heard[i]
        <3>1. i # nextId /\ i \in Observers!Ids
            BY ObserverAssumption DEF PoolTypes, Observers!Ids
        <3> QED
            BY <2>1, <3>1 DEF HeardFun
    <2>5. \A i \in observers : Settled(i) => Settled(i)'
        BY <2>1, <2>4 DEF Settled, Observers!Value, Observers!Unheard
    <2>6. \A n, i : WillCall(n, i) => WillCall(n, i)'
        BY <2>1 DEF WillCall
    <2> QED
        BY <2>1, <2>2, <2>3, <2>5, <2>6 DEF FanOutInv
<1>3. ASSUME NEW pool \in {"state", "transition"}, NEW v \in Values, Observers!Begin(pool, v),
             observers' = observers
      PROVE  FanOutInv'
    <2>1. /\ Len(stack) \in Nat
          /\ Len(stack') = Len(stack) + 1
          /\ stack'[Len(stack) + 1] = [pool |-> pool, at |-> 0, inside |-> FALSE, value |-> v]
        BY <1>3, BeginPushes
    <2>2. PICK top \in Nat : top = Len(stack) + 1
        BY <2>1
    <2>3. top \in 1..Len(stack') /\ stack'[top].at = 0
        BY <2>1, <2>2
    <2>4. \A i \in observers : i > 0
        BY ObserverAssumption DEF PoolTypes
    <2>5. \A i \in observers : WillCall(top, i)'
        BY <2>3, <2>4 DEF WillCall
    <2> QED
        BY <1>3, <2>3, <2>5 DEF FanOutInv
<1>4. ASSUME stack # <<>>, NEW f \in Frames, Observers!Replace(f),
             \/ /\ f.pool = Observers!Last(stack).pool /\ f.at = Observers!Last(stack).at
             \/ f.at = 0,
             UNCHANGED <<class, state, observers, heard, owed, cut, nested>>
      PROVE  FanOutInv'
    <2>1. /\ Len(stack') = Len(stack)
          /\ stack'[Len(stack)] = f
          /\ \A n \in 1..(Len(stack) - 1) : stack'[n] = stack[n]
          /\ Len(stack) \in Nat \ {0}
        BY <1>4, ReplaceTop DEF PoolTypes
    <2>2. Observers!Last(stack) = stack[Len(stack)]
        BY <1>4, TopFrame
    <2>3. ASSUME NEW i \in observers, NEW n \in 1..Len(stack), WillCall(n, i)
          PROVE  WillCall(n, i)'
        <3>1. CASE n # Len(stack)
            BY <2>1, <2>3, <3>1 DEF WillCall
        <3>2. CASE n = Len(stack) /\ f.at # 0
            BY <1>4, <2>1, <2>2, <2>3, <3>2 DEF WillCall
        <3>3. CASE n = Len(stack) /\ f.at = 0
            <4>1. i > 0
                BY ObserverAssumption DEF PoolTypes
            <4> QED
                BY <2>1, <3>3, <4>1 DEF WillCall
        <3> QED
            BY <3>1, <3>2, <3>3
    <2>4. \A i \in observers : Settled(i) => Settled(i)'
        BY <1>4 DEF Settled, Observers!Value
    <2> QED
        BY <1>4, <2>1, <2>3, <2>4 DEF FanOutInv
<1>5. CASE Observers!Visit
    <2>0. /\ stack # <<>> /\ Observers!Ahead # {}
          /\ UNCHANGED <<Observers!registry, state, cut, nested>>
        BY <1>5 DEF Observers!Visit
    <2> DEFINE next == Observers!Min(Observers!Ahead)
               told == IF class = "react" THEN Observers!Last(stack).value ELSE state
               f == [Observers!Last(stack) EXCEPT !.at = next, !.inside = TRUE]
    <2>1. /\ next \in Observers!Ahead /\ next \in observers \cup listeners /\ next \in Nat
          /\ \A i \in Observers!Ahead : next <= i
          /\ Observers!Last(stack) \in Frames /\ Observers!Last(stack) = stack[Len(stack)]
        BY <2>0, NextAhead, TopFrame
    <2>2. /\ Observers!Replace(f)
          /\ heard' = IF next \in observers THEN [heard EXCEPT ![next] = Observers!Value(told)] ELSE heard
          /\ owed' = owed \ {next}
        BY <1>5 DEF Observers!Visit
    <2>3. f \in Frames /\ f.pool = Observers!Last(stack).pool /\ f.at = next
        BY <2>1 DEF Frames
    <2> HIDE DEF next, told, f
    <2>4. /\ Len(stack') = Len(stack)
          /\ stack'[Len(stack)] = f
          /\ \A n \in 1..(Len(stack) - 1) : stack'[n] = stack[n]
          /\ Len(stack) \in Nat \ {0}
        BY <2>0, <2>2, <2>3, ReplaceTop DEF PoolTypes
    <2>5. ASSUME ~(class = "react" /\ nested)
          PROVE  told = state
        BY <2>0, <2>1, <2>4, <2>5 DEF told, SnapshotInv
    <2>6. ASSUME NEW i \in observers, ~(class = "react" /\ nested), i = next
          PROVE  Settled(i)'
        <3>1. i \in Observers!Ids
            BY ObserverAssumption DEF PoolTypes, Observers!Ids
        <3>2. heard'[i] = Observers!Value(state)
            BY <2>2, <2>5, <2>6, <3>1 DEF HeardFun
        <3> QED
            BY <2>0, <3>2 DEF Settled, Observers!Value
    <2>7. ASSUME NEW i \in observers, i # next, Settled(i)
          PROVE  Settled(i)'
        <3>1. heard'[i] = heard[i]
            BY <2>2, <2>7 DEF HeardFun
        <3> QED
            BY <2>0, <2>2, <2>7, <3>1 DEF Settled, Observers!Value
    <2>8. ASSUME NEW i \in observers, i # next, NEW n \in 1..Len(stack), WillCall(n, i)
          PROVE  WillCall(n, i)'
        <3>1. CASE n # Len(stack)
            BY <2>4, <2>8, <3>1 DEF WillCall
        <3>2. CASE n = Len(stack) /\ stack[n].pool = "transition"
            BY <2>1, <2>3, <2>4, <3>2 DEF WillCall
        <3>3. CASE n = Len(stack) /\ stack[n].pool # "transition"
            <4>1. stack[n].pool = "state" /\ i > stack[n].at
                BY <2>1, <2>8, <3>3 DEF WillCall, Frames
            <4>2. i \in Observers!Ahead
                BY <2>1, <3>3, <4>1 DEF Observers!Ahead
            <4>3. i \in Nat
                BY ObserverAssumption DEF PoolTypes
            <4>4. i > next
                BY <2>1, <2>8, <4>2, <4>3
            <4> QED
                BY <2>3, <2>4, <3>3, <4>4 DEF WillCall
        <3> QED
            BY <3>1, <3>2, <3>3
    <2>9. observers' = observers /\ class' = class /\ cut' = cut /\ nested' = nested
        BY <2>0 DEF Observers!registry
    <2> QED
        BY <2>4, <2>6, <2>7, <2>8, <2>9 DEF FanOutInv
<1>6. ASSUME stack # <<>>, stack' = Observers!Front(stack), Observers!Ahead = {},
             Observers!Last(stack).pool # "transition",
             UNCHANGED <<class, state, observers, heard, owed, cut, nested>>
      PROVE  FanOutInv'
    <2>1. /\ Len(stack') = Len(stack) - 1
          /\ \A n \in 1..(Len(stack) - 1) : stack'[n] = stack[n]
          /\ Len(stack) \in Nat \ {0}
        BY <1>6, FrontProperties DEF PoolTypes
    <2>2. \A i \in observers : ~WillCall(Len(stack), i)
        BY <1>6, TopFrame DEF WillCall, Frames, Observers!Ahead
    <2>3. ASSUME NEW i \in observers, NEW n \in 1..Len(stack), WillCall(n, i)
          PROVE  n \in 1..Len(stack') /\ WillCall(n, i)'
        <3>1. n # Len(stack)
            BY <2>2, <2>3
        <3> QED
            BY <2>1, <2>3, <3>1 DEF WillCall
    <2>4. \A i \in observers : Settled(i) => Settled(i)'
        BY <1>6 DEF Settled, Observers!Value
    <2> QED
        BY <1>6, <2>3, <2>4 DEF FanOutInv
<1>7. CASE Observers!Returns \/ Observers!Throws \/ Observers!Ends
    <2>1. stack # <<>> /\ UNCHANGED <<class, state, observers, heard, owed, nested>>
        BY <1>7 DEF Observers!Returns, Observers!Throws, Observers!Ends, Observers!registry
    <2>2. Observers!Last(stack) \in Frames
        BY <2>1, TopFrame
    <2> DEFINE back == [Observers!Last(stack) EXCEPT !.inside = FALSE]
               second == [Observers!Last(stack) EXCEPT !.pool = "state", !.at = 0]
    <2>3. /\ back \in Frames /\ back.pool = Observers!Last(stack).pool /\ back.at = Observers!Last(stack).at
          /\ second \in Frames /\ second.at = 0
        BY <2>2 DEF Frames
    <2>4. CASE Observers!Replace(back) /\ cut' = cut
        BY <2>1, <2>3, <2>4, <1>4
    <2>5. CASE Observers!Replace(second) /\ cut' = cut
        BY <2>1, <2>3, <2>5, <1>4
    <2>6. CASE Observers!Ends /\ stack' = Observers!Front(stack)
        <3>1. CASE Observers!Ahead = {} /\ Observers!Last(stack).pool = "transition"
            BY <1>4, <2>1, <2>3, <2>6, <3>1 DEF Observers!Ends
        <3>2. CASE ~(Observers!Ahead = {} /\ Observers!Last(stack).pool = "transition")
            BY <1>6, <2>1, <2>6, <3>2 DEF Observers!Ends
        <3> QED
            BY <3>1, <3>2
    <2>7. CASE cut'
        BY <2>7 DEF FanOutInv
    <2> QED
        BY <1>7, <2>4, <2>5, <2>6, <2>7 DEF Observers!Returns, Observers!Throws, Observers!Ends
<1>8. ASSUME NEW v \in Values, Observers!Notify(v) \/ Observers!Transition(v)
      PROVE  FanOutInv'
    BY <1>8, <1>3 DEF Observers!Notify, Observers!Transition, Observers!registry
<1> QED
    BY <1>1, <1>2, <1>5, <1>7, <1>8
       DEF Observers!Next, Observers!vars, Observers!ObserveTransition, Observers!RemoveObserver,
           Observers!Terminate

\* For any number of observers and any depth of nesting: once the outermost notification
\* returns, every registered observer has heard the state there is.  The inductive
\* invariant says of each frame on the stack whom it will still call, and that the
\* newest of them that calls an observer will tell it the state there is.
THEOREM PoolTells == Observers!Spec => []TellsEveryone
<1> DEFINE I == PoolTypes /\ HeardFun /\ SnapshotInv /\ FanOutInv
<1>1. Observers!Init => I
    BY PoolInit
<1>2. I /\ [Observers!Next]_(Observers!vars) => I'
    BY PoolTypesStep, HeardFunStep, SnapshotStep, FanOutStep
<1>3. I => TellsEveryone
    <2> SUFFICES ASSUME I, stack = <<>>, ~cut, ~(class = "react" /\ nested), NEW i \in observers
                 PROVE  Settled(i)
        BY DEF TellsEveryone, Observers!TellsEveryone, Settled
    <2>1. Len(stack) = 0
        BY EmptySeq
    <2> QED
        BY <2>1 DEF FanOutInv
<1> HIDE DEF I
<1> QED
    BY <1>1, <1>2, <1>3, PTL DEF Observers!Spec
=============================================================================
