----------------------------- MODULE MCBusiness -----------------------------
(* Five independent parts of packages/xf and packages/xf-react-view, one of  *)
(* them per behaviour: the timers, the memoising cache, the observers, the   *)
(* bounded parallelism and the start and end of the layers and views.        *)
EXTENDS ScheduleBusiness, ConcurrentBusiness, Lifecycle, TLC

CONSTANTS
    Keys, Callers, MaxVersion, MaxEnding, Expiring,
    Values, Legal, MaxIds, MaxDepth

ASSUME CacheAssumption == MaxVersion \in Nat \ {0} /\ MaxEnding \in Nat
ASSUME ObserverAssumption == MaxIds \in Nat

VARIABLES
    part,
    source, cache, expired, fetching, got, keyHeard, stateHeard, ending,
    floor, raced, threw,
    class, state, observers, listeners, nextId, stack, heard, owed, cut, nested

scheduleVars == vars
cacheVars ==
    <<source, cache, expired, fetching, got, keyHeard, stateHeard, ending, floor, raced,
      threw>>
observerVars ==
    <<class, state, observers, listeners, nextId, stack, heard, owed, cut, nested>>

Cacheable == INSTANCE CacheableBusiness
Observers == INSTANCE ObserverPools

Symmetry == Permutations(Keys) \cup Permutations(Callers) \cup Permutations(Views)

MCLegal == {<<1, 2>>, <<2, 1>>}

\* What observers have heard changes nothing else, and nothing is claimed of it once
\* one has thrown: such a state is checked and not followed.
UntilAnObserverThrows == ~threw

\* The parts that do not run keep one of their initial states.
MCInit ==
    /\ part \in {"schedule", "cacheable", "observers", "concurrent", "lifecycle"}
    /\ Init /\ Cacheable!Init /\ Observers!Init /\ ParallelInit /\ LifecycleInit
    /\ part # "observers" => class = "view" /\ state = 1
    /\ part # "concurrent" => tasks = 0 /\ maxConcurrency = 0

MCNext ==
    /\ UNCHANGED part
    /\ \/ /\ part = "schedule" /\ Next
          /\ UNCHANGED <<cacheVars, observerVars, parallelVars, lifecycleVars>>
       \/ /\ part = "cacheable" /\ Cacheable!Next
          /\ UNCHANGED <<scheduleVars, observerVars, parallelVars, lifecycleVars>>
       \/ /\ part = "observers" /\ Observers!Next
          /\ UNCHANGED <<scheduleVars, cacheVars, parallelVars, lifecycleVars>>
       \/ /\ part = "concurrent" /\ ParallelNext
          /\ UNCHANGED <<scheduleVars, cacheVars, observerVars, lifecycleVars>>
       \/ /\ part = "lifecycle" /\ LifecycleNext
          /\ UNCHANGED <<scheduleVars, cacheVars, observerVars, parallelVars>>

MCSpec ==
    MCInit
    /\ [][MCNext]_<<part, scheduleVars, cacheVars, observerVars, parallelVars,
                    lifecycleVars>>

\* The properties of the instances; those of the extended modules are in scope.
ObserversCurrent == Cacheable!ObserversCurrent
StaleOnlyFromOlderFetch == Cacheable!StaleOnlyFromOlderFetch
TellsEveryone == Observers!TellsEveryone
=============================================================================
