------------------------------ MODULE Lifecycle ------------------------------
(***************************************************************************)
(* The start and the end of an artefact: XF.init() and XF.terminate() of   *)
(* packages/xf/src/XF.ts over the injectors R, B and A, and the views of   *)
(* packages/xf-react-view, whose init() and terminate() React calls and    *)
(* nobody awaits.  A layer is up from when its init() has resolved until   *)
(* its terminate() begins.                                                 *)
(***************************************************************************)
EXTENDS Naturals, FiniteSets

CONSTANTS
    Views,       \* the mounted views
    MaxInits     \* bound of the model: how often a view is mounted

VARIABLES
    starting,    \* the layer whose init() is awaited, "none" or "done"
    stopping,    \* the layer whose terminate() is awaited, "none" or "done"
    up,          \* the layers that are up
    overlapped,  \* history: have init() and terminate() overlapped?
    mounted,     \* the views React has mounted
    pending,     \* [Views -> the number of init() calls in flight]
    mounts,      \* [Views -> how often it has been mounted]
    holding,     \* the views that hold what their init() has acquired
    hasty        \* history: the views whose last unmount came with an init() in flight

layers == <<starting, stopping, up, overlapped>>
views == <<mounted, pending, mounts, holding, hasty>>
lifecycleVars == <<layers, views>>

Layers == {"R", "B", "A"}
Above(l) == CASE l = "R" -> "B" [] l = "B" -> "A" [] OTHER -> "done"
Below(l) == CASE l = "A" -> "B" [] l = "B" -> "R" [] OTHER -> "done"

LifecycleInit ==
    /\ starting = "none" /\ stopping = "none" /\ up = {} /\ overlapped = FALSE
    /\ mounted = {} /\ holding = {} /\ hasty = {}
    /\ pending = [v \in Views |-> 0]
    /\ mounts = [v \in Views |-> 0]

\* XF.init() calls R.init() ...
Start ==
    /\ starting = "none"
    /\ starting' = "R"
    /\ overlapped' = (overlapped \/ stopping \in Layers)
    /\ UNCHANGED <<stopping, up, views>>

\* ... and every layer above when the one below it is ready.
LayerReady ==
    /\ starting \in Layers
    /\ up' = up \cup {starting}
    /\ starting' = Above(starting)
    /\ UNCHANGED <<stopping, overlapped, views>>

\* An init() rejects, and XF.init() with it: the layers below stay up.
LayerFails ==
    /\ starting \in Layers
    /\ starting' = "done"
    /\ UNCHANGED <<stopping, up, overlapped, views>>

\* Mutant: the layers terminate in the order in which they start.
StopBottomUp ==
    /\ stopping = "none"
    /\ stopping' = "R"
    /\ up' = up \ {"R"}
    /\ overlapped' = (overlapped \/ starting \in Layers)
    /\ UNCHANGED <<starting, views>>

\* XF.terminate(), by a signal at any time, calls A.terminate() ...
Stop ==
    /\ stopping = "none"
    /\ stopping' = "A"
    /\ up' = up \ {"A"}
    /\ overlapped' = (overlapped \/ starting \in Layers)
    /\ UNCHANGED <<starting, views>>

\* ... and every layer below when the one above it has terminated.
LayerStopped ==
    /\ stopping \in Layers
    /\ stopping' = Below(stopping)
    /\ up' = up \ {Below(stopping)}
    /\ UNCHANGED <<starting, overlapped, views>>

\* A terminate() rejects, and XF.terminate() with it: the layers below stay up.
LayerStopFails ==
    /\ stopping \in Layers
    /\ stopping' = "done"
    /\ UNCHANGED <<starting, up, overlapped, views>>

\* componentDidMount(): void this.init()
Mount(v) ==
    /\ v \notin mounted
    /\ mounts[v] < MaxInits
    /\ mounted' = mounted \cup {v}
    /\ mounts' = [mounts EXCEPT ![v] = @ + 1]
    /\ pending' = [pending EXCEPT ![v] = @ + 1]
    /\ UNCHANGED <<layers, holding, hasty>>

\* init() has loaded and subscribes, or rejects, which nobody hears.
InitSettles(v) ==
    /\ pending[v] > 0
    /\ pending' = [pending EXCEPT ![v] = @ - 1]
    /\ holding' \in {holding, holding \cup {v}}
    /\ UNCHANGED <<layers, mounted, mounts, hasty>>

\* componentWillUnmount(): void this.terminate(), which releases what there is.
Unmount(v) ==
    /\ v \in mounted
    /\ mounted' = mounted \ {v}
    /\ holding' = holding \ {v}
    /\ hasty' = IF pending[v] > 0 THEN hasty \cup {v} ELSE hasty \ {v}
    /\ UNCHANGED <<layers, pending, mounts>>

LifecycleNext ==
    \/ Start
    \/ LayerReady
    \/ LayerFails
    \/ Stop
    \/ LayerStopped
    \/ LayerStopFails
    \/ \E v \in Views : Mount(v) \/ InitSettles(v) \/ Unmount(v)

LifecycleSpec == LifecycleInit /\ [][LifecycleNext]_lifecycleVars

-----------------------------------------------------------------------------

\* What was acquired is released in time.  No layer is up above one that is down, in a
\* start or a shutdown that fails anywhere, unless terminate() has come while init()
\* was under way, or the other way round.  And a view that is not mounted holds nothing,
\* except that React has unmounted it while an init() was in flight, which then
\* acquires what nobody releases.
NothingOutlivesItsBase ==
    /\ ~overlapped => \A l \in up \ {"R"} : Below(l) \in up
    /\ \A v \in holding \ mounted : v \in hasty
=============================================================================
