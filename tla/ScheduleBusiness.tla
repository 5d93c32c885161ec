-------------------------- MODULE ScheduleBusiness --------------------------
(***************************************************************************)
(* The timers of packages/xf/src/business/general/ScheduleBusiness.ts      *)
(* (ObservableScheduleBusiness adds observers and leaves them alone).      *)
(*                                                                         *)
(* A timer handle is a number, never reused; 0 is `undefined'.  run() is   *)
(* asynchronous: it may call interval() or delay() while it is in flight,  *)
(* which is a step of its own, or in its first synchronous stretch.  The   *)
(* latter differs only under interval(ms, true), which runs that stretch   *)
(* in the middle of its own body.                                          *)
(***************************************************************************)
EXTENDS Naturals

CONSTANTS
    MaxTimers,    \* bound of the model: how many timers are ever armed
    MaxRunning    \* bound of the model: how many runs are in flight at once

ASSUME ScheduleAssumption ==
    /\ MaxTimers \in Nat
    /\ MaxRunning \in Nat

VARIABLES
    intervals,    \* the armed interval timers of the runtime
    timeouts,     \* the armed one-shot timers of the runtime
    intervalId,   \* private intervalId
    timeoutId,    \* private timeoutId
    nextTimer,    \* the next handle
    running,      \* how many run() promises are pending
    stopped,      \* history: terminate() returned, and nothing was scheduled since
    orphans       \* history: the intervals whose handle was overwritten by the
                  \* interval(ms, true) call that they were armed in

vars == <<intervals, timeouts, intervalId, timeoutId, nextTimer, running, stopped,
          orphans>>

Handles == 1..MaxTimers

Init ==
    /\ intervals = {}
    /\ timeouts = {}
    /\ intervalId = 0
    /\ timeoutId = 0
    /\ nextTimer = 1
    /\ running = 0
    /\ stopped = FALSE
    /\ orphans = {}

StartRun ==
    /\ running < MaxRunning
    /\ running' = running + 1

\* interval(ms): clear the interval we know of, arm a new one.
Interval ==
    /\ nextTimer <= MaxTimers
    /\ intervals' = (intervals \ {intervalId}) \cup {nextTimer}
    /\ intervalId' = nextTimer
    /\ nextTimer' = nextTimer + 1
    /\ stopped' = FALSE
    /\ UNCHANGED <<timeouts, timeoutId, running, orphans>>

\* interval(ms, true): the first stretch of run() comes after the clear and
\* before the arming.
IntervalNow ==
    /\ nextTimer <= MaxTimers
    /\ StartRun
    /\ intervals' = (intervals \ {intervalId}) \cup {nextTimer}
    /\ intervalId' = nextTimer
    /\ nextTimer' = nextTimer + 1
    /\ stopped' = FALSE
    /\ UNCHANGED <<timeouts, timeoutId, orphans>>

\* ... and run() calls interval() there: its timer is armed and its handle is
\* overwritten by the outer call.
IntervalNowRearmsInterval ==
    /\ nextTimer < MaxTimers
    /\ StartRun
    /\ intervals' = (intervals \ {intervalId}) \cup {nextTimer, nextTimer + 1}
    /\ intervalId' = nextTimer + 1
    /\ nextTimer' = nextTimer + 2
    /\ stopped' = FALSE
    /\ orphans' = orphans \cup {nextTimer}
    /\ UNCHANGED <<timeouts, timeoutId>>

\* ... or delay(), which has a field of its own.
IntervalNowRearmsDelay ==
    /\ nextTimer < MaxTimers
    /\ StartRun
    /\ timeouts' = (timeouts \ {timeoutId}) \cup {nextTimer}
    /\ timeoutId' = nextTimer
    /\ intervals' = (intervals \ {intervalId}) \cup {nextTimer + 1}
    /\ intervalId' = nextTimer + 1
    /\ nextTimer' = nextTimer + 2
    /\ stopped' = FALSE
    /\ UNCHANGED orphans

Delay ==
    /\ nextTimer <= MaxTimers
    /\ timeouts' = (timeouts \ {timeoutId}) \cup {nextTimer}
    /\ timeoutId' = nextTimer
    /\ nextTimer' = nextTimer + 1
    /\ stopped' = FALSE
    /\ UNCHANGED <<intervals, intervalId, running, orphans>>

\* setInterval fires: tick() starts a run, also while earlier ones are pending.
IntervalFires(t) ==
    /\ t \in intervals
    /\ StartRun
    /\ UNCHANGED <<intervals, timeouts, intervalId, timeoutId, nextTimer, stopped, orphans>>

\* setTimeout fires and is spent; timeoutId keeps its handle.
TimeoutFires(t) ==
    /\ t \in timeouts
    /\ timeouts' = timeouts \ {t}
    /\ StartRun
    /\ UNCHANGED <<intervals, intervalId, timeoutId, nextTimer, stopped, orphans>>

\* A run settles; tick() swallows a rejection.
RunSettles ==
    /\ running > 0
    /\ running' = running - 1
    /\ UNCHANGED <<intervals, timeouts, intervalId, timeoutId, nextTimer, stopped, orphans>>

\* Mutant: the one-shot timer survives.
TerminateIntervalOnly ==
    /\ intervals' = intervals \ {intervalId}
    /\ intervalId' = 0
    /\ stopped' = TRUE
    /\ UNCHANGED <<timeouts, timeoutId, nextTimer, running, orphans>>

\* terminate(): clear what the two fields know of.
Terminate ==
    /\ intervals' = intervals \ {intervalId}
    /\ timeouts' = timeouts \ {timeoutId}
    /\ intervalId' = 0
    /\ timeoutId' = 0
    /\ stopped' = TRUE
    /\ UNCHANGED <<nextTimer, running, orphans>>

Next ==
    \/ Interval
    \/ IntervalNow
    \/ IntervalNowRearmsInterval
    \/ IntervalNowRearmsDelay
    \/ Delay
    \/ \E t \in Handles : IntervalFires(t) \/ TimeoutFires(t)
    \/ RunSettles
    \/ Terminate

Spec == Init /\ [][Next]_vars

-----------------------------------------------------------------------------

TypeOK ==
    /\ intervals \subseteq Handles
    /\ timeouts \subseteq Handles
    /\ intervalId \in 0..MaxTimers
    /\ timeoutId \in 0..MaxTimers
    /\ nextTimer \in 1..(MaxTimers + 1)
    /\ running \in 0..MaxRunning
    /\ stopped \in BOOLEAN
    /\ orphans \subseteq Handles

\* A timer that can still fire is one the component can still cancel, so a
\* replaced schedule never runs again (lines 45-46: "Replaces any existing
\* interval").  The one exception is an interval that run() arms in its first
\* synchronous stretch under interval(ms, true); a one-shot timer has none.
OnlyTrackedTimersLive ==
    /\ intervals \subseteq {intervalId} \cup orphans
    /\ timeouts \subseteq {timeoutId}

\* After terminate() nothing fires until something is scheduled again (line
\* 86), those same intervals excepted.
TerminateSilences == stopped => intervals \subseteq orphans /\ timeouts = {}
=============================================================================
