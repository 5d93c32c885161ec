------------------------- MODULE ConcurrentBusiness -------------------------
(***************************************************************************)
(* parallel() of packages/xf/src/business/general/ConcurrentBusiness.ts:   *)
(* one call with its tasks, which workers take in order from a common      *)
(* index.  Each worker starts its first task at once; when there are at    *)
(* least as many workers as tasks that is all of them, a worker for each.  *)
(***************************************************************************)
EXTENDS Naturals, FiniteSets

CONSTANTS
    MaxTasks,        \* bound of the model: the number of tasks
    MaxLimit         \* bound of the model: maxConcurrency

VARIABLES
    tasks,           \* how many tasks the call has
    maxConcurrency,
    nextIndex,       \* the next task
    worker,          \* the live workers: [worker -> the task it awaits, 0 for none]
    results,         \* [task -> what became of it]
    outcome,         \* of the call: pending, resolved, or the rejected task
    first            \* history: the task that was the first to reject, 0 before

parallelVars == <<tasks, maxConcurrency, nextIndex, worker, results, outcome, first>>

Tasks == 1..tasks
Pending == [is |-> "pending"]

\* Math.max(1, maxConcurrency), or a worker for each task.
Limit ==
    LET limit == IF maxConcurrency > 1 THEN maxConcurrency ELSE 1
    IN  IF limit >= tasks THEN tasks ELSE limit

Running == {t \in Tasks : results[t] = "running"}

ParallelInit ==
    /\ tasks \in 0..MaxTasks
    /\ maxConcurrency \in 0..MaxLimit
    /\ nextIndex = Limit + 1
    /\ worker = [w \in 1..Limit |-> w]
    /\ results = [t \in Tasks |-> IF t <= Limit THEN "running" ELSE "none"]
    /\ outcome = Pending
    /\ first = 0

\* Mutant: the workers read the index and advance it after the task.
TakeStale(w) ==
    /\ w \in DOMAIN worker /\ worker[w] = 0
    /\ nextIndex \in Tasks
    /\ worker' = [worker EXCEPT ![w] = nextIndex]
    /\ results' = [results EXCEPT ![nextIndex] = "running"]
    /\ UNCHANGED <<tasks, maxConcurrency, nextIndex, outcome, first>>

\* A worker takes the next task and starts it, whatever has become of the call.
Take(w) ==
    /\ w \in DOMAIN worker /\ worker[w] = 0
    /\ nextIndex \in Tasks
    /\ worker' = [worker EXCEPT ![w] = nextIndex]
    /\ results' = [results EXCEPT ![nextIndex] = "running"]
    /\ nextIndex' = nextIndex + 1
    /\ UNCHANGED <<tasks, maxConcurrency, outcome, first>>

TaskResolves(w) ==
    /\ w \in DOMAIN worker /\ worker[w] # 0
    /\ results' = [results EXCEPT ![worker[w]] = "done"]
    /\ worker' = [worker EXCEPT ![w] = 0]
    /\ UNCHANGED <<tasks, maxConcurrency, nextIndex, outcome, first>>

\* A task rejects: its worker is over, and so is the call, unless it was before.
TaskRejects(w) ==
    /\ w \in DOMAIN worker /\ worker[w] # 0
    /\ results' = [results EXCEPT ![worker[w]] = "failed"]
    /\ worker' = [v \in DOMAIN worker \ {w} |-> worker[v]]
    /\ outcome' = IF outcome = Pending THEN [is |-> "rejected", by |-> worker[w]] ELSE outcome
    /\ first' = IF first = 0 THEN worker[w] ELSE first
    /\ UNCHANGED <<tasks, maxConcurrency, nextIndex>>

\* The index is past the tasks and every worker has returned.
Resolves ==
    /\ outcome = Pending
    /\ nextIndex > tasks
    /\ \A w \in DOMAIN worker : worker[w] = 0
    /\ outcome' = [is |-> "resolved"]
    /\ UNCHANGED <<tasks, maxConcurrency, nextIndex, worker, results, first>>

ParallelNext ==
    \/ \E w \in 1..Limit : Take(w) \/ TaskResolves(w) \/ TaskRejects(w)
    \/ Resolves

ParallelSpec == ParallelInit /\ [][ParallelNext]_parallelVars

-----------------------------------------------------------------------------

\* The call resolves only with the result of every task, and rejects with the first
\* task that did; never do more tasks run than the limit allows, and every task that
\* has started is one worker's and in order.  (After the rejection the other workers
\* go on: tasks still start that nobody waits for.)
OutcomeMatchesTasks ==
    /\ outcome.is = "resolved" => \A t \in Tasks : results[t] = "done"
    /\ outcome.is = "rejected" => outcome.by = first /\ results[first] = "failed"
    /\ Cardinality(Running) <= (IF maxConcurrency = 0 THEN 1 ELSE maxConcurrency)
    /\ \A t \in Running : Cardinality({w \in DOMAIN worker : worker[w] = t}) = 1
    /\ \A t \in Tasks : results[t] # "none" => \A u \in Tasks : u < t => results[u] # "none"
=============================================================================
