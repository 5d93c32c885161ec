------------------------- MODULE DatabaseRepository -------------------------
(***************************************************************************)
(* The SQL repositories: the pool lifecycle and CRUD of                    *)
(* packages/xf-sql/src/repository/general/DatabaseRepository.ts, the       *)
(* transactions of TransactionalDatabaseRepository.ts and the translation  *)
(* of errors of packages/xf-sql-postgres.                                  *)
(*                                                                         *)
(* init() and terminate() are asynchronous and may overlap each other and  *)
(* the calls of consumers.  One table stands for the schema: row i holds   *)
(* a value of one column, or is absent.  The server runs a statement       *)
(* atomically; other clients of it write at any time.  The listeners of a  *)
(* mark are those of ConnectableRepository: here a mark is one wait.       *)
(* The Postgres subclass makes its pool in the constructor, so every       *)
(* instance that init() creates shares it (shared).                        *)
(***************************************************************************)
EXTENDS Integers, FiniteSets, FiniteSetsExt

CONSTANTS
    Drivers,    \* those who call init() and terminate()
    Callers,    \* those who call exec(), the CRUD operations and transaction()
    Ids,        \* the primary keys
    Values,     \* what the column may hold, Null among them
    Null,
    Absent,     \* no row
    MaxPools    \* bound of the model: how often init() is called

VARIABLES
    shared,     \* does the dialect hold one pool, made by the constructor?
    current,    \* the Kysely instance in DatabaseRepository.state, 0 when none
    open,       \* the instances whose pool has not been destroyed
    ended,      \* has the pool of the constructor been ended?
    nextPool,   \* the next instance
    connected,  \* the latch of ConnectableRepository
    step,       \* [Drivers -> where the lifecycle call stands]
    mine,       \* [Drivers -> the instance a terminate() is destroying, or 0]
    crossed,    \* history: did lifecycle calls overlap, or init() replace an open pool?
    table,      \* [Ids -> Values \cup {Absent}]
    job         \* [Callers -> the call in flight or the one that ended last]

lifecycle == <<shared, current, open, ended, nextPool, connected, step, mine, crossed>>
vars == <<lifecycle, table, job>>

-----------------------------------------------------------------------------
(* Errors. *)

TransportCodes == {"ECONNREFUSED"}     \* stands for the six codes of isTransportCode

\* The codes a driver may attach: a violated constraint, a deadlock, a lost
\* connection, or nothing this package knows.
Codes == {"23505", "23503", "23514", "23502", "40P01", "other"} \cup TransportCodes

Exceptions == {"UniqueViolation", "ForeignKeyViolation", "CheckViolation",
               "NotNullViolation", "Deadlock", "Connection"}

Errors == Codes \cup Exceptions \cup {"NotInitialized", "NoResult"}

\* translateError() of the Postgres repository: what is translated already, or
\* is not known, passes.
Translate(e) ==
    CASE e \in TransportCodes -> "Connection"
      [] e = "23505" -> "UniqueViolation"
      [] e = "23503" -> "ForeignKeyViolation"
      [] e = "23514" -> "CheckViolation"
      [] e = "23502" -> "NotNullViolation"
      [] e = "40P01" -> "Deadlock"
      [] OTHER -> e

-----------------------------------------------------------------------------
(* Rows and filters. *)

Stored(t) == {i \in Ids : t[i] # Absent}

Filter == [how : {"undefined"}, arg : {{}}] \cup
          [how : {"null"}, arg : {{Null}}] \cup
          [how : {"scalar"}, arg : {{v} : v \in Values \ {Null}}] \cup
          [how : {"array"}, arg : {{}, Values}]

\* filter(): no condition, IS NULL, equality, or IN; NULL is in no list, and an
\* empty list is the condition 1 = 0.
Passes(f, v) ==
    \/ f.how = "undefined"
    \/ f.how = "null" /\ v = Null
    \/ f.how \in {"scalar", "array"} /\ v \in f.arg \ {Null}

\* find().
Find(t, f) == {i \in Stored(t) : Passes(f, t[i])}

\* count().
Count(t, f) == Cardinality(Find(t, f))

\* The page query of paginate(): ORDER BY, LIMIT size, OFFSET page * size.
Before(rows, i) == Cardinality({j \in rows : j < i})
PageOf(t, f, page, size) ==
    {i \in Find(t, f) : Before(Find(t, f), i) \in (page * size)..(page * size + size - 1)}

\* The built-in operations.  All that only read (findById() to group(), query(),
\* run(), scalar()) are one.
Statement ==
    [op : {"select"}] \cup
    [op : {"insert", "update"}, id : Ids, val : Values] \cup
    [op : {"delete"}, id : Ids] \cup
    [op : {"updateMany"}, filter : Filter, val : Values] \cup
    [op : {"deleteMany"}, filter : Filter]

\* What the server makes of a statement that it accepts.
Effect(t, s) ==
    CASE s.op = "select" -> t
      [] s.op \in {"insert", "update"} -> [t EXCEPT ![s.id] = s.val]
      [] s.op = "delete" -> [t EXCEPT ![s.id] = Absent]
      [] s.op = "updateMany" ->
            [i \in Ids |-> IF i \in Find(t, s.filter) THEN s.val ELSE t[i]]
      [] s.op = "deleteMany" ->
            [i \in Ids |-> IF i \in Find(t, s.filter) THEN Absent ELSE t[i]]

\* insert() of a key that is there violates it; update() and delete() of one
\* that is not there find no row to return (executeTakeFirstOrThrow).
Refusal(t, s) ==
    CASE s.op = "insert" /\ s.id \in Stored(t) -> {"23505"}
      [] s.op \in {"update", "delete"} /\ s.id \notin Stored(t) -> {"NoResult"}
      [] OTHER -> {}

Unread == [unread |-> TRUE]

\* A page holds one row; bigger pages differ in nothing that is stated here.
PageSize == 1

-----------------------------------------------------------------------------
(* The lifecycle. *)

Idle == [at |-> "idle"]

Init ==
    /\ shared \in BOOLEAN
    /\ current = 0
    /\ open = {}
    /\ ended = FALSE
    /\ nextPool = 1
    /\ connected = FALSE
    /\ step = [d \in Drivers |-> "idle"]
    /\ mine = [d \in Drivers |-> 0]
    /\ crossed = FALSE
    /\ table = [i \in Ids |-> Absent]
    /\ job = [c \in Callers |-> Idle]

Busy == {d \in Drivers : step[d] # "idle"}

\* Can instance p reach the server?
Serves(p) == p \in open /\ ~(shared /\ ended)

\* init() up to onConnected(): whatever instance was there is replaced.
Open(d) ==
    /\ step[d] = "idle"
    /\ nextPool <= MaxPools
    /\ current' = nextPool
    /\ open' = open \cup {nextPool}
    /\ nextPool' = nextPool + 1
    /\ step' = [step EXCEPT ![d] = "onConnected"]
    /\ crossed' = (crossed \/ Busy # {} \/ current # 0)
    /\ UNCHANGED <<shared, ended, connected, mine, table, job>>

\* onConnected() has returned: markConnected(), which is idempotent.
MarkUp(d) ==
    /\ step[d] = "onConnected"
    /\ connected' = TRUE
    /\ step' = [step EXCEPT ![d] = IF connected THEN "idle" ELSE "marking"]
    /\ UNCHANGED <<shared, current, open, ended, nextPool, mine, crossed, table, job>>

\* terminate() up to the destruction of the pool.
Close(d) ==
    /\ step[d] = "idle"
    /\ current # 0
    /\ step' = [step EXCEPT ![d] = "destroying"]
    /\ mine' = [mine EXCEPT ![d] = current]
    /\ crossed' = (crossed \/ Busy # {})
    /\ UNCHANGED <<shared, current, open, ended, nextPool, connected, table, job>>

\* Mutant: the instance stays in the state.
DestroyedKeepsState(d) ==
    /\ step[d] = "destroying"
    /\ open' = open \ {mine[d]}
    /\ ended' = shared
    /\ connected' = FALSE
    /\ step' = [step EXCEPT ![d] = IF connected THEN "unmarking" ELSE "onDisconnected"]
    /\ mine' = [mine EXCEPT ![d] = 0]
    /\ UNCHANGED <<shared, current, nextPool, crossed, table, job>>

\* The pool is gone: forget the instance, whichever is there by now, and
\* markDisconnected().
Destroyed(d) ==
    /\ step[d] = "destroying"
    /\ open' = open \ {mine[d]}
    /\ ended' = shared
    /\ current' = 0
    /\ connected' = FALSE
    /\ step' = [step EXCEPT ![d] = IF connected THEN "unmarking" ELSE "onDisconnected"]
    /\ mine' = [mine EXCEPT ![d] = 0]
    /\ UNCHANGED <<shared, nextPool, crossed, table, job>>

\* The hook onConnected(), or destroy(), rejects, and init() or terminate()
\* with it: everything stays as it is.
LifecycleRejects(d) ==
    /\ step[d] \in {"onConnected", "destroying"}
    /\ step' = [step EXCEPT ![d] = "idle"]
    /\ mine' = [mine EXCEPT ![d] = 0]
    /\ UNCHANGED <<shared, current, open, ended, nextPool, connected, crossed, table, job>>

\* The listeners of a mark have settled; after those of markDisconnected()
\* comes the hook of the subclass, and however it settles the call is over.
LifecycleGoesOn(d) ==
    /\ step[d] \in {"marking", "unmarking", "onDisconnected"}
    /\ step' = [step EXCEPT ![d] = IF @ = "unmarking" THEN "onDisconnected" ELSE "idle"]
    /\ UNCHANGED <<shared, current, open, ended, nextPool, connected, mine, crossed, table, job>>

-----------------------------------------------------------------------------
(* The server runs a statement of c, whose job goes on as j.  A reader that *)
(* is between its two queries sees two states of the table.                *)

Between(j) == j.at = "page" /\ (j.elements = Unread) # (j.total = Unread)

Write(s, c, j) ==
    /\ Refusal(table, s) = {}
    /\ table' = Effect(table, s)
    /\ job' = [x \in Callers |->
                  IF x = c THEN j
                  ELSE IF Between(job[x]) THEN [job[x] EXCEPT !.moved = TRUE]
                  ELSE job[x]]

\* Another client of the server writes one row.
OtherClient(s) ==
    /\ s.op \in {"insert", "update", "delete"}
    /\ Write(s, "nobody", Idle)
    /\ UNCHANGED lifecycle

Become(c, j) ==
    /\ job' = [job EXCEPT ![c] = j]
    /\ UNCHANGED <<lifecycle, table>>

(* exec() and the CRUD operations. *)

EndedExec(how) == [at |-> "ended", call |-> "exec", result |-> how]

\* The error is caught; onError() is awaited.
Caught(e) == [at |-> "onError", error |-> e]

\* exec(op): op() reads this.db at once.
Exec(c) ==
    /\ job[c] = Idle
    /\ Become(c, IF current = 0 THEN Caught("NotInitialized")
                 ELSE [at |-> "query", pool |-> current])

\* The server accepts the statement ...
ExecRuns(c, s) ==
    /\ job[c].at = "query"
    /\ Serves(job[c].pool)
    /\ Write(s, c, EndedExec("ok"))
    /\ UNCHANGED lifecycle

\* ... refuses it, or the query fails for a reason of its own, as it must when
\* the pool is gone.
ExecFails(c) ==
    /\ job[c].at = "query"
    /\ \E e \in {"40P01", "ECONNREFUSED", "other"} \cup
              UNION {Refusal(table, s) : s \in Statement} :
          Become(c, Caught(e))

\* onError() settles: rethrow, translated.  If the hook rejects, its error
\* takes the place of the one it was told of.
OnErrorSettles(c) ==
    /\ job[c].at = "onError"
    /\ \E how \in {Translate(job[c].error), "hook"} : Become(c, EndedExec(how))

(* paginate(): two queries of one exec(), each at a moment of its own. *)

Paginate(c, f, page) ==
    /\ job[c] = Idle
    /\ Become(c, IF current = 0 THEN Caught("NotInitialized")
                 ELSE [at |-> "page", call |-> "page", pool |-> current, filter |-> f,
                       page |-> page, elements |-> Unread, total |-> Unread,
                       moved |-> FALSE])

PageQuery(c) ==
    /\ job[c].at = "page"
    /\ job[c].elements = Unread
    /\ Serves(job[c].pool)
    /\ Become(c, [job[c] EXCEPT !.elements =
                     [rows |-> PageOf(table, job[c].filter, job[c].page, PageSize)]])

\* Mutant: the total is not filtered.
CountQueryAll(c) ==
    /\ job[c].at = "page"
    /\ job[c].total = Unread
    /\ Serves(job[c].pool)
    /\ Become(c, [job[c] EXCEPT !.total = [n |-> Cardinality(Stored(table))]])

CountQuery(c) ==
    /\ job[c].at = "page"
    /\ job[c].total = Unread
    /\ Serves(job[c].pool)
    /\ Become(c, [job[c] EXCEPT !.total = [n |-> Count(table, job[c].filter)]])

\* Promise.all(): both have answered, or either rejects.
PageSettles(c) ==
    /\ job[c].at = "page"
    /\ \/ job[c].elements # Unread /\ job[c].total # Unread /\ Become(c, [job[c] EXCEPT !.at = "ended"])
       \/ (job[c].elements = Unread \/ job[c].total = Unread) /\ Become(c, Caught("ECONNREFUSED"))

(* transaction(callback). *)

\* An ended transaction: what the caller was told, which hooks were called,
\* whether it took effect at the server and whether COMMIT went unanswered.
Told(how, hooks, landed, lost) ==
    [at |-> "ended", call |-> "tx", result |-> how, hooks |-> hooks, landed |-> landed,
     lost |-> lost]

RollingBack(e, hooks, landed, lost) ==
    [at |-> "onRollback", error |-> e, hooks |-> hooks \cup {"rollback"},
     landed |-> landed, lost |-> lost]

\* onTransactionStart() throws out of transaction(), or the callback begins;
\* this.db is read inside the try block.
Begin(c) ==
    /\ job[c] = Idle
    /\ \/ Become(c, Told("hook", {}, FALSE, FALSE))
       \/ Become(c, IF current = 0 THEN RollingBack("NotInitialized", {}, FALSE, FALSE)
                    ELSE [at |-> "callback", pool |-> current])

\* The callback rejects, with an error of its own or of a query, translated by
\* an exec() in it or not, or COMMIT fails: the server rolls back.
CallbackRejects(c) ==
    /\ job[c].at = "callback"
    /\ \E e \in {"23505", "UniqueViolation", "40P01", "ECONNREFUSED", "other"} :
          Become(c, RollingBack(e, {}, FALSE, FALSE))

\* Mutant: the hook of the commit is called before the commit.
CommitHookFirst(c, s) ==
    /\ job[c].at = "callback"
    /\ Serves(job[c].pool)
    /\ \/ Write(s, c, Told("ok", {"commit"}, TRUE, FALSE))
       \/ Write(s, c, RollingBack("hook", {"commit"}, TRUE, FALSE))
       \/ Refusal(table, s) = {} /\ UNCHANGED table
          /\ job' = [job EXCEPT ![c] = RollingBack("40P01", {"commit"}, FALSE, FALSE)]
    /\ UNCHANGED lifecycle

\* The callback resolves and the server commits what it wrote.  Then
\* onTransactionCommit() returns; or it throws, which the same catch block
\* takes for a failed transaction; or the answer to COMMIT is lost.
Commit(c, s) ==
    /\ job[c].at = "callback"
    /\ Serves(job[c].pool)
    /\ \/ Write(s, c, Told("ok", {"commit"}, TRUE, FALSE))
       \/ Write(s, c, RollingBack("hook", {"commit"}, TRUE, FALSE))
       \/ Write(s, c, RollingBack("ECONNREFUSED", {}, TRUE, TRUE))
    /\ UNCHANGED lifecycle

\* onTransactionRollback() settles; its own rejection is swallowed.
RollbackHookSettles(c) ==
    /\ job[c].at = "onRollback"
    /\ Become(c, Told(Translate(job[c].error), job[c].hooks, job[c].landed, job[c].lost))

\* The caller goes on to its next call.
Return(c) ==
    /\ job[c].at = "ended"
    /\ Become(c, Idle)

Lifecycle(d) ==
    \/ Open(d) \/ MarkUp(d) \/ Close(d) \/ Destroyed(d)
    \/ LifecycleRejects(d) \/ LifecycleGoesOn(d)

Call(c) ==
    \/ Exec(c) \/ ExecFails(c) \/ OnErrorSettles(c)
    \/ PageQuery(c) \/ CountQuery(c) \/ PageSettles(c)
    \/ Begin(c) \/ CallbackRejects(c) \/ RollbackHookSettles(c) \/ Return(c)
    \/ \E s \in Statement : ExecRuns(c, s) \/ Commit(c, s)
    \/ \E f \in Filter, page \in 0..1 : Paginate(c, f, page)

Next ==
    \/ \E d \in Drivers : Lifecycle(d)
    \/ \E c \in Callers : Call(c)
    \/ \E s \in Statement : OtherClient(s)

Spec == Init /\ [][Next]_vars

-----------------------------------------------------------------------------
(* Properties. *)

\* Between lifecycle calls that did not overlap the instance in the state is
\* the only one whose pool is open; and a consumer that finds the repository connected finds
\* an instance that reaches the server.  The exception is the subclass whose
\* constructor makes the pool: init() after terminate() connects to a pool that
\* has been ended.
LatchTellsPool ==
    Busy = {} /\ ~crossed =>
        /\ open = {current} \ {0}
        /\ connected => Serves(current) \/ (shared /\ nextPool > 2)

\* What a caller of transaction() and its hooks are told agrees with the server:
\* told "ok", the work landed and the hook of the commit ran; told otherwise it
\* did not land, unless that hook threw or the answer to COMMIT was lost.  The
\* rollback hook is called with every failure after the start, and never names
\* the outcome.
HooksTellOutcome ==
    \A c \in Callers : job[c].at = "ended" /\ job[c].call = "tx" =>
        LET j == job[c]
        IN  /\ j.result = "ok" => j.landed /\ j.hooks = {"commit"}
            /\ j.result # "ok" /\ j.landed => j.lost \/ "commit" \in j.hooks
            /\ "commit" \in j.hooks => j.landed
            /\ j.result # "rollbackHook"

\* A page and the total beside it fit each other, unless the table changed
\* between the two queries.
PageFitsTotal ==
    \A c \in Callers : job[c].at = "ended" /\ job[c].call = "page" /\ ~job[c].moved =>
        Cardinality(job[c].elements.rows) =
            Max({0, Min({PageSize, job[c].total.n - job[c].page * PageSize})})
=============================================================================
