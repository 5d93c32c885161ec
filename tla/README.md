# Formal verification of lib-npm (XF)

TLA+ models of the XF packages, TLC runs over small instances, and theorems
checked by TLAPS. The repository is the reference: every definition is a
translation of code under `src/packages/`, and `PROJECT.json` names the lines.

## 1. The system

lib-npm is a family of TypeScript packages for building applications in three
layers. `xf` holds the layer injections `R` (Access), `B` (Business) and `A`
(Interaction), the lifecycle `XF.init` (R, then B, then A) and `XF.terminate`
(A, then B, then R), and the *Generalizations*: abstract classes from which the
components of an application are derived. The other packages add
Generalizations for one technology each.

The code runs on one JavaScript event loop. A stretch of code between two
`await`s is atomic; anything may run at an `await`. So the concurrency that
matters is between suspended calls: a flag read before an `await` and used after
it, a cache filled by the continuation of a read, a batch in flight while its
buffer grows, a promise chain that must survive a rejection. These are the
behaviours the models are about. An action of a model is the code between two
awaits, with everything it calls.

### Inventory

| Component | State it keeps | Operations | Hard part | Correct when |
|---|---|---|---|---|
| `LockedBusiness` | `locked`, `waiters` | `withLock` | handover between two microtasks, re-entry | bodies never overlap, run in call order, nobody is forgotten |
| `BatchedBusiness` | `buffer`, `flushing`, timer | `add`, `flush`, `clear`, `run`, `init`, `terminate` | all of them during a flush in flight; rejection, hooks that throw | one flush at a time, order kept, no item lost or doubled |
| `ScheduleBusiness` | two timer handles | `interval`, `delay`, `tick`, `terminate` | overlapping runs, re-arming from inside `run()` | no timer fires that the component cannot cancel |
| `CacheableBusiness`, `ObservableCacheableBusiness` | map of entries with expiry, two observer pools | `get`, `refresh`, `refreshAll`, `invalidate`, observers | unmerged parallel fetches, invalidation during a fetch | observers know the cache; an old value has a known cause |
| `ConcurrentBusiness` | none between calls | `parallel` | shared index, fail-fast with tasks in flight | bound respected, each task once, results in place |
| `EventSourcedBusiness` | event log and state | `record`, `replay`, `snapshot`, `terminate` | `apply` throws half-way | state is the fold of the log |
| `StateMachineBusiness`, observable variant | FSM state, observer pools | `transition`, observers | observer throws or re-enters after the move | only declared transitions; observers see each |
| `ObservableBusiness`, `ObservableScheduleBusiness` | observers | `observe`, `notify`, `remove` | re-entrant notify | isolation of observers |
| `ValidatedBusiness`, `StatelessBusiness` | state | `commit` | none (synchronous) | rejected candidate leaves the state |
| `ConnectableRepository` | `connected`, two listener maps | `onConnect`, `onDisconnect`, `remove`, marks | late registration, marks that overlap with pending listeners | once per transition, nobody misses one |
| `RetryableRepository`, `PaginatedRepository` | none between calls | `withRetry`, `iterate`, `fetchAll` | retry of what took effect | attempts bounded, pages in order |
| layer lifecycle (`XF`, `R`, `B`, `A`) | injected components | `init`, `terminate` | a layer that rejects | order of layers, all stopped |
| `LoggerRepository`, `LoggerBusiness` | handlers, pending promises, one promise queue per tree | `log`, `tree`, `handle`, `flush`, `terminate` | fire-and-forget dispatch, failing sinks | one record per sink at a time, in order; flush covers what came before |
| `RotatingFileTreeBusiness` | `day`, `index`; the files | `shouldRotate`, `rotate`, `prune`, `write` | midnight between two clock reads, failing delete, restart | retention window, size limit, order over files |
| `FileRepository`, `AuditedFileRepository` (node and React Native) | open watchers and temp files | file operations, `watch`, `tempFile`, `terminate` | cross-device move, transfers that unlink first, handles opened during terminate, hooks that throw | a rejected operation destroys nothing; handles released; audit hook matches outcome |
| `PathUtils`, `EncodingUtils` | none | path and base64 conversions | prefixes that end inside a segment, trailing separators | the conversions invert each other |
| `CachedFileRepository` | text and byte caches | `read`, `readBytes`, all mutations, invalidation | reads in flight across mutations, directory moves | a cached content is the content of the file |
| `ServerBusiness`, its transports and services | routes, transport handle | `register`, `listen`, `close`, `dispatch`, the service pipeline | error hooks that throw, close during requests, second listen | answers tell what was done; handlers find their layers; the port is released |
| `ObjectRestService` | parsers, serializers | `parseRequestBody`, `serializeResponseBody` | fallbacks | the label of a body is its encoding |
| `ClientRepository` and its transports | none | `call` | error hook | request, hook, translation in order |
| `GraphQLWsRepository`, `SseRepository`, `WebSocketRepository` | subscription sinks, parser buffer | `open`, `subscribe`, `stream` | close before ack, chunk boundaries | each sink ends once; events do not depend on chunking |
| `RestRepository`, `RetryRestRepository` | client | `init`, `call`, verbs, `withRetry`, `terminate` | which errors are retried, hooks that throw, a client that goes during a call | nothing is repeated that was answered and read |
| `KeyValueRepository`, Redis, Memcached | client handle | get, set, incr, many, clear | partial failure of a pipeline or a loop | both drivers implement one store |
| `DatabaseRepository`, `TransactionalDatabaseRepository`, Postgres | pool handle | `init`, `terminate`, CRUD, `transaction` | overlapping terminate, commit hook that throws | hook matches the outcome of the transaction; the latch tells whether there is a pool |
| `ReactView`, `ObservableReactView` | observers | mount, unmount, `notify` | unmount during an `init()` in flight | what a view acquires is released |

Interactions: components of one layer call components of the layer below
through the injection; `BatchedBusiness` inherits the timer of
`ScheduleBusiness`; `ObservableCacheableBusiness` hooks into every mutation of
`CacheableBusiness`; a `LoggerBusiness` registers a callback with
`LoggerRepository`, and `RotatingFileTreeBusiness` fills in its `process()`
template and works on a `FileRepository`; `DatabaseRepository` is a
`ConnectableRepository`; a server is started and stopped between the layers it
serves. `PROJECT.json` lists every component with its status,
and under `hazards` what is hard to test, at its line.

## 2. Modules

One module holds a component, a module `MC...` gives it to TLC, and a module
`...Proofs` holds its theorems. `MCBusiness`, `MCClients` and `MCFiles` put
several components that do not interact side by side: the variable `part`
chooses one of them for a whole behaviour, and the others keep one of their
initial states. That is a sum, not a product: the run explores each component by
itself.

| Module | Code | Given to TLC by | Theorems in |
|---|---|---|---|
| `LockedBusiness`, `FifoMutex` | `LockedBusiness.ts` | `MCLockedBusiness` | `LockedBusinessProofs` |
| `BatchedBusiness` | `BatchedBusiness.ts` | `MCBatchedBusiness` | `BatchedBusinessProofs` |
| `ConnectableRepository` | `ConnectableRepository.ts` | `MCConnectableRepository` | `ConnectableRepositoryProofs` |
| `LoggerTrees` | `LoggerRepository.ts`, `LoggerBusiness.ts` | `MCLoggerTrees` | `LoggerTreesProofs` |
| `ScheduleBusiness` | `ScheduleBusiness.ts` | `MCBusiness` | `BusinessProofs` |
| `CacheableBusiness` | `CacheableBusiness.ts`, `ObservableCacheableBusiness.ts` | `MCBusiness` | `BusinessProofs` |
| `ObserverPools` | the observable bases, `StateMachineBusiness.ts`, `ObservableReactView.ts` | `MCBusiness` | `BusinessProofs` |
| `ConcurrentBusiness` | `ConcurrentBusiness.ts` | `MCBusiness` | `BusinessProofs` |
| `Lifecycle` | `XF.ts`, `R.ts`, `B.ts`, `A.ts`, `ReactView.ts` | `MCBusiness` | `BusinessProofs` |
| `ServerBusiness` | `ServerBusiness.ts`, the HTTP, TCP, UDP and gRPC servers, `EntryService.ts`, a start-point | `MCServerBusiness` | `ServerBusinessProofs` |
| `ObjectRestService` | `ObjectRestService.ts`, `ResponseUtils.ts`, the writing of responses in `HttpServerBusiness.ts` | `MCServerBusiness` | `ServerBusinessProofs` |
| `DatabaseRepository` | the repositories of `xf-sql` and `xf-sql-postgres` | `MCClients` | `ClientsProofs` |
| `KeyValueRepository`, `KeyValueStore` | the repositories of `xf-kv`, `xf-kv-redis`, `xf-kv-memcached` | `MCClients` | `ClientsProofs` |
| `RestRepository` | `xf-rest`, `xf-client`, the REST part of `xf-client-http`, `RetryableRepository.ts` | `MCClients` | `ClientsProofs` |
| `SseRepository` | `SseUtils.ts` (server), `SseRepository.ts` (client) | `MCClients` | `ClientsProofs` |
| `GraphQLWsRepository` | `GraphQLWsRepository.ts`, `WebSocketRepository.ts` | `MCClients` | `ClientsProofs` |
| `FileRepository` | `FileRepository.ts`, `AuditedFileRepository.ts` of both file packages | `MCFiles` | `FilesProofs` |
| `CachedFileRepository` | `CachedFileRepository.ts` of both | `MCFiles`, `MCCachedFileRepository` | `FilesProofs` |
| `RotatingFileTree` | `RotatingFileTreeBusiness.ts` | `MCFiles`, `MCRotatingFileTree` | `FilesProofs` |
| `FileConversions` | `PathUtils.ts`, `EncodingUtils.ts` | `MCFiles` | `FilesProofs` |

### LockedBusiness and FifoMutex

`pc[c]` is where the activation of `withLock` of caller `c` stands. `TakeOrQueue`
is the code up to the first `await`; `Finally` the `finally` block. Between
`Finally` of one caller and `Resume` of the next (the pending microtask after a
resolver was called) every other action can run; that window is why the flag
must stay up across the handover. `ResumeThrows` is an operation that throws
before its first await, `NestedCall` an operation that awaits the lock of its own
instance. `FifoMutex` is the contract without flag and queue: one line of
callers, whose head goes in. The refinement maps the line to the holder followed
by `waiters`, and the caller inside to the one whose operation is running.

### BatchedBusiness

`FlushOn(b)` is `flush()` up to its first await, with both early returns. `Add`,
`Tick`, `ManualFlush` and `TerminateDrain` all end in it, as the code does. The
`catch` and `finally` blocks are `Recover` and `Settle`. `options` holds what the
constructor was given: size, timer, error policy (`reintroduce` is `lose` with an
`onFlushError` that adds the batch again) and whether `onFlushComplete` may
throw; it is chosen from `Setups` initially and never changes, so one run covers
several setups. Items are numbered in the order of their `add`, so order is
comparison of numbers. `delivered`, `dropped` and `cut` are history.

### ConnectableRepository

A loop of a mark is a record of the listener it awaits and the rest of its
snapshot; several loops may be alive. `RunLoop` is the loop up to its next
await. `calls`, `lastHeard` and `overlapped` are history; the last one notes that
a mark was made while a loop of an earlier mark was still running, which the
code allows and `LastHeardIsTrue` excludes.

### ScheduleBusiness

The armed timers of the runtime are sets of handles; the two fields hold the
handles the component knows. `IntervalNow...` are the three ways in which the
first synchronous stretch of `run()` can act inside `interval(ms, true)`. If
`run()` arms an interval there, the outer call overwrites its handle: `orphans`
is the history of those intervals, the ones the component cannot cancel.

### CacheableBusiness

The source changes by itself and its values are versions. `fetching` and `got`
hold a fetch in flight. `Notify` is `onEntryChanged` for a sequence of keys, with
an observer that may throw. `floor`, `raced` and `threw` are history: the version
at the last invalidation, whether a fetch held an older value then, and whether
a key observer has thrown (it keeps the change from the observers of the whole
cache). `terminate()` is two steps: `Terminate` clears the cache without telling
anybody, up to `await super.terminate()`, and `TerminateReturns` drops the
observers. `ending` counts the calls between the two; a fetch that returns there
stores its value and tells it to observers that are about to go.

### ObserverPools

Four classes in one module, since they differ in three points only: whether the
exception of an observer is caught (`Isolated`), whether there is a second pool
(`Machine`), and whether an observer is handed the state as it is or the
argument of the call (`ObservableReactView`). Everything is synchronous, so the
interleavings are those of nesting: `stack` holds the fan-outs under way, and
an observer that is being called may register, remove, publish or throw before
it returns. `Ahead` is what `Map.forEach` has still to visit, entries added on
the way included. `observe()` is used after `init()`, as the base documents.

### ConcurrentBusiness

One call of `parallel()`. A worker runs up to its first `await` when it is made,
so initially the first `Limit` tasks run. `TaskResolves` and `TaskRejects` are
the continuations; after a rejection the other workers go on, as they do in the
code, and `first` remembers whom the caller was told of. A task that throws
before it has returned a promise is left out: in the branch with a worker for
each task it ends the call in the middle of the `map`.

### Lifecycle

`starting` and `stopping` are the layer that `XF.init()` and `XF.terminate()`
await; both calls may be under way at once. A layer may reject, which ends the
call. The other half are the views of `ReactView`: React calls `init()` on mount
and `terminate()` on unmount and awaits neither, so an `init()` may settle after
its view is gone. Views are independent of the layers here.

### ServerBusiness and ObjectRestService

`todo` is what the start-point has still to await: the layers come up, `listen()`,
`onStarted()`, the signal, then one of three shutdowns (the server first and
the layers after it, through the server's own `terminate()` in layer B, or the
layers only). `servers` are the instances `listen()` has made and what became of each;
`handle` is the one the component knows. A request is a record with the step of
the pipeline it is at: `onRequest`, the handler or the service with its own
hooks, `onResponse`, the error hooks and the answer. Its style is how the handler
was registered: as it is, in `wrap()`, in `object()`, or in `wrap(object())`, where
the hooks of the one service run twice (`inner...` are those of `object()`).
`Path` lists the steps of each style and `Catcher` the error hook that an error at
a step is told to. A hook or a handler throws an `HttpException`, which has a
status of its own (`BadRequestException` stands for them), or another error; `cause`
is the history of where. `Serialize` and `Parse` take their outcomes from the
operators of `ObjectRestService`, over every combination of options, headers and
bodies; headers have a content-type in lower case, one under another spelling, and
an order between them, since `sendResponse()` sets them in order under names
without case. A datagram is a request that
`close()` does not wait for; a TCP connection one that only its peer ends.

### DatabaseRepository

`init()` and `terminate()` are called by `Drivers`, who may overlap; between
their awaits consumers call `exec`, `paginate` and `transaction`. `Effect` and
`Refusal` are what the server does with a statement, with every CRUD operation a
statement; `PageQuery` and `CountQuery` are two queries whose order is open, and
`OtherClient` writes between them. `Commit` may land and its answer be lost. The
listeners of a mark are not repeated here: a mark is one wait, and
`ConnectableRepository` is the module about it.

### KeyValueRepository and KeyValueStore

A call is a sequence of backend commands: one command for most, a pipeline for
`setMany` of Redis, a scan with deletes for `clear`, a loop for the batch
operations of Memcached. Each command is a step. A key is a sequence of segments.
`clear()` of Redis puts the prefix into a glob without escaping it: `Matched` is
what the glob of a caller matches, anything for a namespace with a segment of
`Special` (one that holds `*`, `?`, `[`, `]` or a backslash) and what the prefix
says for the others (`MatchedAssumption`). In the run the second namespace is such
a one: its glob misses its own key and matches a key of the first.

`KeyValueStore` is what the consumers are promised, and knows of no driver: one
content, and for each caller the call it has asked for and what it has been told,
by key. A call reaches keys of its own namespace only, each at most once (`Due`), and
is told what the content was or became at that moment. `Add` is an addition of the
amount that was asked for to what is there, so a lost, doubled or wrong addition is
no step of it; `Clear` is possible while a `clear()` is under way and takes only
keys of its scope; `Expire` takes only a key with a lifetime. The refinement is a
run's property over both drivers, and a theorem.

### RestRepository, SseRepository, GraphQLWsRepository

`RestRepository` follows a call through encoding, hooks, the request, the
repetitions of ky, the response and the error hook, in the order of either
package (`BeginRest` and `BeginPipeline` differ in what runs inside the `try`),
and then through the retry loop. The client may be discarded at any await. A hook
may throw any error of `Errors`: also a `ConnectionException` or a `RestException`
that `shouldRetry()` accepts, which `causes` remembers as *thrown, repeated*. The
content-type that goes out is that of the request or else that of the default
headers, which `encodeBody()` never looks at (`Label`).
`SseRepository` puts writer and reader at the ends of one wire that is cut into
chunks anywhere. `format()` splits data at LF and the reader ends a line at CR as
well: a text of `Splitting` holds a CR, and `Laid` is what the reader finds of it.
In `GraphQLWsRepository` the server sends what it likes when it likes; `late` and
`orphans` are history.

### FileRepository

Two callers on a tree of one directory and two files, over `node:fs` or RNFS,
plain or audited. Operations with one system call are `OneCall`; the others (move
across devices, the look before a native `rmdir`, the unlink before a native
transfer, the recursive walk and removal, `watch`, `tempFile`) are steps of their
own, and each may fail after it has done part of its work. `lost` is what an
operation has discarded: its target, itself (a copy or a move onto its own path),
or what is inside a directory. `Stays` keeps, for each walk, what has been there
all the time. Every operation has an outcome `err`, and the audit what it `heard`.
`todo` holds the handles that `terminate()` has still to close, `late` those
registered after it had listed their kind. Contents are not modelled here: they
are the subject of the two modules above it.

### CachedFileRepository, RotatingFileTree, FileConversions

An operation on the cache goes through *called*, *half* and *copied* (both
optional) and *done*, and the continuation that touches the caches. The content of
a file is a version number; `Torn` is a content that is partly written. What is half
done (`Halfways`) is a file partly written, a target unlinked, a directory partly
removed; *copied* is a move across devices that has not unlinked its source. The
mutations of `MaySilent` never invalidate: `writeStream()`, the unlink of a closed
temporary file, the move of a directory, and React Native's removal of a directory
as if it were a file. `exposed` is history: the files that changed past an entry or
under a read without the entry being dropped. In
`RotatingFileTree` the template is run for one record at a time, which
`OneRecordAtATime` of `LoggerTrees` justifies; a path is a pair of day and index;
`Midnight` may come between any two steps, `Restart` anywhere. `FileConversions`
has the algorithms on segments instead of characters; its state is the input,
which grows by one segment or byte per step, so that a run visits every short
input.

## 3. Runs

| Run | Instance | What it shows |
|---|---|---|
| `locked` | 4 callers, nested calls, fairness | self-deadlock of a nested call as the only way to starve, refinement of `FifoMutex` |
| `batched` | 5 items, five setups (size 2 with the timer under each policy, a throwing `onFlushComplete` under `lose`, the timer alone), fairness | order, accounting, every item settles |
| `connectable` | 2 subscribers, 2 epochs, marks that may overlap, removal, fairness | at most one call per transition, last call tells the truth, every connect subscriber hears |
| `logger` | 2 trees of which one rotates and flushes, 1 flusher, 2 records, fairness | order, flush, records and flushes come to an end |
| `clients` | 2 drivers, 1 consumer, 2 rows, 2 pools; 2 key-value repositories, of nested namespaces of which one is a glob; 3 attempts; 3 events; 3 subscriptions | what callers and hooks are told against what the backend did; refinement of `KeyValueStore` |
| `server` | 4 transports, 2 requests, 2 calls of `listen()`, 2 media types, fairness | layers, answers, ports, labels; the shutdown returns |
| `files` | rotation: 10 records, 2 days, 1 restart; files: 2 callers, 1 temporary file; cache: 2 callers, 1 directory that moves; conversions: paths of 3 segments, 4 bytes | retention and order, no file lost, handles, outcomes, walks, stale entries, conversions |
| `business` | 6 timers; 2 keys, 2 callers, 2 versions; 3 observers nested twice; 4 tasks, limit up to 3; 2 views, 2 mounts each | timers, observers, cached values, parallel calls, lifecycle |

Runs that end in a counterexample, each against a sentence of the documentation
(quoted in `PROJECT.json` under `findings`):

| Run | Counterexample |
|---|---|
| `batched_shutdown_loss` | add, flush in flight, add, terminate: the last flush is refused and the second item stays |
| `batched_double_delivery` | `retain`, callback resolves, `onFlushComplete` throws: the batch is buffered again |
| `rotating_retention` | restart on the same day: index 0 again, files beyond the window remain |
| `cached_file_stale` | read takes the old content, write finishes and invalidates, read memoises |

Behaviours of the same kind that the passing runs contain, as the named
exceptions of their properties:

- an interval armed by `run()` inside `interval(ms, true)` cannot be cancelled
  (`orphans` in `TerminateSilences`);
- loops of overlapping marks may tell a subscriber of a connection after its end
  (`overlapped` in `LastHeardIsTrue`);
- an observer that throws hides the change from those behind it, but in
  `ObservableBusiness` (`threw` in `ObserversCurrent`, `cut` in `TellsEveryone`);
  in `ObservableReactView` an observer that publishes leaves the observers behind
  it with the older snapshot;
- a read in flight across a mutation, a mutation that rejects after it changed the
  disk (a half-written file, a partly removed directory, an unlinked target), a
  stream, a temporary file that is closed and a directory that is moved or removed
  otherwise than by the recursive `rmdir` leave an old content in the cache
  (`exposed` in `StaleOnlyIfExposed`);
- `terminate()` of the observable cache clears the entries in silence, so its
  observers keep what they heard until they are dropped (`ending` in
  `ObserversCurrent`);
- a buffer that reaches `maxSize` during a flush waits for the next add or tick
  (`EveryItemSettles` asks for the timer);
- after a restart the retention window holds per process (`RetentionWindow`
  allows `maxFiles` for each);
- `init()` of the layers that is still under way brings layers up after the
  shutdown, and a view unmounted during its `init()` acquires what nobody
  releases (`overlapped` and `hasty` in `NothingOutlivesItsBase`);
- a repeated `listen()` leaves the first instance to nobody, and datagrams in
  flight are not waited for, so that a reply after `close()` ends the process
  (`Leaked` and `crashed` in the properties of `server`);
- a TCP peer that stays holds the shutdown up for ever (`ShutdownReturns`);
- a start-point that only calls `XF.terminate()` takes layer A and the other
  components of B away from requests in flight (`LayersOutliveRequests`);
- a pool that the constructor of the Postgres repository made is ended for good
  by `terminate()`; overlapping lifecycle calls make the latch lie
  (`LatchTellsPool`);
- a commit hook that throws makes a committed transaction look rolled back, and
  so does a lost answer to the commit (`HooksTellOutcome`);
- `setMany` of Redis reports success whatever became of its commands, and a
  `clear()` of namespace `a` removes the keys of `a:b` as well; a `clear()` of a
  namespace with a character that has a meaning in a glob takes what the glob
  matches, its own keys or not, where the documentation says "every key in this
  repository's namespace" (`Plain` in `SuccessMeansAll`, `Scope` of `KeyValueStore`);
- ky repeats a GET by itself, inside each attempt of `withRetry`; a 2xx answer
  that cannot be parsed, or whose hook throws in `xf-rest`, is taken for a lost
  connection and sent again, and so is any request one of whose hooks throws an
  error that `shouldRetry()` accepts, also after a 4xx (`RepeatedOnlyWhenUnread`);
- a value sent under a type without a serializer is JSON under that label
  (`RequestLabelTellsEncoding`, `ContentTypeTellsEncoding`); a body whose
  content-type comes from the default headers is encoded as if it had none
  (`defaulted`), and a response whose content-type is given twice, in two spellings,
  goes out under the later one (*other spelling*);
- a chunk that ends between CR and LF ends an event early, a stream that is cut may
  yield part of its last event, and data that holds a CR, or a name with a line end,
  arrives as something else (`hurt` in `EventsSurviveChunks`);
- a handler, or a hook after it, may throw an error whose status is 400 after the
  work is done (`cause` in `AnswersMatchWork`);
- `open()` hangs if the socket closes before the acknowledgement without an
  error; a sink that throws stays registered; a subscription made after the close
  never ends (`SinksEndOnce`);
- `copy` and `move` of React Native unlink the destination first, and lose it
  when the transfer fails or is onto the same path, where the documentation says
  "overwriting `dest` if it already exists"; its `rmdir` looks first and
  removes what arrives in between; a move across devices that cannot unlink its
  source, or breaks off, has overwritten its target; a removal of a directory may
  stop half-way (`NoFileLost`);
- `tempFile` and `watch` in flight across `terminate()` leave their handles
  (`late` in `NothingOutlivesTerminate`);
- the second half of a move across devices, `tempFile`, the late steps of `watch`
  and React Native's `exists` throw untranslated errors; an audit hook that throws
  turns a done operation into a rejection (`CallersKnowOutcome`);
- `relative('/a/', '/a/b')` of React Native is `../b`, although its comment says
  that behaviour is identical to the node version (`ConversionsInvert`).

### Bounds

Every bound is a constant with a comment that says so. They are chosen so that the
interesting cases occur: with five items and size 2 a rejected batch meets newer
items and another trigger, and a third batch is begun; four callers give a holder,
a granted caller and two that wait; two epochs are needed for a loop of the first
to outlive it; ten records with size 2 and two files per day pass the retention
window twice and cross midnight, and one restart puts a second process on the
files of the first; two callers are enough for one read and one write to overlap,
and two fetches to return in either order; two drivers for two `terminate()` calls
on one pool, and two pools for an `init()` that replaces an open one; the two
namespaces are the smallest of which one continues the other, and of which one is
a glob that means something else; one `terminate()` of the cache at a time leaves
a gap in which both callers can return; three attempts give a retry in the middle;
three subscriptions one that ends, one that is called and one that comes late;
four tasks with limit 3 leave one in the queue; three observers nested twice an
observer before, one behind and one added on the way; two requests one that is
drained and one that arrives during the drain. Paths of three segments reach each
branch of the conversions (root, common prefix, a name that extends another, `..`
above the start), four bytes one full group of Base64 and each length of the rest.

Five bounds are of another kind. `Mixes` of `files` are the sets of operations
that run together: every pair of operations that touches the same file or handle
is in one of them. `Silent` are the mutations without invalidation that callers
use: the run leaves out `deleteDir`, which drops as little as `moveDir`; the
theorem is about all of them. `Styles` of `server` gives each request the handlers
it may have: between the two, every style occurs beside another. `OverlapsAlone`
of `clients` does not follow consumers through a state in which lifecycle calls
overlapped: what is said of them then is nothing. `UntilAnObserverThrows` of
`business` does not follow a cache whose observer threw, for the same reason.
Symmetry is used for callers, drivers, keys and views, which the specifications
treat alike, in runs that check safety only (a refinement of safety in `clients`).

Deadlock checking is off because every one of these systems really may stop: a
bound is reached, the program makes no further call, or a nested `withLock` has
suspended its instance for good. What must not stop is said by the liveness
properties instead.

### Fairness

Fairness stands for two things. The event loop runs every pending continuation,
so a step whose promise has settled is weakly fair. A promise of user code (an
operation under the lock, a listener, a sink, a flush callback, a hook or a
handler of the server) is assumed to settle; nothing is served otherwise, and
the code has no timeouts there. In `BatchedBusiness` the timer keeps firing, and
a callback that is called again and again resolves some day (strong fairness),
which is what the policy `retain` is for. No fairness is assumed of calls:
`add`, `log`, `withLock`, the marks, requests and signals are up to the program,
and so is the end of a TCP connection.

## 4. Proofs

The theorems hold for every value of the constants that satisfies the named
assumptions next to them. The invariants that the first four modules prove
(`OneHolder`, `FlagMatchesHolder`, `SingleFlight`, `OneRecordAtATime`,
`OnlyTrackedTimersLive` and the types) are no longer checked by a run: the proof
covers every instance.

- **LockedBusinessProofs.** `LockInv` is the type invariant, `OneHolder`,
  `FlagMatchesHolder`, `WaitersAreQueued` and `Nesting` (an operation that
  awaits a nested call is running, the nested call is queued, and it is awaited
  by nobody else). None of them is inductive alone: that a granted caller is
  unique needs the flag to be up while somebody holds the lock, that it is up
  needs the queue to be empty when it is cleared. From `LockInv` follow
  `MutualExclusion`, `NoLostWakeup`, `QueueIsSuspendedCallers`; `SelfDeadlock`
  (the operation that awaits its own instance, and the call it awaits, never
  move) needs `Nesting`; and `LockRefinesFifoMutex` maps each step to a step of
  the abstract mutex or to a stutter.
- **BatchedBusinessProofs.** `TypeInv` is types with `SingleFlight`, inductive
  together since a flag that is down with a callback pending would let a second
  one start. `OrderInv` says that `delivered`, the batch in flight and the
  buffer, in that order, form an increasing sequence below the next number; the
  steps append to, cut out of or re-associate that sequence, for which there are
  lemmas on increasing sequences. It holds for the options under which the order
  is promised, `lose` and `retain` with a hook that does not throw (`KeepsOrder`),
  and `OptionsFixed` says that no step leaves them. `SplitInv`, for
  `EveryItemAccounted`, says that the delivered, the flying, the buffered and the
  dropped items are disjoint and together are those added so far.
- **ConnectableRepositoryProofs.** At most one call per transition needs two
  facts about the loops: a transition has one loop at most, and the listeners a
  loop has still to call are registered, are in its snapshot once, and have not
  been called for that epoch (`LoopsInv`); and one about the history: nobody has
  been called for a transition that has not come, nor before registering
  (`CallsInv`), so a late registration and a new loop both start from zero.
  `HeardInv`, for `LastHeardIsTrue`: while no mark overtakes another there is one
  loop at most, of the last transition, and a registered listener has heard of
  the connection or is in what the loop has still to tell.
- **LoggerTreesProofs.** `OrderInv` has three parts per tree: a record is
  chained on the newest dispatched before it (`Chain`), a record that has started
  has only settled records before it (`Turn`), and what was written are started
  records in order (`Lines`). `FlushInv` says that a record dispatched before the
  cut of a waiting flush is settled or among the promises it waits for; with it,
  the step in which a flush returns finds all of them settled, which is the
  action property `FlushCoversEarlierRecords`.
- **BusinessProofs**, one section for each part of `MCBusiness`.
  *Timers:* the tracked-timer invariants are inductive as they stand, with the
  intervals of `orphans` as their one exception.
  *Parallel calls:* `WorkersInv` says that the tasks below the index are the ones
  that have started, and that a running task is exactly one worker's. So two
  workers never run one task, the number of running tasks is bounded by the
  number of workers (`LimitBounds`, with the cardinality of the image of a
  function), and a call resolves only when no worker is left, which is when every
  task is done.
  *Lifecycle:* `LayersInv` says which layers are up at each stage of a start or a
  shutdown that do not overlap, `ViewsInv` that a view which is not mounted, but
  holds something or has an `init()` in flight, was unmounted too soon.
  *Cache:* `StaleOnlyFromOlderFetch` says nothing of the fetches that are still
  under way, and one of them may store an older value later. `FloorInv` adds
  them: a fetch that holds a value older than the one noted at the last
  invalidation is in `raced` already. `ObserversCurrent` is inductive with the
  types alone, once it is known that every change of an entry is told, but for the
  clearing by `terminate()`, between which and the end of the observers only what a
  fetch has stored is an entry (`ending`).
  *Observer pools:* what makes `TellsEveryone` hard is nesting: an observer that
  is being called publishes, and the inner notification is through before the
  outer one goes on with a state that is no longer there. `FanOutInv` says of
  each frame of `stack` whom it will still call (`WillCall`), and that an observer
  either knows the state there is (`Settled`) or the newest frame that will still
  call it will tell it that state. With an empty stack the second case is void.
- **FilesProofs**, one section for each part of `MCFiles`.
  *Cached files:* `ReadInv` says what a read holds between its first await and the
  continuation that memoises it: the content of the file, or the file is in
  `exposed`. Without it an entry could turn stale in a step that touches no file.
  *Rotation:* `WindowInv` names what may be there of a day: the last `maxFiles`
  indices of the process that is writing, and as many for each process that has
  stopped; `prune()` deletes the one index that leaves the window, and the sizes
  of the windows add up to the bound of `RetentionWindow`. `OrderInv` adds, for
  `LinesInOrder`, that the record in process is not written yet and that no file
  of this process comes after the one that is written.
  *Files:* `HandlesInv` says what of the handles `terminate()` still has in its
  list, or cannot see any more. `DiskInv` (no file in a directory that is not
  there) and `OpsInv` carry the two properties about outcomes: `Sound` describes
  every stage of an operation, under way (it has failed in nothing and told
  nobody), settling, and returned, with the failures that may have destroyed a
  file (`Excused`), the errors that reach the caller as they are (`Raw`), and what
  the audit has heard (`Told`). `WalkInv` says what a walk has seen of the entries
  that stayed, at each of its stages.
  *Conversions:* the invariant is only that the inputs are paths and bytes, of any
  length; the work is about the operators. What a recursive function computes for
  every length is shown by its least counterexample, a number (`LeastNumber`,
  `Climb`), since the induction theorems of the library cannot be used.
  `Base64Inverts` goes position by position, over the rows of three bytes and of
  four characters. For paths, `Normal` says what `normalizeString()` leaves (names,
  behind steps up where these may stay); `NormalizedIsNormal` and `NormalStays`
  give idempotence, and `SameWay` says that whatever goes from prefix to prefix as
  `normalizeString()` does ends where it ends. `WayLeads` is then a walk up from
  the first path to the common prefix (`CommonPart`) and down to the second, and
  `WayWithSeparator` carries the separator at the end of either.
- **ClientsProofs**, one section for each client.
  *Databases:* `PoolInv` says that, as long as no lifecycle call has overlapped
  another, at most one driver is busy, what is open is what the state holds and
  what a `terminate()` is destroying, and a pool of the constructor has been ended
  only after a first `init()`. `TxSound` says of a transaction that is rolling
  back that its work has landed only if the commit hook was called or the answer
  to COMMIT was lost: the hooks are told before the caller is. `PageSound` says
  that what `paginate()` has read is what the table holds until somebody writes;
  that a page and its total then fit (`PageFits`) rests on the ranks of a finite
  set of numbers, each below its cardinality taken exactly once (`RankTaken`, by
  the least rank that is not).
  *Key-value stores:* `JobSound` says that the keys of a call are those it has
  answers for and those still to come, each once (`Once`), so that no key is reached
  twice; and that a scan which is through has seen whatever matches its glob and has
  been there since it began, so that `clear()` has deleted it. It gives
  `SuccessMeansAll`, since a plain namespace is what its glob matches. The refinement
  takes one command at a time: `Goes` and `Turns` say what a step does to the job,
  `Forgets` and `Stores` what it does to the content, and `AskStep`, `CommandStep`,
  `DelStep` and `ExpireStep` put them together to a step of `KeyValueStore`;
  `SilentStep` covers the steps that tell a call nothing (refused commands of a
  pipeline, failures, SCAN, the last answer).
  *REST calls:* `CallSound` says of every stage of a call that an attempt which
  follows an answered one has a reason to (`Reason`), and so has one that may still
  be followed: an error which waits for the error hook or for the next attempt and
  which the policy finds worth it comes with its reason, whoever threw it
  (`ThrownSound` for the hooks). `Labelled` covers every choice of serializer and of
  default headers.
  *Event stream:* `SseInv` says that what the reader has still to parse, in its
  buffer and on the wire, is the text of the events behind its place (`Reads`): a
  `Script` gives for each token of that text its place (event, line, token of the
  line), of which each `Follows` the one before, and the reader `Stands` at the
  beginning of a line, with the fields of the lines before it. `Produced` adds an
  event to the script, `CutWhole` moves a chunk from the wire to the buffer, and
  `LineTaken` and `LineMeans` take a line off. Two things carry the exceptions:
  while no CR LF has been cut, and no event holds a CR, the buffer does not end in
  a CR whose LF is still to come; and after a failure the text that is in the
  buffer is the beginning of such a text, no longer all of it.
  *Subscriptions:* `SinksInv` adds to `SinksEndOnce` that a sink which was told of
  its end is no longer registered, unless a sink has thrown.
- **ServerBusinessProofs.** `ProgramInv` tells, from what the start-point has
  still to do, which layers are up, which instance the handle names and which
  route the shutdown takes: the server is starting, serving, ending or ended, and
  once it has ended nobody waits for an answer of the last instance (`Quiet`),
  which is what `close()` waits for. So no request outlives the layers it uses
  (`LayersOutliveRequests`), and the end of the program finds the last instance
  closed (`PortReleased`). `JobsInv` tells, for each step of a request, which
  hooks have heard of a failure and whether the handler has finished, where it
  failed, and what is left of the path of its style, hence `AnswersMatchWork`.
  `ContentTypeTellsEncoding` needs one assumption, `NoTypeAssumption`: the absent
  content type is not a media type.

The assumptions are those the code or the model needs, each checked by TLC for the
values of its run: bounds are natural numbers (`BatchAssumption`,
`ConnectableAssumption`, `RecordsAssumption`, `ScheduleAssumption`,
`ObserverAssumption`, `CacheAssumption`, where there is a first version), as are
the rotation limits, which are positive (`RotationAssumption`: what the options
mean; the constructor fills in the ones not given and checks none); the
directories of `CachedFileRepository` have files under them and a move gives each
file another name (`CachedAssumption`); the primary keys of a table are finitely
many numbers (`IdsAssumption`: what matters is that they are ordered); a
repository uses finitely many keys (`KeysAssumption`); the data of an event has a
line at least, as what `format()` splits has (`EventsAssumption`); a segment that
is a name is none of the three special ones, and a byte is at most 255
(`ConversionsAssumption`); a glob without special characters matches what starts
with its prefix (`MatchedAssumption`), and handlers are registered in styles there
are (`StylesAssumption`); and the values that stand for *absent*, *nobody* and
*the backend* are none of the others (`CallersAssumption`, `ValuesAssumption`,
`NoTypeAssumption`).

Model-checked only: liveness (`EveryWaiterServed`, `EveryItemSettles`,
`EverySubscriberHears`, `EveryRecordSettles`, `ShutdownReturns`), because fairness
and `ENABLED` are beyond the prover. Every invariant and every action property
that a passing run checks is the statement of a theorem.

The theorems about parts of `MCBusiness`, `MCClients` and `MCFiles` are about the
specification of the part, not about the sum that the run explores.

## 5. Not modelled

- `EventSourcedBusiness`, `ValidatedBusiness`, `PaginatedRepository`: synchronous,
  or a loop without shared state. An `apply()` that throws in `replay()` leaves
  the log of the new events beside the old state, which a unit test shows.
- The abstract bases without behaviour, the clock, `CommandService`,
  `CronService`; `ScheduleView`, whose timers are those of `ScheduleBusiness`.
- The console sink, levels, formatting, date revival, schema validation, status
  texts, well-known directories, UTF-8.
- WebSocket and GraphQL routes of the HTTP server, which hand over to plugins of
  Fastify (the handler of a WebSocket connection is not awaited), and
  `GraphQLRepository`, one POST over the REST client.
- The sketches of the TCP, UDP and gRPC clients, the transfers, code generation,
  the examples but for one start-point, and the libraries: Fastify, ky, Kysely,
  ioredis, memjs, RNFS and React are modelled by what the code relies on.
- Time: delays of retries, and how long a lifetime is: a cached entry, or a key
  that was given one, expires at any moment.
- A second `init()` after `terminate()` in `xf` components, which the lifecycle
  calls once each; it is modelled where owners do it (databases, REST clients,
  mounted views). Observers and listeners that call back into the component that
  calls them are modelled where the code allows it (timers, hooks of the batcher,
  observer pools) and excluded where its documentation forbids it (observers of
  the cache).
