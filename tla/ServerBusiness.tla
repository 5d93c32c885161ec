---------------------------- MODULE ServerBusiness ----------------------------
(***************************************************************************)
(* A server in its artefact: the layer lifecycle of packages/xf/src/XF.ts, *)
(* the server component of packages/xf-server with its HTTP, TCP, UDP and  *)
(* gRPC transports, and the pipeline that each request runs through, from  *)
(* the adapter of the transport over the hooks of the server and of the    *)
(* service (EntryService.ts, ObjectRestService.ts) to the answer.          *)
(*                                                                         *)
(* The start-point is that of examples/03-rest-server/main.ts, or one that *)
(* only calls XF.terminate() as XF.ts shows.  It awaits one step after the *)
(* other; requests run concurrently with it.  gRPC binds no route yet: it  *)
(* has a lifecycle and no requests.                                        *)
(***************************************************************************)
EXTENDS ObjectRestService, Naturals, Sequences, FiniteSets

CONSTANTS
    Requests,
    Styles,     \* [Requests -> SUBSET DOMAIN Path]: how its handler may be registered
    MaxListens  \* bound of the model: how often listen() is called

VARIABLES
    kind,       \* the transport
    todo,       \* the steps the start-point has still to await
    route,      \* how it shuts down
    layers,     \* the layers that are up; a layer that terminates is not
    servers,    \* the instances listen() has made, in order
    handle,     \* state.fastify, state.server or state.socket: an instance or 0
    crashed,    \* has an unhandled error ended the process?
    job         \* [Requests -> the request in flight or answered last]

program == <<kind, todo, route, layers, servers, handle>>
vars == <<program, crashed, job>>

Idle == [at |-> "idle"]
InFlight(r) == job[r].at \notin {"idle", "answered"}

Init ==
    /\ kind \in {"http", "tcp", "udp", "grpc"}
    /\ todo = <<"R.init", "B.init", "A.init", "listen", "onStarted", "signal">>
    /\ route = "none"
    /\ layers = {}
    /\ servers = <<>>
    /\ handle = 0
    /\ crashed = FALSE
    /\ job = [r \in Requests |-> Idle]

Answered(j, answer) == [at |-> "answered", told |-> j.told, worked |-> j.worked,
                       cause |-> j.cause, answer |-> answer]

-----------------------------------------------------------------------------
(* The start-point. *)

Rises == {"R.init", "B.init", "A.init"}
Falls == {"A.terminate", "B.terminate", "R.terminate"}

LayerOf == [x \in Rises \cup Falls |->
                CASE x \in {"R.init", "R.terminate"} -> "R"
                  [] x \in {"B.init", "B.terminate"} -> "B"
                  [] OTHER -> "A"]

At(step) == todo # <<>> /\ Head(todo) = step /\ ~crashed

\* A layer comes up or goes down, B without its server.
Layer ==
    /\ \E step \in DOMAIN LayerOf :
        /\ At(step)
        /\ layers' = IF step \in Rises
                     THEN layers \cup {LayerOf[step]} ELSE layers \ {LayerOf[step]}
    /\ todo' = Tail(todo)
    /\ UNCHANGED <<kind, route, servers, handle, crashed, job>>

\* A service registers a route in its init(); onRegister() is not awaited, and
\* nothing catches what it rejects with.
Register ==
    /\ At("A.init")
    /\ crashed' = TRUE
    /\ UNCHANGED <<program, job>>

\* What is awaited rejects, and the steps behind it are never taken.
Rejects ==
    /\ \E step \in DOMAIN LayerOf \cup {"plugins", "bind", "onStarted", "onStopped"} :
        /\ At(step)
        /\ layers' = IF step \in Falls
                     THEN layers \ {LayerOf[step]} ELSE layers
        /\ todo' = IF step \in {"plugins", "bind", "onStarted"}
                   THEN <<"listenRejected">> ELSE <<>>
    /\ UNCHANGED <<kind, route, servers, handle, crashed, job>>

\* A start-point that calls listen() again.
Retry ==
    /\ At("listenRejected")
    /\ Len(servers) < MaxListens
    /\ todo' = <<"listen", "onStarted", "signal">>
    /\ UNCHANGED <<kind, route, layers, servers, handle, crashed, job>>

\* listen(): a new instance is published before it is bound.
Listen ==
    /\ At("listen")
    /\ servers' = Append(servers, "made")
    /\ handle' = Len(servers) + 1
    /\ todo' = (IF kind = "http" THEN <<"plugins">> ELSE <<>>) \o <<"bind">> \o Tail(todo)
    /\ UNCHANGED <<kind, route, layers, crashed, job>>

\* The HTTP instance loads its plugins, for multipart, WebSocket and GraphQL, and
\* mounts the routes.
Mount ==
    /\ At("plugins")
    /\ todo' = Tail(todo)
    /\ UNCHANGED <<kind, route, layers, servers, handle, crashed, job>>

Bound == {i \in DOMAIN servers : servers[i] = "bound"}

\* One port: it cannot be bound twice.
Bind ==
    /\ At("bind")
    /\ Bound = {}
    /\ servers' = [servers EXCEPT ![handle] = "bound"]
    /\ todo' = Tail(todo)
    /\ UNCHANGED <<kind, route, layers, handle, crashed, job>>

Hook ==
    /\ At("onStarted") \/ At("onStopped")
    /\ todo' = Tail(todo)
    /\ UNCHANGED <<kind, route, layers, servers, handle, crashed, job>>

\* The signal handler, at any time after the start.  B.terminate() ends with
\* the server, whose terminate() is close().
Signal ==
    /\ At("signal")
    /\ route' \in {"close first", "terminate only"}
    /\ todo' = (IF route' = "close first" THEN <<"close", "onStopped">> ELSE <<>>) \o
               <<"A.terminate", "B.terminate", "close", "onStopped", "R.terminate">>
    /\ UNCHANGED <<kind, layers, servers, handle, crashed, job>>

\* Mutant: the handle is dropped and the instance is not closed.
CloseForgets ==
    /\ At("close")
    /\ handle' = 0
    /\ todo' = Tail(todo)
    /\ UNCHANGED <<kind, route, layers, servers, crashed, job>>

\* Mutant: the instance goes on accepting.
CloseKeepsListening ==
    /\ At("close")
    /\ todo' = (IF handle # 0 THEN <<"drain">> ELSE <<>>) \o Tail(todo)
    /\ UNCHANGED <<kind, route, layers, servers, handle, crashed, job>>

\* close(): without a handle only onStopped() is left.  An instance that is
\* closing accepts nothing more; a socket is closed at once.
Close ==
    /\ At("close")
    /\ todo' = (IF handle # 0 THEN <<"drain">> ELSE <<>>) \o Tail(todo)
    /\ servers' = IF handle # 0 THEN [servers EXCEPT ![handle] = "closing"] ELSE servers
    /\ UNCHANGED <<kind, route, layers, handle, crashed, job>>

\* Mutant: the requests in flight are not waited for.
DrainedAtOnce ==
    /\ At("drain")
    /\ servers' = [servers EXCEPT ![handle] = "closed"]
    /\ handle' = 0
    /\ todo' = Tail(todo)
    /\ UNCHANGED <<kind, route, layers, crashed, job>>

\* The instance has closed: Fastify waits for its requests, and its plugin ends
\* the WebSocket connections; node:net waits for the connections, a datagram
\* socket for nothing.
Drained ==
    LET On(r) == InFlight(r) /\ job[r].instance = handle
        Channel(r) == On(r) /\ job[r].at = "connected"
    IN  /\ At("drain")
        /\ \A r \in Requests : On(r) => kind = "udp" \/ (kind = "http" /\ Channel(r))
        /\ job' = [r \in Requests |-> IF Channel(r) THEN Answered(job[r], "none") ELSE job[r]]
        /\ servers' = [servers EXCEPT ![handle] = "closed"]
        /\ handle' = 0
        /\ todo' = Tail(todo)
        /\ UNCHANGED <<kind, route, layers, crashed>>

Program ==
    \/ Layer \/ Register \/ Rejects \/ Retry \/ Listen \/ Mount \/ Bind
    \/ Hook \/ Signal \/ Close \/ Drained

-----------------------------------------------------------------------------
(* Requests. *)

\* The awaited steps of a request, by the way its handler was registered: as it
\* is, through wrap(), through object(), or through wrap(object()), where the hooks of
\* the service run twice, those of object() within those of wrap().
Path == [raw |-> <<"onRequest", "handler", "onResponse", "send">>,
         wrap |-> <<"onRequest", "service.onRequest", "handler", "service.onResponse",
                    "onResponse", "send">>,
         object |-> <<"onRequest", "service.onRequest", "parse", "handler",
                      "service.onResponse", "serialize", "onResponse", "send">>,
         nested |-> <<"onRequest", "service.onRequest", "inner.onRequest", "parse", "handler",
                      "inner.onResponse", "serialize", "service.onResponse", "onResponse",
                      "send">>]

ASSUME StylesAssumption == Styles \in [Requests -> SUBSET DOMAIN Path]

After(j) ==
    LET path == Path[j.style]
    IN  path[1 + CHOOSE i \in 1..(Len(path) - 1) : path[i] = j.at]

\* A request reaches an instance.  The HTTP adapter collects multipart bodies
\* first; a TCP or WebSocket connection is handed to its handler and stays open.
Arrive(r) ==
    /\ ~crashed
    /\ ~InFlight(r)
    /\ \E i \in Bound,
          at \in CASE kind = "http" -> {"collect", "connected"}
                   [] kind = "udp" -> {"onRequest"}
                   [] kind = "tcp" -> {"connected"}
                   [] kind = "grpc" -> {},
          style \in IF kind = "http" THEN Styles[r] ELSE {"raw"} :
        /\ at = "connected" => style = "raw"
        /\ job' = [job EXCEPT ![r] =
             [at |-> at, style |-> style, instance |-> i, err |-> "none", cause |-> "none",
              told |-> <<>>, worked |-> FALSE, by |-> "handler", label |-> "none"]]
    /\ UNCHANGED <<program, crashed>>

Put(r, j) ==
    /\ job' = [job EXCEPT ![r] = j]
    /\ UNCHANGED <<program, crashed>>

Go(r) == ~crashed /\ InFlight(r)

\* A step of the pipeline resolves.
StepResolves(r) ==
    /\ Go(r)
    /\ \/ /\ job[r].at = "collect"
          /\ Put(r, [job[r] EXCEPT !.at = "onRequest"])
       \/ /\ job[r].at \in {"onRequest", "service.onRequest", "inner.onRequest",
                            "inner.onResponse", "service.onResponse", "onResponse"}
          /\ Put(r, [job[r] EXCEPT !.at = After(job[r]), !.label = "none"])
       \/ /\ job[r].at = "handler"
          /\ Put(r, [job[r] EXCEPT !.at = After(job[r]), !.worked = TRUE])

\* What a handler or a hook may throw: an HttpException, which has a status of its own
\* (that of a bad request stands for all of them), or another error.
Errors == {"Error", "BadRequestException"}

\* errorToResponse(), and Fastify, of an error.
Status(e) == IF e = "BadRequestException" THEN "400" ELSE "500"

\* Which hook an error thrown at a step is told to: onRequest() of the service
\* runs outside the try of wrap() and object(); what object() throws, or rethrows,
\* within wrap() is caught there, and what is left by dispatch().
Catcher(j) ==
    LET worker == {"parse", "handler", "serialize"}
    IN  IF j.style = "nested" /\ j.at \in worker \cup {"inner.onResponse"} THEN "inner.onError"
        ELSE IF \/ j.style # "raw" /\ j.at \in worker \cup {"service.onResponse"}
                \/ j.at \in {"inner.onRequest", "inner.onError"}
        THEN "service.onError" ELSE "onError"

\* History: the cause tells the error of a parser, and errors from before the handler,
\* from others.
CauseOf(step) ==
    IF step = "parse" THEN "parse"
    ELSE IF step \in {"onRequest", "service.onRequest", "inner.onRequest"} THEN "before" ELSE "work"

Thrown(j, e, cause) ==
    [j EXCEPT !.at = Catcher(j), !.err = e, !.cause = cause, !.told = Append(@, Catcher(j)),
              !.label = "none"]

StepThrows(r) ==
    /\ Go(r)
    /\ job[r].at \in {"onRequest", "service.onRequest", "inner.onRequest", "handler",
                      "inner.onResponse", "service.onResponse", "serialize", "onResponse"}
    /\ \E e \in Errors : Put(r, Thrown(job[r], e, CauseOf(job[r].at)))

RequestBodies == {Nothing, Objekt, Parts, Text, Empty} \cup
                 {Bytes(t) : t \in Types} \cup {Stream(t) : t \in Types}

\* What may come of parseRequestBody(), a stream that breaks while it is
\* collected included.  Fastify hands over what it has parsed itself: bytes and
\* streams are there when a hook has replaced the request.
ParseOutcomes == {"Error"} \cup
    {IF ParseFails(o, h, body) THEN "BadRequestException" ELSE "none" :
        o \in Options, h \in Headers, body \in RequestBodies}

Parse(r) ==
    /\ Go(r)
    /\ job[r].at = "parse"
    /\ \E e \in ParseOutcomes :
        Put(r, IF e = "none" THEN [job[r] EXCEPT !.at = After(job[r])]
               ELSE Thrown(job[r], e, CauseOf("parse")))

\* How the content-type of an answer may stand to the encoding of its body.
LabelOf(options, headers, sent) ==
    IF sent.in = NoType THEN "none"
    ELSE IF sent.label = sent.in THEN "encoding"
    ELSE IF sent.label = options.default THEN "default"
    ELSE IF OtherLast(headers) THEN "other spelling" ELSE "wrong"

Labels == {LabelOf(o, h, Sent(Serialized(o, [headers |-> h, body |-> body]))) :
              o \in Options, h \in Headers, body \in {Nothing, Objekt, Text}}

Serialize(r) ==
    /\ Go(r)
    /\ job[r].at = "serialize"
    /\ \E label \in Labels :
        Put(r, [job[r] EXCEPT !.at = After(job[r]), !.label = label])

Crash(r) ==
    /\ crashed' = TRUE
    /\ UNCHANGED <<program, job>>

\* Mutant: what the hook of the service returns is the answer, even undefined.
ServiceErrorAnswers(r) ==
    /\ Go(r)
    /\ job[r].at \in {"inner.onError", "service.onError"}
    /\ Put(r, [job[r] EXCEPT !.at = "onResponse", !.err = "none"])

\* onError() of the service: a response goes on to the onResponse() of the server, or
\* from within wrap() to its own, as it is; undefined rethrows the error, and the hook
\* may throw another.
ServiceErrorSettles(r) ==
    /\ Go(r)
    /\ job[r].at \in {"inner.onError", "service.onError"}
    /\ \/ Put(r, [job[r] EXCEPT !.at = IF @ = "inner.onError" THEN "service.onResponse"
                                       ELSE "onResponse",
                                 !.err = "none", !.cause = "none", !.by = "hook"])
       \/ Put(r, Thrown(job[r], job[r].err, job[r].cause))
       \/ \E e \in Errors : Put(r, Thrown(job[r], e, CauseOf(job[r].at)))

\* onError() of the server: a response is sent, undefined leaves it to
\* errorToResponse(), which for a datagram sends nothing; what it throws is
\* answered by Fastify, and unhandled in a datagram server.
ServerErrorSettles(r) ==
    /\ Go(r)
    /\ job[r].at = "onError"
    /\ \/ Put(r, [job[r] EXCEPT !.at = "send", !.err = "none", !.cause = "none", !.by = "hook"])
       \/ Put(r, IF kind = "udp" THEN Answered(job[r], "none")
                 ELSE [job[r] EXCEPT !.at = "send", !.by = "errorToResponse"])
       \/ IF kind = "http"
          THEN \E e \in Errors : Put(r, Answered([job[r] EXCEPT !.cause = "work"], Status(e)))
          ELSE Crash(r)

\* sendResponse() of HTTP, or collectMultipart(), which has limits, rejects: Fastify
\* answers.
FastifyAnswers(r) ==
    /\ Go(r)
    /\ kind = "http"
    /\ job[r].at \in {"collect", "send"}
    /\ \E status \in {"500"} \cup (IF job[r].at = "collect" THEN {"413"} ELSE {}) :
        Put(r, Answered(job[r], status))

Send(r) ==
    /\ Go(r)
    /\ job[r].at = "send"
    /\ kind = "udp" => servers[job[r].instance] = "bound"
    /\ Put(r, Answered(job[r],
                       CASE job[r].by = "handler" -> "200"
                         [] job[r].by = "errorToResponse" -> Status(job[r].err)
                         [] OTHER -> "as the hook says"))

\* A datagram handler that has no reply, or whose reply is due when the socket is
\* closed: send() throws, in a promise nobody looks at.
NoReply(r) ==
    /\ Go(r)
    /\ kind = "udp"
    /\ job[r].at = "send"
    /\ \/ Put(r, Answered(job[r], "none"))
       \/ /\ servers[job[r].instance] # "bound"
          /\ Crash(r)

\* A connection ends; or its handler rejects, which nothing catches.
Disconnect(r) ==
    /\ Go(r)
    /\ job[r].at = "connected"
    /\ Put(r, Answered(job[r], "none")) \/ Crash(r)

Step(r) ==
    \/ StepResolves(r) \/ StepThrows(r) \/ Parse(r) \/ Serialize(r)
    \/ ServiceErrorSettles(r) \/ ServerErrorSettles(r)
    \/ FastifyAnswers(r) \/ Send(r) \/ NoReply(r)

Next ==
    \/ Program
    \/ \E r \in Requests : Arrive(r) \/ Step(r) \/ Disconnect(r)

\* What is awaited settles.  Whether a peer ever disconnects, and whether a
\* signal or a request comes, is up to others.
Fairness ==
    /\ WF_vars(Layer \/ Hook \/ Listen \/ Mount \/ Close \/ Drained)
    /\ \A r \in Requests : WF_vars(Step(r))

Spec == Init /\ [][Next]_vars /\ Fairness

-----------------------------------------------------------------------------
(* Properties. *)

\* An instance that a later listen() has replaced: nothing closes it any more.
Leaked(i) == i < Len(servers)

\* A request finds the repositories up from its arrival to its answer, and, when
\* the start-point closes the server first, every layer.  Not covered are
\* datagrams, which close() does not wait for, and instances that a repeated
\* listen() has replaced.
LayersOutliveRequests ==
    \A r \in Requests : InFlight(r) /\ kind # "udp" /\ ~Leaked(job[r].instance) =>
        /\ "R" \in layers
        /\ route # "terminate only" => layers = {"R", "B", "A"}

\* How far out an error hook is.
Level(hook) ==
    CASE hook = "inner.onError" -> 1 [] hook = "service.onError" -> 2 [] hook = "onError" -> 3

\* The answer tells what became of the handler: 200 is sent when it has finished
\* and nothing has thrown; 400 after the handler's work only if the handler, or a hook
\* after it, has thrown an error of that status, and never for a body that cannot be
\* parsed.  The hooks hear of a request's failure from the inside out, each once, that
\* of a service in wrap(object()) once for each of the two.
AnswersMatchWork ==
    \A r \in Requests : job[r].at = "answered" =>
        /\ job[r].answer = "200" => job[r].worked /\ job[r].told = <<>>
        /\ job[r].answer = "400" /\ job[r].worked => job[r].cause = "work"
        /\ \A i, k \in DOMAIN job[r].told :
              i < k => Level(job[r].told[i]) < Level(job[r].told[k])

\* A start-point that has come to its end has left no port bound, but for an
\* instance that a repeated listen() replaced: onStarted() may reject after the
\* binding, and nothing closes what it rejected for.
PortReleased ==
    todo = <<>> /\ "R" \notin layers => \A i \in Bound : Leaked(i)

\* The content-type of an answer is the encoding of its body.  The exceptions are the
\* fallback, where a default type without a serializer labels JSON, and a response that
\* has the header under a second spelling, behind the one that the serializer looks at.
ContentTypeTellsEncoding ==
    \A r \in Requests : InFlight(r) => job[r].label # "wrong"

\* A shutdown comes to its end: requests that settle hold close() up for a while
\* only.  A TCP peer that does not disconnect holds it up for ever.
ShutdownReturns ==
    route # "none" ~> todo = <<>> \/ crashed \/ kind = "tcp"
=============================================================================
