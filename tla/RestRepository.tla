---------------------------- MODULE RestRepository ----------------------------
(***************************************************************************)
(* REST clients: RestRepository.ts of packages/xf-rest and of              *)
(* packages/xf-client-http, the latter in the pipeline of                  *)
(* packages/xf-client/.../ClientRepository.ts, with the retry loops of     *)
(* RetryRestRepository.ts and of packages/xf/.../RetryableRepository.ts.   *)
(*                                                                         *)
(* One consumer makes one call after the other, while the owner of the     *)
(* repository calls init() and terminate().  Requests go through ky, which *)
(* repeats some of them itself.  Media types and formats have one name.    *)
(***************************************************************************)
EXTENDS Naturals, FiniteSets

CONSTANTS
    MaxAttempts,    \* opts.maxAttempts of withRetry()
    KyRetries       \* how often ky repeats a request by default

VARIABLES
    package,    \* xf-rest or xf-client-http
    policy,     \* no retries, those of RetryRestRepository, or of RetryableRepository
    client,     \* has the repository a client?
    call        \* the call in flight, or the one that ended last

vars == <<package, policy, client, call>>

-----------------------------------------------------------------------------
(* Encoding and parsing. *)

Types == {"none", "json", "form", "text", "xml"}    \* none: no content-type header

\* pickParser() of ParseUtils: the entry of the options, else the one for JSON,
\* else text as it is.
PickParser(type, custom) ==
    IF type \in custom THEN type ELSE IF type = "json" THEN "json" ELSE "text"

\* parseResponseBody() of a body in some format: text can always be read.
Readable(type, custom, format) == PickParser(type, custom) \in {format, "text"}

\* Mutant: forms are left to JSON.
PickSerializerNoForm(type, custom) ==
    IF type \in custom \cup {"text"} THEN type ELSE "undefined"

\* pickSerializer() of SerializeUtils: JSON and unknown types have none.
PickSerializer(type, custom) ==
    IF type \in custom \cup {"form", "text"} THEN type ELSE "undefined"

\* encodeBody(): the serializer of the type, a body that the caller has encoded
\* already as it is, and everything else as JSON.
EncodedAs(type, custom, body) ==
    IF PickSerializer(type, custom) # "undefined" THEN PickSerializer(type, custom)
    ELSE IF body = "encoded" THEN "itself" ELSE "json"

\* The content-type that goes out: that of the request, or else that of the default
\* headers, which ky puts in and encodeBody() never looks at, or else what ky sets.
Label(type, default, as) ==
    IF type # "none" THEN type ELSE IF default # "none" THEN default ELSE as

\* How the content-type of a request may stand to what is sent: not known means that
\* neither the options nor the package has a serializer for the type of the request.
Encodings ==
    {[label |-> Label(t, d, EncodedAs(t, custom, body)), as |-> EncodedAs(t, custom, body),
      known |-> t \in custom \cup {"none", "json", "form", "text"},
      defaulted |-> t = "none" /\ d # "none"] :
        t \in Types, d \in Types, custom \in SUBSET {"xml"}, body \in {"encoded", "value"}}

\* Does the parser of a response fail?
ParseFails == {~Readable(t, custom, format) :
                  t \in Types, custom \in SUBSET {"xml"}, format \in {"json", "text", "xml"}}

-----------------------------------------------------------------------------
(* Calls. *)

NoCall == [at |-> "idle"]
NotEncoded == [as |-> "none"]    \* or handed over to ky

Init ==
    /\ package \in {"xf-rest", "xf-client-http"}
    /\ policy \in {"none", "RetryRest", "Retryable"}
    /\ client = FALSE
    /\ call = NoCall

\* init() makes a client unless there is one; terminate() drops it.
Lifecycle ==
    /\ client' = ~client
    /\ UNCHANGED <<package, policy, call>>

\* History: what has happened to this attempt.
Start ==
    /\ call = NoCall
    /\ \E method \in {"GET", "POST"} :
        call' = [at |-> "begun", method |-> method, attempt |-> 1, tries |-> 0, err |-> "none",
                 causes |-> {}, encoding |-> NotEncoded]
    /\ UNCHANGED <<package, policy, client>>

Go(at) == call.at = at /\ UNCHANGED <<package, policy, client>>

\* What withRetry() makes of an error, and what the caller is told without it.  The
\* hooks, and the serializers, may throw an error of any of these kinds.
Errors == {"Connection", "4xx", "429", "5xx", "other"}

\* Mutant: every answer of the server is worth another attempt.
ShouldRetryAll(e) ==
    \/ policy = "Retryable"
    \/ policy = "RetryRest" /\ e \in {"4xx", "429", "5xx", "Connection"}

\* shouldRetry(): RestException by its status, ConnectionException always.
ShouldRetry(e) ==
    \/ policy = "Retryable"
    \/ policy = "RetryRest" /\ e \in {"429", "5xx", "Connection"}

\* withRetry(): an attempt has ended, and another one follows or does not.
Settle(c) ==
    IF c.err # "none" /\ ShouldRetry(c.err) /\ c.attempt < MaxAttempts
    THEN [c EXCEPT !.at = "backoff"] ELSE [c EXCEPT !.at = "ended"]

Backoff ==
    /\ Go("backoff")
    /\ call' = [call EXCEPT !.at = "begun", !.attempt = @ + 1, !.tries = 0, !.err = "none",
                             !.causes = {}]

\* An attempt fails: for cause, with error e.  Under xf-client-http the error
\* passes by the onError() hook of the pipeline, and under xf-rest those that
\* arise in the try block pass by the onError() option.
Fail(c, cause, e) == [c EXCEPT !.at = "onError", !.err = e, !.causes = @ \cup {cause}]
FailAtOnce(c, cause, e) == Settle([c EXCEPT !.err = e, !.causes = @ \cup {cause}])

\* What a hook has thrown, and whether that is an error that is worth another attempt.
Thrown(e) == IF ShouldRetry(e) THEN "thrown, repeated" ELSE "thrown"

\* xf-rest looks for the client first, then the interceptor and the onRequest()
\* option run and the body is encoded, all of it outside the try block.
BeginRest ==
    /\ package = "xf-rest"
    /\ Go("begun")
    /\ IF ~client THEN call' = FailAtOnce(call, "no client", "other")
       ELSE \/ \E e \in Errors : call' = FailAtOnce(call, Thrown(e), e)
            \/ call' = [call EXCEPT !.at = "encode"]

\* ClientRepository.call(): the onRequest() hook runs outside the try block, and
\* send() looks for the client within it.
BeginPipeline ==
    /\ package = "xf-client-http"
    /\ Go("begun")
    /\ \/ \E e \in Errors : call' = FailAtOnce(call, Thrown(e), e)
       \/ call' = IF client THEN [call EXCEPT !.at = "encode"]
                  ELSE Fail(call, "no client", "other")

\* A serializer may throw.
Encode ==
    /\ Go("encode")
    /\ \/ \E e \in Errors :
            call' = IF package = "xf-rest" THEN FailAtOnce(call, Thrown(e), e)
                    ELSE Fail(call, Thrown(e), e)
       \/ \E encoding \in Encodings :
            call' = [call EXCEPT !.at = "dispatch", !.encoding = encoding]

\* The client is read again: terminate() may have dropped it since it was looked
\* for, and calling undefined counts as a network failure.
Dispatch ==
    /\ Go("dispatch")
    /\ LET c == [call EXCEPT !.encoding = NotEncoded]
       IN  call' = IF client THEN [c EXCEPT !.at = "wire"]
                   ELSE Fail(c, "no client", "Connection")

\* ky repeats requests of idempotent methods that were answered with 429 or 5xx
\* or not answered at all; it does not repeat one that has timed out.
KyRepeats(c, answer) ==
    c.method = "GET" /\ answer \in {"429", "5xx", "lost"} /\ c.tries < KyRetries

Wire ==
    /\ Go("wire")
    /\ \E answer \in {"2xx", "4xx", "429", "5xx", "lost", "timeout"} :
        call' =
          IF answer = "2xx" THEN [call EXCEPT !.at = "response", !.causes = @ \cup {"2xx"}]
          ELSE IF KyRepeats(call, answer) THEN [call EXCEPT !.tries = @ + 1]
          ELSE Fail(call, answer, IF answer \in {"lost", "timeout"} THEN "Connection"
                                  ELSE answer)

\* The body is read and parsed, unless it is asked for as a stream, and onResponse()
\* runs: in xf-rest both where errors pass by translateError(), which makes them
\* ConnectionException; in xf-client-http the hook's own error goes to onError().
Response ==
    /\ Go("response")
    /\ \/ \E e \in Errors :
            call' = IF package = "xf-rest" THEN Fail(call, "onResponse", "Connection")
                    ELSE Fail(call, Thrown(e), e)
       \/ \E fails \in ParseFails :
            call' = IF fails THEN Fail(call, "unread", "Connection")
                    ELSE Settle([call EXCEPT !.err = "none"])

\* The error hook: it may throw in its turn; that of the pipeline may return a
\* response in place of the error.  (A reviver that throws while the body of an
\* error is translated has the same effect as a hook that throws.)
OnError ==
    /\ Go("onError")
    /\ \/ call' = Settle(call)
       \/ \E e \in Errors : call' = FailAtOnce(call, Thrown(e), e)
       \/ /\ package = "xf-client-http"
          /\ call' = Settle([call EXCEPT !.err = "none", !.causes = @ \cup {"recovered"}])

Return ==
    /\ Go("ended")
    /\ call' = NoCall

Next ==
    \/ Lifecycle \/ Start \/ Backoff \/ BeginRest \/ BeginPipeline \/ Encode \/ Dispatch
    \/ Wire \/ Response \/ OnError \/ Return

Spec == Init /\ [][Next]_vars

-----------------------------------------------------------------------------
(* Properties. *)

\* A call that was answered with 2xx is repeated only if its answer could not be read
\* or parsed, if xf-rest took an error of onResponse() for a failure of the request,
\* or if a hook threw an error that the policy finds worth it.  A request that the
\* server found wrong (4xx) is not repeated under RetryRestRepository, unless the
\* error hook threw, in place of that error, one that is worth it.
RepeatedOnlyWhenUnread ==
    call.at = "backoff" =>
        /\ "2xx" \in call.causes =>
             \/ call.causes \cap {"unread", "thrown, repeated"} # {}
             \/ "onResponse" \in call.causes /\ package = "xf-rest"
        /\ policy = "RetryRest" /\ "4xx" \in call.causes => "thrown, repeated" \in call.causes

\* The content-type of a request tells how its body is encoded, or the caller has
\* encoded it and said so.  The exceptions: a value sent under a type that nobody
\* serialises is JSON all the same, and so is, or goes as it is, a body without a
\* content-type of its own that the default headers give one.
RequestLabelTellsEncoding ==
    call.at # "idle" /\ call.encoding.as # "none" =>
        \/ call.encoding.label = call.encoding.as
        \/ call.encoding.as = "itself"
        \/ ~call.encoding.known
        \/ call.encoding.defaulted
=============================================================================
