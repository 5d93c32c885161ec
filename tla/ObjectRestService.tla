--------------------------- MODULE ObjectRestService ---------------------------
(***************************************************************************)
(* The bodies of requests and responses:                                   *)
(* packages/xf-server-http/src/api/general/ObjectRestService.ts, with the  *)
(* classifiers of ResponseUtils.ts and the writing of responses in         *)
(* HttpServerBusiness.ts.  A body is a record: what it is, and, when it is *)
(* encoded, in which media type.                                           *)
(***************************************************************************)
EXTENDS TLC

CONSTANTS
    Types,      \* media types, without parameters and in lower case
    Json        \* application/json

ASSUME JsonAssumption == Json \in Types

NoType == "none"    \* no content-type header, or an empty one

ASSUME NoTypeAssumption == NoType \notin Types

Nothing == [is |-> "nothing"]               \* null or undefined
Objekt == [is |-> "object"]                 \* a value: object, number, Date ...
Parts == [is |-> "parts"]                   \* MultipartPart[], or any array
Text == [is |-> "string"]
Bytes(type) == [is |-> "bytes", in |-> type]
Stream(type) == [is |-> "stream", in |-> type]
Empty == Bytes(NoType)                      \* no bytes at all

\* ResponseUtils: null counts as an object there, and as no body elsewhere.
IsObject(body) == body.is \in {"object", "parts"}

\* What a service is constructed with.  JSON has a parser and a serializer
\* whatever the options say; an entry of the options replaces it.
Options == [parsers : {T \in SUBSET Types : Json \in T},
            serializers : {T \in SUBSET Types : Json \in T},
            default : Types]

\* mediaTypeOf(): the first value of the header, its parameters cut off, in
\* lower case.  The header is looked up by its lower-case name only.
MediaTypeOf(headers) == headers.lower

\* parseRequestBody(): a body that is no bytes and no stream passes; of a type
\* without a parser the bytes are handed on (a stream is collected first).
Parsed(options, headers, body) ==
    IF body.is \notin {"bytes", "stream"} THEN body
    ELSE IF body.in = NoType THEN Nothing
    ELSE IF MediaTypeOf(headers) \in options.parsers
         THEN [is |-> "object", from |-> body.in, as |-> MediaTypeOf(headers)]
         ELSE Bytes(body.in)

\* The parser of one type throws on the bytes of another: BadRequestException.
ParseFails(options, headers, body) ==
    LET parsed == Parsed(options, headers, body)
    IN  parsed.is = "object" /\ "from" \in DOMAIN parsed /\ parsed.from # parsed.as

\* The headers of responses: content-type in lower case, and under any other
\* spelling of its name; and which of the two comes last in the object.
Headers == [lower : Types \cup {NoType}, other : Types \cup {NoType}, last : {"lower", "other"}]

OtherLast(headers) == headers.other # NoType /\ headers.last = "other"

\* Mutant: the type asked for is kept as the label of the fallback.
SerializedKeepsType(options, res) ==
    LET asked == MediaTypeOf(res.headers)
        type == IF asked = NoType THEN options.default ELSE asked
    IN  IF ~IsObject(res.body) THEN res
        ELSE IF type \in options.serializers
        THEN [headers |-> [res.headers EXCEPT !.lower = type], body |-> Bytes(type)]
        ELSE [headers |-> [res.headers EXCEPT !.lower = type], body |-> Bytes(Json)]

\* serializeResponseBody(): the serializer of the type that the response names,
\* or of the default; without one the body is JSON, called by the default.  The
\* lower-case header is put where it was, an empty one too; without one it comes
\* last, and headers.last is "lower" from the first.
Serialized(options, res) ==
    LET asked == MediaTypeOf(res.headers)
        type == IF asked = NoType THEN options.default ELSE asked
    IN  IF ~IsObject(res.body) THEN res
        ELSE IF type \in options.serializers
        THEN [headers |-> [res.headers EXCEPT !.lower = type], body |-> Bytes(type)]
        ELSE [headers |-> [res.headers EXCEPT !.lower = options.default],
              body |-> Bytes(Json)]

\* sendResponse(): the headers are set in order under names without case, so the
\* last one wins; Fastify encodes what is still an object as JSON.
Sent(res) ==
    [label |-> IF res.headers.lower = NoType \/ OtherLast(res.headers)
               THEN res.headers.other ELSE res.headers.lower,
     in |-> IF IsObject(res.body) THEN Json
            ELSE IF res.body.is \in {"bytes", "stream"} THEN res.body.in ELSE NoType]
=============================================================================
