----------------------------- MODULE SseRepository -----------------------------
(***************************************************************************)
(* Server-Sent Events from end to end: SseUtils.ts of                      *)
(* packages/xf-server-http writes them, SseRepository.ts of                *)
(* packages/xf-client-http reads them back, from chunks that are cut       *)
(* anywhere.  The text is a sequence of tokens: the content of a line, CR  *)
(* and LF.  A server that is not SseUtils may end its lines with CR LF.    *)
(***************************************************************************)
EXTENDS Naturals, Sequences, SequencesExt

CONSTANTS
    Events,     \* [name, data]: the name or NoName, the lines of the data
    NoName,
    Splitting,  \* texts that hold a line end which format() leaves in them
    MaxEvents   \* bound of the model: events of one stream

VARIABLES
    ending,     \* what the server ends a line with
    sent,       \* history: the events the source has produced
    wire,       \* the text on its way
    buffer,     \* the text that is not parsed yet
    pending,    \* the fields of the event that is being read
    got,        \* the events that have been yielded
    stream,     \* "open", "closed" by the server, "failed" or "done"
    hurt        \* history: was a CR LF cut in two, the stream cut off, or a text broken?

vars == <<ending, sent, wire, buffer, pending, got, stream, hurt>>

CR == [is |-> "CR"]
LF == [is |-> "LF"]
NoFields == [name |-> NoName, data |-> <<>>]

\* A line for the name, one for each line of the data, which format() splits at LF.  (The
\* id and retry fields are read and forgotten like the name.)
Lines(e) ==
    (IF e.name = NoName THEN <<>> ELSE <<[is |-> "event", val |-> e.name]>>) \o
    [i \in DOMAIN e.data |-> [is |-> "data", val |-> e.data[i]]]

\* A text that holds a CR, or the name if it holds any line end, is written as it is: the
\* reader finds part of it, and takes the rest for a line that is no field.
Laid(line) ==
    IF line.val \in Splitting THEN <<[line EXCEPT !.val = "part"], CR, [is |-> "rest"]>>
    ELSE <<line>>

Whole(e) == ({e.name} \cup ToSet(e.data)) \cap Splitting = {}

\* format(): the lines, and an empty line.
Format(e) ==
    LET lines == Lines(e)
    IN  FlattenSeq([i \in DOMAIN lines |-> Laid(lines[i]) \o ending]) \o ending

Init ==
    /\ ending \in {<<LF>>, <<CR, LF>>}
    /\ sent = <<>>
    /\ wire = <<>>
    /\ buffer = <<>>
    /\ pending = NoFields
    /\ got = <<>>
    /\ stream = "open"
    /\ hurt = FALSE

\* stream(): the next event of the source, a comment between two, and the end.
Produce ==
    /\ stream = "open"
    /\ Len(sent) < MaxEvents
    /\ \E e \in Events, pause \in {<<>>, <<[is |-> "comment"]>> \o ending} :
        /\ sent' = Append(sent, e)
        /\ wire' = wire \o pause \o Format(e)
        /\ hurt' = (hurt \/ ~Whole(e))
    /\ UNCHANGED <<ending, buffer, pending, got, stream>>

Close ==
    /\ stream = "open"
    /\ stream' = "closed"
    /\ UNCHANGED <<ending, sent, wire, buffer, pending, got, hurt>>

\* What is on its way is lost: the source has thrown, which the reader is told, or
\* the connection was cut, which may look to it like the end of the stream.
CutOff ==
    /\ stream = "open"
    /\ wire # <<>>
    /\ stream' \in {"closed", "failed"}
    /\ wire' = <<>>
    /\ hurt' = (hurt \/ stream' = "closed")
    /\ UNCHANGED <<ending, sent, buffer, pending, got>>

Breaks == {i \in DOMAIN buffer : buffer[i] \in {CR, LF}}

\* Mutant: what is left of the last chunk is not kept.
ReadForgets ==
    /\ Breaks = {}
    /\ \E n \in DOMAIN wire :
        /\ buffer' = SubSeq(wire, 1, n)
        /\ wire' = SubSeq(wire, n + 1, Len(wire))
        /\ hurt' = (hurt \/ (wire[n] = CR /\ n < Len(wire) /\ wire[n + 1] = LF))
    /\ UNCHANGED <<ending, sent, pending, got, stream>>

\* parse(): the next chunk, when no whole line is left.
Read ==
    /\ Breaks = {}
    /\ \E n \in DOMAIN wire :
        /\ buffer' = buffer \o SubSeq(wire, 1, n)
        /\ wire' = SubSeq(wire, n + 1, Len(wire))
        /\ hurt' = (hurt \/ (wire[n] = CR /\ n < Len(wire) /\ wire[n + 1] = LF))
    /\ UNCHANGED <<ending, sent, pending, got, stream>>

\* dispatch(): fields without data make no event.
Dispatched == IF pending.data = <<>> THEN got ELSE Append(got, pending)

\* parse(): the first line of the buffer, up to CR LF, CR or LF.  An empty line
\* dispatches; comments and unknown fields are skipped.
Line ==
    /\ Breaks # {}
    /\ LET i == CHOOSE k \in Breaks : \A j \in Breaks : k <= j
           past == IF i < Len(buffer) /\ buffer[i] = CR /\ buffer[i + 1] = LF THEN i + 1 ELSE i
           line == buffer[1]
       IN  /\ buffer' = SubSeq(buffer, past + 1, Len(buffer))
           /\ got' = IF i = 1 THEN Dispatched ELSE got
           /\ pending' = CASE i = 1 -> NoFields
                           [] i # 1 /\ line.is = "event" -> [pending EXCEPT !.name = line.val]
                           [] i # 1 /\ line.is = "data" ->
                                [pending EXCEPT !.data = Append(@, line.val)]
                           [] OTHER -> pending
    /\ UNCHANGED <<ending, sent, wire, stream, hurt>>

\* The stream is through: what was read of the last event is dispatched, a line
\* that was not ended is not part of it.
Done ==
    /\ stream = "closed"
    /\ wire = <<>>
    /\ Breaks = {}
    /\ stream' = "done"
    /\ got' = Dispatched
    /\ pending' = NoFields
    /\ buffer' = <<>>
    /\ UNCHANGED <<ending, sent, wire, hurt>>

Next == Produce \/ Close \/ CutOff \/ Read \/ Line \/ Done

Spec == Init /\ [][Next]_vars

-----------------------------------------------------------------------------
\* What is yielded is what was sent, in order and whole, wherever the chunks are
\* cut.  The exceptions: a chunk that ends between CR and LF, whose LF is taken
\* for an empty line; a stream that is cut off, whose last event may be yielded
\* without its last lines; and an event whose data holds a CR, or its name a line
\* end, which format() does not split off.  A reader that is told of the failure
\* has not been given part of an event.
EventsSurviveChunks ==
    ~hurt =>
        /\ IsPrefix(got, sent)
        /\ stream = "done" => got = sent
=============================================================================
