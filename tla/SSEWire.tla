------------------------------ MODULE SSEWire ------------------------------
(***************************************************************************)
(* Server-Sent Events on the wire: what encodeSSEData (server.ts, and its  *)
(* twin in the Cloudflare server) writes and parseSSEStream (client,       *)
(* sse.ts) makes of it, however the network cuts the bytes into chunks and *)
(* wherever the connection ends.                                           *)
(*                                                                         *)
(* A payload is a sequence of characters, of which only line ends, spaces  *)
(* and the rest differ; a field name with its colon is one character of    *)
(* the wire.                                                               *)
(***************************************************************************)
EXTENDS Integers, Sequences, SequencesExt

CONSTANTS
    SSEPayloads,    \* the data events a server may have to send, in order
    Binaries        \* which of {TRUE, FALSE} a stream may be

CR == "cr"
LF == "lf"
Space == " "

VARIABLES
    payloads,      \* the payloads of this connection
    binary,        \* stream-sse-data-encoding: base64
    wire,          \* what is on its way
    parser,        \* buffer, currentEvent and the events yielded
    sseEnd         \* "open", "complete" or "cut"

sseVars == <<payloads, binary, wire, parser, sseEnd>>

----------------------------------------------------------------------------
(* The server *)

\* split(/\r\n|\r|\n/).
SplitLines(s) ==
    LET Read(acc, ch) ==
          CASE ch = LF /\ acc.afterCR -> [acc EXCEPT !.afterCR = FALSE]
            [] ch = CR \/ (ch = LF /\ ~acc.afterCR) ->
                 [lines |-> Append(acc.lines, <<>>), afterCR |-> ch = CR]
            [] OTHER -> [lines |-> [acc.lines EXCEPT ![Len(acc.lines)] = Append(@, ch)],
                         afterCR |-> FALSE]
    IN FoldLeft(Read, [lines |-> << <<>> >>, afterCR |-> FALSE], s).lines

\* Mutant: only LF ends a line.
EncodeAtLF(s) ==
    FlattenSeq([k \in DOMAIN s |->
        CASE k = 1 /\ s[k] = LF -> <<"data:", LF, "data:">> [] k = 1 /\ s[k] # LF -> <<"data:", s[k]>>
          [] k > 1 /\ s[k] = LF -> <<LF, "data:">> [] OTHER -> <<s[k]>>])
    \o <<LF, LF>>

\* encodeSSEData: one data: field for each line, without a space after it.
EncodeSSEData(s) ==
    FlattenSeq([k \in DOMAIN SplitLines(s) |-> <<"data:">> \o SplitLines(s)[k] \o <<LF>>])
    \o <<LF>>

\* Base64, character by character: another alphabet, with neither line ends nor
\* spaces.
Base64 == [ch \in {"x", Space, CR, LF} |->
             CASE ch = "x" -> "A" [] ch = Space -> "B" [] ch = CR -> "C" [] ch = LF -> "D"]
EncodeBase64(s) == [k \in DOMAIN s |-> Base64[s[k]]]

\* The JSON of a control event, of which the offset is kept, in unary.
ControlData(n) == [k \in 1 .. n |-> "o"]

\* One turn of handleSSE: the data event, then its control event.
SSEBytes(n) ==
    <<"event:data", LF>>
    \o EncodeSSEData(IF binary THEN EncodeBase64(payloads[n]) ELSE payloads[n])
    \o <<"event:control", LF>> \o EncodeSSEData(ControlData(n))

----------------------------------------------------------------------------
(* The client *)

NoEvent == [type |-> "none", data |-> <<>>]
NewParser == [buffer |-> <<>>, current |-> NoEvent, yielded |-> <<>>]

\* Lines of the buffer once CRLF and CR have become LF, the last one incomplete.
BufferedLines(buffer) == SplitLines(buffer)

\* The field's value without the one space it may begin with.
FieldValue(line) ==
    IF Len(line) > 1 /\ line[2] = Space THEN SubSeq(line, 3, Len(line))
    ELSE Tail(line)

Joined(lines) ==
    FoldLeft(LAMBDA s, l : s \o <<LF>> \o l, Head(lines), Tail(lines))

\* decodeBase64: line ends are removed, the rest is decoded.
DecodeBase64(s) ==
    LET cleaned == SelectSeq(s, LAMBDA ch : ch \notin {CR, LF}) IN
    [k \in DOMAIN cleaned |-> CHOOSE ch \in DOMAIN Base64 : Base64[ch] = cleaned[k]]

EventOf(current) ==
    [type |-> current.type,
     data |-> IF binary /\ current.type = "data"
              THEN DecodeBase64(Joined(current.data))
              ELSE Joined(current.data)]

Yielded(p) ==
    IF p.current.type # "none" /\ p.current.data # <<>>
    THEN Append(p.yielded, EventOf(p.current)) ELSE p.yielded

\* A complete line: an empty one ends the event, fields other than event: and
\* data: are ignored.
ParseLine(p, line) ==
    CASE line = <<>> -> [p EXCEPT !.yielded = Yielded(p), !.current = NoEvent]
      [] line # <<>> /\ line[1] = "event:data"    -> [p EXCEPT !.current.type = "data"]
      [] line # <<>> /\ line[1] = "event:control" -> [p EXCEPT !.current.type = "control"]
      [] line # <<>> /\ line[1] = "data:" ->
           [p EXCEPT !.current.data = Append(@, FieldValue(line))]
      [] OTHER -> p

\* A chunk: the buffer grows by it and its complete lines are parsed.
ChunkArrives(n) ==
    LET lines == BufferedLines(parser.buffer \o SubSeq(wire, 1, n)) IN
    /\ sseEnd = "open" /\ n \in 1 .. Len(wire)
    /\ parser' = [FoldLeft(ParseLine, parser, Front(lines)) EXCEPT !.buffer = Last(lines)]
    /\ wire' = SubSeq(wire, n + 1, Len(wire))
    /\ UNCHANGED <<payloads, binary, sseEnd>>

\* The body ends, or the signal aborts: an event that has data is yielded if
\* there is anything after its last line.
StreamDone ==
    /\ sseEnd = "open"
    /\ sseEnd' = IF wire = <<>> THEN "complete" ELSE "cut"
    /\ parser' = IF parser.buffer # <<>> THEN [parser EXCEPT !.yielded = Yielded(parser)]
                 ELSE parser
    /\ UNCHANGED <<payloads, binary, wire>>

----------------------------------------------------------------------------

SSEInit ==
    /\ payloads \in SSEPayloads /\ binary \in Binaries
    /\ wire = FlattenSeq([n \in DOMAIN payloads |-> SSEBytes(n)])
    /\ parser = NewParser /\ sseEnd = "open"

SSENext == StreamDone \/ \E n \in 1 .. Len(wire) : ChunkArrives(n)

SSESpec == SSEInit /\ [][SSENext]_sseVars

----------------------------------------------------------------------------
(* Properties *)

\* What text survives: every line end is an LF, and a line that began with a
\* space has lost one.
AsText(s) ==
    LET unix == LET kept == {k \in DOMAIN s : ~(k > 1 /\ s[k] = LF /\ s[k - 1] = CR)}
                IN [k \in DOMAIN SetToSortSeq(kept, <) |->
                      LET ch == s[SetToSortSeq(kept, <)[k]] IN IF ch = CR THEN LF ELSE ch]
        kept == {k \in DOMAIN unix : ~(unix[k] = Space /\ (k = 1 \/ unix[k - 1] = LF))}
    IN [k \in DOMAIN SetToSortSeq(kept, <) |-> unix[SetToSortSeq(kept, <)[k]]]

Sent == FlattenSeq([n \in DOMAIN payloads |->
            <<[type |-> "data", data |-> IF binary THEN payloads[n] ELSE AsText(payloads[n])],
              [type |-> "control", data |-> ControlData(n)]>>])

\* encodeSSEData keeps payloads from making events of their own: whatever line
\* ends they hold and however they are cut into chunks, the client yields the
\* events that were sent, all of them if all arrived.  An event is short only
\* if it is the last one of a connection that was cut, and then it is text.
SSEDelivers ==
    LET got == parser.yielded IN
    /\ Len(got) <= Len(Sent)
    /\ \A k \in DOMAIN got : got[k] = Sent[k]
          \/ /\ sseEnd = "cut" /\ k = Len(got) /\ ~binary
             /\ got[k].type = "data" /\ Sent[k].type = "data"
             /\ IsPrefix(got[k].data, Sent[k].data)
    /\ sseEnd = "complete" => Len(got) = Len(Sent)
=============================================================================
