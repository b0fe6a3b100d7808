------------------------------ MODULE JsonMode ------------------------------
(***************************************************************************)
(* Streams of JSON values (server/src/store.ts, server-cloudflare/src/     *)
(* json.ts): the body of an append is one value or an array of them, the   *)
(* store keeps one fragment per append, its values each followed by a      *)
(* comma, and a read answers one array with the values of all the          *)
(* fragments.  The reference server writes the offset of its message into  *)
(* a value that is an event of the state protocol.                         *)
(*                                                                         *)
(* The text of a value is one token, which JSON.parse reads back: a value  *)
(* may be an array itself ("list").  Text is a sequence of values and      *)
(* commas; the brackets of the outermost array are not written.            *)
(***************************************************************************)
EXTENDS Integers, Sequences, SequencesExt

Token(kind, id, offset) == [kind |-> kind, id |-> id, offset |-> offset]
Comma == Token("comma", 0, 0)

\* items.join(",")
JoinText(texts) ==
    FlattenSeq([k \in 1 .. Len(texts) |-> IF k = 1 THEN texts[k] ELSE <<Comma>> \o texts[k]])

Serialized(values) == JoinText([k \in DOMAIN values |-> <<values[k]>>])

\* A body: is it an array, and its elements.  One that is no JSON has none.
JsonBody(array, items) == [array |-> array, items |-> items]

\* An array of the values handed to append(), one or a batch.
EncodeBatch(values) == JsonBody(TRUE, values)

\* An empty array makes an empty stream, but appends nothing.
AcceptsJson(body, isInitialCreate) == body.items # <<>> \/ (body.array /\ isInitialCreate)

ProcessJsonAppend(body) == IF body.items = <<>> THEN <<>> ELSE Append(Serialized(body.items), Comma)

DecodeStoredJsonMessage(data) ==
    IF data # <<>> /\ Last(data) = Comma THEN Front(data) ELSE data

\* JSON.parse of the text in brackets succeeds, and its values.
ParsesAsArray(text) ==
    text = <<>> \/ (Len(text) % 2 = 1 /\ \A k \in DOMAIN text : text[k] = Comma <=> k % 2 = 0)

ParseArray(text) == SelectSeq(text, LAMBDA token : token # Comma)

EnrichJsonValueWithOffset(value, offset) ==
    IF value.kind = "state" THEN [value EXCEPT !.offset = offset] ELSE value

\* The reference server parses every fragment, the Cloudflare server joins their text.
FormatJsonMessages(messages) ==
    Serialized(FlattenSeq([i \in DOMAIN messages |->
        LET values == ParseArray(DecodeStoredJsonMessage(messages[i].data))
        IN  [k \in DOMAIN values |-> EnrichJsonValueWithOffset(values[k], messages[i].offset)]]))

FormatJsonFragments(messages) ==
    JoinText([i \in DOMAIN messages |-> DecodeStoredJsonMessage(messages[i].data)])

\* appendToStream: a fragment without a value is not stored.
AppendBody(messages, body) ==
    IF ProcessJsonAppend(body) = <<>> THEN messages
    ELSE Append(messages, [data |-> ProcessJsonAppend(body), offset |-> Len(messages) + 1])

\* resolveForkSubOffset: a fork inside a message begins with the first values of it.
ForkPrefix(data, subOffset) ==
    Append(Serialized(SubSeq(ParseArray(DecodeStoredJsonMessage(data)), 1, subOffset)), Comma)

----------------------------------------------------------------------------
SomeValues == {Token("plain", 1, 0), Token("state", 2, 0), Token("list", 3, 0)}
SomeBodies == {JsonBody(FALSE, <<v>>) : v \in SomeValues} \cup {EncodeBatch(s) : s \in BoundedSeq(SomeValues, 2)}

Stored(bodies) == FoldLeft(AppendBody, <<>>, bodies)

Unmarked(values) == [k \in DOMAIN values |-> [values[k] EXCEPT !.offset = 0]]

\* Whatever was accepted, one value or an array of them, a read of either server
\* is an array of all the values in their order; the reference server marks the
\* events, and only these, with the offset after their message.
ASSUME JsonReadsBack ==
    \A bodies \in BoundedSeq(SomeBodies, 3) : (\A i \in DOMAIN bodies : AcceptsJson(bodies[i], i = 1)) =>
      LET messages == Stored(bodies)
          values   == FlattenSeq([i \in DOMAIN bodies |-> bodies[i].items])
          marked   == FormatJsonMessages(messages)
      IN  /\ ParsesAsArray(marked) /\ Unmarked(ParseArray(marked)) = values
          /\ \A k \in DOMAIN marked : marked[k].offset # 0 <=> marked[k].kind = "state"
          /\ ParsesAsArray(FormatJsonFragments(messages))
          /\ ParseArray(FormatJsonFragments(messages)) = values

\* A fork inside a message of JSON reads as the values before the cut and then its own.
ASSUME ForkPrefixReadsBack ==
    \A body, own \in SomeBodies : \A n \in 1 .. Len(body.items) :
      LET fork == AppendBody(<<[data |-> ForkPrefix(ProcessJsonAppend(body), n), offset |-> 1]>>, own)
      IN  ParseArray(FormatJsonFragments(fork)) = SubSeq(body.items, 1, n) \o own.items
=============================================================================
