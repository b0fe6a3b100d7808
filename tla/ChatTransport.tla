--------------------------- MODULE ChatTransport ---------------------------
(* The AI transports, packages/tanstack-ai-transport and aisdk-transport:   *)
(* a server task writes the chunks of a model's answer through a            *)
(* DurableStream handle and closes the stream, or leaves it open for the    *)
(* next turn of a chat session; a browser shows what is in the stream, as a *)
(* snapshot of the messages and then chunk by chunk, across subscriptions.  *)
(*                                                                          *)
(* The handle, and the stream behind it, are those of StreamHandle; chunk m *)
(* of the model is the m-th append.  The reading session hands over batches *)
(* in order (StreamReader).                                                 *)
EXTENDS StreamHandle

CONSTANT ChatSetups     \* how the transports are used

ChatSetup ==
    [handle : HandleSetups,
     session : BOOLEAN,     \* toDurableChatSessionResponse: no close
     echo : Nat,            \* chunks of the new messages, before the model's
     chunks : Seq([type : {"start", "content", "snapshot", "other"}, id : STRING]),
     maxSubscribes : Nat,   \* bound: calls of subscribe()
     snapshot : BOOLEAN,    \* emitSnapshotOnSubscribe
     resumes : BOOLEAN]     \* subscribe() goes on where the last one was; the AI SDK
                            \* transport reads from the beginning

ASSUME ChatAssumption ==
    \A s \in ChatSetups :
      /\ s.handle \in HandleSetups /\ s.handle.batching /\ ~s.handle.signals
      /\ s.echo <= Len(s.chunks) /\ Len(s.chunks) <= MaxAppends
      /\ s.echo # 0 => s.session
      /\ s.maxSubscribes \in Nat

VARIABLES
    chatOpts,
    writing,      \* the writer: "echo", "loop", "drain-echo", "drain", "closing", "ok", "failed";
                  \* "none" when the handle is used by somebody else
    sourceThrew, appendError,
    slipped,      \* history: chunks appended between a rejection and its catch()
    sub,          \* the subscription: "off", "on"
    chatOffset,   \* state.offset, -1 for undefined: a position in the stream
    handed,       \* what the reading session has pushed
    batches,      \* the queue of readJsonBatchesFromStream: [from, to, upToDate]
    snapshotting, \* ~hasEmittedSnapshot
    gathered,     \* positions in snapshotMessages
    shown,        \* positions of the stream the user interface has
    messages,     \* what the last MESSAGES_SNAPSHOT said
    cut,          \* history: an abort came between an offset and its chunks
    subscribes

chatOwnVars == <<chatOpts, writing, sourceThrew, appendError, slipped, sub, chatOffset, handed,
                 batches, snapshotting, gathered, shown, messages, cut, subscribes>>
chatVars == <<handleVars, chatOwnVars>>
writerVars == <<writing, sourceThrew, appendError, slipped>>
viewVars == <<sub, chatOffset, handed, batches, snapshotting, gathered, shown, messages, cut,
              subscribes>>

----------------------------------------------------------------------------
(* The writer *)

Appended == Cardinality(Called)

\* toMessageEchoChunks: a message of the user as chunks.
ToMessageEchoChunks(id, text) ==
    <<[type |-> "start", id |-> id]>>
      \o (IF text THEN <<[type |-> "content", id |-> id]>> ELSE <<>>)
      \o <<[type |-> "other", id |-> id]>>

\* appendSanitizedChunksToStream: the chunks of the new messages, in one go.
EchoMessages ==
    /\ writing = "echo" /\ writing' = "drain-echo"
    /\ IF chatOpts.echo = 0 THEN UNCHANGED handleVars
       ELSE /\ appends' = [m \in 1 .. MaxAppends |->
                              IF m <= chatOpts.echo THEN "pending" ELSE appends[m]]
            /\ Send(Post(<<1>>)) /\ queueState' = "running"
            /\ buffer' = [k \in 1 .. (chatOpts.echo - 1) |-> k + 1]
            /\ UNCHANGED <<handleOpts, replies, streamSide, closeCall, netFaults, stranded>>
    /\ UNCHANGED <<chatOpts, sourceThrew, appendError, slipped, viewVars>>

\* An append was rejected and its catch() has not run.
Unnoticed == ~appendError /\ \E m \in Called : appends[m] = "rejected"

\* Mutant: the loop goes on after a failed append.
AppendsOn ==
    /\ writing = "loop" /\ Appended < Len(chatOpts.chunks)
    /\ HandleAppends(Appended + 1) /\ UNCHANGED <<chatOpts, writerVars, viewVars>>

\* The next chunk of the model: the loop breaks if an append is known to have
\* failed, else the chunk is appended and not awaited.
SourceYields ==
    /\ writing = "loop" /\ Appended < Len(chatOpts.chunks)
    /\ IF appendError
       THEN writing' = "drain" /\ UNCHANGED <<handleVars, slipped>>
       ELSE /\ HandleAppends(Appended + 1) /\ UNCHANGED writing
            /\ slipped' = IF Unnoticed THEN slipped \cup {Appended + 1} ELSE slipped
    /\ UNCHANGED <<chatOpts, sourceThrew, appendError, viewVars>>

SourceEnds ==
    /\ writing = "loop" /\ Appended = Len(chatOpts.chunks) /\ writing' = "drain"
    /\ UNCHANGED <<handleVars, chatOpts, sourceThrew, appendError, slipped, viewVars>>

\* Mutant: an error of the model leaves the stream open.
ThrowsOut ==
    /\ writing = "loop" /\ sourceThrew' = TRUE /\ writing' = "failed"
    /\ UNCHANGED <<handleVars, chatOpts, appendError, slipped, viewVars>>

SourceThrows ==
    /\ writing = "loop" /\ sourceThrew' = TRUE /\ writing' = "drain"
    /\ UNCHANGED <<handleVars, chatOpts, appendError, slipped, viewVars>>

\* The catch() of an append runs microtasks after its rejection; the queue of the
\* handle is released, and the model may go on, before or after that.
AppendErrorNoticed ==
    /\ Unnoticed /\ appendError' = TRUE
    /\ UNCHANGED <<handleVars, chatOpts, writing, sourceThrew, slipped, viewVars>>
ChatQueueReleases == QueueReleases /\ UNCHANGED chatOwnVars

\* await lastAppend.
Drained == (Appended > 0 => appends[Appended] # "pending") /\ ~Unnoticed

EchoWritten ==
    /\ writing = "drain-echo" /\ Drained
    /\ writing' = IF appendError THEN "failed" ELSE "loop"
    /\ UNCHANGED <<handleVars, chatOpts, sourceThrew, appendError, slipped, viewVars>>

\* A session stays open; otherwise the stream is closed, error or not.
WriterDrains ==
    /\ writing = "drain" /\ Drained
    /\ IF chatOpts.session
       THEN /\ writing' = IF appendError \/ sourceThrew THEN "failed" ELSE "ok"
            /\ UNCHANGED handleVars
       ELSE writing' = "closing" /\ HandleCloses
    /\ UNCHANGED <<chatOpts, sourceThrew, appendError, slipped, viewVars>>

\* The answer of mode "await", or the end of the background task.
WriterEnds ==
    /\ writing = "closing" /\ closeCall \in {"resolved", "rejected"}
    /\ writing' = IF appendError \/ sourceThrew \/ closeCall = "rejected" THEN "failed" ELSE "ok"
    /\ UNCHANGED <<handleVars, chatOpts, sourceThrew, appendError, slipped, viewVars>>

----------------------------------------------------------------------------
(* The messages *)

\* getOrCreateMessage.
WithMessage(msgs, id) ==
    IF \E k \in DOMAIN msgs : msgs[k].id = id THEN msgs
    ELSE Append(msgs, [id |-> id, text |-> <<>>])

\* One chunk: text is the deltas it is put together from, by position; the
\* messages of a MESSAGES_SNAPSHOT chunk in the stream are none.
ApplyChunk(msgs, pos) ==
    LET chunk == chatOpts.chunks[stored[pos]]
        more  == WithMessage(msgs, chunk.id)
    IN CASE chunk.type = "snapshot" -> <<>>
         [] chunk.type = "start"    -> more
         [] chunk.type = "content"  ->
              [k \in DOMAIN more |->
                 IF more[k].id = chunk.id THEN [more[k] EXCEPT !.text = Append(@, pos)] ELSE more[k]]
         [] OTHER -> msgs

\* applyChunksToMessages.
ApplyChunksToMessages(positions) ==
    LET after[k \in 0 .. Len(positions)] ==
          IF k = 0 THEN <<>> ELSE ApplyChunk(after[k - 1], positions[k])
    IN after[Len(positions)]

----------------------------------------------------------------------------
(* The reader *)

Positions(from, to) == [k \in 1 .. (to - from) |-> from + k]

\* materializeSnapshotFromDurableStream, for a page rendered on the server: its
\* messages and its offset are what the connection starts from.
MaterializeSnapshot ==
    /\ subscribes = 0 /\ chatOpts.resumes /\ chatOffset = -1
    /\ shown' = Positions(0, Len(stored)) /\ chatOffset' = Len(stored)
    /\ messages' = ApplyChunksToMessages(shown')
    /\ UNCHANGED <<handleVars, chatOpts, writerVars, sub, handed, batches, snapshotting,
                   gathered, cut, subscribes>>

\* A reading session begins after the offset it is given.
Reading(offset) ==
    /\ sub = "off" /\ sub' = "on"
    /\ subscribes < chatOpts.maxSubscribes /\ subscribes' = subscribes + 1
    /\ handed' = offset /\ batches' = <<>> /\ gathered' = <<>>
    /\ UNCHANGED <<handleVars, chatOpts, writerVars, chatOffset, messages, cut>>

\* subscribe(): on from state.offset; a snapshot comes first when there is none.
Subscribe ==
    /\ chatOpts.resumes
    /\ Reading(IF chatOffset = -1 THEN 0 ELSE chatOffset)
    /\ snapshotting' = (chatOpts.snapshot /\ chatOffset = -1)
    /\ UNCHANGED shown

\* The AI SDK transport, sendMessages() and reconnectToStream(): the stream from
\* its beginning, to a new message.
ReadUiMessageChunks ==
    /\ ~chatOpts.resumes
    /\ Reading(0)
    /\ shown' = <<>> /\ UNCHANGED snapshotting

\* subscribeJson: a batch is pushed.  It need not be all there is.
BatchPushed(to) ==
    /\ sub = "on" /\ to \in handed .. Len(stored) /\ handed' = to
    /\ to = handed => to = Len(stored) /\ snapshotting /\ batches = <<>>
    /\ batches' = Append(batches, [from |-> handed, to |-> to, upToDate |-> to = Len(stored)])
    /\ UNCHANGED <<handleVars, chatOpts, writerVars, sub, chatOffset, snapshotting, gathered,
                   shown, messages, cut, subscribes>>

\* Mutant: the offset is not kept.
OffsetForgotten(b) == chatOffset
OffsetAfter(b) == IF chatOpts.resumes THEN b.to ELSE chatOffset

\* The next batch: state.offset first; then it is gathered until upToDate, or its
\* chunks are yielded.
BatchTaken ==
    LET b   == Head(batches)
        new == Positions(b.from, b.to)
    IN /\ sub = "on" /\ batches # <<>> /\ batches' = SubSeq(batches, 2, Len(batches))
       /\ chatOffset' = OffsetAfter(b)
       /\ IF snapshotting
          THEN /\ gathered' = gathered \o new
               /\ snapshotting' = ~b.upToDate
               /\ IF b.upToDate
                  THEN shown' = gathered' /\ messages' = ApplyChunksToMessages(gathered')
                  ELSE UNCHANGED <<shown, messages>>
          ELSE shown' = shown \o new /\ UNCHANGED <<gathered, snapshotting, messages>>
       /\ UNCHANGED <<handleVars, chatOpts, writerVars, sub, handed, cut, subscribes>>

\* abortSignal, while nothing is on its way to the consumer, and in the middle of
\* a batch.  What was gathered is dropped, the offset is not.
Unsubscribe ==
    /\ sub = "on" /\ sub' = "off" /\ batches' = <<>> /\ gathered' = <<>>
    /\ cut' = (cut \/ (snapshotting /\ chatOffset > 0))
    /\ UNCHANGED <<handleVars, chatOpts, writerVars, chatOffset, handed, snapshotting, shown,
                   messages, subscribes>>

UnsubscribeInBatch(k) ==
    /\ sub = "on" /\ batches # <<>> /\ ~snapshotting
    /\ k \in 0 .. (Head(batches).to - Head(batches).from - 1)
    /\ sub' = "off" /\ batches' = <<>> /\ cut' = TRUE
    /\ chatOffset' = OffsetAfter(Head(batches))
    /\ shown' = shown \o Positions(Head(batches).from, Head(batches).from + k)
    /\ UNCHANGED <<handleVars, chatOpts, writerVars, handed, snapshotting, gathered, messages,
                   subscribes>>

----------------------------------------------------------------------------
\* Nobody writes or reads.
ChatRests ==
    /\ chatOpts \in ChatSetups
    /\ sourceThrew = FALSE /\ appendError = FALSE /\ slipped = {}
    /\ sub = "off" /\ chatOffset = -1 /\ handed = 0 /\ batches = <<>> /\ snapshotting = FALSE
    /\ gathered = <<>> /\ shown = <<>> /\ messages = <<>> /\ cut = FALSE /\ subscribes = 0

ChatInit ==
    /\ HandleInit /\ ChatRests /\ handleOpts = chatOpts.handle
    /\ writing = IF chatOpts.session THEN "echo" ELSE "loop"

WriterStep ==
    \/ EchoMessages \/ EchoWritten \/ SourceYields \/ SourceEnds
    \/ AppendErrorNoticed \/ WriterDrains \/ WriterEnds

\* The server's steps, and an answer's, which waits for the microtasks.
HandleStep ==
    \/ \E p \in arriving : HandleAppendRequest(p)
    \/ ~Unnoticed /\ \E a \in replies : ReplyArrives(a)

ChatNext ==
    \/ WriterStep \/ SourceThrows \/ ChatQueueReleases
    \/ HandleStep /\ UNCHANGED chatOwnVars
    \/ ~Unnoticed /\ \E p \in inFlight : FetchGetsNoAnswer(p) /\ UNCHANGED chatOwnVars
    \/ MaterializeSnapshot \/ Subscribe \/ ReadUiMessageChunks \/ BatchTaken \/ Unsubscribe
    \/ \E k \in 0 .. MaxAppends : UnsubscribeInBatch(k)
    \/ \E to \in 0 .. Len(stored) : BatchPushed(to)

\* The server answers, microtasks run, and the model's answer has an end.
ChatFairness ==
    /\ WF_chatVars(WriterStep) /\ WF_chatVars(ChatQueueReleases)
    /\ WF_chatVars(HandleStep /\ UNCHANGED chatOwnVars)

ChatSpec == ChatInit /\ [][ChatNext]_chatVars /\ ChatFairness

----------------------------------------------------------------------------
(* Properties *)

\* The text of a message: its deltas since the last MESSAGES_SNAPSHOT chunk.
Deltas(positions, id) ==
    LET reset == {k \in DOMAIN positions : chatOpts.chunks[stored[positions[k]]].type = "snapshot"}
    IN SelectSeq(positions, LAMBDA pos :
          /\ chatOpts.chunks[stored[pos]] = [type |-> "content", id |-> id]
          /\ \A k \in reset : positions[k] < pos)

FirstCopy(m) == SelectInSeq(stored, LAMBDA x : x = m)

\* writeSourceToStream and subscribe(): what is in the stream is what the model
\* said, without a hole, however appends fail or are retried (a retry may store a
\* chunk twice), but for a chunk the model yields between the rejection of an
\* append and its catch(), which may be stored behind the hole; a writer that reports
\* success has stored all of it and, outside a session, closed the stream; and
\* what the user interface shows is the beginning of the stream, each chunk once,
\* snapshots and re-subscriptions included, with every message's text complete.
\* (An abort after state.offset has moved and before the chunks are yielded
\* loses them for the next subscription: cut.)
ChatShowsSource ==
    /\ writing # "none" => \A m \in 1 .. MaxAppends \ slipped : FirstCopy(m) > 0 =>
          \A k \in 1 .. m : FirstCopy(k) \in 1 .. FirstCopy(m)
    /\ writing = "ok" =>
          /\ \A m \in DOMAIN chatOpts.chunks : FirstCopy(m) > 0
          /\ chatOpts.session \/ streamShut
    /\ ~cut => \A k \in DOMAIN shown : shown[k] = k
    /\ ~cut /\ chatOffset > 0 /\ ~snapshotting => Len(shown) = chatOffset
    /\ \A k \in DOMAIN messages : \E n \in 0 .. Len(shown) :
          messages[k].text = Deltas(SubSeq(shown, 1, n), messages[k].id)

\* The writer comes to an end, and outside a session has then tried to close
\* the stream, whatever failed: only an append that the handle has left in its
\* buffer (StreamHandle's stranded) makes it wait for ever.
ChatWriterEnds ==
    []<>(\/ writing = "none" \/ stranded # {}
         \/ writing \in {"ok", "failed"} /\ (chatOpts.session \/ closeCall # "none"))
=============================================================================
