---------------------------- MODULE StreamReader ----------------------------
(***************************************************************************)
(* A read session of the TypeScript client (packages/client/src/           *)
(* response.ts, stream-response-state.ts, stream-api.ts, sse.ts) against   *)
(* the read handlers of the server (handleRead and handleSSE of server.ts).*)
(*                                                                         *)
(* The session is a ReadableStream of responses.  Its pull() fetches,      *)
(* long-polls or reads an SSE connection, and awaits in between; the page  *)
(* may be hidden at any of these points, connections end, the stream grows *)
(* and is closed.  pull records where pull() waits.                        *)
(*                                                                         *)
(* Messages are 1, 2, ... and an offset is the number of messages before   *)
(* it, so "-1" is 0.  A response is the messages from + 1 .. to.  Retries  *)
(* of createFetchWithBackoff are invisible: a GET changes nothing.         *)
(***************************************************************************)
EXTENDS Integers, Sequences, SequencesExt

CONSTANTS
    ReaderSetups,     \* how the session is used
    MaxTail,          \* bound: messages of the stream
    MaxHides,         \* bound: visibility changes to hidden
    MaxBreaks,        \* bound: SSE connections that end early
    MaxShortConnections

\* live: true and "long-poll" are "long-poll".  accumulate: json(), text() and
\* body(); pipe: bodyStream() and textStream(); subscribe: jsonStream(), which
\* reads on as its own consumer does, and the subscribers.  One of them is used
\* (#ensureNoConsumption).  now: the session starts at the tail.  capped: the
\* server splits what it returns, as the Cloudflare server does.
ReaderSetup == [live : {"false", "long-poll", "sse"},
                consumer : {"accumulate", "pipe", "subscribe"},
                now : BOOLEAN, capped : BOOLEAN]

ASSUME ReaderBounds ==
    /\ MaxTail \in Nat /\ MaxHides \in Nat /\ MaxBreaks \in Nat
    /\ MaxShortConnections \in Nat \ {0} /\ ReaderSetups \subseteq ReaderSetup

VARIABLES
    opts,
    tail, shut,      \* the stream: its messages, and whether it is closed
    sync,            \* #syncState: [offset, upToDate, streamClosed, sse, short]
    pull,            \* where pull() waits, "none" when it is not running
    pullAgain,       \* the flag of ReadableStream
    chunks,          \* responses enqueued and not read
    reading,         \* what the consumer awaits: a read, or its own callback
    wasUpToDate,     \* pipe: upToDate when it was handed the response it pipes
    visible,         \* #state: "active", "pause-requested", "paused"
    aborting,        \* the request's controller was aborted with PAUSE_STREAM
    conn,            \* the SSE connection
    buffered,        \* data events that wait for their control event
    ended,           \* "no", "closed", "error", "cancelled"
    got,             \* history: messages handed to the consumer
    startedAt,       \* history: the offset of the first message it wants
    torn,            \* history: a connection ended between data and control
    dropped,         \* history: pull() returned empty-handed for the last time
    cutShort,        \* history: the pipe stopped before a response that was queued
    hides, breaks

readerVars == <<opts, tail, shut, sync, pull, pullAgain, chunks, reading, wasUpToDate,
                visible, aborting, conn, buffered, ended, got, startedAt, torn, dropped,
                cutShort, hides, breaks>>
streamVars == <<opts, tail, shut, startedAt, hides>>
pageVars == <<visible, aborting, hides>>
consumerVars == <<reading, wasUpToDate, cutShort>>

NoConn == [st |-> "none", pos |-> 0, out |-> <<>>, started |-> FALSE]
NewConn(offset) == [st |-> "open", pos |-> offset, out |-> <<>>, started |-> FALSE]

Chunk(from, to, upToDate) == [from |-> from, to |-> to, upToDate |-> upToDate]

Accumulates == opts.consumer = "accumulate"

ContinueWhileBehind(s) ==
    ~s.upToDate /\ opts.live # "false" /\ ~s.streamClosed

\* shouldContinueLive.
ShouldContinueLive(s) ==
    /\ ~(Accumulates /\ s.upToDate)
    /\ opts.live # "false"
    /\ ~s.streamClosed

\* Where pull() awaits a request, or the body of one.
Abortable == {"fetch", "resumed-fetch", "start-sse", "resumed-sse", "events",
              "reconnect", "reconnect-data"}

Ended == ended # "no"
Hidden == visible \in {"pause-requested", "paused"}

----------------------------------------------------------------------------
(* The stream *)

WriterAppends ==
    /\ tail < MaxTail /\ ~shut
    /\ tail' = tail + 1
    /\ UNCHANGED <<opts, shut, sync, pull, pullAgain, chunks, consumerVars, pageVars, conn,
                   buffered, ended, got, startedAt, torn, dropped, breaks>>

WriterCloses ==
    /\ ~shut
    /\ shut' = TRUE
    /\ UNCHANGED <<opts, tail, sync, pull, pullAgain, chunks, consumerVars, pageVars, conn,
                   buffered, ended, got, startedAt, torn, dropped, breaks>>

----------------------------------------------------------------------------
(* Server: handleRead.  A long-poll that has caught up is answered with 204 *)
(* when it times out and when the stream is closed; otherwise the answer is *)
(* what the store holds after the offset, up to the cap.                    *)

Ends(offset) == IF opts.capped /\ tail > offset THEN (offset + 1) .. tail ELSE {tail}

ReadAnswer(offset, to) ==
    [from |-> offset, to |-> to, upToDate |-> to = tail,
     closed |-> shut /\ to = tail]

\* withResponseMetadata, of LongPollState and of SSEState.
WithResponse(s, a) ==
    [s EXCEPT !.offset = a.to, !.upToDate = a.upToDate, !.streamClosed = @ \/ a.closed]

\* #updateStateFromResponse.
UpdateStateFromResponse(a) == sync' = WithResponse(sync, a)

ControlWithoutOffset(s, e) ==
    [s EXCEPT !.streamClosed = @ \/ e.closed, !.upToDate = e.closed \/ e.upToDate \/ @]

\* withSSEControl: upToDate is kept when the event does not carry it.
WithControl(s, e) ==
    [s EXCEPT !.offset = e.next, !.streamClosed = @ \/ e.closed,
              !.upToDate = e.closed \/ e.upToDate \/ @]

\* Server: handleSSE, one turn of its loop: a data event when there is data,
\* then a control event; the connection ends after the event that says closed.
SSEServerTurn ==
    /\ conn.st = "open" /\ conn.out = <<>>
    /\ \E to \in Ends(conn.pos) :
         LET atTail == to = tail
             data == IF to > conn.pos
                     THEN <<[type |-> "data", from |-> conn.pos, to |-> to]>> ELSE <<>>
             control == [type |-> "control", next |-> to, closed |-> shut /\ atTail,
                         upToDate |-> ~shut /\ atTail]
         IN conn' = [st |-> IF shut /\ atTail THEN "eof" ELSE "open", pos |-> to,
                     out |-> data \o <<control>>, started |-> TRUE]
    /\ UNCHANGED <<streamVars, sync, pull, pullAgain, chunks, consumerVars, visible, aborting,
                   buffered, ended, got, torn, dropped, breaks>>

\* The connection ends without an error (a proxy, a restarted server), after
\* any part of what was written.
SSEConnectionEnds ==
    /\ conn.st = "open" /\ breaks < MaxBreaks
    /\ \E n \in 0 .. Len(conn.out) :
         conn' = [conn EXCEPT !.st = "eof", !.out = SubSeq(@, 1, n)]
    /\ breaks' = breaks + 1
    /\ UNCHANGED <<streamVars, sync, pull, pullAgain, chunks, consumerVars, visible, aborting,
                   buffered, ended, got, torn, dropped>>

----------------------------------------------------------------------------
(* ReadableStream.  External: pull() runs when a read is pending or nothing *)
(* is queued; a request for another pull while it runs is remembered.       *)

WantsPull(q, pending) == q = <<>> \/ pending

\* The responses q are queued; a pending read takes the first.  (jsonStream()
\* reads again when it has handed over its items, or had none.)
Handed(q) == reading = "read" /\ q # <<>>
LeftOf(q) == IF Handed(q) THEN Tail(q) ELSE q

Enqueues(q) ==
    /\ chunks' = LeftOf(q)
    /\ got' = IF Handed(q) THEN got \o [k \in 1 .. (q[1].to - q[1].from) |-> q[1].from + k]
              ELSE got
    /\ reading' = CASE ~Handed(q) -> reading
                    [] Handed(q) /\ Accumulates /\ q[1].upToDate -> "done"
                    [] OTHER -> "callback"
    /\ wasUpToDate' = IF Handed(q) THEN sync'.upToDate ELSE wasUpToDate
    /\ UNCHANGED cutShort

\* pull() settles, having enqueued q (and so asked for another pull).
PullReturns(q) ==
    LET again == pullAgain \/ q # chunks
        want  == again /\ WantsPull(LeftOf(q), reading = "read" /\ ~Handed(q))
    IN  /\ Enqueues(q)
        /\ pull' = IF want THEN "begin" ELSE "none"
        /\ pullAgain' = FALSE
        /\ dropped' = (dropped \/ (~again /\ reading = "read" /\ q = <<>>))

\* markClosed() and controller.close(), markError() and controller.error().
Finish(how) ==
    /\ ended' = how /\ pull' = "none"
    /\ chunks' = IF how = "error" THEN <<>> ELSE chunks
    /\ UNCHANGED <<pullAgain, got, consumerVars, dropped>>

\* pipeBodyStream stops after a response it was handed up to date, when by now
\* nothing more is expected.
PipeBreaks ==
    opts.consumer = "pipe" /\ wasUpToDate /\ ~ShouldContinueLive(sync)

\* The consumer calls read() after its callback.
ConsumerReads ==
    /\ reading = "callback" /\ ~PipeBreaks
    /\ UNCHANGED cutShort
    /\ IF chunks # <<>>
       THEN /\ chunks' = Tail(chunks)
            /\ got' = got \o [k \in 1 .. (chunks[1].to - chunks[1].from) |->
                                  chunks[1].from + k]
            /\ reading' = IF Accumulates /\ chunks[1].upToDate THEN "done" ELSE "callback"
            /\ wasUpToDate' = sync.upToDate
       ELSE /\ reading' = IF Ended THEN "done" ELSE "read"
            /\ UNCHANGED <<chunks, got, wasUpToDate>>
    /\ IF Ended THEN UNCHANGED <<pull, pullAgain>>
       ELSE IF pull = "none" THEN pull' = "begin" /\ UNCHANGED pullAgain
       ELSE pullAgain' = TRUE /\ UNCHANGED pull
    /\ UNCHANGED <<streamVars, sync, visible, aborting, conn, buffered, ended, torn,
                   dropped, breaks>>

\* body(), json() and text() stop at the first upToDate, and mark the session
\* closed.
ConsumerStops ==
    /\ reading = "done" /\ ~Ended /\ Accumulates
    /\ Finish("closed")
    /\ UNCHANGED <<streamVars, sync, visible, aborting, conn, buffered, torn, breaks>>

\* The pipe's loop ends: the writable is closed and the session with it.
PipeStops ==
    /\ reading = "callback" /\ PipeBreaks /\ ended \in {"no", "closed"}
    /\ reading' = "done" /\ ended' = "closed" /\ pull' = "none"
    /\ cutShort' = (chunks # <<>>)
    /\ UNCHANGED <<streamVars, sync, pullAgain, chunks, wasUpToDate, visible, aborting,
                   conn, buffered, got, torn, dropped, breaks>>

\* A subscriber's callback throws, a body is not JSON, or the pipe's reader is
\* gone: the session fails.
ConsumerFails ==
    /\ reading = "callback" /\ ~Accumulates /\ ~Ended
    /\ reading' = "done" /\ ended' = "error" /\ pull' = "none"
    /\ UNCHANGED <<streamVars, sync, pullAgain, chunks, wasUpToDate, cutShort, visible, aborting,
                   conn, buffered, got, torn, dropped, breaks>>

\* cancel().
Cancel ==
    /\ ~Ended
    /\ ended' = "cancelled" /\ pull' = "none"
    /\ UNCHANGED <<streamVars, sync, pullAgain, chunks, consumerVars, visible, aborting, conn,
                   buffered, got, torn, dropped, breaks>>

----------------------------------------------------------------------------
(* pull() *)

Elsewhere == <<streamVars, visible, aborting, torn, breaks>>

\* The held first response.
YieldFirst ==
    /\ pull = "first"
    /\ UNCHANGED <<Elsewhere, sync, conn, buffered>>
    /\ LET q == Append(chunks, Chunk(startedAt, sync.offset, sync.upToDate)) IN
       IF sync.upToDate /\ ~ShouldContinueLive(sync)
       THEN /\ ended' = "closed" /\ pull' = "none" /\ Enqueues(q)
            /\ UNCHANGED <<pullAgain, dropped>>
       ELSE PullReturns(q) /\ UNCHANGED ended

\* pull() from its start to its first await, in the order of its branches.
PullBegins ==
    /\ pull = "begin" /\ ~Ended
    /\ CASE conn.st = "none" /\ sync.upToDate /\ opts.live = "sse"
                /\ ShouldContinueLive(sync) ->
              /\ pull' = IF Hidden THEN "wait-start" ELSE "start-sse"
              /\ UNCHANGED ended
         [] conn.st # "none" ->
              /\ pull' = IF Hidden THEN "wait-events" ELSE "events"
              /\ UNCHANGED ended
         [] conn.st = "none" /\ ~(sync.upToDate /\ opts.live = "sse")
                /\ ShouldContinueLive(sync) ->
              /\ pull' = IF Hidden THEN "wait-fetch" ELSE "fetch"
              /\ UNCHANGED ended
         [] OTHER -> pull' = "none" /\ ended' = "closed"
    /\ visible' = IF Hidden /\ pull' \in {"wait-start", "wait-events", "wait-fetch"}
                  THEN "paused" ELSE visible
    /\ UNCHANGED <<streamVars, sync, pullAgain, chunks, consumerVars, aborting, conn, buffered,
                   got, torn, dropped, breaks>>

\* The answer to fetchNext.  Resuming from a pause, the request is not live and
\* is answered at once; the answer is the same.
FetchAnswered ==
    /\ pull \in {"fetch", "resumed-fetch"} /\ ~aborting /\ ~Ended
    /\ \E to \in Ends(sync.offset) :
         LET a == ReadAnswer(sync.offset, to) IN
         /\ UpdateStateFromResponse(a)
         /\ PullReturns(Append(chunks, Chunk(a.from, a.to, a.upToDate)))
    /\ UNCHANGED <<Elsewhere, conn, buffered, ended>>

\* startSSE answered: the connection is there.
SSEStarted ==
    /\ pull \in Abortable \ {"fetch", "resumed-fetch", "events"} /\ ~aborting /\ ~Ended
    /\ conn' = NewConn(sync.offset)
    /\ UNCHANGED <<Elsewhere, sync, ended>>
    /\ IF pull = "reconnect-data"
       THEN /\ PullReturns(Append(chunks, buffered)) /\ buffered' = Chunk(0, 0, FALSE)
       ELSE /\ pull' = "events"
            /\ UNCHANGED <<pullAgain, chunks, got, consumerVars, dropped, buffered>>

\* A request of pull() fails for good: the session fails.
RequestFails ==
    /\ pull \in Abortable /\ ~aborting /\ ~Ended
    /\ breaks < MaxBreaks
    /\ breaks' = breaks + 1
    /\ Finish("error")
    /\ UNCHANGED <<streamVars, sync, visible, aborting, conn, buffered, torn>>

----------------------------------------------------------------------------
(* pull() reading an SSE connection *)

\* An event of parseSSEStream: data is buffered until its control event; a
\* control event alone is passed on when it says upToDate.
SSEEvent ==
    /\ pull = "events" /\ ~aborting /\ ~Ended /\ conn.out # <<>>
    /\ LET e == Head(conn.out) IN
       /\ conn' = [conn EXCEPT !.out = Tail(@)]
       /\ \/ /\ e.type = "data"
             /\ buffered' = IF buffered.to = 0 THEN Chunk(e.from, e.to, FALSE)
                            ELSE [buffered EXCEPT !.to = e.to]
             /\ UNCHANGED <<sync, pull, pullAgain, chunks, got, consumerVars, dropped>>
          \/ /\ e.type = "control"
             /\ sync' = WithControl(sync, e)
             /\ buffered' = Chunk(0, 0, FALSE)
             /\ IF buffered.to > 0
                THEN PullReturns(Append(chunks, [buffered EXCEPT !.upToDate = e.upToDate]))
                ELSE IF e.upToDate
                THEN PullReturns(Append(chunks, Chunk(e.next, e.next, TRUE)))
                ELSE UNCHANGED <<pull, pullAgain, chunks, got, consumerVars, dropped>>
    /\ UNCHANGED <<Elsewhere, ended>>

\* handleConnectionEnd: a connection that lived shorter than
\* minConnectionDuration is counted, and enough of them change the state to
\* long-poll.
Reconnects(s, short) ==
    IF ~short THEN [s EXCEPT !.short = 0]
    ELSE IF s.short + 1 >= MaxShortConnections THEN [s EXCEPT !.sse = FALSE]
    ELSE [s EXCEPT !.short = @ + 1]

\* #trySSEReconnect: the state it may leave, and whether it starts another
\* connection or returns null.
TrySSEReconnect ==
    IF ~sync.sse \/ ~ShouldContinueLive(sync)
    THEN {[state |-> sync, again |-> FALSE]}
    ELSE {[state |-> s, again |-> s.sse] : s \in {Reconnects(sync, short) : short \in BOOLEAN}}

\* The connection is over.  Data without its control event is handed over with
\* the old offset; null closes the session.
SSEEnd ==
    /\ pull = "events" /\ ~aborting /\ ~Ended /\ conn.out = <<>> /\ conn.st = "eof"
    /\ LET then(again) ==
             CASE again /\ buffered.to = 0 ->
                    /\ pull' = "reconnect"
                    /\ UNCHANGED <<pullAgain, chunks, got, consumerVars, dropped, ended, buffered>>
               [] again /\ buffered.to > 0 ->
                    /\ pull' = "reconnect-data"
                    /\ UNCHANGED <<pullAgain, chunks, got, consumerVars, dropped, ended, buffered>>
               [] ~again /\ buffered.to = 0 -> Finish("closed") /\ UNCHANGED buffered
               [] OTHER ->
                    /\ PullReturns(Append(chunks, buffered))
                    /\ buffered' = Chunk(0, 0, FALSE)
                    /\ UNCHANGED ended
       IN \E r \in TrySSEReconnect : sync' = r.state /\ then(r.again)
    /\ torn' = (torn \/ buffered.to > 0)
    /\ UNCHANGED <<streamVars, visible, aborting, conn, breaks>>

----------------------------------------------------------------------------
(* The page is hidden and shown again *)

\* #pause: the request in flight is aborted, and with it the connection that is
\* being read.  A reconnection that still sleeps in its backoff is not.
PageHides ==
    /\ visible = "active" /\ hides < MaxHides /\ ~Ended
    /\ visible' = "pause-requested" /\ hides' = hides + 1
    /\ \/ pull \in Abortable /\ aborting' = TRUE
       \/ pull \notin Abortable \ {"reconnect", "reconnect-data"} /\ aborting' = FALSE
    /\ conn' = IF conn.st = "none" THEN conn ELSE [conn EXCEPT !.st = "eof", !.out = <<>>]
    /\ UNCHANGED <<opts, tail, shut, startedAt, sync, pull, pullAgain, chunks, consumerVars,
                   buffered, ended, got, torn, dropped, breaks>>

\* #resume.
PageShows ==
    /\ Hidden /\ ~Ended
    /\ visible' = "active"
    /\ UNCHANGED <<streamVars, sync, pull, pullAgain, chunks, consumerVars, aborting, conn,
                   buffered, ended, got, torn, dropped, breaks>>

\* The aborted request rejects in pull(), which returns without a response; a
\* reconnection that #processSSEEvents awaits turns it into an error.
AbortLands ==
    /\ aborting /\ ~Ended /\ pull \in Abortable
    /\ aborting' = FALSE
    /\ buffered' = Chunk(0, 0, FALSE)
    /\ UNCHANGED <<streamVars, sync, conn, torn, breaks>>
    /\ IF pull \in {"reconnect", "reconnect-data"}
       THEN Finish("error") /\ UNCHANGED visible
       ELSE /\ visible' = IF visible = "pause-requested" THEN "paused" ELSE visible
            /\ PullReturns(chunks) /\ UNCHANGED ended

ResumeReturns ==
    /\ visible = "active" /\ pull \in {"wait-fetch", "wait-start", "wait-events"} /\ ~Ended
    /\ pull' = "none"
    /\ UNCHANGED <<streamVars, sync, pullAgain, chunks, consumerVars, visible, aborting, conn,
                   buffered, ended, got, torn, dropped, breaks>>

\* pull() goes on after the pause: it fetches, starts SSE, or reconnects.
PullResumes ==
    /\ visible = "active" /\ pull \in {"wait-fetch", "wait-start", "wait-events"} /\ ~Ended
    /\ IF pull = "wait-events"
       THEN LET then(again) ==
                  IF again THEN /\ pull' = "resumed-sse"
                                /\ UNCHANGED <<pullAgain, chunks, got, consumerVars, dropped, ended>>
                  ELSE Finish("closed")
            IN \E r \in TrySSEReconnect : sync' = r.state /\ then(r.again)
       ELSE /\ pull' = IF pull = "wait-fetch" THEN "resumed-fetch" ELSE "start-sse"
            /\ UNCHANGED <<sync, pullAgain, chunks, got, consumerVars, dropped, ended>>
    /\ UNCHANGED <<streamVars, visible, aborting, conn, buffered, torn, breaks>>

----------------------------------------------------------------------------

\* The constructor, with the answer to the first request; the ReadableStream
\* pulls once when it is built.
NewSession(a) ==
    /\ sync = [offset |-> a.to, upToDate |-> a.upToDate, streamClosed |-> a.closed,
               sse |-> opts.live = "sse", short |-> 0]
    /\ startedAt = a.from
    /\ pull = "first" /\ pullAgain = FALSE /\ chunks = <<>>
    /\ reading \in {"callback", "read"} /\ wasUpToDate = FALSE
    /\ visible = "active" /\ aborting = FALSE
    /\ conn = NoConn /\ buffered = Chunk(0, 0, FALSE)
    /\ ended = "no" /\ got = <<>> /\ torn = FALSE /\ dropped = FALSE /\ cutShort = FALSE

\* stream(): a stream, and the answer to a request for what is in it.
ReaderInit ==
    /\ opts \in ReaderSetups
    /\ tail \in 0 .. MaxTail /\ shut \in BOOLEAN
    /\ hides = 0 /\ breaks = 0
    /\ \E to \in Ends(IF opts.now THEN tail ELSE 0) :
         NewSession(ReadAnswer(IF opts.now THEN tail ELSE 0, to))

ReaderStep ==
    \/ YieldFirst \/ PullBegins \/ PullResumes \/ AbortLands
    \/ FetchAnswered \/ SSEStarted \/ SSEEvent \/ SSEEnd

ReaderNext ==
    \/ ReaderStep
    \/ WriterAppends \/ WriterCloses \/ SSEServerTurn \/ SSEConnectionEnds
    \/ RequestFails \/ ConsumerReads \/ ConsumerStops \/ PipeStops \/ ConsumerFails \/ Cancel
    \/ PageHides \/ PageShows

\* Promises that can settle do, the server writes its SSE events, and the
\* consumer's callback ends.  Nothing obliges the page to be shown.
ReaderFairness ==
    /\ WF_readerVars(ReaderStep)
    /\ WF_readerVars(SSEServerTurn)
    /\ WF_readerVars(ConsumerReads) /\ WF_readerVars(ConsumerStops)
    /\ WF_readerVars(PipeStops)

ReaderSpec == ReaderInit /\ [][ReaderNext]_readerVars /\ ReaderFairness

----------------------------------------------------------------------------
(* Properties *)

\* Across chunked answers, reconnections, pauses and the change to SSE the
\* consumer gets every message once and in order; only a connection that ended
\* between a data event and its control event makes it get messages again, and
\* even then none is skipped.
ReadsInOrder ==
    \A j \in DOMAIN got :
        LET before == {startedAt} \cup {got[k] : k \in 1 .. (j - 1)}
            last   == IF j = 1 THEN startedAt ELSE got[j - 1]
        IN  /\ got[j] - 1 \in before
            /\ torn \/ got[j] = last + 1

Done(s) == s.streamClosed \/ ((Accumulates \/ opts.live = "false") /\ s.upToDate)

\* A session that ends without an error and without being cancelled has reached
\* the end it was opened for: a closed stream, or the first upToDate of a
\* catch-up read.  As the code is, two more things end it: live: false with a
\* first answer that is not the whole stream (the documentation says "stop at
\* first upToDate"), and too many short SSE connections ("fall back to
\* long-polling mode", which the code does not do).
EndsAsExpected ==
    ended = "closed" =>
        \/ Done(sync)
        \/ opts.live = "false" /\ opts.capped
        \/ opts.live = "sse" /\ ~sync.sse

\* A session whose consumer sees it end without an error has handed over
\* everything its offset stands for.  A pipe may miss the end: while it writes
\* a response that was up to date, pull() may fetch the last messages with
\* Stream-Closed, and the loop stops before the response they are in (cutShort).
HandsOverAll ==
    (ended = "closed" /\ reading # "callback") =>
        (startedAt + 1) .. sync.offset \subseteq ToSet(got) \/ cutShort

\* What a session hands over, and the end it comes to, are those of the stream.
ReadsWhatIsThere == ReadsInOrder /\ EndsAsExpected /\ HandsOverAll

\* A live session that stays open and visible hands over every message, unless
\* pull() was interrupted twice by pauses while one read was pending (dropped):
\* then nothing calls pull() again.
ReaderCatchesUp ==
    []<>(\/ (startedAt + 1) .. tail \subseteq ToSet(got)
         \/ Ended \/ Hidden \/ dropped
         \/ Accumulates \/ opts.live = "false")
=============================================================================
