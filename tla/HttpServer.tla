----------------------------- MODULE HttpServer -----------------------------
(* The HTTP surface of server.ts over the in-memory store, as its readers   *)
(* see it: one path, conditional GETs, long-polls whose answers a shared    *)
(* cache may keep, SSE connections, deletion and re-creation of the stream, *)
(* stop() and start() of the server, injected faults, and the cursors of    *)
(* cursor.ts.                                                               *)
(*                                                                          *)
(* The store is synchronous and what a resolved wait does next runs before  *)
(* any other request is looked at: a write and the answers it wakes are one *)
(* step.  StreamStore models the store itself, with forks and producers.    *)
EXTENDS Integers, Sequences, SequencesExt, FiniteSets

CONSTANTS
    HttpClients,
    HttpSetups,     \* what the clients are, and the bounds of the behaviour
    MaxLength,      \* bound: messages of a stream
    MaxJitter       \* bound: intervals a cursor is moved by

FromBegin == -1     \* offset=-1
FromNow == -2     \* offset=now

\* Bounds: maxLives, creations of the stream; maxInterval, intervals of the cursor
\* clock; maxTimeouts, waits that time out; maxTroubles, stops, disconnections and
\* injected faults.
HttpSetup ==
    [client : [HttpClients -> [mode : {"conditional", "long-poll", "sse"},
                               from : {FromBegin, FromNow}]],
     caching : BOOLEAN,
     maxLives : Nat \ {0}, maxInterval : Nat \ {0}, maxTimeouts : Nat, maxTroubles : Nat]

ASSUME HttpAssumption ==
    /\ HttpSetups \subseteq HttpSetup
    /\ {MaxLength, MaxJitter} \subseteq Nat \ {0}

VARIABLES
    httpSetup,
    lives,      \* every stream the path has had: [len, closed]
    exists,     \* whether the last of them is in the store
    agents,     \* the clients
    edge,       \* the cache: [off, cursor, answer]
    interval,   \* calculateCursor()
    running,    \* FALSE from stop() to the next start()
    fault,      \* the count of the injected fault, 0 for none
    timeouts, troubles

httpVars == <<httpSetup, lives, exists, agents, edge, interval, running, fault, timeouts, troubles>>

\* A stream as a request finds it: which one, its messages 1 .. len, its flag.
StreamAt(life, len, closed) == [life |-> life, len |-> len, closed |-> closed]
Life == Len(lives)
Mode(c) == httpSetup.client[c].mode
StartOffset(c) == httpSetup.client[c].from
Current == StreamAt(Life, lives[Life].len, lives[Life].closed)
NoStreamYet == StreamAt(0, 0, FALSE)

\* state: "idle", "waiting" (in waitForMessages), "hung" (an SSE response
\* nobody will end), "over" (told that the stream is closed, or a 404).
NewAgent(from) ==
    [state |-> "idle", off |-> from, at |-> 0, cursor |-> 0, got |-> <<>>,
     eof |-> 0, copy |-> NoStreamYet, truth |-> NoStreamYet]

----------------------------------------------------------------------------
(* cursor.ts *)

\* Mutant: a cursor at the current interval is answered with itself.
CursorStays(cursor, jitter) == IF cursor <= interval THEN interval ELSE cursor + jitter

\* generateResponseCursor: 0 is no cursor.
GenerateResponseCursor(cursor, jitter) ==
    IF cursor < interval THEN interval ELSE cursor + jitter

\* The clock.
IntervalPasses ==
    /\ interval < httpSetup.maxInterval /\ interval' = interval + 1
    /\ UNCHANGED <<httpSetup, lives, exists, agents, edge, running, fault, timeouts, troubles>>

----------------------------------------------------------------------------
(* What the answers carry *)

\* store.read(): the messages of the stream s after an offset.
ReadFrom(s, off) ==
    LET start == IF off = FromBegin THEN 0 ELSE off IN
    [k \in 1 .. (IF start < s.len THEN s.len - start ELSE 0) |-> <<s.life, start + k>>]

\* An answer; eof names the stream whose Stream-Closed it carries.
HttpAnswer(msgs, off, cursor, eof) ==
    [msgs |-> msgs, off |-> off, cursor |-> cursor, eof |-> eof]

\* What a client does with one.  Without a cursor it keeps the one it has.
Receive(a, answer) ==
    [a EXCEPT !.got = @ \o answer.msgs, !.off = answer.off,
              !.cursor = IF answer.cursor = 0 THEN @ ELSE answer.cursor,
              !.eof = answer.eof, !.state = IF answer.eof # 0 THEN "over" ELSE "idle"]

\* The response of handleRead once it has its messages: the offset of the last
\* one or the tail, Stream-Closed at the tail of a closed stream.
ReadResponse(s, msgs, cursor) ==
    LET end == IF msgs = <<>> THEN s.len ELSE Last(msgs)[2] IN
    HttpAnswer(msgs, end, cursor, IF s.closed /\ end = s.len THEN s.life ELSE 0)

----------------------------------------------------------------------------
(* GET *)

\* A request is looked at: the server is up and no fault is injected.
Served == running /\ fault = 0

WaitingIn(mode) == {c \in HttpClients : Mode(c) = mode /\ agents[c].state = "waiting"}

\* External: a cache that keeps every answer of a long-poll request, or none.
Remember(new) == edge' = IF httpSetup.caching THEN edge \cup new ELSE edge
Entry(a, answer) == [off |-> a.off, cursor |-> a.cursor, answer |-> answer]
CachedFor(a) == {e \in edge : e.off = a.off /\ e.cursor = a.cursor}

AgentBecomes(c, a) == agents' = [agents EXCEPT ![c] = a]

\* 404, and 410 of a soft-deleted stream.
GetNothing(c) ==
    /\ Served /\ ~exists /\ agents[c].state = "idle"
    /\ Mode(c) = "long-poll" => CachedFor(agents[c]) = {}
    /\ AgentBecomes(c, [agents[c] EXCEPT !.state = "over"])
    /\ UNCHANGED <<httpSetup, lives, exists, edge, interval, running, fault, timeouts, troubles>>

\* Mutant: the ETag does not say that the stream is closed.
ETagOfData(s) == s.len
\* The ETag of a response to offset=-1: the path (there is one) and the end,
\* and a suffix when Stream-Closed is set.  It does not name the stream itself.
ETag(s) == <<s.len, s.closed>>

\* A catch-up read with If-None-Match: 304 leaves the client its copy.
GetConditional(c) ==
    LET a    == agents[c]
        same == a.copy # NoStreamYet /\ ETag(a.copy) = ETag(Current)
    IN /\ Served /\ exists /\ Mode(c) = "conditional" /\ a.state = "idle"
       /\ AgentBecomes(c, [a EXCEPT !.copy = IF same THEN @ ELSE Current, !.truth = Current])
       /\ UNCHANGED <<httpSetup, lives, exists, edge, interval, running, fault, timeouts, troubles>>

\* A long-poll: offset=now is the tail; a client at the tail of an open stream
\* waits, at the tail of a closed one it gets a 204 with no cursor.  On an empty
\* stream offset=-1 is not the tail: it is answered.
GetLongPoll(c) ==
    LET a    == agents[c]
        off  == IF a.off = FromNow THEN Current.len ELSE a.off
        msgs == ReadFrom(Current, off)
    IN /\ Served /\ exists /\ Mode(c) = "long-poll" /\ a.state = "idle"
       /\ CachedFor(a) = {}
       /\ IF off = Current.len
          THEN IF Current.closed
               THEN LET ans == HttpAnswer(<<>>, off, 0, Life) IN
                    AgentBecomes(c, Receive(a, ans)) /\ Remember({Entry(a, ans)})
               ELSE AgentBecomes(c, [a EXCEPT !.state = "waiting", !.at = off]) /\ UNCHANGED edge
          ELSE \E j \in 1 .. MaxJitter :
                 LET ans == ReadResponse(Current, msgs, GenerateResponseCursor(a.cursor, j)) IN
                 AgentBecomes(c, Receive(a, ans)) /\ Remember({Entry(a, ans)})
       /\ UNCHANGED <<httpSetup, lives, exists, interval, running, fault, timeouts, troubles>>

\* External: the cache answers what it has an answer for.
GetFromCache(c) ==
    /\ Mode(c) = "long-poll" /\ agents[c].state = "idle"
    /\ \E e \in CachedFor(agents[c]) : AgentBecomes(c, Receive(agents[c], e.answer))
    /\ UNCHANGED <<httpSetup, lives, exists, edge, interval, running, fault, timeouts, troubles>>

\* handleSSE, one turn of its loop from offset off: the messages in one data
\* event, the control event; it ends with Stream-Closed or waits.  The cursors of
\* its events reach no cache.
SSETurn(s, a, off) ==
    LET ans == ReadResponse(s, ReadFrom(s, off), 0)
        b   == Receive(a, ans)
    IN IF ans.eof # 0 THEN b ELSE [b EXCEPT !.state = "waiting", !.at = ans.off]

OpenSSE(c) ==
    LET a == agents[c] IN
    /\ Served /\ exists /\ Mode(c) = "sse" /\ a.state = "idle"
    /\ AgentBecomes(c, SSETurn(Current, a, IF a.off = FromNow THEN Current.len ELSE a.off))
    /\ UNCHANGED <<httpSetup, lives, exists, edge, interval, running, fault, timeouts, troubles>>

----------------------------------------------------------------------------
(* Writes, and the waits they end *)

\* The answer of a wait at offset a.at that a write to s ends: the messages as
\* handleRead sends them, or a 204 with Stream-Closed.
WokenPoll(s, a, jitter) ==
    LET msgs   == ReadFrom(s, a.at)
        cursor == GenerateResponseCursor(a.cursor, jitter)
    IN IF msgs = <<>> THEN HttpAnswer(<<>>, a.at, cursor, s.life)
                      ELSE ReadResponse(s, msgs, cursor)

\* The stream is s from now on: who waits is answered.
Write(s) ==
    /\ lives' = [lives EXCEPT ![s.life] = [len |-> s.len, closed |-> s.closed]]
    /\ \E jitter \in [HttpClients -> 1 .. MaxJitter] :
         LET answer(c) == WokenPoll(s, agents[c], jitter[c]) IN
         /\ agents' = [c \in HttpClients |->
                CASE c \in WaitingIn("long-poll") -> Receive(agents[c], answer(c))
                  [] c \in WaitingIn("sse")       -> SSETurn(s, agents[c], agents[c].at)
                  [] OTHER                        -> agents[c]]
         /\ Remember({Entry(agents[c], answer(c)) : c \in WaitingIn("long-poll")})
    /\ UNCHANGED <<httpSetup, exists, interval, running, fault, timeouts, troubles>>

\* PUT of a new stream, empty or with a first message, open or closed.  On one
\* that exists PUT changes nothing.
PutStream(len, closed) ==
    /\ Served /\ ~exists /\ Life < httpSetup.maxLives
    /\ lives' = Append(lives, [len |-> len, closed |-> closed]) /\ exists' = TRUE
    /\ UNCHANGED <<httpSetup, agents, edge, interval, running, fault, timeouts, troubles>>

\* POST of a message, maybe the last one.  A closed stream refuses (409).
PostMessage(close) ==
    /\ Served /\ exists /\ ~Current.closed /\ Current.len < MaxLength
    /\ Write(StreamAt(Life, Current.len + 1, close))

\* POST with Stream-Closed and no body.
PostClose ==
    /\ Served /\ exists /\ ~Current.closed
    /\ Write(StreamAt(Life, Current.len, TRUE))

\* DELETE: who waits is woken with no messages.  A long-poll finds no stream
\* (404).  So does an SSE loop, but its headers are sent: the error handler of
\* handleRequest fails, start()'s does nothing, and the response stays open.
DeleteStream ==
    /\ Served /\ exists /\ exists' = FALSE
    /\ agents' = [c \in HttpClients |->
           CASE c \in WaitingIn("long-poll") -> [agents[c] EXCEPT !.state = "over"]
             [] c \in WaitingIn("sse")       -> [agents[c] EXCEPT !.state = "hung"]
             [] OTHER                        -> agents[c]]
    /\ UNCHANGED <<httpSetup, lives, edge, interval, running, fault, timeouts, troubles>>

----------------------------------------------------------------------------
(* Timeouts, lost connections, stop() and start(), injected faults *)

\* longPollTimeout: a 204, which the cache may keep.  (An SSE loop sends a
\* control event and waits again: nothing changes.)
PollTimesOut(c) ==
    /\ timeouts < httpSetup.maxTimeouts /\ timeouts' = timeouts + 1
    /\ c \in WaitingIn("long-poll")
    /\ \E j \in 1 .. MaxJitter :
         LET a   == agents[c]
             ans == HttpAnswer(<<>>, a.at, GenerateResponseCursor(a.cursor, j), 0)
         IN AgentBecomes(c, Receive(a, ans)) /\ Remember({Entry(a, ans)})
    /\ UNCHANGED <<httpSetup, lives, exists, interval, running, fault, troubles>>

Trouble == troubles < httpSetup.maxTroubles /\ troubles' = troubles + 1

\* The connection of a client is lost; what was on its way is lost with it.
Disconnect(c) ==
    /\ Trouble
    /\ agents[c].state \in {"waiting", "hung"}
    /\ AgentBecomes(c, [agents[c] EXCEPT !.state = "idle"])
    /\ UNCHANGED <<httpSetup, lives, exists, edge, interval, running, fault, timeouts>>

\* stop(): cancelAllWaits removes entries from the list it walks and reaches
\* every second wait; a long-poll it reaches gets an empty 200.  Every SSE
\* response is ended.
StopServer ==
    LET waiting == WaitingIn("long-poll") \cup WaitingIn("sse") IN
    /\ Trouble /\ running /\ running' = FALSE
    /\ \E reached \in SUBSET waiting, jitter \in 1 .. MaxJitter :
         LET answer(c) == ReadResponse(Current, <<>>,
                                       GenerateResponseCursor(agents[c].cursor, jitter))
             polls     == reached \cap WaitingIn("long-poll")
         IN /\ Cardinality(reached) = (Cardinality(waiting) + 1) \div 2
            /\ agents' = [c \in HttpClients |->
                  CASE c \in polls -> Receive(agents[c], answer(c))
                    [] c \in WaitingIn("sse") \/ agents[c].state = "hung"
                         -> [agents[c] EXCEPT !.state = "idle"]
                    [] OTHER -> agents[c]]
            /\ Remember({Entry(agents[c], answer(c)) : c \in polls})
    /\ UNCHANGED <<httpSetup, lives, exists, interval, fault, timeouts>>

\* server.close() has called back: no request is open.  The streams are kept.
StartServer ==
    /\ ~running /\ running' = TRUE
    /\ \A c \in HttpClients : agents[c].state # "waiting"
    /\ UNCHANGED <<httpSetup, lives, exists, agents, edge, interval, fault, timeouts, troubles>>

\* injectFault(), and POST /_test/inject-error: for the next count requests.
InjectFault(count) ==
    /\ Trouble /\ running /\ fault' = count
    /\ UNCHANGED <<httpSetup, lives, exists, agents, edge, interval, running, timeouts>>

\* clearInjectedFaults(), and DELETE /_test/inject-error.
ClearInjectedFaults ==
    /\ running /\ fault > 0 /\ fault' = 0
    /\ UNCHANGED <<httpSetup, lives, exists, agents, edge, interval, running, timeouts, troubles>>

\* Mutant: the fault is not used up.
FaultIsKept(c) ==
    /\ running /\ fault > 0 /\ agents[c].state = "idle"
    /\ UNCHANGED httpVars

\* consumeInjectedFault: the request is dropped, or answered with an error that
\* the client retries, before it has any effect.
ConsumeInjectedFault(c) ==
    /\ running /\ fault > 0 /\ agents[c].state = "idle" /\ fault' = fault - 1
    /\ UNCHANGED <<httpSetup, lives, exists, agents, edge, interval, running, timeouts, troubles>>

----------------------------------------------------------------------------
HttpInit ==
    /\ httpSetup \in HttpSetups
    /\ lives = <<>> /\ exists = FALSE
    /\ agents = [c \in HttpClients |-> NewAgent(StartOffset(c))]
    /\ edge = {} /\ interval = 1 /\ running = TRUE /\ fault = 0
    /\ timeouts = 0 /\ troubles = 0

HttpRequest(c) ==
    \/ GetNothing(c) \/ GetConditional(c) \/ GetLongPoll(c) \/ GetFromCache(c) \/ OpenSSE(c)
    \/ ConsumeInjectedFault(c)

HttpNext ==
    \/ \E c \in HttpClients : HttpRequest(c) \/ PollTimesOut(c) \/ Disconnect(c)
    \/ \E len \in 0 .. 1, closed \in BOOLEAN : PutStream(len, closed)
    \/ \E close \in BOOLEAN : PostMessage(close)
    \/ PostClose \/ DeleteStream \/ IntervalPasses
    \/ StopServer \/ StartServer \/ InjectFault(1) \/ ClearInjectedFaults

\* Clients send the next request when they have the answer to the last.
HttpFairness == \A c \in HttpClients : WF_httpVars(HttpRequest(c))

HttpSpec == HttpInit /\ [][HttpNext]_httpVars /\ HttpFairness

----------------------------------------------------------------------------
(* Properties *)

\* What the GETs of a client add up to, while the path is not created again: its
\* messages follow one another from the first one on (or from where "now"
\* was), Stream-Closed comes with the last of them or later, and a 304 means that
\* the client's copy, its closed flag included, is what the stream is.  Answers
\* of the cache count too.  (The ETag names the path: for a stream deleted and
\* created again a 304 may stand for other messages of the same length.)
AnswersFollowLog ==
    \A c \in HttpClients :
      LET a == agents[c] IN
      /\ Mode(c) = "sse" \/ Life = 1 => \A k \in DOMAIN a.got :
            IF k = 1 THEN StartOffset(c) = FromBegin /\ Life = 1 => a.got[k][2] = 1
            ELSE a.got[k][1] = a.got[k - 1][1] => a.got[k][2] = a.got[k - 1][2] + 1
      /\ a.eof # 0 /\ (Mode(c) = "sse" \/ Life = 1) =>
            /\ lives[a.eof].closed
            /\ a.got # <<>> /\ Last(a.got)[1] = a.eof => Last(a.got)[2] = lives[a.eof].len
            /\ a.got = <<>> /\ StartOffset(c) = FromBegin /\ Life = 1 => Current.len = 0
      /\ a.copy.life = a.truth.life => a.copy = a.truth

\* A live reader gets to the end of the stream, behind a cache that keeps every
\* 204 as well: an answer never leads back to a request that has been answered.
\* It is excused when the stream or the server is gone, when it has been told
\* that the stream does not exist or is closed, and when its SSE response hangs
\* because the stream was deleted under it.
LiveReadersCatchUp ==
    \A c \in HttpClients :
      []<>(\/ ~exists \/ ~running \/ Mode(c) = "conditional"
           \/ agents[c].state \in {"over", "hung"}
           \/ /\ \/ agents[c].off = Current.len
                 \/ agents[c].state = "waiting" /\ agents[c].at = Current.len
              /\ ~Current.closed)
=============================================================================
