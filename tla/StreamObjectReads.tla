------------------------- MODULE StreamObjectReads --------------------------
(***************************************************************************)
(* Writing to and reading from one Durable Object of the Cloudflare server *)
(* (server-cloudflare/src/stream-object.ts): POSTs with producer headers,  *)
(* reads in batches of bounded size, long-polls and SSE.  The stream may   *)
(* be a fork, whose first messages are read from the source's object: that *)
(* call, the write of an SSE frame and a wait are awaits at which the      *)
(* stream may be deleted and created again under a new generation.         *)
(*                                                                         *)
(* Offsets count messages.  ends[k] is the total size of the first k       *)
(* messages.  A client reads from the beginning and goes on from every     *)
(* offset it is told, until it is told that the stream is closed.          *)
(***************************************************************************)
EXTENDS Integers, Sequences, FiniteSets

CONSTANTS ReadSetups,     \* kind of client, inherited messages, their sizes and the byte budget; and the bounds
                          \* on deletions (rebirths) and on the times the producer's state gets too old in
                          \* one generation (ageings)
          MessageNumbers, \* epochs and numbers of the producer's messages
          CloseNumbers,   \* and of its requests to close: each stands for one request and its retries
          MaxPosts        \* messages posted to one generation

ASSUME ReadsAssumption ==
  /\ MaxPosts \in Nat
  /\ MessageNumbers \subseteq Nat \X Nat /\ CloseNumbers \subseteq (Nat \X Nat) \ MessageNumbers
  /\ \A s \in ReadSetups : /\ s.kind \in {"poll", "sse"} /\ s.inherited \in Nat /\ s.budget \in Nat \ {0}
                           /\ {s.rebirths, s.ageings} \subseteq Nat
                           /\ s.ends \in Seq(Nat) /\ Len(s.ends) >= s.inherited + MaxPosts
                           /\ \A k \in 1 .. Len(s.ends) - 1 : s.ends[k] <= s.ends[k + 1]

VARIABLES world,      \* one of the setups
          object,     \* the stream: generation (0 when there is none), messages, closed, producer; and, of its
                      \* history, what was acknowledged and where the log was when the producer's state aged
          former,     \* history: the generations that were deleted
          session,    \* the client and the request it has open
          omitted     \* history: an answer left messages out, or spoke of another generation

readVars == <<world, object, former, session, omitted>>

Inherited == world.inherited
NoProducer == [epoch |-> -1, lastSeq |-> -1]
Newborn(gen) ==
  [gen |-> gen, log |-> [k \in 1 .. Inherited |-> <<-1, k>>], closed |-> FALSE,
   closedBy |-> <<-1, -1>>, producer |-> NoProducer, acked |-> {}, aged |-> {}]
NoObject == [Newborn(0) EXCEPT !.log = <<>>]

TailOf(o) == Len(o.log)

(***************************************************************************)
(* readMessagesRange and readStitched: the offset a read from "off" gets   *)
(* to, and whether the size stopped it.  One message is always returned.   *)
(***************************************************************************)
SizeTo(k) == IF k = 0 THEN 0 ELSE world.ends[k]
Fits(from, to, bytes) == SizeTo(to) - SizeTo(from) <= bytes

\* the last message up to "upto" that fits: sizes add up, so the ones that fit come first
LastFitting(from, upto, bytes) == from + Cardinality({m \in from + 1 .. upto : Fits(from, m, bytes)})

\* the last message of (from, upto] the budget allows, or the first one
ReadMessagesRange(from, upto, bytes, oversizedFirst) ==
  LET n == LastFitting(from, upto, bytes)
  IN IF n = from /\ from < upto /\ oversizedFirst THEN from + 1 ELSE n

\* own messages follow the inherited ones within the same budget
ReadStitched(off, tail) ==
  LET a    == ReadMessagesRange(off, Inherited, world.budget, TRUE)
      left == world.budget - (SizeTo(a) - SizeTo(off))
      from == IF off < Inherited THEN Inherited ELSE off
      b    == ReadMessagesRange(from, tail, IF off < Inherited THEN left ELSE world.budget, off >= Inherited)
  IN IF off < Inherited /\ (a < Inherited \/ left <= 0) THEN [to |-> a, capped |-> TRUE]
     ELSE [to |-> b, capped |-> b < tail]

(***************************************************************************)
(* The session: where the client is, what it has, the request it waits     *)
(* for ("step"), and what the handler holds of the meta row it began with. *)
(***************************************************************************)
Start == [step |-> "idle", off |-> 0, got |-> <<>>, gen |-> 0, tail |-> 0, shut |-> FALSE, then |-> "idle",
          told |-> 0, since |-> 0]

Received(s, o, to) ==
  [s EXCEPT !.got = @ \o [k \in 1 .. to - s.off |-> [gen |-> o.gen, at |-> s.off + k, id |-> o.log[s.off + k],
                                              state |-> IF s.off + k - 1 \in o.aged THEN "new" ELSE "kept"]],
            !.off = to]

Reply(s, closed, gen) == [s EXCEPT !.step = IF closed THEN "over" ELSE "idle", !.told = IF closed THEN gen ELSE 0]

\* the meta row the handler sees last, or the one it began with
LastSeen(s, o) ==
  IF o.gen # 0 THEN [gen |-> o.gen, tail |-> TailOf(o), closed |-> o.closed]
  ELSE [gen |-> s.gen, tail |-> s.tail, closed |-> s.shut]

\* the end of handleGet
Respond(s, o, r) ==
  LET m   == LastSeen(s, o)
      t   == IF o.gen # 0 /\ r.to > s.off THEN Received(s, o, r.to) ELSE [s EXCEPT !.off = m.tail]
  IN Reply(t, m.closed /\ t.off = m.tail /\ ~r.capped, m.gen)

\* a frame of an SSE session: what was read and a control event; the pump waits for it to be taken
Frame(s, o, r) ==
  LET t == IF r.to > s.off THEN Received(s, o, r.to) ELSE [s EXCEPT !.off = TailOf(o)]
      last == o.closed /\ ~r.capped /\ t.off = TailOf(o)
  IN [t EXCEPT !.step = IF last THEN "over" ELSE "write", !.told = IF last THEN s.gen ELSE 0,
               !.then = IF r.capped THEN "loop" ELSE "wait"]

\* waitForMessages: answers at once when there is something to say
EnterWait(s, o) ==
  IF o.gen # 0 /\ TailOf(o) <= s.off /\ ~(o.closed /\ TailOf(o) = s.off) THEN [s EXCEPT !.step = "wait"]
  ELSE IF world.kind = "poll"
  THEN IF o.gen # 0 /\ o.closed /\ TailOf(o) = s.off THEN Reply(s, TRUE, o.gen)
       ELSE Respond(s, o, IF o.gen = 0 THEN [to |-> s.off, capped |-> FALSE] ELSE ReadStitched(s.off, TailOf(o)))
  ELSE IF o.gen # 0 /\ o.closed /\ TailOf(o) = s.off THEN Reply(s, TRUE, s.gen)
       ELSE [s EXCEPT !.step = "loop"]

\* the read of a GET is done: respond, or wait when a long-poll found nothing at the tail it knew
AfterRead(s, o, r) ==
  IF s.off = s.tail /\ r.to = s.off
  THEN IF s.shut THEN Reply(s, TRUE, s.gen) ELSE EnterWait(s, o)
  ELSE Respond(s, o, r)

\* the pump ends with its generation
AfterPumpRead(s, o, r) == IF o.gen # s.gen THEN [s EXCEPT !.step = "idle"] ELSE Frame(s, o, r)

(***************************************************************************)
(* Requests for reading.                                                   *)
(***************************************************************************)
\* handleGet: 404 ends the client; the inherited range needs the source's object
Get ==
  /\ world.kind = "poll" /\ session.step = "idle"
  /\ LET s == [session EXCEPT !.gen = object.gen, !.tail = TailOf(object), !.shut = object.closed]
     IN session' = IF object.gen = 0 THEN [s EXCEPT !.step = "gone"]
                   ELSE IF s.off < Inherited THEN [s EXCEPT !.step = "source"]
                   ELSE AfterRead(s, object, ReadStitched(s.off, TailOf(object)))
  /\ UNCHANGED <<world, object, former, omitted>>

\* handleSse: pumpSse begins under the generation of the request
Subscribe ==
  /\ world.kind = "sse" /\ session.step = "idle"
  /\ session' = [session EXCEPT !.step = IF object.gen = 0 THEN "gone" ELSE "loop", !.gen = object.gen,
                                 !.since = Len(session.got)]
  /\ UNCHANGED <<world, object, former, omitted>>

\* A mutant: the pump takes the stream it finds.
PumpRebinds ==
  /\ session.step = "loop"
  /\ session' = IF object.gen = 0 THEN [session EXCEPT !.step = "idle"]
                ELSE IF session.off < Inherited THEN [session EXCEPT !.step = "source", !.gen = object.gen]
                ELSE Frame([session EXCEPT !.gen = object.gen], object,
                           ReadStitched(session.off, TailOf(object)))
  /\ UNCHANGED <<world, object, former, omitted>>

\* the next turn of the pump
Pump ==
  /\ session.step = "loop"
  /\ session' = IF object.gen # session.gen THEN [session EXCEPT !.step = "idle"]
                ELSE IF session.off < Inherited THEN [session EXCEPT !.step = "source"]
                ELSE Frame(session, object, ReadStitched(session.off, TailOf(object)))
  /\ UNCHANGED <<world, object, former, omitted>>

\* readRange has answered: of another generation the read begins again, of a deleted stream it is empty
SourceAnswers ==
  /\ session.step = "source"
  /\ LET r == IF object.gen = 0 THEN [to |-> session.off, capped |-> FALSE]
              ELSE ReadStitched(session.off, TailOf(object))
     IN session' = IF world.kind = "poll" THEN AfterRead(session, object, r)
                   ELSE AfterPumpRead(session, object, r)
  /\ omitted' = (omitted \/ object.gen = 0)
  /\ UNCHANGED <<world, object, former>>

\* the client took the frame: go on reading, or wait; or the connection is old enough to be recycled
FrameTaken ==
  /\ session.step = "write"
  /\ \/ session' = IF session.then = "loop" THEN [session EXCEPT !.step = "loop"]
                   ELSE EnterWait(session, object)
     \/ session.then = "wait" /\ session' = [session EXCEPT !.step = "idle"]
  /\ omitted' = (omitted \/ (session.then = "wait" /\ object.gen \notin {0, session.gen}))
  /\ UNCHANGED <<world, object, former>>

\* the wait has timed out: the client of a long-poll asks again, the pump sends a keep-alive
WaitTimesOut ==
  /\ session.step = "wait"
  /\ session' =
       IF world.kind = "poll" THEN Reply(session, object.closed, object.gen)
       ELSE IF object.gen # session.gen THEN [session EXCEPT !.step = "idle"]
       ELSE IF object.closed THEN Reply(session, TRUE, session.gen)
       ELSE [session EXCEPT !.step = "write", !.then = "loop"]
  /\ UNCHANGED <<world, object, former, omitted>>

\* notifyAppend, notifyClosed and cancelWaiters: what a waiting session does with what it is given
Woken(o) ==
  IF session.step # "wait" THEN session
  ELSE IF o.gen # 0 /\ TailOf(o) > session.off
  THEN IF world.kind = "poll" THEN Respond(session, o, ReadStitched(session.off, TailOf(o)))
       ELSE [session EXCEPT !.step = "loop"]
  ELSE IF o.closed THEN Reply(session, TRUE, session.gen)
  ELSE IF o.gen = 0
  THEN IF world.kind = "poll" THEN Respond(session, o, [to |-> session.off, capped |-> FALSE])
       ELSE [session EXCEPT !.step = "loop"]
  ELSE session

(***************************************************************************)
(* Requests that write.                                                    *)
(***************************************************************************)
\* validateProducer of producer.ts
ValidateObjectProducer(p, e, n) ==
  CASE p = NoProducer -> IF n = 0 THEN "accepted" ELSE "sequence_gap"
    [] p # NoProducer /\ e < p.epoch -> "stale_epoch"
    [] p # NoProducer /\ e > p.epoch -> IF n = 0 THEN "accepted" ELSE "invalid_epoch_seq"
    [] p # NoProducer /\ e = p.epoch ->
         IF n <= p.lastSeq THEN "duplicate" ELSE IF n = p.lastSeq + 1 THEN "accepted" ELSE "sequence_gap"

\* what a request of producer (e, n) that found the stream open, but was not accepted, changes: the
\* producer takes the answer to a duplicate for success, a stale epoch and a gap are errors to it
ProducerFailureResponse(answer, e, n) ==
  /\ answer # "accepted"
  /\ object' = [object EXCEPT !.acked = IF answer = "duplicate" THEN @ \cup {<<e, n>>} ELSE @]
  /\ UNCHANGED session

\* the store's writes of a request
AppendMessage(o, id) == [o EXCEPT !.log = Append(@, id)]
CommitProducerState(o, id) == [o EXCEPT !.producer = [epoch |-> id[1], lastSeq |-> id[2]]]
SetClosed(o, by) == [o EXCEPT !.closed = TRUE, !.closedBy = by]

\* the end of handlePost: the message, the producer's state and the closing are written together, the
\* waiters are notified after it
CommitPost(e, n, closes) ==
  LET stored == CommitProducerState(AppendMessage(object, <<e, n>>), <<e, n>>)
      ended  == IF closes THEN SetClosed(stored, <<e, n>>) ELSE stored
  IN /\ object' = [ended EXCEPT !.acked = @ \cup {<<e, n>>}]
     /\ session' = Woken(object')

\* getProducerState: a state that was last written seven days ago is deleted on the next access, which a
\* closed stream does not make
ProducerAges ==
  /\ object.gen # 0 /\ ~object.closed /\ object.producer # NoProducer /\ Cardinality(object.aged) < world.ageings
  /\ object' = [object EXCEPT !.producer = NoProducer, !.aged = @ \cup {TailOf(object)}]
  /\ UNCHANGED <<world, former, session, omitted>>

\* handlePost: a message of the producer (epoch e, number n), perhaps the last one; a closed stream answers
\* success only to the request that closed it
Post(e, n, closes) ==
  LET answer == ValidateObjectProducer(object.producer, e, n)
  IN /\ object.gen # 0
     /\ \/ /\ object.closed /\ object.closedBy = <<e, n>>
           /\ object' = [object EXCEPT !.acked = @ \cup {<<e, n>>}] /\ UNCHANGED session
        \/ ~object.closed /\ ProducerFailureResponse(answer, e, n)
        \/ /\ ~object.closed /\ answer = "accepted" /\ TailOf(object) < Inherited + MaxPosts
           /\ CommitPost(e, n, closes)
     /\ UNCHANGED <<world, former, omitted>>

\* handleCloseOnly without a producer
CloseOnly ==
  /\ object.gen # 0 /\ ~object.closed
  /\ object' = SetClosed(object, object.closedBy) /\ session' = Woken(object')
  /\ UNCHANGED <<world, former, omitted>>

\* handleCloseOnly as request (e, n) of the producer: nothing is stored, but the number is used up
CloseOnlyAs(e, n) ==
  LET answer == ValidateObjectProducer(object.producer, e, n)
  IN /\ object.gen # 0 /\ ~object.closed /\ answer = "accepted"
     /\ object' = SetClosed(CommitProducerState(object, <<e, n>>), <<e, n>>)
     /\ session' = Woken(object')
     /\ UNCHANGED <<world, former, omitted>>

\* handleDelete, or expiry, of a stream no fork refers to: the waiters are released after the purge
DeleteObject ==
  /\ object.gen # 0 /\ Len(former) < world.rebirths
  /\ former' = Append(former, object)
  /\ object' = NoObject /\ session' = Woken(NoObject)
  /\ UNCHANGED <<world, omitted>>

CreateObject ==
  /\ object.gen = 0
  /\ object' = Newborn(Len(former) + 1)
  /\ UNCHANGED <<world, former, session, omitted>>

-----------------------------------------------------------------------------
ReadsInit ==
  /\ world \in ReadSetups /\ object = Newborn(1) /\ former = <<>> /\ session = Start /\ omitted = FALSE

ReadsNext ==
  \/ Get \/ Subscribe \/ Pump \/ SourceAnswers \/ FrameTaken \/ WaitTimesOut
  \/ \E w \in MessageNumbers : \E closes \in BOOLEAN : Post(w[1], w[2], closes)
  \/ \E w \in CloseNumbers : CloseOnlyAs(w[1], w[2])
  \/ CloseOnly \/ ProducerAges \/ DeleteObject \/ CreateObject

ReadsSpec == ReadsInit /\ [][ReadsNext]_readVars

-----------------------------------------------------------------------------
\* the stream of a generation, as it is or as it was deleted
Generation(g) == IF g = object.gen THEN object ELSE former[g]

\* a message may repeat the one before it when the producer's state was lost between the two
Adjoins(a, b) == b.at = a.at + 1 /\ (a.id # b.id \/ b.state = "new")
Consecutive(got) == \A i \in 1 .. Len(got) - 1 : got[i].gen = got[i + 1].gen => Adjoins(got[i], got[i + 1])

\* A reader gets the messages of a generation in order, each once, and over one SSE connection those of one
\* generation only; one that is told that the stream is closed is at its end, and when this is the first
\* generation it has every message acknowledged to the writer.  (Who goes on from an offset of an earlier
\* generation is not shown what a later one holds before that offset.)  Excepted are the answers counted by
\* "omitted", and a message that is sent again after the seven days a producer's state lasts: it is stored
\* and read twice (handleGet, pumpSse, readStitched, waitForMessages, handlePost, getProducerState).
SessionInOrder ==
  ~omitted =>
    /\ Consecutive(session.got)
    /\ world.kind = "sse" => \A i, j \in session.since + 1 .. Len(session.got) : session.got[i].gen = session.got[j].gen
    /\ session.told # 0 =>
         LET o == Generation(session.told)
         IN /\ o.closed /\ session.off = TailOf(o)
            /\ session.told = 1 =>
                 o.acked \subseteq {session.got[i].id : i \in DOMAIN session.got}
=============================================================================
