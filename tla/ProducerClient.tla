--------------------------- MODULE ProducerClient ---------------------------
(***************************************************************************)
(* The idempotent producer of the TypeScript client, packages/client/src/  *)
(* idempotent-producer.ts: batches are numbered, pipelined up to           *)
(* maxInFlight at a time, resent after a sequence gap, and fenced by       *)
(* epochs.  The instances of this module share one producerId and one      *)
(* stream, as a producer does with the process that replaces it.           *)
(*                                                                         *)
(* The server is what the client can see of it: ProducerValidation and the *)
(* order of the checks in handleAppend and the stores.  The network may    *)
(* reorder and lose requests and answers; a request whose fetch failed may *)
(* still arrive later.                                                     *)
(*                                                                         *)
(* A message is <<instance, n>>, the n-th append of that instance, and     *)
(* <<instance, 0>> is the final message of its close().  maxBatchBytes     *)
(* counts messages.  DurableStream.writable() is a producer whose chunks   *)
(* are append() calls, whose close() has no final message and throws the   *)
(* first error that onError was told, and whose abort() detaches.          *)
(***************************************************************************)
EXTENDS Integers, Sequences, SequencesExt, FiniteSets, ProducerValidation

CONSTANTS
    Instances,        \* IdempotentProducer objects with the same producerId
    ProducerSetups,   \* the options they may be built with
    MaxFetchFaults    \* bound: failed fetches

ASSUME ProducerBounds == MaxFetchFaults \in Nat

Call == {"flush", "detach", "restart", "close", "abort"}

ProducerOptions ==
    [epoch : Nat, autoClaim : BOOLEAN, maxInFlight : Nat \ {0},
     maxBatch : Nat \ {0},
     writable : BOOLEAN,    \* made by DurableStream.writable()
     refetch : BOOLEAN,     \* opts.fetch sends a failed request again
     messages : Nat,        \* bound: append() calls
     restarts : Nat,        \* bound: restart() calls
     calls : SUBSET Call]   \* what its user calls besides append()

\* writable() sets autoClaim and calls close() or, on abort, detach().
ASSUME ProducerOptionsTyped ==
    \A s \in ProducerSetups : \A i \in Instances :
        /\ s[i] \in ProducerOptions
        /\ s[i].writable => s[i].autoClaim /\ s[i].calls \subseteq {"close", "detach", "abort"}

VARIABLES
    setup,      \* the options in force
    producers,  \* the IdempotentProducer objects
    requests,   \* POSTs on their way to the server
    answers,    \* answers on their way back
    log,        \* the messages of the stream
    seen,       \* the server's state of this producerId
    closedBy,   \* the <<epoch, seq>> that closed the stream, or Open
    fetchFaults,
    sentOk      \* history: messages of batches that ended without an error

producerVars == <<setup, producers, requests, answers, log, seen, closedBy,
                  fetchFaults, sentOk>>
serverVars == <<log, seen, closedBy>>

Open == <<-1, -1>>
Message(i, n) == <<i, n>>

----------------------------------------------------------------------------
(* The producer object *)

NewProducer(opts) ==
    [epoch |-> opts.epoch, nextSeq |-> 0, appended |-> 0,
     pendingBatch |-> <<>>, linger |-> FALSE,
     queue |-> <<>>,           \* tasks that fastq has not started
     running |-> {},           \* tasks that #batchWorker is sending
     deferred |-> <<>>,        \* batches behind the auto-claim barrier
     claimed |-> ~opts.autoClaim,
     seqState |-> {},          \* completed [epoch, seq, ok]
     closed |-> FALSE, closeResult |-> FALSE,
     call |-> "none",          \* the call the user is awaiting
     failed |-> FALSE,         \* onError has been told of a batch
     aborted |-> FALSE, restarts |-> 0]

\* A running task: the epoch and seq it started with (epoch0, seq0), under
\* which it signals its completion, those of its current attempt, and the
\* sequence numbers it waits for.
RunningTask(task, epoch) ==
    [batch |-> task.batch, seq0 |-> task.seq, epoch0 |-> epoch,
     seq |-> task.seq, epoch |-> epoch, waits |-> {}]

InFlightCount(p) == Len(p.queue) + Cardinality(p.running)
Idle(p) == InFlightCount(p) = 0 /\ p.deferred = <<>>

\* The queue has drained and the continuations that push the deferred batches
\* are still to run: as microtasks they precede timers and the caller's turn.
Draining(p) == InFlightCount(p) = 0 /\ p.deferred # <<>>

\* fastq starts a task as soon as there is room; #batchWorker reads #epoch
\* then.  External: fastq.
StartTasks(p, max) ==
    LET n == IF max - Cardinality(p.running) < Len(p.queue)
             THEN max - Cardinality(p.running) ELSE Len(p.queue)
    IN  [p EXCEPT !.running = @ \cup {RunningTask(p.queue[k], p.epoch) : k \in 1 .. n},
                  !.queue = SubSeq(@, n + 1, Len(@))]

PushWithoutNumber(p, batch) ==
    [p EXCEPT !.queue = Append(@, [batch |-> batch, seq |-> p.nextSeq])]

PushBatch(p, batch) ==
    [p EXCEPT !.queue = Append(@, [batch |-> batch, seq |-> p.nextSeq]),
              !.nextSeq = @ + 1]

\* #enqueuePendingBatch: behind the barrier while an epoch may be claimed.
EnqueuePendingBatch(p, opts) ==
    LET q == [p EXCEPT !.pendingBatch = <<>>] IN
    IF p.pendingBatch = <<>> THEN p
    ELSE IF opts.autoClaim /\ ~p.claimed /\ InFlightCount(p) > 0
    THEN [q EXCEPT !.deferred = Append(@, p.pendingBatch)]
    ELSE StartTasks(PushBatch(q, p.pendingBatch), opts.maxInFlight)

Key(batch) == batch[1]

\* The POST of an attempt, and of a close.
BatchRequest(i, t) ==
    [from |-> i, key |-> Key(t.batch), epoch |-> t.epoch, seq |-> t.seq,
     body |-> t.batch, close |-> FALSE, awaited |-> TRUE]
CloseRequest(i, p) ==
    [from |-> i, key |-> Message(i, 0), epoch |-> p.epoch, seq |-> p.nextSeq,
     body |-> IF setup[i].writable THEN <<>> ELSE <<Message(i, 0)>>,
     close |-> TRUE, awaited |-> TRUE]

\* Tasks that became running between p and q are sent.
NewRequests(i, p, q) ==
    {BatchRequest(i, t) : t \in {t \in q.running :
        \A u \in p.running : Key(u.batch) # Key(t.batch)}}

Become(i, q) ==
    /\ producers' = [producers EXCEPT ![i] = q]
    /\ requests' = requests \cup NewRequests(i, producers[i], q)

----------------------------------------------------------------------------
(* Calls of the user *)

\* append().
ProducerAppend(i) ==
    LET p == producers[i]
        q == [p EXCEPT !.appended = @ + 1,
                       !.pendingBatch = Append(@, Message(i, p.appended + 1))]
    IN  /\ ~p.closed /\ p.appended < setup[i].messages /\ ~Draining(p)
        /\ Become(i, IF Len(q.pendingBatch) >= setup[i].maxBatch
                     THEN EnqueuePendingBatch(q, setup[i])
                     ELSE [q EXCEPT !.linger = TRUE])
        /\ UNCHANGED <<setup, answers, serverVars, fetchFaults, sentOk>>

\* The linger timer; flush() clears it and does the same.
LingerFires(i) ==
    LET p == producers[i] IN
    /\ p.linger /\ ~Draining(p)
    /\ Become(i, EnqueuePendingBatch([p EXCEPT !.linger = FALSE], setup[i]))
    /\ UNCHANGED <<setup, answers, serverVars, fetchFaults, sentOk>>

\* flush(), detach(), restart() and close() begin with a flush.
CallFlush(i, call) ==
    LET p == producers[i] IN
    /\ p.call = "none" /\ call \in setup[i].calls \ {"abort"} /\ ~Draining(p)
    /\ call = "detach" \/ setup[i].writable => ~p.closed
    /\ call = "restart" => p.restarts < setup[i].restarts
    /\ call = "close" => ~p.closeResult
    /\ Become(i, EnqueuePendingBatch(
           [p EXCEPT !.linger = FALSE, !.call = call,
                     !.closed = @ \/ call \in {"detach", "close"}], setup[i]))
    /\ UNCHANGED <<setup, answers, serverVars, fetchFaults, sentOk>>

\* The queue has drained: the batches behind the barrier are pushed.
DeferredEnqueue(i) ==
    LET p == producers[i]
        q == FoldLeft(PushBatch, [p EXCEPT !.deferred = <<>>], p.deferred)
    IN  /\ Draining(p)
        /\ Become(i, StartTasks(q, setup[i].maxInFlight))
        /\ UNCHANGED <<setup, answers, serverVars, fetchFaults, sentOk>>

\* flush() returns to its caller: close() sends its POST, restart() takes
\* the next epoch.
FlushReturns(i) ==
    LET p == producers[i] IN
    /\ p.call \in {"flush", "detach", "restart", "close"} /\ Idle(p)
    /\ producers' = [producers EXCEPT ![i] =
           CASE p.call = "restart" -> [p EXCEPT !.call = "none", !.epoch = @ + 1,
                                           !.nextSeq = 0, !.restarts = @ + 1]
             [] p.call = "close"   -> [p EXCEPT !.call = "closing"]
             [] OTHER              -> [p EXCEPT !.call = "none"]]
    /\ requests' = IF p.call = "close"
                   THEN requests \cup {CloseRequest(i, p)} ELSE requests
    /\ UNCHANGED <<setup, answers, serverVars, fetchFaults, sentOk>>

\* opts.signal aborts: the batch that is not sent yet is rejected, fetches fail.
SignalAborts(i) ==
    /\ ~producers[i].aborted /\ "abort" \in setup[i].calls
    /\ producers' = [producers EXCEPT
           ![i].aborted = TRUE, ![i].failed = @ \/ producers[i].pendingBatch # <<>>,
           ![i].pendingBatch = <<>>, ![i].linger = FALSE]
    /\ UNCHANGED <<setup, requests, answers, serverVars, fetchFaults, sentOk>>

----------------------------------------------------------------------------
(* The server *)

\* The verdict of the store, the close that is repeated being a duplicate.
Verdict(r) ==
    CASE closedBy # Open /\ closedBy = <<r.epoch, r.seq>> -> "duplicate"
      [] closedBy # Open /\ closedBy # <<r.epoch, r.seq>> -> "stream_closed"
      [] OTHER -> ValidateProducer(seen, r.epoch, r.seq)

Status(status, n) == [status |-> status, n |-> n]

\* handleAppend with a body; 409 without an expected sequence number is the
\* answer of a closed stream.
AppendAnswer(r) ==
    CASE Verdict(r) = "accepted"          -> Status(200, 0)
      [] Verdict(r) = "duplicate"         -> Status(204, 0)
      [] Verdict(r) = "stale_epoch"       -> Status(403, seen.epoch)
      [] Verdict(r) = "sequence_gap"      -> Status(409, seen.lastSeq + 1)
      [] Verdict(r) = "invalid_epoch_seq" -> Status(400, 0)
      [] Verdict(r) = "stream_closed"     -> Status(409, 0)

\* handleAppend without a body: a close answers 204 the first time too.
CloseOnlyAnswer(r) ==
    CASE Verdict(r) \in {"accepted", "duplicate"} -> Status(204, 0)
      [] Verdict(r) = "stale_epoch"       -> Status(403, seen.epoch)
      [] Verdict(r) = "invalid_epoch_seq" -> Status(400, 0)
      [] Verdict(r) = "sequence_gap"      -> Status(409, seen.lastSeq + 1)
      [] Verdict(r) = "stream_closed"     -> Status(409, 0)

Answer(r) == IF r.body = <<>> /\ r.close THEN CloseOnlyAnswer(r) ELSE AppendAnswer(r)

\* A fetch whose signal has aborted is settled by FetchFails alone.
ServerHandles(r) ==
    /\ r \in requests
    /\ r.awaited => ~producers[r.from].aborted
    /\ requests' = requests \ {r}
    /\ answers' = IF r.awaited
                  THEN answers \cup {[from |-> r.from, key |-> r.key, answer |-> Answer(r)]}
                  ELSE answers
    /\ IF Verdict(r) = "accepted"
       THEN /\ log' = log \o r.body
            /\ seen' = ProposedState(r.epoch, r.seq)
            /\ closedBy' = IF r.close THEN <<r.epoch, r.seq>> ELSE closedBy
       ELSE UNCHANGED serverVars
    /\ UNCHANGED <<setup, producers, fetchFaults, sentOk>>

----------------------------------------------------------------------------
(* Answers *)

\* #batchWorker ends: the completion is signalled under the numbers the task
\* started with, old entries are dropped, fastq starts the next task.
FinishTask(p, t, ok, max) ==
    LET kept == {e \in p.seqState :
                   ~(/\ e.epoch = t.epoch0
                     /\ \/ e.seq = t.seq0
                        \/ e.seq < t.seq0 - max * 3)}
    IN  StartTasks([p EXCEPT
            !.running = @ \ {t},
            !.claimed = @ \/ ok, !.failed = @ \/ ~ok,
            !.seqState = kept \cup {[epoch |-> t.epoch0, seq |-> t.seq0, ok |-> ok]}],
          max)

\* The next attempt of t in p: the same batch, maybe under other numbers.
Resend(i, p, t, u) ==
    /\ producers' = [producers EXCEPT ![i] =
           [p EXCEPT !.running = (@ \ {t}) \cup {u}]]
    /\ requests' = requests \cup {BatchRequest(i, u)}

AnswerFor(i, t, a) ==
    /\ a \in answers /\ a.from = i /\ t \in producers[i].running
    /\ a.key = Key(t.batch)
    /\ answers' = answers \ {a}
    /\ UNCHANGED <<setup, serverVars, fetchFaults>>

\* 200 and 204: the batch is delivered.  #recordSuccessfulOffset is left out.
BatchDelivered(i, t, a) ==
    /\ AnswerFor(i, t, a)
    /\ a.answer.status \in {200, 204}
    /\ Become(i, FinishTask(producers[i], t, TRUE, setup[i].maxInFlight))
    /\ sentOk' = sentOk \cup ToSet(t.batch)

\* 403 with autoClaim: take the epoch after the server's, restart at 0.
ClaimEpoch(i, t, a) ==
    LET e == a.answer.n + 1 IN
    /\ AnswerFor(i, t, a)
    /\ a.answer.status = 403 /\ setup[i].autoClaim
    /\ Resend(i, [producers[i] EXCEPT !.epoch = e, !.nextSeq = 1],
              t, [t EXCEPT !.epoch = e, !.seq = 0])
    /\ UNCHANGED sentOk

\* 409 behind earlier batches: wait for them, then send again.
WaitForEarlier(i, t, a) ==
    /\ AnswerFor(i, t, a)
    /\ a.answer.status = 409 /\ a.answer.n < t.seq
    /\ producers' = [producers EXCEPT ![i].running =
           (@ \ {t}) \cup {[t EXCEPT !.waits = a.answer.n .. (t.seq - 1)]}]
    /\ UNCHANGED <<requests, sentOk>>

\* Any other answer fails the batch: StaleEpochError, SequenceGapError, 400.
BatchRefused(i, t, a) ==
    /\ AnswerFor(i, t, a)
    /\ \/ a.answer.status = 403 /\ ~setup[i].autoClaim
       \/ a.answer.status = 409 /\ a.answer.n >= t.seq
       \/ a.answer.status = 400
    /\ Become(i, FinishTask(producers[i], t, FALSE, setup[i].maxInFlight))
    /\ UNCHANGED sentOk

Completed(p, t, ok) ==
    {e.seq : e \in {e \in p.seqState : e.epoch = t.epoch /\ e.ok = ok}}

\* #waitForSeq for each earlier batch: one failure fails this one too.
EarlierCompleted(i, t) ==
    LET p == producers[i] IN
    /\ t \in p.running /\ t.waits # {}
    /\ \/ /\ t.waits \cap Completed(p, t, FALSE) # {}
          /\ Become(i, FinishTask(p, t, FALSE, setup[i].maxInFlight))
       \/ /\ t.waits \subseteq Completed(p, t, TRUE)
          /\ Resend(i, p, t, [t EXCEPT !.waits = {}])
    /\ UNCHANGED <<setup, answers, serverVars, fetchFaults, sentOk>>

----------------------------------------------------------------------------
(* The answer to a close *)

AnyAnswerCloses(i, a) ==
    LET p == producers[i] IN
    /\ a \in answers /\ a.from = i /\ a.key = Message(i, 0)
    /\ p.call = "closing"
    /\ answers' = answers \ {a}
    /\ producers' = [producers EXCEPT ![i].call = "none",
                        ![i].closeResult = a.answer.status # 403]
    /\ UNCHANGED <<setup, requests, serverVars, fetchFaults, sentOk>>

\* #doClose: nextSeq only moves on success, so that a retry repeats the number.
CloseAnswer(i, a) ==
    LET p == producers[i]
        q == CASE a.answer.status \in {200, 204} ->
                    [p EXCEPT !.call = "none", !.closeResult = TRUE, !.nextSeq = @ + 1]
               [] a.answer.status = 403 /\ setup[i].autoClaim ->
                    [p EXCEPT !.epoch = a.answer.n + 1, !.nextSeq = 0]
               [] OTHER -> [p EXCEPT !.call = "none"]
    IN  /\ a \in answers /\ a.from = i /\ a.key = Message(i, 0)
        /\ p.call = "closing"
        /\ answers' = answers \ {a}
        /\ producers' = [producers EXCEPT ![i] = q]
        /\ requests' = IF q.call = "closing"
                       THEN requests \cup {CloseRequest(i, q)} ELSE requests
        /\ UNCHANGED <<setup, serverVars, fetchFaults, sentOk>>

----------------------------------------------------------------------------
(* Failing fetches *)

\* A fetch fails: the request is lost, or its answer is, or it arrives later.
\* The default fetch throws to the call that awaits it; a fetch option of the
\* user (external) may send the request again, with the same headers.
FetchFails(i, key) ==
    LET p    == producers[i]
        mine == {r \in requests : r.from = i /\ r.key = key /\ r.awaited}
        got  == {a \in answers : a.from = i /\ a.key = key}
    IN  /\ mine # {} \/ got # {}
        /\ p.aborted \/ fetchFaults < MaxFetchFaults
        /\ fetchFaults' = IF p.aborted THEN fetchFaults ELSE fetchFaults + 1
        /\ answers' = answers \ got
        /\ \E late \in SUBSET mine :
             LET left == (requests \ mine) \cup {[r EXCEPT !.awaited = FALSE] : r \in late} IN
             \/ \* opts.fetch retries
                /\ setup[i].refetch /\ ~p.aborted
                /\ UNCHANGED <<producers>>
                /\ requests' = left \cup
                     {BatchRequest(i, t) : t \in {t \in p.running : Key(t.batch) = key}}
                     \cup IF key = Message(i, 0) THEN {CloseRequest(i, p)} ELSE {}
             \/ \* #batchWorker or close() throws
                /\ ~setup[i].refetch \/ p.aborted
                /\ \E q \in IF key = Message(i, 0) THEN {[p EXCEPT !.call = "none"]}
                            ELSE {FinishTask(p, t, FALSE, setup[i].maxInFlight) :
                                     t \in {t \in p.running : Key(t.batch) = key}} :
                      /\ producers' = [producers EXCEPT ![i] = q]
                      /\ requests' = left \cup NewRequests(i, p, q)
        /\ UNCHANGED <<setup, serverVars, sentOk>>

----------------------------------------------------------------------------

ProducerInit ==
    /\ setup \in ProducerSetups
    /\ producers = [i \in Instances |-> NewProducer(setup[i])]
    /\ requests = {} /\ answers = {}
    /\ log = <<>> /\ seen = NoProducerState /\ closedBy = Open
    /\ fetchFaults = 0 /\ sentOk = {}

Keys(i) == {Message(i, n) : n \in 0 .. setup[i].messages}

ProducerStep(i) ==
    \/ LingerFires(i) \/ DeferredEnqueue(i) \/ FlushReturns(i)
    \/ \E a \in answers : CloseAnswer(i, a)
    \/ producers[i].aborted /\ \E k \in Keys(i) : FetchFails(i, k)
    \/ \E t \in producers[i].running :
          \/ EarlierCompleted(i, t)
          \/ \E a \in answers : \/ BatchDelivered(i, t, a) \/ ClaimEpoch(i, t, a)
                                \/ WaitForEarlier(i, t, a) \/ BatchRefused(i, t, a)

ProducerNext ==
    \/ \E i \in Instances :
         \/ ProducerStep(i)
         \/ ProducerAppend(i) \/ SignalAborts(i)
         \/ \E call \in Call : CallFlush(i, call)
         \/ \E k \in Keys(i) : FetchFails(i, k)
    \/ \E r \in requests : ServerHandles(r)

\* Timers fire, promises that can settle do, and the server answers the
\* requests of every instance.
ProducerFairness ==
    \A i \in Instances :
        /\ WF_producerVars(ProducerStep(i))
        /\ WF_producerVars(\E r \in requests : r.from = i /\ ServerHandles(r))

ProducerSpec == ProducerInit /\ [][ProducerNext]_producerVars /\ ProducerFairness

----------------------------------------------------------------------------
(* Properties *)

\* Whatever is reordered, lost, retried or delivered late, the stream holds the
\* messages of an instance at most once and in the order of its append() calls
\* (its final message last).
LogInOrder ==
    \A j, k \in DOMAIN log :
        j < k /\ log[j][1] = log[k][1] =>
            /\ log[j][2] # 0
            /\ log[k][2] = 0 \/ log[j][2] < log[k][2]

\* A batch that #doSendBatch reported as sent, by 200 or as a duplicate by 204,
\* is in the stream: a "duplicate" answer never stands for lost data.
DeliveredMeansStored == sentOk \subseteq ToSet(log)

\* close() resolves only when the stream is closed by this instance and what it
\* appended is stored before the final message: no batch that failed on the way
\* is covered up.  (A restart, and a claim of the next epoch, do cover it up:
\* then onError has been told, and the close() of a writable() throws.)
CloseCoversAll ==
    \A i \in Instances : producers[i].closeResult =>
        /\ closedBy # Open
        /\ ~setup[i].writable => log # <<>> /\ Last(log) = Message(i, 0)
        /\ producers[i].restarts = 0 /\ (setup[i].autoClaim => ~producers[i].failed) =>
              \A n \in 1 .. producers[i].appended :
                  Message(i, n) \in ToSet(log) \/ producers[i].aborted

\* What a producer tells its user is so: the three together.
ProducerIsTruthful == LogInOrder /\ DeliveredMeansStored /\ CloseCoversAll

\* flush(), detach(), restart() and close() return, however batches wait for one
\* another, unless the stream has been closed by somebody else: a 409 of a
\* closed stream names no expected sequence number, is read as "0 expected",
\* and is retried for ever by a batch that is not the first.
FlushEnds ==
    \A i \in Instances :
        []<>(\/ producers[i].call = "none"
             \/ closedBy # Open /\ closedBy[1] # producers[i].epoch)

=============================================================================
