---------------------------- MODULE StreamHandle ----------------------------
(***************************************************************************)
(* Writing through a DurableStream handle of the TypeScript client,        *)
(* packages/client/src/stream.ts, without a producer: append() calls that  *)
(* overlap are sent as one POST while at most one POST is in flight,       *)
(* createFetchWithBackoff (fetch.ts) repeats a POST that got no answer,    *)
(* and close() does not queue behind the appends.                          *)
(*                                                                         *)
(* Appends are numbered in the order their bodies were resolved, which is  *)
(* the order of the buffer.  The server is the part of handleAppend a      *)
(* request without producer headers meets.                                 *)
(***************************************************************************)
EXTENDS Integers, Sequences, SequencesExt, FiniteSets

CONSTANTS
    HandleSetups,   \* the options a handle may be built with
    MaxAppends,     \* bound: append() calls
    MaxNetFaults    \* bound: POSTs that get no answer

ASSUME HandleConstants ==
    /\ MaxAppends \in Nat /\ MaxNetFaults \in Nat
    /\ \A s \in HandleSetups :
         s \in [batching : BOOLEAN, withSeq : BOOLEAN, maxRetries : Nat,
                signals : BOOLEAN,     \* append() calls are given signals
                closeBody : BOOLEAN]   \* close() is given a final message

VARIABLES
    handleOpts,
    appends,     \* the promise of each append() call
    buffer,      \* #buffer
    inFlight,    \* POSTs somebody awaits: [batch, close, attempt]
    queueState,  \* the fastq queue: "idle", "running", "finishing"
    arriving,    \* requests on their way to the server
    replies,     \* answers on their way back
    stored,      \* the messages of the stream
    lastSeq,     \* the Stream-Seq the server saw last
    streamShut,
    closeCall,   \* the promise of close()
    netFaults,
    stranded     \* history: appends buffered with nobody left to send them

handleVars == <<handleOpts, appends, buffer, inFlight, queueState, arriving, replies,
                stored, lastSeq, streamShut, closeCall, netFaults, stranded>>
streamSide == <<stored, lastSeq, streamShut>>

Called == {m \in 1 .. MaxAppends : appends[m] # "none"}
Post(batch) == [batch |-> batch, close |-> FALSE, attempt |-> 0]
ClosePost ==
    [batch |-> IF handleOpts.closeBody THEN <<MaxAppends + 1>> ELSE <<>>,
     close |-> TRUE, attempt |-> 0]

Settle(ms, how) ==
    [m \in 1 .. MaxAppends |-> IF m \in ms /\ appends[m] = "pending" THEN how ELSE appends[m]]

Send(p) ==
    /\ inFlight' = inFlight \cup {p}
    /\ arriving' = arriving \cup {p}

----------------------------------------------------------------------------
(* Calls of the user *)

SendsWhileBusy(m) ==
    /\ appends[m] = "none" /\ \A k \in 1 .. (m - 1) : appends[k] # "none"
    /\ appends' = [appends EXCEPT ![m] = "pending"]
    /\ Send(Post(<<m>>)) /\ queueState' = "running"
    /\ UNCHANGED <<handleOpts, buffer, replies, streamSide, closeCall, netFaults, stranded>>

\* append(): with batching the message joins the buffer, and the buffer is sent
\* if the queue is idle; without, it is a POST of its own.
HandleAppends(m) ==
    /\ appends[m] = "none" /\ \A k \in 1 .. (m - 1) : appends[k] # "none"
    /\ appends' = [appends EXCEPT ![m] = "pending"]
    /\ IF ~handleOpts.batching
       THEN Send(Post(<<m>>)) /\ UNCHANGED <<buffer, queueState, stranded>>
       ELSE IF queueState = "idle"
       THEN /\ Send(Post(Append(buffer, m)))
            /\ buffer' = <<>> /\ queueState' = "running"
            /\ stranded' = {}
       ELSE /\ buffer' = Append(buffer, m)
            /\ stranded' = IF queueState = "finishing" THEN stranded \cup {m} ELSE stranded
            /\ UNCHANGED <<inFlight, arriving, queueState>>
    /\ UNCHANGED <<handleOpts, replies, streamSide, closeCall, netFaults>>

\* close(): a POST with Stream-Closed, at once.
HandleCloses ==
    /\ closeCall = "none" /\ closeCall' = "pending"
    /\ Send(ClosePost)
    /\ UNCHANGED <<handleOpts, appends, buffer, queueState, replies, streamSide, netFaults,
                   stranded>>

----------------------------------------------------------------------------
(* The server *)

StreamSeq(p) == IF handleOpts.withSeq /\ ~p.close THEN p.batch[Len(p.batch)] ELSE 0

\* A closed stream takes another close without a body and nothing else; a
\* Stream-Seq must be greater than the last one.
HandleAppendRequest(p) ==
    LET refused == IF streamShut THEN p.batch # <<>>
                   ELSE StreamSeq(p) # 0 /\ StreamSeq(p) <= lastSeq
        status == IF refused THEN 409 ELSE 204
        accepted == status = 204 /\ ~streamShut
    IN  /\ p \in arriving
        /\ arriving' = arriving \ {p}
        /\ stored' = IF accepted THEN stored \o p.batch ELSE stored
        /\ lastSeq' = IF accepted /\ StreamSeq(p) # 0 THEN StreamSeq(p) ELSE lastSeq
        /\ streamShut' = (streamShut \/ p.close)
        /\ replies' = IF p \in inFlight
                      THEN replies \cup {[post |-> p, status |-> status]} ELSE replies
        /\ UNCHANGED <<handleOpts, appends, buffer, inFlight, queueState, closeCall,
                       netFaults, stranded>>

----------------------------------------------------------------------------
(* Answers *)

\* #batchWorker after its POST: resolve the batch, send what has gathered in the
\* meantime, or return to fastq, which is told a microtask later.
WorkerSucceeds(p) ==
    /\ appends' = Settle(ToSet(p.batch), "resolved")
    /\ IF buffer = <<>>
       THEN /\ queueState' = "finishing"
            /\ inFlight' = inFlight \ {p}
            /\ UNCHANGED <<buffer, arriving>>
       ELSE /\ buffer' = <<>>
            /\ inFlight' = (inFlight \ {p}) \cup {Post(buffer)}
            /\ arriving' = arriving \cup {Post(buffer)}
            /\ UNCHANGED queueState

WorkerKeepsBuffer(p) ==
    /\ appends' = Settle(ToSet(p.batch), "rejected")
    /\ inFlight' = inFlight \ {p}
    /\ queueState' = "finishing"
    /\ UNCHANGED <<buffer, arriving>>

\* One failed POST rejects its batch and everything that gathered behind it.
WorkerFails(p) ==
    /\ appends' = Settle(ToSet(p.batch) \cup ToSet(buffer), "rejected")
    /\ buffer' = <<>> /\ inFlight' = inFlight \ {p}
    /\ queueState' = "finishing"
    /\ UNCHANGED arriving

\* The POST p is over: for #batchWorker, for #appendDirect or for close().
PostEnds(p, ok) ==
    IF p.close
    THEN /\ closeCall' = IF ok THEN "resolved" ELSE "rejected"
         /\ inFlight' = inFlight \ {p}
         /\ UNCHANGED <<appends, buffer, queueState, arriving>>
    ELSE /\ UNCHANGED closeCall
         /\ IF handleOpts.batching
            THEN IF ok THEN WorkerSucceeds(p) ELSE WorkerFails(p)
            ELSE /\ appends' = Settle(ToSet(p.batch), IF ok THEN "resolved" ELSE "rejected")
                 /\ inFlight' = inFlight \ {p}
                 /\ UNCHANGED <<buffer, queueState, arriving>>

ReplyArrives(a) ==
    /\ a \in replies /\ replies' = replies \ {a}
    /\ PostEnds(a.post, a.status = 204)
    /\ UNCHANGED <<handleOpts, streamSide, netFaults, stranded>>

\* fastq learns that the worker has returned.
QueueReleases ==
    /\ queueState = "finishing" /\ queueState' = "idle"
    /\ UNCHANGED <<handleOpts, appends, buffer, inFlight, arriving, replies, streamSide,
                   closeCall, netFaults, stranded>>

----------------------------------------------------------------------------
(* Failures *)

\* createFetchWithBackoff: no answer, or a 5xx.  What was sent may still arrive;
\* the next attempt is the same POST, up to maxRetries of them.
FetchGetsNoAnswer(p) ==
    LET again == [p EXCEPT !.attempt = @ + 1] IN
    /\ p \in inFlight /\ netFaults < MaxNetFaults
    /\ netFaults' = netFaults + 1
    /\ replies' = {a \in replies : a.post # p}
    /\ \E lost \in BOOLEAN :
         LET left == IF lost THEN arriving \ {p} ELSE arriving IN
         IF again.attempt <= handleOpts.maxRetries
         THEN /\ inFlight' = (inFlight \ {p}) \cup {again}
              /\ arriving' = left \cup {again}
              /\ UNCHANGED <<appends, buffer, queueState, closeCall>>
         ELSE PostEnds(p, FALSE) /\ lost = FALSE
    /\ UNCHANGED <<handleOpts, streamSide, stranded>>

\* A signal given to append() aborts: AbortSignal.any fails the whole batch.
AppendSignalAborts(p) ==
    /\ p \in inFlight /\ handleOpts.signals /\ ~p.close
    /\ replies' = {a \in replies : a.post # p}
    /\ PostEnds(p, FALSE)
    /\ UNCHANGED <<handleOpts, streamSide, netFaults, stranded>>

----------------------------------------------------------------------------

HandleInit ==
    /\ handleOpts \in HandleSetups
    /\ appends = [m \in 1 .. MaxAppends |-> "none"]
    /\ buffer = <<>> /\ inFlight = {} /\ queueState = "idle"
    /\ arriving = {} /\ replies = {} /\ stored = <<>> /\ lastSeq = 0 /\ streamShut = FALSE
    /\ closeCall = "none" /\ netFaults = 0 /\ stranded = {}

HandleNext ==
    \/ \E m \in 1 .. MaxAppends : HandleAppends(m)
    \/ HandleCloses \/ QueueReleases
    \/ \E p \in arriving : HandleAppendRequest(p)
    \/ \E a \in replies : ReplyArrives(a)
    \/ \E p \in inFlight : FetchGetsNoAnswer(p) \/ AppendSignalAborts(p)

HandleFairness ==
    /\ WF_handleVars(\E p \in arriving : HandleAppendRequest(p))
    /\ WF_handleVars(\E a \in replies : ReplyArrives(a))
    /\ WF_handleVars(QueueReleases)

HandleSpec == HandleInit /\ [][HandleNext]_handleVars /\ HandleFairness

----------------------------------------------------------------------------
(* Properties *)

\* An append that resolved is stored; with batching, every copy of a later append
\* comes after a copy of it: neither a retried POST, nor one that arrives after its
\* fetch was given up, nor a close() between them changes that (#batchWorker,
\* createFetchWithBackoff).  With Stream-Seq nothing is stored twice.
ResolvedInOrder ==
    /\ \A m \in Called : appends[m] = "resolved" => m \in ToSet(stored)
    /\ handleOpts.batching =>
         \A m, n \in Called : m < n /\ appends[m] = "resolved" =>
            \A j \in DOMAIN stored : stored[j] = n => \E i \in 1 .. (j - 1) : stored[i] = m
    /\ handleOpts.withSeq => \A i, j \in DOMAIN stored : i # j => stored[i] # stored[j]

\* Every append() settles, whatever happens to the POST it waited for; only one
\* made in the microtask in which the worker has returned and the queue does not
\* know yet waits for the next append().
AppendSettles ==
    []<>(\A m \in 1 .. MaxAppends : appends[m] # "pending" \/ m \in stranded)
=============================================================================
