----------------------------- MODULE MCClients -----------------------------
(* The clients, the HTTP surface and the AI transports, one at a time: focus *)
(* names the one whose run this is.  The others stay as they were made.     *)
EXTENDS MCProducerClient, MCStreamReader, ChatTransport, StreamDB, HttpServer, SSEWire,
        JsonMode

VARIABLE focus

\* Streams of change events: replayed inserts, a reset in the middle, events of a type without a
\* collection, and a value that is no object.
DBEventOf(op, type, key, val, txid) ==
    [op |-> op, type |-> type, key |-> key, val |-> val, txid |-> txid]

MCDBLogs ==
    {<<DBEventOf("insert", "user", "k1", 1, "t1"), DBEventOf("insert", "user", "k1", 2, NoTxid),
       DBEventOf("delete", "user", "k2", 0, "t2")>>,
     <<DBEventOf("upsert", "user", "k1", 1, "t1"), DBEventOf("delete", "user", "k2", 0, NoTxid),
       DBEventOf("reset", "user", "k1", 0, NoTxid), DBEventOf("insert", "user", "k1", 2, NoTxid)>>,
     <<DBEventOf("upsert", "other", "k1", 1, "t1"), DBEventOf("delete", "user", "k1", 0, NoTxid),
       DBEventOf("insert", "user", "k1", 1, NoTxid)>>,
     <<DBEventOf("snapshot-end", "user", "k1", 0, NoTxid), DBEventOf("insert", "user", "k1", 0, NoTxid)>>}

HandleOpts(batching, withSeq, maxRetries, signals, closeBody) ==
    [batching |-> batching, withSeq |-> withSeq, maxRetries |-> maxRetries,
     signals |-> signals, closeBody |-> closeBody]
MCHandleSetups ==
    {HandleOpts(TRUE, FALSE, 3, FALSE, FALSE), HandleOpts(TRUE, TRUE, 0, TRUE, TRUE),
     HandleOpts(FALSE, FALSE, 1, FALSE, FALSE), HandleOpts(TRUE, FALSE, 0, FALSE, FALSE),
     HandleOpts(TRUE, FALSE, 1, FALSE, FALSE)}

ChatOf(maxRetries, stays, echo, said, maxSubscribes, resumes) ==
    [handle |-> HandleOpts(TRUE, FALSE, maxRetries, FALSE, FALSE), session |-> stays,
     echo |-> echo, chunks |-> said, maxSubscribes |-> maxSubscribes, snapshot |-> resumes,
     resumes |-> resumes]
Said(id) == [type |-> "content", id |-> id]
Cleared == [type |-> "snapshot", id |-> "b"]
MCChatSetups ==
    {ChatOf(1, FALSE, 0, <<Said("b"), Said("b")>>, 0, FALSE),
     ChatOf(0, FALSE, 0, <<Said("b"), Said("b"), Said("b")>>, 0, FALSE),
     ChatOf(0, FALSE, 0, <<Said("b"), Cleared>>, 2, TRUE),
     ChatOf(0, TRUE, 0, <<Said("b"), Cleared, Said("b")>>, 1, TRUE),
     ChatOf(0, TRUE, 2, ToMessageEchoChunks("a", FALSE) \o <<Said("b")>>, 1, TRUE),
     ChatOf(0, TRUE, 0, <<Said("b"), Said("b")>>, 2, FALSE)}

HttpPair(modes, from, caching, bounds) ==
    [client |-> [c \in 1 .. 2 |-> [mode |-> modes[c], from |-> from[c]]], caching |-> caching,
     maxLives |-> bounds[1], maxInterval |-> bounds[2], maxTimeouts |-> bounds[3],
     maxTroubles |-> bounds[4]]
MCHttpSetups ==
    {HttpPair(<<"long-poll", "long-poll">>, <<FromBegin, FromBegin>>, TRUE, <<1, 2, 2, 0>>),
     HttpPair(<<"long-poll", "sse">>, <<FromNow, FromBegin>>, FALSE, <<1, 1, 1, 1>>),
     HttpPair(<<"conditional", "sse">>, <<FromBegin, FromNow>>, FALSE, <<2, 1, 0, 1>>)}

\* Two data events, the first with every mix of line ends and spaces.
MCSSEPayloads ==
    {<<first, <<"x", LF>>>> : first \in UNION {[1 .. n -> {"x", Space, CR, LF}] : n \in 1 .. 3}}

clientVars == <<producerVars, readerVars, chatVars, dbVars, httpVars, sseVars, focus>>

ClientsInit ==
    /\ focus \in {"producer", "reader", "handle", "chat", "db", "http", "sse"}
    /\ ProducerInit
    /\ focus # "producer" => setup = CHOOSE s \in ProducerSetups : TRUE
    /\ ReaderInit
    /\ focus # "reader" => /\ tail = 0 /\ ~shut /\ reading = "read"
                           /\ opts = CHOOSE s \in ReaderSetups : TRUE
    /\ IF focus = "chat" THEN ChatInit
       ELSE /\ HandleInit /\ ChatRests /\ writing = "none"
            /\ focus # "handle" => handleOpts = CHOOSE s \in HandleSetups : TRUE
            /\ chatOpts = CHOOSE s \in ChatSetups : TRUE
    /\ DBInit
    /\ focus # "db" => available = 0 /\ dbLog = CHOOSE l \in DBLogs : TRUE
    /\ HttpInit
    /\ focus # "http" => httpSetup = CHOOSE s \in HttpSetups : TRUE
    /\ SSEInit
    /\ focus # "sse" => ~binary /\ payloads = CHOOSE s \in SSEPayloads : TRUE

ClientsNext ==
    \/ focus = "producer" /\ ProducerNext
         /\ UNCHANGED <<readerVars, chatVars, dbVars, httpVars, sseVars, focus>>
    \/ focus = "reader" /\ ReaderNext
         /\ UNCHANGED <<producerVars, chatVars, dbVars, httpVars, sseVars, focus>>
    \/ focus = "handle" /\ HandleNext
         /\ UNCHANGED <<producerVars, readerVars, chatOwnVars, dbVars, httpVars, sseVars, focus>>
    \/ focus = "chat" /\ ChatNext
         /\ UNCHANGED <<producerVars, readerVars, dbVars, httpVars, sseVars, focus>>
    \/ focus = "db" /\ DBNext
         /\ UNCHANGED <<producerVars, readerVars, chatVars, httpVars, sseVars, focus>>
    \/ focus = "http" /\ HttpNext
         /\ UNCHANGED <<producerVars, readerVars, chatVars, dbVars, sseVars, focus>>
    \/ focus = "sse" /\ SSENext
         /\ UNCHANGED <<producerVars, readerVars, chatVars, dbVars, httpVars, focus>>

\* The fairness of the client in focus, as its module states it.
ClientsFairness ==
    /\ \A i \in Instances :
         /\ WF_producerVars(focus = "producer" /\ ProducerStep(i))
         /\ WF_producerVars(focus = "producer"
               /\ \E r \in requests : r.from = i /\ ServerHandles(r))
    /\ WF_readerVars(focus = "reader" /\ ReaderStep)
    /\ WF_readerVars(focus = "reader" /\ SSEServerTurn)
    /\ WF_readerVars(focus = "reader" /\ ConsumerReads)
    /\ WF_readerVars(focus = "reader" /\ ConsumerStops)
    /\ WF_readerVars(focus = "reader" /\ PipeStops)
    /\ WF_handleVars(focus = "handle" /\ \E p \in arriving : HandleAppendRequest(p))
    /\ WF_handleVars(focus = "handle" /\ \E a \in replies : ReplyArrives(a))
    /\ WF_handleVars(focus = "handle" /\ QueueReleases)
    /\ WF_chatVars(focus = "chat" /\ WriterStep)
    /\ WF_chatVars(focus = "chat" /\ ChatQueueReleases)
    /\ WF_chatVars(focus = "chat" /\ HandleStep /\ UNCHANGED chatOwnVars)
    /\ WF_dbVars(focus = "db" /\ ConnectEnds)
    /\ WF_dbVars(focus = "db"
          /\ \E to \in consumed .. available : BatchArrives(to, TRUE) /\ to = available)
    /\ \A c \in HttpClients : WF_httpVars(focus = "http" /\ HttpRequest(c))

ClientsSpec == ClientsInit /\ [][ClientsNext]_clientVars /\ ClientsFairness

\* Whoever writes comes to an end: a producer's flush() and the calls that begin with
\* one return, every append() of a handle is settled, and the task that writes an answer
\* returns (#batchWorker of both clients, writeSourceToStream).
WritersEnd == FlushEnds /\ AppendSettles /\ ChatWriterEnds
=============================================================================
