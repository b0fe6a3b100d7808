------------------------------- MODULE Proxy --------------------------------
(***************************************************************************)
(* The proxy (proxy/src): a caller's request goes to an upstream server,   *)
(* and the answer's body is piped into a durable stream which the caller   *)
(* reads, and which it can find again by its credentials when the request  *)
(* is repeated (client/durable-fetch.ts).  The pipe gathers chunks and     *)
(* posts them in batches; it ends with the body, with an error, with an    *)
(* abort or after a time of inactivity.                                    *)
(*                                                                         *)
(* The body of an answer is the sequence 1 .. BodyChunks.  An abort makes  *)
(* the read under way fail, and a cancelled reader reports the end of the  *)
(* body: this is what the fetch API says of them (external).  All callers  *)
(* use the same request id.                                                *)
(***************************************************************************)
EXTENDS Naturals, Sequences, FiniteSets

CONSTANTS Callers,
          Allowlist,       \* patterns of upstream URLs
          Upstreams,       \* the URLs the callers ask for
          BodyChunks,      \* chunks of a body
          BatchChunks,     \* batchSizeThreshold, in chunks
          MaxProxied,      \* streams the proxy creates
          MaxProxyFaults   \* requests that fail or whose answer is lost

ASSUME ProxyAssumption == BodyChunks \in Nat /\ BatchChunks \in Nat \ {0}

VARIABLES proxied,       \* the durable streams: is it there, what it holds, is it closed
          pipes,         \* pipeUpstreamBody, one for every stream
          connections,   \* activeConnections
          removing,      \* streams whose DELETE is under way
          credentials,   \* what the storage holds for the request id: a stream, or 0
          callers,       \* the callers
          unclosed,      \* history: streams nobody closes: their answer had no body, or the last close failed
          proxyFaults    \* faults so far

proxyVars == <<proxied, pipes, connections, removing, credentials, callers, unclosed, proxyFaults>>

(***************************************************************************)
(* allowlist.ts.  A URL is its protocol, the labels of its host name, its  *)
(* port (0 when it is not given) and the segments of its path.  A pattern  *)
(* may leave the protocol and the port open, may stand for all hosts below *)
(* a domain and for all paths below a prefix.                              *)
(***************************************************************************)
AnyPort == 65536
AnyProtocol == "any"

DefaultPort(protocol) == IF protocol = "https" THEN 443 ELSE 80
NormalizePort(port, protocol) == IF port = DefaultPort(protocol) THEN 0 ELSE port

EndsWith(s, t) == Len(s) > Len(t) /\ SubSeq(s, Len(s) - Len(t) + 1, Len(s)) = t
BeginsWith(s, t) == Len(s) >= Len(t) /\ SubSeq(s, 1, Len(t)) = t

\* the regular expressions parseAllowlistPattern makes; the port of the pattern is not normalised
Matches(pattern, url) ==
  /\ pattern.protocol \in {AnyProtocol, url.protocol}
  /\ IF pattern.subdomains THEN EndsWith(url.host, pattern.host) ELSE url.host = pattern.host
  /\ pattern.port \in {AnyPort, NormalizePort(url.port, url.protocol)}
  /\ IF pattern.below THEN BeginsWith(url.path, pattern.path) ELSE url.path = pattern.path

IsAllowed(url) ==
  /\ url.protocol \in {"http", "https"} /\ url.host # <<>>
  /\ \E pattern \in Allowlist : Matches(pattern, url)

Fault == proxyFaults < MaxProxyFaults /\ proxyFaults' = proxyFaults + 1

(***************************************************************************)
(* durable-fetch.ts: resume with the credentials, or create a stream.      *)
(***************************************************************************)
Caller(step, at) == [step |-> step, at |-> at, url |-> CHOOSE u \in Upstreams : TRUE, got |-> <<>>]
Turns(c, step) == callers' = [callers EXCEPT ![c].step = step]

\* the credentials may be too old by now (isUrlExpired)
Begin(c, url) ==
  /\ callers[c].step = "idle"
  /\ \E step \in {"create"} \cup (IF credentials # 0 THEN {"resume"} ELSE {}) :
       callers' = [callers EXCEPT ![c] = [Caller(step, credentials) EXCEPT !.url = url]]
  /\ UNCHANGED <<proxied, pipes, connections, removing, credentials, unclosed, proxyFaults>>

Resume(c) ==
  /\ callers[c].step = "resume" /\ proxied[callers[c].at].there
  /\ Turns(c, "reading")
  /\ UNCHANGED <<proxied, pipes, connections, removing, credentials, unclosed, proxyFaults>>

\* the credentials are removed, whichever they are by now; only an expected error leads to a new request
ResumeFails(c) ==
  /\ callers[c].step = "resume"
  /\ \/ ~proxied[callers[c].at].there /\ Turns(c, "create") /\ UNCHANGED proxyFaults
     \/ Fault /\ \E step \in {"create", "failed"} : Turns(c, step)
  /\ credentials' = 0
  /\ UNCHANGED <<proxied, pipes, connections, removing, unclosed>>

(***************************************************************************)
(* handleCreateStream.                                                     *)
(***************************************************************************)
\* the URL is not allowed, or the upstream server refuses, redirects or does not answer in time
CreateFails(c) ==
  /\ callers[c].step = "create"
  /\ IF IsAllowed(callers[c].url) THEN Fault ELSE UNCHANGED proxyFaults
  /\ Turns(c, "failed")
  /\ UNCHANGED <<proxied, pipes, connections, removing, credentials, unclosed>>

\* the upstream server answers 2xx
UpstreamAnswers(c) ==
  /\ callers[c].step = "create" /\ IsAllowed(callers[c].url)
  /\ Turns(c, "store")
  /\ UNCHANGED <<proxied, pipes, connections, removing, credentials, unclosed, proxyFaults>>

NewPipe == [step |-> "read", next |-> 1, buffer |-> <<>>, aborted |-> FALSE]

\* the stream is created, the caller is told and the pipe begins
CreateStored(c) ==
  /\ callers[c].step = "store" /\ Len(proxied) < MaxProxied
  /\ proxied' = Append(proxied, [there |-> TRUE, stored |-> <<>>, closed |-> FALSE])
  /\ pipes' = Append(pipes, NewPipe)
  /\ connections' = connections \cup {Len(proxied) + 1}
  /\ callers' = [callers EXCEPT ![c].step = "told", ![c].at = Len(proxied) + 1]
  /\ UNCHANGED <<removing, credentials, unclosed, proxyFaults>>

\* the same for an answer that has no body: no pipe runs, and the stream is never closed
CreateBodyless(c) ==
  /\ callers[c].step = "store" /\ Len(proxied) < MaxProxied
  /\ proxied' = Append(proxied, [there |-> TRUE, stored |-> <<>>, closed |-> FALSE])
  /\ pipes' = Append(pipes, [NewPipe EXCEPT !.step = "over"])
  /\ unclosed' = unclosed \cup {Len(proxied) + 1}
  /\ callers' = [callers EXCEPT ![c].step = "told", ![c].at = Len(proxied) + 1]
  /\ UNCHANGED <<connections, removing, credentials, proxyFaults>>

\* the stream cannot be created, or the answer to the caller is lost
CreateLost(c) ==
  /\ callers[c].step \in {"store", "told"} /\ Fault
  /\ Turns(c, "failed")
  /\ UNCHANGED <<proxied, pipes, connections, removing, credentials, unclosed>>

SaveCredentials(c) ==
  /\ callers[c].step = "told"
  /\ credentials' = callers[c].at /\ Turns(c, "reading")
  /\ UNCHANGED <<proxied, pipes, connections, removing, unclosed, proxyFaults>>

\* handleReadStream, followed live until the stream is closed
ReadStored(c) ==
  /\ callers[c].step = "reading"
  /\ LET s == proxied[callers[c].at]
         n == Len(callers[c].got)
     IN \/ s.there /\ n < Len(s.stored)
           /\ callers' = [callers EXCEPT ![c].got = Append(@, s.stored[n + 1])]
        \/ s.there /\ n = Len(s.stored) /\ s.closed /\ Turns(c, "done")
        \/ ~s.there /\ Turns(c, "failed")
  /\ UNCHANGED <<proxied, pipes, connections, removing, credentials, unclosed, proxyFaults>>

Repeat(c) ==
  /\ callers[c].step \in {"done", "failed"} /\ proxyFaults < MaxProxyFaults
  /\ callers' = [callers EXCEPT ![c] = Caller("idle", 0)]
  /\ proxyFaults' = proxyFaults + 1
  /\ UNCHANGED <<proxied, pipes, connections, removing, credentials, unclosed>>

(***************************************************************************)
(* pipeUpstreamBody.                                                       *)
(***************************************************************************)
Goto(i, step) == pipes' = [pipes EXCEPT ![i].step = step]

\* flush() does nothing when nothing was gathered
Flushing(p, step, after) == [p EXCEPT !.step = IF p.buffer = <<>> THEN after ELSE step]

\* a chunk: the batch is posted when it is large enough or old enough
ReadChunk(i) ==
  /\ pipes[i].step = "read" /\ ~pipes[i].aborted /\ pipes[i].next <= BodyChunks
  /\ \E old \in BOOLEAN :
       LET p == [pipes[i] EXCEPT !.buffer = Append(@, pipes[i].next), !.next = @ + 1]
       IN pipes' = [pipes EXCEPT ![i] =
            IF old \/ Len(p.buffer) >= BatchChunks THEN Flushing(p, "flush", "read") ELSE p]
  /\ UNCHANGED <<proxied, connections, removing, credentials, callers, unclosed, proxyFaults>>

\* the end of the body, or the cancelled reader of the inactivity timeout, which looks the same
BodyEnds(i) ==
  /\ pipes[i].step = "read" /\ ~pipes[i].aborted
  /\ pipes' = [pipes EXCEPT ![i] = Flushing(@, "last flush", "close")]
  /\ UNCHANGED <<proxied, connections, removing, credentials, callers, unclosed, proxyFaults>>

\* the read fails: an abort, or the upstream server
ReadFails(i) ==
  /\ pipes[i].step = "read" /\ (IF pipes[i].aborted THEN UNCHANGED proxyFaults ELSE Fault)
  /\ pipes' = [pipes EXCEPT ![i] = Flushing(@, "rescue", "rescue close")]
  /\ UNCHANGED <<proxied, connections, removing, credentials, callers, unclosed>>

FlushSteps == {"flush", "last flush", "rescue"}
Open(i) == proxied[i].there /\ ~proxied[i].closed
Takes(i) == proxied' = [proxied EXCEPT ![i].stored = @ \o pipes[i].buffer]

NextStep(step) ==
  CASE step = "flush" -> "read" [] step = "last flush" -> "close" [] step = "rescue" -> "rescue close"

FlushStored(i) ==
  /\ pipes[i].step \in FlushSteps /\ Open(i) /\ Takes(i)
  /\ pipes' = [pipes EXCEPT ![i].buffer = <<>>,
       ![i].step = NextStep(@)]
  /\ UNCHANGED <<connections, removing, credentials, callers, unclosed, proxyFaults>>

\* A mutant: the buffer is emptied once the POST has succeeded.
KeepsBuffer(p) == IF p.step = "rescue" THEN [p EXCEPT !.buffer = <<>>, !.step = "rescue close"]
                  ELSE [p EXCEPT !.step = "rescue"]

\* what a failed POST leaves: the buffer was emptied before it, so the error path has nothing to flush
AfterFailure(p) == [p EXCEPT !.buffer = <<>>, !.step = "rescue close"]

FlushFails(i) ==
  /\ pipes[i].step \in FlushSteps
  /\ \/ ~Open(i) /\ UNCHANGED <<proxied, proxyFaults>>
     \/ Open(i) /\ Fault /\ (Takes(i) \/ UNCHANGED proxied)
  /\ pipes' = [pipes EXCEPT ![i] = AfterFailure(@)]
  /\ UNCHANGED <<connections, removing, credentials, callers, unclosed>>

\* the last of the pipe: unregisterConnection
Over(i) == Goto(i, "over") /\ connections' = connections \ {i}

Shut(i) == proxied' = [proxied EXCEPT ![i].closed = @ \/ proxied[i].there]

\* a refusal is only logged; a request that fails has the error path close the stream once more
CloseStream(i) ==
  /\ pipes[i].step = "close"
  /\ \/ Shut(i) /\ Over(i) /\ UNCHANGED <<unclosed, proxyFaults>>
     \/ Fault /\ Over(i) /\ unclosed' = unclosed \cup {i} /\ UNCHANGED proxied
     \/ /\ Fault /\ Goto(i, "rescue close") /\ (Shut(i) \/ UNCHANGED proxied)
        /\ UNCHANGED <<connections, unclosed>>
  /\ UNCHANGED <<removing, credentials, callers>>

\* A mutant: after an error the stream is left as it is.
RescueWithoutClose(i) ==
  /\ pipes[i].step = "rescue close"
  /\ Over(i)
  /\ UNCHANGED <<proxied, removing, credentials, callers, unclosed, proxyFaults>>

\* the catch of handleCreateStream: "so readers don't hang indefinitely"
RescueClose(i) ==
  /\ pipes[i].step = "rescue close" /\ Over(i)
  /\ \/ Shut(i) /\ UNCHANGED <<unclosed, proxyFaults>>
     \/ Fault /\ unclosed' = unclosed \cup {i} /\ UNCHANGED proxied
  /\ UNCHANGED <<removing, credentials, callers>>

(***************************************************************************)
(* Abort and delete.                                                       *)
(***************************************************************************)
\* abortConnection: does nothing when the pipe is over
AbortConnection(i) ==
  /\ pipes' = [pipes EXCEPT ![i].aborted = @ \/ i \in connections]
  /\ connections' = connections \ {i}

HandleAbort(i) ==
  /\ i \in connections /\ AbortConnection(i)
  /\ UNCHANGED <<proxied, removing, credentials, callers, unclosed, proxyFaults>>

HandleDeleteStream(i) ==
  /\ proxied[i].there /\ i \notin removing
  /\ AbortConnection(i) /\ removing' = removing \cup {i}
  /\ UNCHANGED <<proxied, credentials, callers, unclosed, proxyFaults>>

\* the DELETE reaches the durable-streams server, or fails, which is only logged
DeleteArrives(i) ==
  /\ i \in removing /\ removing' = removing \ {i}
  /\ \/ proxied' = [proxied EXCEPT ![i].there = FALSE] /\ UNCHANGED proxyFaults
     \/ Fault /\ UNCHANGED proxied
  /\ UNCHANGED <<pipes, connections, credentials, callers, unclosed>>

-----------------------------------------------------------------------------
ProxyInit ==
  /\ proxied = <<>> /\ pipes = <<>> /\ connections = {} /\ removing = {} /\ credentials = 0
  /\ callers = [c \in Callers |-> Caller("idle", 0)] /\ unclosed = {} /\ proxyFaults = 0

ProxyNext ==
  \/ \E c \in Callers : \/ \E url \in Upstreams : Begin(c, url)
                        \/ Resume(c) \/ ResumeFails(c) \/ CreateFails(c) \/ UpstreamAnswers(c)
                        \/ CreateStored(c) \/ CreateBodyless(c) \/ CreateLost(c) \/ SaveCredentials(c)
                        \/ ReadStored(c) \/ Repeat(c)
  \/ \E i \in DOMAIN pipes : \/ ReadChunk(i) \/ BodyEnds(i) \/ ReadFails(i) \/ FlushStored(i) \/ FlushFails(i)
                             \/ CloseStream(i) \/ RescueClose(i)
                             \/ HandleAbort(i) \/ HandleDeleteStream(i) \/ DeleteArrives(i)

\* The pipe goes on: the inactivity timer ends a silent body, and every request is answered or fails.
PipeSteps(i) ==
  \/ ReadChunk(i) \/ BodyEnds(i) \/ (pipes[i].aborted /\ ReadFails(i)) \/ FlushStored(i)
  \/ (~Open(i) /\ FlushFails(i)) \/ CloseStream(i) \/ RescueClose(i)

ProxyFairness ==
  /\ \A i \in 1 .. MaxProxied : WF_proxyVars(i \in DOMAIN pipes /\ PipeSteps(i))
  /\ \A c \in Callers : WF_proxyVars(ReadStored(c))

ProxySpec == ProxyInit /\ [][ProxyNext]_proxyVars /\ ProxyFairness

-----------------------------------------------------------------------------
\* What a proxied stream holds, and so what a caller reads of it, is a prefix of the upstream body: no chunk is
\* missing in the middle, twice or out of order, whatever batch, answer or abort was lost (flush and the
\* error path of pipeUpstreamBody).
StoredIsPrefix ==
  /\ \A i \in DOMAIN proxied : proxied[i].stored = [k \in 1 .. Len(proxied[i].stored) |-> k]
  /\ \A c \in Callers : callers[c].got = [k \in 1 .. Len(callers[c].got) |-> k]

\* A caller that reads does not hang: the stream it follows is closed or deleted in the end (pipeUpstreamBody and
\* the catch in handleCreateStream).  Two kinds of streams are excepted, for nobody ever closes them: those of an
\* answer without a body, and those whose last request to close was refused or failed, which is not repeated.
ReadersReleased ==
  []<>(\A c \in Callers : callers[c].step = "reading" => callers[c].at \in unclosed)
=============================================================================
