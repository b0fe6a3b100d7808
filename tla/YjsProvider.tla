---------------------------- MODULE YjsProvider -----------------------------
(***************************************************************************)
(* The Yjs provider of a client (y-durable-streams/src/yjs-provider.ts):   *)
(* connect() creates the document, loads its snapshot and follows its      *)
(* updates; local edits go out through an idempotent producer; awareness   *)
(* goes over a stream of its own.  Every connection is a context, and what *)
(* an older one was waiting for still arrives after disconnect(), which    *)
(* lets the producer flush before it aborts the context's requests.        *)
(*                                                                         *)
(* An update is the number of its append; offsets count updates.  The      *)
(* producer is the one of ProducerClient, seen from the provider: batches  *)
(* go out in order, each with the next number, or fail.  Every connection  *)
(* makes a producer of the same id, which begins at number 0 of epoch 0    *)
(* again, while the server keeps counting.                                 *)
(***************************************************************************)
EXTENDS Naturals, Sequences

CONSTANTS MaxConnects,   \* connections, the ones made after an error included
          ProviderSetups \* the providers: with awareness or not, and the bounds on the updates other
                         \* clients write, the local edits and the requests or sessions that fail

ASSUME ProviderAssumption ==
  /\ MaxConnects \in Nat \ {0}
  /\ \A p \in ProviderSetups : p.awareness \in BOOLEAN /\ {p.remote, p.edits, p.troubles} \subseteq Nat

VARIABLES provider,      \* one of the setups
          updates,       \* the document's stream: numbers of remote updates and of edits
          intake,        \* the number the server expects of the producer id, and (history) the edits
                         \* that will never be in the stream
          snapshotAt,    \* the offset of the document's snapshot, 0 when it has none
          doc,           \* the updates the local Y.Doc has
          link,          \* _state, _synced, _ctx and the generation of the update streams
          contexts,      \* the connection contexts made so far
          runs,          \* the runs of runUpdatesStream at an await
          subscription,  \* updatesSubscription: the generation of the run that holds it, or 0
          presence,      \* the local awareness and what was sent of it
          listening,     \* the runs of subscribeAwareness
          spent          \* edits, remote updates and troubles so far

providerVars == <<provider, intake, updates, snapshotAt, doc, link, contexts, runs, subscription, presence,
                  listening, spent>>

Prefix(n) == {updates[i] : i \in 1 .. n}
Everything == Prefix(Len(updates))
Between(m, n) == {updates[i] : i \in m + 1 .. n}
CtxAt(c, step) == c \in DOMAIN contexts /\ contexts[c].step = step

\* floor is the length of the stream when the connection began (history); seq and err are the producer's
\* next number and the error its later numbers wait for in vain
NewContext(floor) ==
  [step |-> "ensure", want |-> 0, start |-> 0, aborted |-> FALSE, producer |-> "none",
   out |-> <<>>, seq |-> 0, err |-> "none", floor |-> floor]

\* isStale: a later connection, a disconnection or an abort
StaleCtx(c) == link.ctx # c \/ contexts[c].aborted
StaleRun(r) == StaleCtx(r.ctx) \/ link.generation # r.gen

Trouble == spent.troubles < provider.troubles /\ spent' = [spent EXCEPT !.troubles = @ + 1]

(***************************************************************************)
(* disconnect() and connect().  Each is given the values it starts from,   *)
(* so that a handler may call one after the other.                         *)
(***************************************************************************)
\* what disconnect() leaves of the link; it does nothing when there is no connection
Unlinked(l) ==
  IF l.ctx = 0 THEN l
  ELSE [l EXCEPT !.state = "disconnected", !.synced = FALSE, !.early = FALSE, !.ctx = 0,
                 !.generation = @ + 1]

\* the producer flushes before the context's signal is aborted
Closing(cs, c) ==
  IF c = 0 THEN cs
  ELSE [cs EXCEPT ![c].producer = IF @ = "open" THEN "closing" ELSE @,
                  ![c].aborted = cs[c].producer # "open"]

\* broadcastAwarenessRemoval: the local state is cleared and that is sent on its own
Removed(p) == IF ~provider.awareness THEN p ELSE [p EXCEPT !.clock = @ + 1, !.seen = p.clock + 1, !.pending = FALSE]

Disconnected(cs) ==
  /\ link' = Unlinked(link)
  /\ contexts' = Closing(cs, link.ctx)
  /\ subscription' = IF link.ctx = 0 THEN subscription ELSE 0
  /\ presence' = IF link.ctx = 0 THEN presence ELSE Removed(presence)

Disconnect ==
  /\ link.ctx # 0
  /\ Disconnected(contexts)
  /\ UNCHANGED <<provider, intake, updates, snapshotAt, doc, runs, listening, spent>>

Connect ==
  /\ link.state = "disconnected" /\ Len(contexts) < MaxConnects
  /\ contexts' = Append(contexts, NewContext(Len(updates)))
  /\ link' = [link EXCEPT !.state = "connecting", !.ctx = Len(contexts) + 1]
  /\ UNCHANGED <<provider, intake, updates, snapshotAt, doc, runs, subscription, presence, listening, spent>>

\* closeUpdatesProducer is done (or gave up): abort, and drop the change of awareness that waits
ProducerCloses(c) ==
  /\ contexts[c].producer = "closing" /\ contexts[c].out = <<>>
  /\ contexts' = [contexts EXCEPT ![c].producer = "closed", ![c].aborted = TRUE]
  /\ presence' = [presence EXCEPT !.pending = FALSE]
  /\ UNCHANGED <<provider, intake, updates, snapshotAt, doc, link, runs, subscription, listening, spent>>

(***************************************************************************)
(* The steps of connect().                                                 *)
(***************************************************************************)
\* startUpdatesStream, unless the context is stale by now
StartUpdatesStream(c, start) ==
  IF StaleCtx(c)
  THEN /\ contexts' = [contexts EXCEPT ![c].step = "over"]
       /\ UNCHANGED <<link, runs, subscription>>
  ELSE /\ contexts' = [contexts EXCEPT ![c].step = "stream", ![c].start = start,
                                       ![c].producer = "open"]
       /\ link' = [link EXCEPT !.generation = @ + 1]
       /\ subscription' = 0
       /\ runs' = runs \cup {[ctx |-> c, gen |-> link.generation + 1, offset |-> start,
                              pending |-> TRUE, step |-> "opening"]}

EnsureDocument(c) ==
  /\ CtxAt(c, "ensure")
  /\ contexts' = [contexts EXCEPT ![c].step = IF StaleCtx(c) THEN "over" ELSE "discover"]
  /\ UNCHANGED <<provider, intake, updates, snapshotAt, doc, link, runs, subscription, presence, listening, spent>>

\* the redirect names a snapshot, which is loaded at once, or the beginning
DiscoverSnapshot(c) ==
  /\ CtxAt(c, "discover")
  /\ IF contexts[c].aborted \/ snapshotAt = 0 THEN StartUpdatesStream(c, 0)
     ELSE /\ contexts' = [contexts EXCEPT ![c].step = "load", ![c].want = snapshotAt]
          /\ UNCHANGED <<link, runs, subscription>>
  /\ UNCHANGED <<provider, intake, updates, snapshotAt, doc, presence, listening, spent>>

\* A mutant: a snapshot that was compacted away is taken for an empty one.
SnapshotSkipped(c) ==
  /\ CtxAt(c, "load")
  /\ doc' = IF contexts[c].want = snapshotAt THEN doc \cup Prefix(snapshotAt) ELSE doc
  /\ StartUpdatesStream(c, contexts[c].want)
  /\ UNCHANGED <<provider, intake, updates, snapshotAt, presence, listening, spent>>

\* a snapshot that was compacted away sends the provider back to discovery
LoadSnapshotOf(c) ==
  /\ CtxAt(c, "load")
  /\ IF ~contexts[c].aborted /\ contexts[c].want = snapshotAt
     THEN doc' = doc \cup Prefix(snapshotAt) /\ StartUpdatesStream(c, snapshotAt)
     ELSE /\ contexts' = [contexts EXCEPT ![c].step = IF contexts[c].aborted THEN "over" ELSE "discover"]
          /\ UNCHANGED <<doc, link, runs, subscription>>
  /\ UNCHANGED <<provider, intake, updates, snapshotAt, presence, listening, spent>>

\* a request of connect() fails: a context that is not stale disconnects
ConnectStepFails(c) ==
  /\ contexts[c].step \in {"ensure", "discover", "load"} /\ Trouble
  /\ IF StaleCtx(c)
     THEN contexts' = [contexts EXCEPT ![c].step = "over"] /\ UNCHANGED <<link, subscription, presence>>
     ELSE Disconnected([contexts EXCEPT ![c].step = "over"])
  /\ UNCHANGED <<provider, intake, updates, snapshotAt, doc, runs, listening>>

\* the initial sync is over: awareness starts
StartAwareness(c) ==
  /\ CtxAt(c, "stream") /\ \A r \in runs : r.ctx = c => ~r.pending
  /\ contexts' = [contexts EXCEPT ![c].step = "over"]
  /\ IF StaleCtx(c) \/ ~provider.awareness THEN UNCHANGED <<presence, listening>>
     ELSE /\ presence' = [presence EXCEPT !.pending = TRUE]
          /\ listening' = listening \cup {[ctx |-> c, step |-> "opening"]}
  /\ UNCHANGED <<provider, intake, updates, snapshotAt, doc, link, runs, subscription, spent>>

(***************************************************************************)
(* runUpdatesStream.                                                       *)
(***************************************************************************)
\* markSynced, which asks nothing about the run that calls it; early (history) is TRUE when the run had
\* not reached the tail
MarkSynced(l, r, early) ==
  IF ~r.pending THEN l
  ELSE [l EXCEPT !.state = IF @ = "connecting" THEN "connected" ELSE @, !.synced = TRUE, !.early = early]

RunGoes(r, s) == runs' = (runs \ {r}) \cup {s}

\* the response replaces whatever subscription there is
StreamOpens(r) ==
  /\ r.step = "opening" /\ ~contexts[r.ctx].aborted
  /\ subscription' = r.gen /\ RunGoes(r, [r EXCEPT !.step = "reading"])
  /\ UNCHANGED <<provider, intake, updates, snapshotAt, doc, link, contexts, presence, listening, spent>>

\* The subscriber: applies the chunk; one that reaches the tail ends the initial sync, and any other one
\* with data sets synced too, early when the initial sync is not over.
ChunkArrives(r) ==
  /\ r.step = "reading" /\ subscription = r.gen /\ ~StaleRun(r)
  /\ \E n \in r.offset .. Len(updates) :
       LET upToDate == n = Len(updates)
       IN /\ n > r.offset \/ (r.pending /\ upToDate)
          /\ doc' = doc \cup Between(r.offset, n)
          /\ link' = IF r.pending /\ upToDate THEN MarkSynced(link, r, FALSE)
                     ELSE [link EXCEPT !.synced = TRUE, !.early = (@ \/ r.pending) /\ ~upToDate]
          /\ RunGoes(r, [r EXCEPT !.offset = n, !.pending = @ /\ ~upToDate])
  /\ UNCHANGED <<provider, intake, updates, snapshotAt, contexts, subscription, presence, listening, spent>>

\* a session ends because it was unsubscribed, or because the server ended it
Cut(r) == IF subscription # r.gen THEN UNCHANGED spent ELSE Trouble

\* A mutant: a session that ends is the end of the run.
SessionEndsRun(r) ==
  /\ r.step = "reading" /\ Cut(r)
  /\ link' = MarkSynced(link, r, TRUE)
  /\ runs' = runs \ {r} /\ subscription' = 0
  /\ UNCHANGED <<provider, intake, updates, snapshotAt, doc, contexts, presence, listening>>

\* the session ends without an error: it was unsubscribed, or the server ended it; the run goes on
\* with the next one while its generation is the current one
SessionEnds(r) ==
  /\ r.step = "reading" /\ Cut(r)
  /\ link' = MarkSynced(link, r, TRUE)
  /\ runs' = (runs \ {r}) \cup
       (IF link.generation = r.gen /\ ~contexts[r.ctx].aborted
        THEN {[r EXCEPT !.step = "opening", !.pending = FALSE]} ELSE {})
  /\ subscription' = 0
  /\ UNCHANGED <<provider, intake, updates, snapshotAt, doc, contexts, presence, listening>>

\* an error, of the request or of the session: over when the run is stale, a disconnection before the
\* initial sync or when the document is gone, and otherwise another attempt after a second, until which
\* the subscription stays
StreamFails(r) ==
  /\ r.step \in {"opening", "reading"}
  /\ IF contexts[r.ctx].aborted THEN UNCHANGED spent ELSE Trouble
  /\ \/ /\ StaleRun(r)
        /\ link' = MarkSynced(link, r, TRUE) /\ runs' = runs \ {r} /\ subscription' = 0
        /\ UNCHANGED <<contexts, presence>>
     \/ ~StaleRun(r) /\ runs' = runs \ {r} /\ Disconnected(contexts)
     \/ /\ ~StaleRun(r) /\ ~r.pending
        /\ RunGoes(r, [r EXCEPT !.step = "waiting"])
        /\ UNCHANGED <<link, contexts, subscription, presence>>
  /\ UNCHANGED <<provider, intake, updates, snapshotAt, doc, listening>>

\* after the wait whatever subscription there is now is ended, a newer connection's too
StreamRetries(r) ==
  /\ r.step = "waiting" /\ subscription' = 0
  /\ runs' = (runs \ {r}) \cup
       (IF link.generation = r.gen /\ ~contexts[r.ctx].aborted THEN {[r EXCEPT !.step = "opening"]} ELSE {})
  /\ UNCHANGED <<provider, intake, updates, snapshotAt, doc, link, contexts, presence, listening, spent>>

(***************************************************************************)
(* The document: edits, the producer, other clients and compaction.        *)
(***************************************************************************)
\* handleDocumentUpdate: an edit is sent when there is a connection, and otherwise never
Edit ==
  /\ spent.edits < provider.edits /\ spent' = [spent EXCEPT !.edits = @ + 1]
  /\ LET id == provider.remote + spent.edits + 1
         c  == link.ctx
     IN /\ doc' = doc \cup {id}
        /\ IF c # 0 /\ contexts[c].producer = "open" /\ link.state = "connected"
           THEN /\ contexts' = [contexts EXCEPT ![c].out = Append(@, id)]
                /\ link' = [link EXCEPT !.synced = FALSE]
                /\ UNCHANGED intake
           ELSE intake' = [intake EXCEPT !.lost = @ \cup {id}] /\ UNCHANGED <<contexts, link>>
  /\ UNCHANGED <<provider, updates, snapshotAt, runs, subscription, presence, listening>>

\* The next batch is of the first n edits; its number is used up, whatever comes of it.
CanSend(c, n) == n \in 1 .. Len(contexts[c].out) /\ contexts[c].producer \in {"open", "closing"}
Taken(c, n, err) ==
  [contexts EXCEPT ![c].out = SubSeq(@, n + 1, Len(@)), ![c].seq = @ + 1, ![c].err = err]

\* a batch that never arrives, and one that does: the server stores it when its number is the next one,
\* and takes it for a duplicate when an earlier connection used the number
Lost(c, n) ==
  /\ intake' = [intake EXCEPT !.lost = @ \cup {contexts[c].out[i] : i \in 1 .. n}]
  /\ UNCHANGED updates
Posted(c, n) ==
  \/ /\ contexts[c].seq = intake.next /\ intake' = [intake EXCEPT !.next = @ + 1]
     /\ updates' = updates \o SubSeq(contexts[c].out, 1, n)
  \/ contexts[c].seq < intake.next /\ Lost(c, n)

ProducerSends(c) ==
  /\ \E n \in 1 .. Len(contexts[c].out) :
       CanSend(c, n) /\ Posted(c, n) /\ contexts' = Taken(c, n, contexts[c].err)
  /\ UNCHANGED <<provider, snapshotAt, doc, link, runs, subscription, presence, listening, spent>>

\* onError: whatever connection there is now is replaced by a new one, unless the server said 401 or 403
OnError(cs, err) ==
  \/ err = "auth" /\ contexts' = cs /\ UNCHANGED <<link, subscription, presence>>
  \/ err = "other" /\ Len(cs) = MaxConnects /\ Disconnected(cs)
  \/ /\ err = "other" /\ Len(cs) < MaxConnects
     /\ contexts' = Append(Closing(cs, link.ctx), NewContext(Len(updates')))
     /\ link' = [Unlinked(link) EXCEPT !.state = "connecting", !.ctx = Len(cs) + 1]
     /\ subscription' = IF link.ctx = 0 THEN subscription ELSE 0
     /\ presence' = IF link.ctx = 0 THEN presence ELSE Removed(presence)

\* A batch fails and is not sent again: its request, so that the number stays open, or only the answer.
ProducerFails(c) ==
  /\ Trouble
  /\ \E n \in 1 .. Len(contexts[c].out), err \in {"auth", "other"} :
       /\ CanSend(c, n)
       /\ \/ /\ Lost(c, n)
             /\ OnError(Taken(c, n, IF contexts[c].seq = intake.next THEN err ELSE contexts[c].err), err)
          \/ err = "other" /\ Posted(c, n) /\ OnError(Taken(c, n, contexts[c].err), err)
  /\ UNCHANGED <<provider, snapshotAt, doc, runs, listening>>

\* 409: a number is missing, and the error of the batch that had it is the error of those behind
ProducerWaitsInVain(c) ==
  /\ contexts[c].seq > intake.next
  /\ \E n \in 1 .. Len(contexts[c].out) :
       CanSend(c, n) /\ Lost(c, n) /\ OnError(Taken(c, n, contexts[c].err), contexts[c].err)
  /\ UNCHANGED <<provider, snapshotAt, doc, runs, listening, spent>>

RemoteUpdate ==
  /\ spent.remote < provider.remote /\ spent' = [spent EXCEPT !.remote = @ + 1]
  /\ updates' = Append(updates, spent.remote + 1)
  /\ UNCHANGED <<provider, intake, snapshotAt, doc, link, contexts, runs, subscription, presence, listening>>

Compacted ==
  /\ snapshotAt < Len(updates) /\ snapshotAt' = Len(updates)
  /\ UNCHANGED <<provider, intake, updates, doc, link, contexts, runs, subscription, presence, listening, spent>>

(***************************************************************************)
(* Awareness: the clock of the local state, whether a change is pending,   *)
(* the clock in flight and the latest one the stream has.                  *)
(***************************************************************************)
\* handleAwarenessUpdate and the heartbeat's broadcastAwareness
AwarenessChanges ==
  /\ provider.awareness /\ presence.clock = 0 /\ link.ctx # 0
  /\ presence' = [presence EXCEPT !.clock = @ + 1, !.pending = TRUE]
  /\ UNCHANGED <<provider, intake, updates, snapshotAt, doc, link, contexts, runs, subscription, listening, spent>>

Heartbeat ==
  /\ link.state = "connected" /\ listening # {} /\ presence.seen < presence.clock
  /\ presence' = [presence EXCEPT !.pending = TRUE]
  /\ UNCHANGED <<provider, intake, updates, snapshotAt, doc, link, contexts, runs, subscription, listening, spent>>

\* sendAwareness takes the pending change, and goes on while there is another
SendAwareness ==
  /\ presence.pending /\ presence.sending = 0 /\ link.ctx # 0
  /\ presence' = [presence EXCEPT !.pending = FALSE, !.sending = presence.clock + 1]
  /\ UNCHANGED <<provider, intake, updates, snapshotAt, doc, link, contexts, runs, subscription, listening, spent>>

AwarenessSent ==
  /\ presence.sending # 0
  /\ presence' = [presence EXCEPT !.sending = 0,
                    !.seen = IF presence.sending - 1 > @ THEN presence.sending - 1 ELSE @]
  /\ UNCHANGED <<provider, intake, updates, snapshotAt, doc, link, contexts, runs, subscription, listening, spent>>

AwarenessFails ==
  /\ presence.sending # 0 /\ Trouble
  /\ presence' = [presence EXCEPT !.sending = 0]
  /\ UNCHANGED <<provider, intake, updates, snapshotAt, doc, link, contexts, runs, subscription, listening>>

\* subscribeAwareness: one subscription, which the last response to arrive takes from the others
AwarenessOpens(a) ==
  /\ a.step = "opening" /\ ~contexts[a.ctx].aborted
  /\ listening' = {[b EXCEPT !.step = IF @ = "reading" THEN "ended" ELSE @] : b \in listening \ {a}}
                  \cup {[a EXCEPT !.step = "reading"]}
  /\ UNCHANGED <<provider, intake, updates, snapshotAt, doc, link, contexts, runs, subscription, presence, spent>>

\* it ends, or fails, and is opened again while the provider is connected
AwarenessAgain(a) ==
  /\ \/ (a.step = "ended" \/ contexts[a.ctx].aborted \/ link.ctx = 0) /\ UNCHANGED spent
     \/ Trouble
  /\ listening' = (listening \ {a}) \cup
       (IF link.state = "connected" /\ ~contexts[a.ctx].aborted THEN {[a EXCEPT !.step = "opening"]} ELSE {})
  /\ UNCHANGED <<provider, intake, updates, snapshotAt, doc, link, contexts, runs, subscription, presence>>

-----------------------------------------------------------------------------
ProviderInit ==
  /\ provider \in ProviderSetups /\ intake = [next |-> 0, lost |-> {}]
  /\ updates = <<>> /\ snapshotAt = 0 /\ doc = {} /\ contexts = <<>> /\ runs = {}
  /\ link = [state |-> "disconnected", synced |-> FALSE, early |-> FALSE, ctx |-> 0, generation |-> 0]
  /\ subscription = 0 /\ listening = {}
  /\ presence = [clock |-> 0, pending |-> FALSE, sending |-> 0, seen |-> 0]
  /\ spent = [edits |-> 0, remote |-> 0, troubles |-> 0]

ConnectSteps(c) == EnsureDocument(c) \/ DiscoverSnapshot(c) \/ LoadSnapshotOf(c) \/ StartAwareness(c)
RunSteps(r) ==
  \/ StreamOpens(r) \/ ChunkArrives(r) \/ StreamRetries(r)
  \/ (subscription # r.gen /\ SessionEnds(r)) \/ (contexts[r.ctx].aborted /\ StreamFails(r))
ProducerSteps(c) == ProducerSends(c) \/ ProducerWaitsInVain(c) \/ ProducerCloses(c)
ListenSteps(a) ==
  AwarenessOpens(a) \/ ((a.step = "ended" \/ contexts[a.ctx].aborted) /\ AwarenessAgain(a))
PresenceSteps == Heartbeat \/ SendAwareness \/ AwarenessSent

ProviderNext ==
  \/ Connect \/ Disconnect \/ Edit \/ RemoteUpdate \/ Compacted
  \/ AwarenessChanges \/ Heartbeat \/ SendAwareness \/ AwarenessSent \/ AwarenessFails
  \/ \E c \in DOMAIN contexts :
       \/ EnsureDocument(c) \/ DiscoverSnapshot(c) \/ LoadSnapshotOf(c) \/ StartAwareness(c)
       \/ ConnectStepFails(c) \/ ProducerSends(c) \/ ProducerFails(c) \/ ProducerWaitsInVain(c)
       \/ ProducerCloses(c)
  \/ \E r \in runs : \/ StreamOpens(r) \/ ChunkArrives(r) \/ SessionEnds(r) \/ StreamFails(r)
                     \/ StreamRetries(r)
  \/ \E a \in listening : AwarenessOpens(a) \/ AwarenessAgain(a)

\* Requests are answered, or aborted ones rejected; timers fire; the event loop runs what is ready.
ProviderFairness ==
  /\ WF_providerVars(\E c \in DOMAIN contexts : ConnectSteps(c))
  /\ WF_providerVars(\E c \in DOMAIN contexts : ProducerSteps(c))
  /\ WF_providerVars(\E r \in runs : RunSteps(r))
  /\ WF_providerVars(\E a \in listening : ListenSteps(a))
  /\ WF_providerVars(PresenceSteps)

ProviderSpec == ProviderInit /\ [][ProviderNext]_providerVars /\ ProviderFairness

-----------------------------------------------------------------------------
\* A provider that says it is synced is connecting or connected and has everything that was in the
\* document when it began to connect (runUpdatesStream, loadSnapshot).  Excepted is a synced that was set
\* early, until a chunk that reaches the tail arrives: by the first chunk with data of an initial sync that
\* is not over, and by a session that ended or failed before it was over, of whichever connection.
SyncedHasAll ==
  link.synced /\ ~link.early => link.ctx # 0 /\ Prefix(contexts[link.ctx].floor) \subseteq doc

\* A provider that nobody disconnects ends up connected, with all updates applied, nothing left to send and
\* its latest awareness published, whatever older connections still do (connect, runUpdatesStream,
\* closeUpdatesProducer, sendAwareness, subscribeAwareness); every edit is in the document's stream but
\* those made without a connection, those of a batch that failed or that waits behind one that did, and
\* those whose number an earlier connection had used (createUpdatesProducer).
ProviderCatchesUp ==
  []<>(link.state = "disconnected"
       \/ (link.state = "connected" /\ Everything \subseteq doc /\ doc \subseteq Everything \cup intake.lost
           /\ presence.seen = presence.clock /\ \A c \in DOMAIN contexts : contexts[c].out = <<>>))
=============================================================================
