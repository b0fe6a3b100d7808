----------------------- MODULE SnapshotSubscriptions -----------------------
(***************************************************************************)
(* Subscriptions to the snapshots of Yjs documents (y-durable-streams/src/ *)
(* server/snapshot-subscriptions.ts): the Yjs server turns a PUT, GET or   *)
(* DELETE for a service's subscription into one for a subscription of the  *)
(* durable-streams server, on the index streams of the documents that the  *)
(* pattern names, and turns the answer back.  The durable-streams server's *)
(* part is createOrConfirm, get and delete of subscription-manager.ts, as  *)
(* in Subscriptions, whose inputs these are; a table of many subscriptions *)
(* takes the place of the one whose wakes are followed there.              *)
(*                                                                         *)
(* Paths and patterns are sequences of segments, as in Glob.               *)
(***************************************************************************)
EXTENDS Subscriptions

CONSTANTS
    Services, SubscriptionIds,
    Documents,            \* document paths
    Bodies,               \* bodies of PUT requests: [type, events, pattern, url, ttl]
    Callees,              \* the requests that are handled at the same time
    MaxCalls

ASSUME SnapshotBounds == MaxCalls \in Nat

VARIABLES
    table,        \* the durable-streams server's subscriptions: id -> record, or NoRecord
    serving,      \* requests under way
    lastReply,    \* the last answer
    callsMade

snapshotVars == <<table, serving, lastReply, callsMade>>

Routes == [service : Services, id : SubscriptionIds]
Event == "snapshot.available"
PlainSegments == {"a", "b"}       \* segments of [a-zA-Z0-9_-]+

NoRoute == [service |-> "", id |-> ""]
NoRecord == [config |-> <<>>, pattern |-> <<>>, by |-> NoRoute, asked |-> <<>>]
NoReply == [status |-> 0, route |-> NoRoute, pattern |-> <<>>, of |-> NoRoute, asked |-> <<>>]
NoBody == CHOOSE b \in Bodies : TRUE      \* of a GET or DELETE, which read none
NotServing == [op |-> "none"]

----------------------------------------------------------------------------
(* Streams of a document: YjsStreamPaths *)

Doc(service, doc) == <<"yjs", service, "docs">> \o doc
UpdatesStream(service, doc) == Doc(service, doc) \o <<".updates">>
IndexStream(service, doc) == Doc(service, doc) \o <<".index">>
SnapshotStream(service, doc) == Doc(service, doc) \o <<".snapshots", "k_snapshot">>
AwarenessStream(service, doc) == Doc(service, doc) \o <<".awareness", "default">>

\* Where earlier versions of the server kept the registry.
AwarenessIndexStream(service, doc) == Doc(service, doc) \o <<".awareness", ".index">>

AwarenessRegistryStream(service, doc) == Doc(service, doc) \o <<".awareness-index">>

OtherStreams(service, doc) ==
    {UpdatesStream(service, doc), SnapshotStream(service, doc), AwarenessStream(service, doc),
     AwarenessRegistryStream(service, doc)}

----------------------------------------------------------------------------
(* Requests and answers *)

\* Slashes at both ends are dropped; <<>> stands for null.
NormalizeDocumentPattern(p) ==
    LET solid == {i \in DOMAIN p : p[i] # ""}
        trimmed == IF solid = {} THEN <<>>
                   ELSE SubSeq(p, CHOOSE i \in solid : \A j \in solid : i <= j,
                                  CHOOSE i \in solid : \A j \in solid : i >= j)
    IN  IF \A i \in DOMAIN trimmed : trimmed[i] \in PlainSegments \cup {Wild, DeepWild}
        THEN trimmed ELSE <<>>

\* parseInput: what is not a 400 of the Yjs server.
ParseInput(b) ==
    /\ b.type = "webhook" /\ b.events = <<Event>>
    /\ NormalizeDocumentPattern(b.pattern) # <<>>
    /\ b.url # None

IndexPattern(service, p) == <<"yjs", service, "docs">> \o p \o <<".index">>

\* A mutant: services share the names of their subscriptions.
SharedSubscriptionId(route) == <<"yjs", route.id>>

\* Both parts are base64url, which has no ":" to be mistaken for the separator.
DeliverySubscriptionId(route) == <<"yjs", route.service, route.id>>

\* documentPatternFromSubscription; <<>> stands for undefined.
DocumentPatternFromSubscription(p, service) ==
    LET n == Len(p) IN
    IF n > 4 /\ SubSeq(p, 1, 3) = <<"yjs", service, "docs">> /\ p[n] = ".index"
    THEN SubSeq(p, 4, n - 1) ELSE <<>>

\* The body of the PUT that the durable-streams server gets.
SubscriptionInput(route, b) ==
    [type |-> b.type, pattern |-> IndexPattern(route.service, NormalizeDocumentPattern(b.pattern)),
     streams |-> {}, url |-> b.url, wakeStream |-> FALSE, ttl |-> b.ttl]

\* by and asked are history: who made it, with which pattern.
RecordOf(route, b) ==
    [config |-> <<SubscriptionInput(route, b)>>,
     pattern |-> IndexPattern(route.service, NormalizeDocumentPattern(b.pattern)),
     by |-> route, asked |-> NormalizeDocumentPattern(b.pattern)]

SnapshotReply(status, route, r) ==
    [status |-> status, route |-> route,
     pattern |-> DocumentPatternFromSubscription(r.pattern, route.service),
     of |-> r.by, asked |-> r.asked]

----------------------------------------------------------------------------
\* handle: a body that is refused is answered at once.
Arrives(c, op, route, b) ==
    /\ serving[c] = NotServing /\ callsMade < MaxCalls /\ callsMade' = callsMade + 1
    /\ IF op = "PUT" /\ ~ParseInput(b)
       THEN /\ lastReply' = SnapshotReply(400, route, NoRecord)
            /\ UNCHANGED serving
       ELSE /\ op # "PUT" => b = NoBody
            /\ serving' = [serving EXCEPT ![c] = [op |-> op, route |-> route, body |-> b]]
            /\ UNCHANGED lastReply
    /\ UNCHANGED table

\* The durable-streams server handles the request: what it answers, and holds then.
Answers(call) ==
    LET known == table[DeliverySubscriptionId(call.route)]
        in    == SubscriptionInput(call.route, call.body)
        Refused(status) == [status |-> status, record |-> NoRecord, holds |-> known]
        Shows(status, r) == [status |-> status, record |-> r, holds |-> r]
    IN  CASE call.op = "PUT" ->
               IF ~ParseCreateInput(in) THEN Refused(400)
               ELSE IF known # NoRecord
               THEN IF known.config = <<in>> THEN Shows(200, known) ELSE Refused(409)
               ELSE IF ~InputAccepted(in) THEN Refused(400)
               ELSE Shows(201, RecordOf(call.route, call.body))
          [] call.op = "GET" -> IF known = NoRecord THEN Refused(404) ELSE Shows(200, known)
          [] call.op = "DELETE" -> [Refused(204) EXCEPT !.holds = NoRecord]

\* requestSubscription and forwardResponse.
Forward(c) ==
    /\ serving[c] # NotServing
    /\ LET call == serving[c]
           a    == Answers(call)
       IN  /\ table' = [table EXCEPT ![DeliverySubscriptionId(call.route)] = a.holds]
           /\ lastReply' = SnapshotReply(a.status, call.route, a.record)
    /\ serving' = [serving EXCEPT ![c] = NotServing]
    /\ UNCHANGED callsMade

\* The request or its answer is lost: 502, whether or not it was handled.
Fails(c) ==
    /\ serving[c] # NotServing
    /\ LET call == serving[c] IN
       /\ \/ UNCHANGED table
          \/ table' = [table EXCEPT ![DeliverySubscriptionId(call.route)] = Answers(call).holds]
       /\ lastReply' = SnapshotReply(502, call.route, NoRecord)
    /\ serving' = [serving EXCEPT ![c] = NotServing]
    /\ UNCHANGED callsMade

SnapshotInit ==
    /\ table = [id \in {DeliverySubscriptionId(r) : r \in Routes} |-> NoRecord]
    /\ serving = [c \in Callees |-> NotServing]
    /\ lastReply = NoReply /\ callsMade = 0

SnapshotNext ==
    \E c \in Callees :
        \/ Forward(c) \/ Fails(c)
        \/ \E op \in {"PUT", "GET", "DELETE"}, route \in Routes, b \in Bodies : Arrives(c, op, route, b)

SnapshotSpec == SnapshotInit /\ [][SnapshotNext]_snapshotVars

----------------------------------------------------------------------------
\* The subscription the durable-streams server holds is woken by the index
\* streams of the documents of its service that match the pattern its owner
\* asked for, and by no other stream: not by another service's, not by updates,
\* snapshots or awareness (indexPattern, awarenessRegistryStream, globMatch).
WakesForSnapshots ==
    \A id \in DOMAIN table : LET r == table[id] IN
        r # NoRecord =>
            \A s \in Services, d \in Documents :
                /\ GlobMatch(r.pattern, IndexStream(s, d)) <=>
                       s = r.by.service /\ GlobMatch(r.asked, d)
                /\ \A o \in OtherStreams(s, d) : ~GlobMatch(r.pattern, o)

\* An answer shows the caller its own service's subscription, with the pattern
\* it was made with.
AnswersTheOwner ==
    lastReply.status \in {200, 201} =>
        lastReply.of = lastReply.route /\ lastReply.pattern = lastReply.asked

\* A subscription made through the Yjs server is what its owner asked for.
SnapshotsAnnounced == WakesForSnapshots /\ AnswersTheOwner
=============================================================================
