--------------------------- MODULE RequestRouting ---------------------------
(***************************************************************************)
(* Which handler a request gets: in the reference server (handleRequest of *)
(* server.ts and of subscription-routes.ts), in the worker in front of the *)
(* Durable Objects (server-cloudflare/src/handler.ts) and in the Yjs       *)
(* server (handleRequest of yjs-server.ts); and the stream each handler of *)
(* the Yjs server turns to.                                                *)
(*                                                                         *)
(* A path is the sequence of its segments, "" between two slashes; no      *)
(* segment is percent-encoded.                                             *)
(***************************************************************************)
EXTENDS SnapshotSubscriptions, SequencesExt

Methods == {"PUT", "HEAD", "GET", "POST", "DELETE", "OPTIONS", "PATCH"}

----------------------------------------------------------------------------
(* The reference server *)

ControlPrefix == <<"v1", "stream", "__ds">>
SubscriptionPrefix == ControlPrefix \o <<"subscriptions">>

\* The slash after the prefix is part of it.
Below(prefix, path) == IsStrictPrefix(prefix, path)

ParsedRoute(action, id, stream) == [action |-> action, id |-> id, stream |-> stream]
NotARoute == ParsedRoute("none", "", <<>>)

\* normalizeRelativePath
Trimmed(p) ==
    LET solid == {i \in DOMAIN p : p[i] # ""}
    IN  IF solid = {} THEN <<>>
        ELSE SubSeq(p, CHOOSE i \in solid : \A j \in solid : i <= j,
                       CHOOSE i \in solid : \A j \in solid : i >= j)

ParseRoute(path) ==
    LET id   == path[5]
        tail == SubSeq(path, 6, Len(path))
    IN  CASE ~Below(SubscriptionPrefix, path) \/ id = "" -> NotARoute
          [] tail = <<>> -> ParsedRoute("base", id, <<>>)
          [] tail = <<"streams">> -> ParsedRoute("streams", id, <<>>)
          [] Below(<<"streams">>, tail) -> ParsedRoute("stream", id, Trimmed(Tail(tail)))
          [] Len(tail) = 1 /\ tail[1] \in {"callback", "claim", "ack", "release"} ->
               ParsedRoute(tail[1], id, <<>>)
          [] OTHER -> NotARoute

\* SubscriptionRoutes.handleRequest; "unhandled" leaves the request to the streams.
SubscriptionHandler(path) ==
    CASE path = ControlPrefix \o <<"jwks.json">> -> "jwks"
      [] ParseRoute(path) # NotARoute -> ParseRoute(path).action
      [] path # ControlPrefix \o <<"jwks.json">> /\ ParseRoute(path) = NotARoute ->
           IF path = ControlPrefix \/ Below(ControlPrefix, path) THEN "no such route" ELSE "unhandled"

StreamHandler(method) ==
    CASE method = "PUT" -> "handleCreate" [] method = "HEAD" -> "handleHead"
      [] method = "GET" -> "handleRead" [] method = "POST" -> "handleAppend"
      [] method = "DELETE" -> "handleDelete" [] OTHER -> "405"

ServerHandler(method, path) ==
    CASE method = "OPTIONS" -> "preflight"
      [] method # "OPTIONS" /\ path = <<"_test", "inject-error">> -> "handleTestInjectError"
      [] OTHER -> IF SubscriptionHandler(path) # "unhandled" THEN SubscriptionHandler(path)
                  ELSE StreamHandler(method)

StreamHandlers == {StreamHandler(m) : m \in Methods} \ {"405"}

----------------------------------------------------------------------------
(* The worker of the Cloudflare server *)

\* auth: "none" when no hook and no token is set, else whether the request passes.
WorkerHandler(method, path, auth) ==
    CASE method = "OPTIONS" -> "preflight"
      [] method # "OPTIONS" /\ auth = "refused" -> "401"
      [] OTHER -> IF "__ds" \in ToSet(path) THEN "not supported"
                  ELSE IF path = <<"">> THEN "banner" ELSE "object"

\* What the object marks public is not, behind an auth hook.
FinalCacheControl(cacheControl, auth) ==
    IF auth # "none" /\ cacheControl = "public" THEN "no-store" ELSE cacheControl

----------------------------------------------------------------------------
(* The Yjs server *)

IsDotted(segment) == segment \in {".", ".."}
YjsPrefix == <<"v1", "yjs">>

\* PathUtils.normalize: double slashes are one; a slash at an end stays.  <<>> stands for null.
NormalizedDoc(p) ==
    LET kept == SelectInSeq(p, LAMBDA s : s \notin PlainSegments \cup {""}) = 0
        once(k) == k \in {1, Len(p)} \/ p[k] # ""
        some == {k \in DOMAIN p : once(k)}
    IN  IF kept THEN [k \in 1 .. Cardinality(some) |->
                        p[CHOOSE i \in some : Cardinality({j \in some : j <= i}) = k]]
        ELSE <<>>

\* parseRoute of yjs-server.ts: the service and the document, or neither.
DocumentRoute(path) ==
    LET rest == SubSeq(path, 5, Len(path))
        good == /\ Len(path) >= 5 /\ SubSeq(path, 1, 2) = YjsPrefix /\ path[3] # "" /\ path[4] = "docs"
                /\ rest # <<"">>
    IN  [service |-> IF good THEN path[3] ELSE "", doc |-> IF good THEN NormalizedDoc(rest) ELSE <<>>]

IsValidAwarenessName(name) == name \notin {"", ".", "..", ".index"}

\* The handler of a method on a document itself.
DocumentHandler(method) ==
    CASE method = "GET" -> "handleUpdatesRead" [] method = "HEAD" -> "handleDocumentHead"
      [] method = "POST" -> "handleUpdateWrite" [] method = "PUT" -> "handleDocumentCreate"
      [] method = "DELETE" -> "handleDocumentDelete" [] OTHER -> "405"

\* A request: awareness and offset are parameters of its query, "none" when it has none.
YjsHandler(method, path, awareness, offset) ==
    IF method = "OPTIONS" THEN "preflight"
    ELSE IF \E i \in DOMAIN path : IsDotted(path[i]) THEN "invalid path"
    ELSE IF Len(path) = 6 /\ SubSeq(path, 1, 2) = YjsPrefix /\ path[3] \in PlainSegments
            /\ SubSeq(path, 4, 5) = <<"__ds", "subscriptions">> /\ path[6] # ""
         THEN "snapshotSubscriptions"
    ELSE IF DocumentRoute(path).doc = <<>>
         THEN IF Below(YjsPrefix, path) THEN "invalid path" ELSE "proxyToDsServer"
    ELSE IF awareness # "none"
         THEN IF IsValidAwarenessName(awareness) THEN "handleAwareness" ELSE "invalid name"
    ELSE IF offset = "snapshot" THEN "handleSnapshotDiscovery"
    ELSE IF offset = "k_snapshot" THEN "handleSnapshotRead"
    ELSE DocumentHandler(method)

\* The streams of the durable-streams server a document is kept in, by its kind.
NamedAwarenessStream(service, doc, name) == Doc(service, doc) \o <<".awareness", name>>

StreamsOf(service, doc) ==
    {<<"updates", UpdatesStream(service, doc)>>, <<"index", IndexStream(service, doc)>>,
     <<"snapshot", SnapshotStream(service, doc)>>,
     <<"registry", AwarenessRegistryStream(service, doc)>>, <<"former", AwarenessIndexStream(service, doc)>>}
    \cup {<<n, NamedAwarenessStream(service, doc, n)>> :
            n \in {m \in {"default", ".index", ".updates", "a"} : IsValidAwarenessName(m)}}

----------------------------------------------------------------------------
SomePaths ==
    {ControlPrefix \o p : p \in BoundedSeq({"", "subscriptions", "streams", "claim", "jwks.json"}, 4)}
    \cup {YjsPrefix \o p : p \in BoundedSeq({"", "docs", "__ds", "a"}, 4)}
    \cup (BoundedSeq({"", "v1", "stream", "__ds", "_test", "inject-error"}, 3) \ {<<>>})

\* What lies under the reserved prefix is no stream, on either server: no
\* request for it gets to the handlers of streams, and the subscriptions get
\* no request for a stream.
ASSUME ControlStaysApart ==
    \A path \in SomePaths : \A method \in Methods :
        LET reserved == path = ControlPrefix \/ Below(ControlPrefix, path) IN
        /\ reserved => ServerHandler(method, path) \notin StreamHandlers
        /\ reserved => \A auth \in {"none", "passed"} : WorkerHandler(method, path, auth) # "object"
        /\ SubscriptionHandler(path) # "unhandled" <=> reserved

\* A request of the Yjs server that names an awareness stream or a snapshot
\* gets to no handler that writes or deletes the document.
ASSUME OnlyDocumentsAreWritten ==
    \A path \in SomePaths : \A method \in Methods : \A awareness \in {"none", "", "default"} :
        \A offset \in {"none", "-1", "snapshot", "k_snapshot"} :
            YjsHandler(method, path, awareness, offset) \in
                {"handleUpdateWrite", "handleDocumentCreate", "handleDocumentDelete"}
            => awareness = "none" /\ offset \notin {"snapshot", "k_snapshot"}

\* Two documents never share a stream, whatever their paths and whatever the
\* names of their awareness streams, nor do two kinds of one document's streams.
ASSUME DocumentsAreDisjoint ==
    LET docs == {NormalizedDoc(p) : p \in BoundedSeq({"", "a", "b", ".awareness", "."}, 3)} \ {<<>>}
        streams == UNION {{<<d, s[1], s[2]>> : s \in StreamsOf("a", d)} : d \in docs}
    IN  \A x, y \in streams : x[3] = y[3] => x = y
=============================================================================
