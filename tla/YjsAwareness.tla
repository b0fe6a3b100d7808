---------------------------- MODULE YjsAwareness ----------------------------
(***************************************************************************)
(* The awareness streams of one document of the Yjs server (handleAwareness*)
(* and postWithAutoCreate of yjs-server.ts): streams of the durable-streams*)
(* server beside the update stream, one per name, made by a PUT, or by a   *)
(* POST that finds none.  Those that are not "default" are recorded in a   *)
(* registry stream, which is all that the deletion of the document knows   *)
(* them by (cascadeDeleteStreams).                                         *)
(*                                                                         *)
(* Every request to the durable-streams server is an await and may fail,   *)
(* so the requests of clients interleave with each other and with a        *)
(* deletion.  A document is known by its number: 1, 2, ... at one path.    *)
(* No stream here is given a TTL: none expires.                            *)
(***************************************************************************)
EXTENDS Integers, Functions

CONSTANTS AwarenessNames,       \* valid names (isValidAwarenessName), "default" among them
          Clients,              \* the requests that are handled at the same time
          MaxIncarnations,      \* bound: documents created at the path
          MaxPresence,          \* bound: requests to awareness streams
          MaxAwarenessFaults    \* bound: requests to the server that fail, and restarts

ASSUME AwarenessAssumption ==
    "default" \in AwarenessNames /\ MaxIncarnations \in Nat /\ MaxPresence \in Nat
    /\ MaxAwarenessFaults \in Nat

VARIABLES incarnation,   \* the document at the path, 0 when there is none
          incarnations,  \* documents created so far
          aware,         \* the awareness streams: name -> the documents its messages are of
          registry,      \* names in .awareness-index
          handling,      \* what handles the request of a client
          erasing,       \* the cascade of a DELETE
          asked, awarenessFaults,
          loose          \* history: streams the server has lost track of

awarenessVars == <<incarnation, incarnations, aware, registry, handling, erasing,
                   asked, awarenessFaults, loose>>

NoCall == [kind |-> "none", name |-> "default", step |-> "none", of |-> 0]
NoErasure == [step |-> "none", names |-> {}, index |-> FALSE]
Live == DOMAIN aware

Call(kind, name, step) == [kind |-> kind, name |-> name, step |-> step, of |-> incarnation]
Proceeds(c, step) == handling' = [handling EXCEPT ![c].step = step]
Replies(c) == handling' = [handling EXCEPT ![c] = NoCall]

Faulty == awarenessFaults < MaxAwarenessFaults /\ awarenessFaults' = awarenessFaults + 1
Faultless == UNCHANGED awarenessFaults
documentVars == <<incarnation, incarnations>>

\* The document this request was for is missing, replaced, or being deleted.
Overtaken(c) == incarnation = 0 \/ incarnation # handling[c].of \/ erasing # NoErasure

\* What the cascade would not find.
Unlisted(n) == n # "default" /\ n \notin registry

\* Made, and about to be recorded.
Registering ==
    {n \in Live : Unlisted(n) /\ \E c \in Clients : handling[c].step = "register"
                                                   /\ handling[c].name = n}

----------------------------------------------------------------------------
(* The durable-streams server: PUT and POST of a stream *)

\* tryCreateStream: made (201), or there already (200 and 409).
TryCreateStream(n) ==
    aware' = [m \in Live \cup {n} |-> IF m \in Live THEN aware[m] ELSE {}]

\* A message for document d is appended.
Stores(n, d) == aware' = [aware EXCEPT ![n] = @ \cup {d}]

----------------------------------------------------------------------------
(* The document *)

\* handleDocumentCreate: PUT of the update stream, answered 201 or 200, then
\* the default awareness stream.
CreateUpdates(c) ==
    /\ handling[c] = NoCall
    /\ incarnation # 0 \/ incarnations < MaxIncarnations
    /\ incarnation' = IF incarnation = 0 THEN incarnations + 1 ELSE incarnation
    /\ incarnations' = IF incarnation = 0 THEN incarnations + 1 ELSE incarnations
    /\ asked < MaxPresence /\ asked' = asked + 1
    /\ handling' = [handling EXCEPT ![c] = [kind |-> "document", name |-> "default",
                                            step |-> "create", of |-> incarnation']]
    /\ UNCHANGED <<aware, registry, erasing, awarenessFaults, loose>>

\* handleDocumentDelete: the update stream, then the cascade.
DeleteUpdates ==
    /\ incarnation # 0 /\ erasing = NoErasure
    /\ incarnation' = 0
    /\ erasing' = [NoErasure EXCEPT !.step = "load"]
    /\ UNCHANGED <<incarnations, aware, registry, handling, asked, awarenessFaults, loose>>

\* loadIndexEntries: a registry that cannot be read is an empty one.
LoadRegistry ==
    /\ erasing.step = "load"
    /\ \/ erasing' = [step |-> "delete", names |-> {"default"} \cup registry, index |-> TRUE]
          /\ Faultless /\ loose' = loose \cup Registering
       \/ erasing' = [step |-> "delete", names |-> {"default"}, index |-> TRUE] /\ Faulty
          /\ loose' = loose \cup Registering \cup (Live \cap registry)
    /\ UNCHANGED <<documentVars, aware, registry, handling, asked>>

Remaining(s, i) == IF s = {} /\ ~i THEN NoErasure ELSE [step |-> "delete", names |-> s, index |-> i]

\* deleteStream, of all of them in parallel; a failure is ignored.
EraseStream(n) ==
    /\ erasing.step = "delete" /\ n \in erasing.names
    /\ erasing' = Remaining(erasing.names \ {n}, erasing.index)
    /\ \/ /\ aware' = Restrict(aware, Live \ {n}) /\ loose' = loose \ {n} /\ Faultless
       \/ /\ Faulty /\ UNCHANGED aware
          /\ loose' = loose \cup ({n} \cap Live)
    /\ UNCHANGED <<documentVars, registry, handling, asked>>

EraseRegistry ==
    /\ erasing.step = "delete" /\ erasing.index
    /\ erasing' = Remaining(erasing.names, FALSE)
    /\ \/ registry' = {} /\ Faultless
       \/ UNCHANGED registry /\ Faulty
    /\ UNCHANGED <<documentVars, aware, handling, asked, loose>>

----------------------------------------------------------------------------
(* handleAwareness *)

\* PUT: HEAD of the document comes first; POST: the message comes first.
Ask(c, kind, n) ==
    /\ handling[c] = NoCall /\ asked < MaxPresence /\ asked' = asked + 1
    /\ handling' = [handling EXCEPT ![c] = Call(kind, n, IF kind = "put" THEN "head" ELSE "post")]
    /\ UNCHANGED <<documentVars, aware, registry, erasing, awarenessFaults, loose>>

\* HEAD: 404 is the answer.  A PUT goes on when HEAD fails; a POST does not.
HeadDocument(c) ==
    /\ handling[c].step = "head"
    /\ \/ /\ incarnation = 0 /\ Replies(c) /\ Faultless
       \/ /\ incarnation # 0 /\ Proceeds(c, "create") /\ Faultless
       \/ /\ Faulty
          /\ IF handling[c].kind = "put" THEN Proceeds(c, "create") ELSE Replies(c)
    /\ UNCHANGED <<documentVars, aware, registry, erasing, asked, loose>>

\* POST: appended, or 404 and, the first time, the stream is to be made.
PostMessage(c) ==
    LET n == handling[c].name IN
    /\ handling[c].step \in {"post", "retry"}
    /\ IF n \in Live
       THEN /\ Stores(n, handling[c].of) /\ Replies(c)
            /\ loose' = loose \cup (IF Overtaken(c) THEN {n} ELSE {})
       ELSE /\ UNCHANGED <<aware, loose>>
            /\ IF handling[c].step = "post" THEN Proceeds(c, "head") ELSE Replies(c)
    /\ UNCHANGED <<documentVars, registry, erasing, asked, awarenessFaults>>

\* A mutant: the registry is written only for a stream that was there already.
RegisterKnown(created, n) == ~created /\ n # "default"

\* Only a stream this PUT made, under a name of its own, is recorded.
ToRegister(created, n) == created /\ n # "default"

\* tryCreateStream, and where it throws, whether or not the stream was made: the PUT of a document goes on, the
\* others fail.
CreateAwareness(c) ==
    LET n == handling[c].name
        created == n \notin Live
    IN
    /\ handling[c].step = "create"
    /\ \/ /\ TryCreateStream(n) /\ Faultless
          /\ CASE handling[c].kind = "post" -> Proceeds(c, "retry")
               [] handling[c].kind = "put" /\ ToRegister(created, n) -> Proceeds(c, "register")
               [] OTHER -> Replies(c)
          /\ loose' = loose \cup
               (IF created /\ (Overtaken(c) \/ (Unlisted(n) /\ handling[c].kind = "post"))
                THEN {n} ELSE {})
       \/ /\ Faulty /\ Replies(c)
          /\ \/ UNCHANGED <<aware, loose>>
             \/ /\ TryCreateStream(n)
                /\ loose' = loose \cup (IF created /\ (Overtaken(c) \/ Unlisted(n)) THEN {n} ELSE {})
    /\ UNCHANGED <<documentVars, registry, erasing, asked>>

\* appendToIndexStream; a failure is logged.
Register(c) ==
    LET n == handling[c].name IN
    /\ handling[c].step = "register"
    /\ \/ /\ registry' = registry \cup {n} /\ Faultless
          /\ loose' = loose \cup (IF Overtaken(c) /\ n \in Live THEN {n} ELSE {})
       \/ /\ Faulty /\ UNCHANGED registry
          /\ loose' = loose \cup (IF Unlisted(n) THEN {n} \cap Live ELSE {})
    /\ Replies(c)
    /\ UNCHANGED <<documentVars, aware, erasing, asked>>

\* DELETE of an awareness stream; its name stays in the registry.
DeleteAwareness(n) ==
    /\ n \in Live /\ asked < MaxPresence /\ asked' = asked + 1
    /\ aware' = Restrict(aware, Live \ {n}) /\ loose' = loose \ {n}
    /\ UNCHANGED <<documentVars, registry, handling, erasing, awarenessFaults>>

\* The server restarts: requests and cascades are cut short.
AwarenessRestart ==
    /\ Faulty
    /\ handling' = [c \in Clients |-> NoCall] /\ erasing' = NoErasure
    /\ loose' = loose \cup Registering \cup (IF erasing = NoErasure THEN {} ELSE Live)
    /\ UNCHANGED <<documentVars, aware, registry, asked>>

----------------------------------------------------------------------------
AwarenessInit ==
    /\ incarnation = 0 /\ incarnations = 0 /\ aware = <<>> /\ registry = {}
    /\ handling = [c \in Clients |-> NoCall] /\ erasing = NoErasure
    /\ asked = 0 /\ awarenessFaults = 0 /\ loose = {}

AwarenessNext ==
    \/ DeleteUpdates \/ LoadRegistry \/ EraseRegistry \/ AwarenessRestart
    \/ \E n \in AwarenessNames : EraseStream(n) \/ DeleteAwareness(n)
    \/ \E c \in Clients : \/ CreateUpdates(c) \/ HeadDocument(c) \/ PostMessage(c)
                          \/ CreateAwareness(c) \/ Register(c)
                          \/ \E kind \in {"put", "post"}, n \in AwarenessNames : Ask(c, kind, n)

AwarenessSpec == AwarenessInit /\ [][AwarenessNext]_awarenessVars

----------------------------------------------------------------------------
\* Once the DELETE of a document is over none of its awareness streams is left,
\* and the next document at the path shows nobody of the last one.  The streams
\* the server has lost track of are excepted: made by a POST under a name that
\* no PUT recorded, recorded in vain, made by a PUT whose answer was lost, made without a document or overtaken by
\* its deletion, or left by one that failed half-way (postWithAutoCreate, handleAwareness,
\* cascadeDeleteStreams).
PresenceIsCurrent ==
    erasing = NoErasure =>
        \A n \in Live \ loose : incarnation # 0 /\ aware[n] \subseteq {incarnation}
=============================================================================
