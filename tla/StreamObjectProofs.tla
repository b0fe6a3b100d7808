------------------------ MODULE StreamObjectProofs -------------------------
(***************************************************************************)
(* A fork of the Cloudflare server is never left without its source, for   *)
(* every set of paths and every number of requests, failing calls and lost *)
(* objects (StreamObject!ForksKeepSource).                                 *)
(*                                                                         *)
(* The argument follows the id of an edge.  It waits in a PUT, is then     *)
(* named by an intent, and ends up owned by a fork's meta row or owed to   *)
(* the source, as a queued release or as one that is being delivered: it   *)
(* is never two of these at once, and what is owed stays owed.  So no      *)
(* release can take away a reference a fork owns, or that a creation has   *)
(* just acquired; the fork create lock keeps the intents a creation and    *)
(* the alarm work on apart.                                                *)
(***************************************************************************)
EXTENDS StreamObject, StreamObjectReads, FiniteSetTheorems, TLAPS

EdgeRecord == [edge : Nat, parent : Paths, gen : Nat]
MetaRow == [gen : Nat, forkedFrom : Paths \cup {NoPath}, edge : Nat, srcGen : Nat,
            softDeleted : BOOLEAN, expired : BOOLEAN]
JobRecord == [kind : {"create", "alarm", "flush"}, at : Paths, id : Nat, todo : SUBSET EdgeRecord,
              step : {"lock", "next", "call", "answer"}, call : EdgeRecord, answer : Nat, locks : BOOLEAN]

ObjectTypeOK ==
  /\ meta \in [Paths -> MetaRow] /\ edges \in [Paths -> SUBSET Nat]
  /\ intents \in [Paths -> SUBSET EdgeRecord] /\ releases \in [Paths -> SUBSET EdgeRecord]
  /\ alarm \in [Paths -> BOOLEAN] /\ jobs \subseteq JobRecord /\ puts \in Nat /\ faults \in Nat

-----------------------------------------------------------------------------
(* Where the id of an edge is. *)

IsFork(p) == Exists(p) /\ meta[p].forkedFrom # NoPath
WaitsForLock(j) == j.kind = "create" /\ j.step = "lock"

\* no release of edge e is queued or about to be run by its source
NotOwed(e) ==
  /\ \A p \in Paths : \A r \in releases[p] : r.edge # e
  /\ \A j \in jobs : j.kind = "flush" =>
       /\ \A r \in j.todo : r.edge # e
       /\ j.step = "call" => j.call.edge # e

\* the source s holds edge e under generation g
Held(s, g, e) == Exists(s) /\ meta[s].gen = g /\ e \in edges[s]

\* The id of a PUT that waits is nowhere else yet, and later ids are nowhere at all.
WaitingApart ==
  /\ \A j \in jobs : WaitsForLock(j) =>
       /\ j.id \in 1 .. puts /\ NotOwed(j.id)
       /\ \A k \in jobs : WaitsForLock(k) /\ k.id = j.id => k = j
       /\ \A q \in Paths : \A i \in intents[q] : i.edge # j.id
       /\ \A q \in Paths : IsFork(q) => meta[q].edge # j.id
  /\ \A e \in Nat : e > puts => NotOwed(e)

\* An edge an intent names is neither owed nor owned, and no other intent names it.
IntentsApart ==
  \A p \in Paths : \A i \in intents[p] :
    /\ i.edge \in 1 .. puts /\ NotOwed(i.edge)
    /\ \A q \in Paths : \A k \in intents[q] : k.edge = i.edge => q = p /\ k = i
    /\ \A q \in Paths : IsFork(q) => meta[q].edge # i.edge

\* An edge a fork owns is not owed, and no other fork owns it.
ForksApart ==
  \A p \in Paths : IsFork(p) =>
    /\ meta[p].edge \in 1 .. puts /\ NotOwed(meta[p].edge)
    /\ \A q \in Paths : IsFork(q) /\ meta[q].edge = meta[p].edge => q = p

-----------------------------------------------------------------------------
(* What a handler may rely on. *)

\* A path without a stream has no edges recorded on it.
EdgesHaveStream == \A s \in Paths : edges[s] # {} => Exists(s)

\* The fork create lock.
LockExcludes == \A j, k \in jobs : j.at = k.at /\ j.locks /\ k.locks => j = k

\* A creation works under the lock on an intent that is still there, and what its source granted is still held.
CreateOK(j) ==
  /\ j.step # "next"
  /\ j.step = "lock" => \A e \in j.todo : e.edge = j.id
  /\ j.step # "lock" => j.locks /\ j.call \in intents[j.at]
  /\ j.step = "answer" /\ j.answer # 0 => Held(j.call.parent, j.answer, j.call.edge)

\* So does the alarm on the intents it has still to settle.
AlarmOK(j) ==
  j.step # "lock" => /\ j.locks /\ j.todo \subseteq intents[j.at]
                     /\ j.step # "next" => j.call \in intents[j.at] \ j.todo

JobsOK == \A j \in jobs : (j.kind = "create" => CreateOK(j)) /\ (j.kind = "alarm" => AlarmOK(j))

Apart == WaitingApart /\ IntentsApart /\ ForksApart

ObjectInv == ObjectTypeOK /\ Apart /\ EdgesHaveStream /\ LockExcludes /\ JobsOK /\ ForksKeepSource

-----------------------------------------------------------------------------
(* Types. *)

\* A new handler, and one that goes on, are handlers.
LEMMA JobTyped ==
  ASSUME NEW kind \in {"create", "alarm", "flush"}, NEW p \in Paths, NEW id \in Nat,
         NEW todo \in SUBSET EdgeRecord, NEW step \in {"lock", "next", "call", "answer"}
  PROVE  Job(kind, p, id, todo, step) \in JobRecord
  <1>1. Edge(0, p, 0) \in EdgeRecord
    BY DEF Edge, EdgeRecord
  <1> QED
    BY <1>1 DEF Job, JobRecord

LEMMA FlushTyped ==
  ASSUME NEW p \in Paths, NEW id \in Nat, NEW owed \in SUBSET EdgeRecord
  PROVE  FlushJob(p, id, owed) \subseteq JobRecord
  BY JobTyped DEF FlushJob

\* What purgeStream leaves.
LEMMA PurgeTyped ==
  ASSUME ObjectTypeOK, NEW p \in Paths, NEW others \in SUBSET JobRecord, Purge(p, others)
  PROVE  /\ meta' \in [Paths -> MetaRow] /\ edges' \in [Paths -> SUBSET Nat]
         /\ releases' \in [Paths -> SUBSET EdgeRecord] /\ alarm' \in [Paths -> BOOLEAN] /\ jobs' \subseteq JobRecord
  <1> DEFINE m    == meta[p]
             owed == releases[p] \cup (IF m.forkedFrom = NoPath THEN {} ELSE {Edge(m.edge, m.forkedFrom, m.srcGen)})
  <1>1. m \in MetaRow /\ releases[p] \in SUBSET EdgeRecord
    BY DEF ObjectTypeOK
  <1>2. m.gen \in Nat /\ m.edge \in Nat /\ m.srcGen \in Nat /\ m.forkedFrom \in Paths \cup {NoPath}
    BY <1>1 DEF MetaRow
  <1>3. m.forkedFrom # NoPath => Edge(m.edge, m.forkedFrom, m.srcGen) \in EdgeRecord
    BY <1>2 DEF Edge, EdgeRecord
  <1>4. owed \in SUBSET EdgeRecord
    BY <1>1, <1>3
  <1>5. /\ meta' = [meta EXCEPT ![p] = NoMeta] /\ edges' = [edges EXCEPT ![p] = {}]
        /\ releases' = [releases EXCEPT ![p] = owed] /\ alarm' = [alarm EXCEPT ![p] = owed # {}]
        /\ jobs' = others \cup FlushJob(p, m.gen, owed)
    BY DEF Purge
  <1> HIDE DEF owed, m
  <1>6. NoMeta \in MetaRow
    BY DEF NoMeta, Row, MetaRow
  <1>7. jobs' \subseteq JobRecord
    BY <1>2, <1>4, <1>5, FlushTyped
  <1>8. /\ meta' \in [Paths -> MetaRow] /\ edges' \in [Paths -> SUBSET Nat]
        /\ releases' \in [Paths -> SUBSET EdgeRecord]
    BY <1>4, <1>5, <1>6 DEF ObjectTypeOK
  <1>9. alarm' \in [Paths -> BOOLEAN]
    BY <1>5 DEF ObjectTypeOK
  <1> QED
    BY <1>7, <1>8, <1>9

\* Requests and expiry.
LEMMA RetireTyped ==
  ASSUME ObjectTypeOK, NEW p \in Paths, Retire(p)
  PROVE  /\ meta' \in [Paths -> MetaRow] /\ edges' \in [Paths -> SUBSET Nat]
         /\ releases' \in [Paths -> SUBSET EdgeRecord] /\ alarm' \in [Paths -> BOOLEAN] /\ jobs' \subseteq JobRecord
  <1>1. CASE edges[p] = {} /\ Purge(p, jobs)
    BY <1>1, PurgeTyped DEF ObjectTypeOK
  <1>2. CASE meta' = [meta EXCEPT ![p].softDeleted = TRUE] /\ UNCHANGED <<edges, releases, alarm, jobs>>
    BY <1>2 DEF ObjectTypeOK, MetaRow
  <1> QED
    BY <1>1, <1>2 DEF Retire

LEMMA RequestTyped ==
  ASSUME ObjectTypeOK, NEW p \in Paths,
         PutPlain(p) \/ DeletePath(p) \/ Lapse(p) \/ Expire(p) \/ AlarmFires(p) \/ Reset(p) \/ \E s \in Paths : PutFork(p, s)
  PROVE  ObjectTypeOK'
  <1>1. CASE PutPlain(p)
    <2>1. Row(puts + 1, NoPath, 0, 0) \in MetaRow
      BY DEF ObjectTypeOK, Row, MetaRow
    <2> QED
      BY <1>1, <2>1 DEF ObjectTypeOK, PutPlain
  <1>2. CASE DeletePath(p) \/ Expire(p)
    BY <1>2, RetireTyped DEF ObjectTypeOK, DeletePath, Expire
  <1>3. CASE Lapse(p)
    BY <1>3 DEF ObjectTypeOK, MetaRow, Lapse
  <1>4. CASE AlarmFires(p)
    <2>1. Job("alarm", p, 0, {}, "lock") \in JobRecord
      BY JobTyped
    <2> QED
      BY <1>4, <2>1 DEF ObjectTypeOK, AlarmFires
  <1>5. CASE Reset(p)
    BY <1>5 DEF ObjectTypeOK, Reset
  <1>6. ASSUME NEW s \in Paths, PutFork(p, s) PROVE ObjectTypeOK'
    <2>1. puts + 1 \in Nat /\ Edge(puts + 1, s, 0) \in EdgeRecord
      BY DEF ObjectTypeOK, Edge, EdgeRecord
    <2>2. Job("create", p, puts + 1, {Edge(puts + 1, s, 0)}, "lock") \in JobRecord
      BY <2>1, JobTyped
    <2> QED
      BY <1>6, <2>1, <2>2 DEF ObjectTypeOK, PutFork
  <1> QED
    BY <1>1, <1>2, <1>3, <1>4, <1>5, <1>6

\* The steps of the handlers.
LEMMA HandlerTyped ==
  ASSUME ObjectTypeOK, NEW j \in jobs, Progress(j) \/ CallFails(j)
  PROVE  ObjectTypeOK'
  <1>0. j \in JobRecord /\ j.at \in Paths /\ j.call \in EdgeRecord /\ j.todo \in SUBSET EdgeRecord /\ j.answer \in Nat /\ j.id \in Nat
    BY DEF ObjectTypeOK, JobRecord
  <1>1. CASE CreateBegins(j)
    <2>1. PICK i : /\ i \in EdgeRecord /\ intents' = [intents EXCEPT ![j.at] = @ \cup {i}]
                   /\ jobs' = (jobs \ {j}) \cup {[j EXCEPT !.locks = TRUE, !.step = "call", !.call = i, !.todo = {}]}
                   /\ \E b \in BOOLEAN : alarm' = [alarm EXCEPT ![j.at] = b]
      BY <1>0, <1>1 DEF CreateBegins, GetForkIntent, PutForkIntent, Becomes, ObjectTypeOK
    <2>2. [j EXCEPT !.locks = TRUE, !.step = "call", !.call = i, !.todo = {}] \in JobRecord
      BY <1>0, <2>1 DEF JobRecord
    <2> QED
      BY <1>0, <1>1, <2>1, <2>2 DEF CreateBegins, ObjectTypeOK
  <1>2. CASE CreateRefused(j)
    BY <1>0, <1>2 DEF CreateRefused, DeleteForkIntent, ObjectTypeOK
  <1>3. CASE CreateReleases(j)
    <2>1. [j.call EXCEPT !.gen = j.answer] \in EdgeRecord
      BY <1>0 DEF EdgeRecord
    <2> DEFINE owed == releases[j.at] \cup {[j.call EXCEPT !.gen = j.answer]}
    <2>2. owed \in SUBSET EdgeRecord
      BY <1>0, <2>1 DEF ObjectTypeOK
    <2>3. /\ releases' = [releases EXCEPT ![j.at] = owed] /\ alarm' = [alarm EXCEPT ![j.at] = TRUE]
          /\ jobs' = (jobs \ {j}) \cup {[j EXCEPT !.kind = "flush", !.todo = owed, !.step = "next"]}
          /\ intents' = [intents EXCEPT ![j.at] = @ \ {j.call}] /\ UNCHANGED <<meta, edges, puts, faults>>
      BY <1>3 DEF CreateReleases, Becomes, DeleteForkIntent
    <2> HIDE DEF owed
    <2>4. [j EXCEPT !.kind = "flush", !.todo = owed, !.step = "next"] \in JobRecord
      BY <1>0, <2>2 DEF JobRecord
    <2> QED
      BY <1>0, <2>2, <2>3, <2>4 DEF ObjectTypeOK
  <1>4. CASE CreateStream(j)
    <2>1. Row(j.id, j.call.parent, j.call.edge, j.answer) \in MetaRow
      BY <1>0 DEF Row, MetaRow, EdgeRecord
    <2> QED
      BY <1>0, <1>4, <2>1 DEF CreateStream, DeleteForkIntent, ObjectTypeOK
  <1>5. CASE AlarmBegins(j)
    <2>1. [j EXCEPT !.locks = TRUE, !.step = "next", !.todo = IF Exists(j.at) THEN {} ELSE intents[j.at]] \in JobRecord
      BY <1>0 DEF JobRecord, ObjectTypeOK
    <2> QED
      BY <1>5, <2>1 DEF AlarmBegins, Becomes, ObjectTypeOK
  <1>6. CASE IntentSettled(j)
    <2>1. [j.call EXCEPT !.gen = j.answer] \in EdgeRecord
      BY <1>0 DEF EdgeRecord
    <2>2. [j EXCEPT !.step = "next", !.answer = 0] \in JobRecord
      BY <1>0 DEF JobRecord
    <2>3. releases' \in [Paths -> SUBSET EdgeRecord]
      BY <1>0, <1>6, <2>1 DEF IntentSettled, ObjectTypeOK
    <2> QED
      BY <1>0, <1>6, <2>2, <2>3 DEF IntentSettled, Becomes, DeleteForkIntent, ObjectTypeOK
  <1>7. CASE IntentsDone(j)
    <2>1. [j EXCEPT !.kind = "flush", !.todo = releases[j.at], !.locks = FALSE] \in JobRecord
      BY <1>0 DEF JobRecord, ObjectTypeOK
    <2> QED
      BY <1>7, <2>1 DEF IntentsDone, Becomes, ObjectTypeOK
  <1>8. CASE NextCall(j)
    <2>1. PICK c \in j.todo : jobs' = (jobs \ {j}) \cup {[j EXCEPT !.step = "call", !.call = c, !.todo = @ \ {c}]}
      BY <1>8 DEF NextCall, Becomes
    <2>2. [j EXCEPT !.step = "call", !.call = c, !.todo = @ \ {c}] \in JobRecord
      BY <1>0 DEF JobRecord
    <2> QED
      BY <1>8, <2>1, <2>2 DEF NextCall, ObjectTypeOK
  <1>9. CASE FlushDone(j)
    BY <1>9 DEF FlushDone, ObjectTypeOK
  <1>10. CASE Released(j)
    <2>1. [j EXCEPT !.step = "next"] \in JobRecord
      BY <1>0 DEF JobRecord
    <2> QED
      BY <1>0, <1>10, <2>1 DEF Released, Becomes, ObjectTypeOK
  <1>11. ASSUME NEW g \in Nat PROVE Answered(j, g) \in JobRecord
    BY <1>0 DEF Answered, JobRecord
  <1>12. CASE ForkAcquire(j)
    <2>1. PICK g \in Nat : jobs' = (jobs \ {j}) \cup {Answered(j, g)}
      BY <1>0, <1>12 DEF ForkAcquire, Becomes, ObjectTypeOK, MetaRow, EdgeRecord
    <2>2. edges' \in [Paths -> SUBSET Nat]
      BY <1>0, <1>12 DEF ForkAcquire, ObjectTypeOK, EdgeRecord
    <2> QED
      BY <1>12, <1>11, <2>1, <2>2 DEF ForkAcquire, ObjectTypeOK
  <1>13. CASE ForkRelease(j)
    <2> DEFINE rest == (jobs \ {j}) \cup {Answered(j, 0)}
    <2>1. rest \in SUBSET JobRecord /\ j.call.parent \in Paths
      BY <1>0, <1>11 DEF ObjectTypeOK, EdgeRecord
    <2>2. CASE Purge(j.call.parent, rest)
      BY <1>13, <2>1, <2>2, PurgeTyped DEF ForkRelease, ObjectTypeOK
    <2>3. CASE jobs' = rest /\ UNCHANGED <<meta, releases, alarm>> /\ (UNCHANGED edges \/ edges' = [edges EXCEPT ![j.call.parent] = @ \ {j.call.edge}])
      BY <1>13, <2>1, <2>3 DEF ForkRelease, ObjectTypeOK
    <2> QED
      BY <1>13, <2>2, <2>3 DEF ForkRelease
  <1>14. CASE CallFails(j)
    <2>1. [j EXCEPT !.step = "next", !.answer = 0] \in JobRecord
      BY <1>0 DEF JobRecord
    <2>2. jobs' \subseteq JobRecord
      BY <1>14, <2>1 DEF CallFails, Becomes, ObjectTypeOK
    <2>3. faults' \in Nat
      BY <1>14 DEF CallFails, ObjectTypeOK
    <2>4. alarm' = alarm \/ alarm' = [alarm EXCEPT ![j.at] = TRUE]
      BY <1>14 DEF CallFails
    <2>5. alarm' \in [Paths -> BOOLEAN]
      BY <1>0, <2>4 DEF ObjectTypeOK
    <2> QED
      BY <1>14, <2>2, <2>3, <2>5 DEF CallFails, ObjectTypeOK
  <1> QED
    BY <1>1, <1>2, <1>3, <1>4, <1>5, <1>6, <1>7, <1>8, <1>9, <1>10, <1>12, <1>13, <1>14 DEF Progress

\* Every step keeps the types.
LEMMA ObjectTypeStep == ObjectTypeOK /\ [ObjectNext]_objectVars => ObjectTypeOK'
  <1>1. ASSUME ObjectTypeOK, UNCHANGED objectVars PROVE ObjectTypeOK'
    BY <1>1 DEF ObjectTypeOK, objectVars
  <1> QED
    BY <1>1, RequestTyped, HandlerTyped DEF ObjectNext, ObjectProgress

-----------------------------------------------------------------------------
(* References. *)

\* A path that is purged has no stream and no edges, and the others keep theirs.
LEMMA PurgeEffect ==
  ASSUME ObjectTypeOK, NEW p \in Paths, NEW others, Purge(p, others)
  PROVE  /\ meta'[p] = NoMeta /\ edges'[p] = {}
         /\ \A s \in Paths : s # p => meta'[s] = meta[s] /\ edges'[s] = edges[s]
  BY DEF Purge, ObjectTypeOK

\* A reference that nobody owes stays held, on the generation it was taken from, whatever step is next.
LEMMA HeldStays ==
  ASSUME ObjectTypeOK, [ObjectNext]_objectVars, NEW s \in Paths, NEW g, NEW e, Held(s, g, e), NotOwed(e)
  PROVE  Held(s, g, e)'
  <1>0. meta[s] # NoMeta /\ meta[s].gen = g /\ e \in edges[s]
    BY DEF Held, Exists
  <1>a. ASSUME meta'[s] = meta[s], e \in edges'[s] PROVE Held(s, g, e)'
    BY <1>a, <1>0 DEF Held, Exists
  <1>1. ASSUME UNCHANGED <<meta, edges>> PROVE Held(s, g, e)'
    BY <1>1, <1>0, <1>a
  <1>2. ASSUME NEW p \in Paths, NEW others, Purge(p, others), p # s PROVE Held(s, g, e)'
    BY <1>2, <1>0, <1>a, PurgeEffect
  <1>3. ASSUME NEW p \in Paths, DeletePath(p) \/ Expire(p) PROVE Held(s, g, e)'
    <2>1. CASE edges[p] = {} /\ Purge(p, jobs)
      <3>1. p # s
        BY <1>0, <2>1
      <3> QED
        BY <1>2, <2>1, <3>1
    <2>2. CASE meta' = [meta EXCEPT ![p].softDeleted = TRUE] /\ UNCHANGED edges
      <3>1. CASE p = s
        <4>1. meta'[s] = [meta[s] EXCEPT !.softDeleted = TRUE] /\ meta[s] \in MetaRow
          BY <2>2, <3>1 DEF ObjectTypeOK
        <4>2. meta'[s].softDeleted = TRUE /\ meta'[s].gen = meta[s].gen
          BY <4>1 DEF MetaRow
        <4> QED
          BY <1>0, <2>2, <4>2 DEF Held, Exists, NoMeta, Row
      <3> QED
        BY <1>0, <1>a, <2>2, <3>1 DEF ObjectTypeOK
    <2> QED
      BY <1>3, <2>1, <2>2 DEF DeletePath, Expire, Retire
  <1>4. ASSUME NEW p \in Paths, Lapse(p) PROVE Held(s, g, e)'
    <2>1. CASE p = s
      <3>1. meta'[s] = [meta[s] EXCEPT !.expired = TRUE] /\ meta[s] \in MetaRow /\ UNCHANGED edges
        BY <1>4, <2>1 DEF Lapse, ObjectTypeOK
      <3>2. meta'[s].expired = TRUE /\ meta'[s].gen = meta[s].gen
        BY <3>1 DEF MetaRow
      <3> QED
        BY <1>0, <3>1, <3>2 DEF Held, Exists, NoMeta, Row
    <2> QED
      BY <1>0, <1>4, <1>a, <2>1 DEF Lapse, ObjectTypeOK
  <1>5. ASSUME NEW p \in Paths, PutPlain(p) PROVE Held(s, g, e)'
    BY <1>0, <1>5, <1>a DEF PutPlain, Exists, ObjectTypeOK
  <1>6. ASSUME NEW j \in jobs, CreateStream(j) PROVE Held(s, g, e)'
    <2>1. j.at \in Paths
      BY DEF ObjectTypeOK, JobRecord
    <2> QED
      BY <1>0, <1>6, <1>a, <2>1 DEF CreateStream, Exists, ObjectTypeOK
  <1>7. ASSUME NEW j \in jobs, ForkAcquire(j) PROVE Held(s, g, e)'
    <2>1. e \in edges'[s] /\ UNCHANGED meta
      BY <1>0, <1>7 DEF ForkAcquire, ObjectTypeOK
    <2> QED
      BY <1>a, <2>1
  <1>8. ASSUME NEW j \in jobs, ForkRelease(j) PROVE Held(s, g, e)'
    <2> DEFINE t == j.call.parent
    <2>1. j.call.edge # e /\ t \in Paths
      BY <1>8 DEF ForkRelease, NotOwed, ObjectTypeOK, JobRecord, EdgeRecord
    <2>2. ASSUME NEW others, edges[t] = {j.call.edge}, Purge(t, others) PROVE Held(s, g, e)'
      <3>1. t # s
        BY <1>0, <2>1, <2>2
      <3> QED
        BY <1>2, <2>1, <2>2, <3>1
    <2>3. CASE UNCHANGED meta /\ (UNCHANGED edges \/ edges' = [edges EXCEPT ![t] = @ \ {j.call.edge}])
      BY <1>0, <1>a, <2>1, <2>3 DEF ObjectTypeOK
    <2> QED
      BY <1>8, <2>2, <2>3 DEF ForkRelease
  <1>9. ASSUME NEW j \in jobs, Progress(j) \/ CallFails(j), ~CreateStream(j), ~ForkAcquire(j), ~ForkRelease(j)
        PROVE  Held(s, g, e)'
    BY <1>1, <1>9 DEF Progress, CallFails, CreateBegins, CreateRefused, CreateReleases, AlarmBegins, IntentSettled,
                      IntentsDone, NextCall, FlushDone, Released
  <1>10. ASSUME NEW p \in Paths, AlarmFires(p) \/ Reset(p) \/ \E q \in Paths : PutFork(p, q) PROVE Held(s, g, e)'
    BY <1>1, <1>10 DEF AlarmFires, Reset, PutFork
  <1> QED
    BY <1>1, <1>3, <1>4, <1>5, <1>6, <1>7, <1>8, <1>9, <1>10 DEF ObjectNext, ObjectProgress, objectVars

-----------------------------------------------------------------------------
(* Ids. *)

\* A step that makes no new use of an id, except that those of D become owed and are no longer anything else.
Narrowed(D) ==
  /\ \A e \in Nat : NotOwed(e) /\ e \notin D => NotOwed(e)'
  /\ \A p \in Paths : \A i \in intents'[p] : i \in intents[p] /\ i.edge \notin D
  /\ \A p \in Paths : IsFork(p)' => IsFork(p) /\ meta'[p].edge = meta[p].edge /\ meta[p].edge \notin D
  /\ \A j \in jobs' : WaitsForLock(j) => j \in jobs /\ j.id \notin D
  /\ D \subseteq 1 .. puts /\ puts' >= puts

\* Such a step keeps the uses of ids apart.
LEMMA NarrowedApart ==
  ASSUME ObjectTypeOK, Apart, NEW D, Narrowed(D), ObjectTypeOK'
  PROVE  Apart'
  <1>1. WaitingApart'
    <2>1. \A e \in Nat : e > puts' => NotOwed(e)'
      BY DEF Narrowed, Apart, WaitingApart, ObjectTypeOK
    <2>2. ASSUME NEW j \in jobs', WaitsForLock(j)
          PROVE  /\ j.id \in 1 .. puts' /\ NotOwed(j.id)'
                 /\ \A k \in jobs' : WaitsForLock(k) /\ k.id = j.id => k = j
                 /\ \A q \in Paths : \A i \in intents'[q] : i.edge # j.id
                 /\ \A q \in Paths : IsFork(q)' => meta'[q].edge # j.id
      <3>1. j.id \in 1 .. puts'
        BY <2>2 DEF Narrowed, Apart, WaitingApart, ObjectTypeOK
      <3> QED
        BY <2>2, <3>1 DEF Narrowed, Apart, WaitingApart
    <2> QED
      BY <2>1, <2>2 DEF WaitingApart, WaitsForLock
  <1>2. IntentsApart'
    <2>1. ASSUME NEW p \in Paths, NEW i \in intents'[p]
          PROVE  /\ i.edge \in 1 .. puts' /\ NotOwed(i.edge)'
                 /\ \A q \in Paths : \A k \in intents'[q] : k.edge = i.edge => q = p /\ k = i
                 /\ \A q \in Paths : IsFork(q)' => meta'[q].edge # i.edge
      <3>1. i.edge \in 1 .. puts'
        BY DEF Narrowed, Apart, IntentsApart, ObjectTypeOK
      <3> QED
        BY <3>1 DEF Narrowed, Apart, IntentsApart
    <2> QED
      BY <2>1 DEF IntentsApart
  <1>3. ForksApart'
    <2>1. ASSUME NEW p \in Paths, IsFork(p)'
          PROVE  /\ meta'[p].edge \in 1 .. puts' /\ NotOwed(meta[p].edge)'
                 /\ \A q \in Paths : IsFork(q)' /\ meta'[q].edge = meta'[p].edge => q = p
      <3>1. IsFork(p) /\ meta'[p].edge = meta[p].edge /\ meta[p].edge \notin D
        BY <2>1 DEF Narrowed
      <3>2. meta[p].edge \in 1 .. puts /\ NotOwed(meta[p].edge)
        BY <3>1 DEF Apart, ForksApart
      <3>3. PICK e \in Nat : e = meta[p].edge
        BY <3>2
      <3>4. NotOwed(e)'
        BY <3>1, <3>2, <3>3 DEF Narrowed
      <3>5. NotOwed(meta[p].edge)'
        BY <3>1, <3>3, <3>4 DEF NotOwed
      <3>6. meta'[p].edge \in 1 .. puts'
        BY <3>1, <3>2 DEF Narrowed, ObjectTypeOK
      <3> QED
        BY <3>1, <3>5, <3>6 DEF Narrowed, Apart, ForksApart
    <2> QED
      BY <2>1 DEF ForksApart
  <1> QED
    BY <1>1, <1>2, <1>3 DEF Apart

\* A purge: the edge of the stream that goes becomes owed.
LEMMA PurgeNarrows ==
  ASSUME ObjectTypeOK, Apart, NEW p \in Paths, Exists(p), NEW others, Purge(p, others), UNCHANGED <<intents, puts>>,
         \A k \in others : k \in jobs \/ (k.kind = "flush" /\ k.step = "answer" /\ \E j \in jobs : j.kind = "flush" /\ k.todo = j.todo)
  PROVE  \E D : Narrowed(D)
  <1> DEFINE m    == meta[p]
             own  == IF m.forkedFrom = NoPath THEN {} ELSE {Edge(m.edge, m.forkedFrom, m.srcGen)}
             owed == releases[p] \cup own
             D    == IF m.forkedFrom = NoPath THEN {} ELSE {m.edge}
  <1>1. /\ meta' = [meta EXCEPT ![p] = NoMeta] /\ releases' = [releases EXCEPT ![p] = owed]
        /\ jobs' = others \cup FlushJob(p, m.gen, owed)
    BY DEF Purge
  <1>2. \A r \in own : r.edge \in D
    BY DEF Edge
  <1>3. \A e \in D : IsFork(p) /\ e = meta[p].edge
    BY DEF IsFork
  <1>4. \A k \in FlushJob(p, m.gen, owed) : k.kind = "flush" /\ k.todo = owed /\ k.step = "next"
    BY DEF FlushJob, Job
  <1>5. D \subseteq 1 .. puts
    BY <1>3 DEF Apart, ForksApart
  <1>6. \A q \in Paths : IsFork(q)' => IsFork(q) /\ meta'[q].edge = meta[q].edge /\ q # p
    BY <1>1 DEF IsFork, Exists, ObjectTypeOK
  <1> HIDE DEF owed, D, m
  <1>7. ASSUME NEW e \in Nat, NotOwed(e), e \notin D PROVE NotOwed(e)'
    <2>1. \A r \in owed : r.edge # e
      BY <1>2, <1>7 DEF owed, NotOwed
    <2>2. \A q \in Paths : \A r \in releases'[q] : r.edge # e
      BY <1>1, <1>7, <2>1 DEF NotOwed, ObjectTypeOK
    <2>3. ASSUME NEW k \in jobs', k.kind = "flush" PROVE (\A r \in k.todo : r.edge # e) /\ (k.step = "call" => k.call.edge # e)
      <3>1. CASE k \in FlushJob(p, m.gen, owed)
        BY <1>4, <2>1, <3>1
      <3>2. CASE k \in jobs
        BY <1>7, <2>3, <3>2 DEF NotOwed
      <3>3. CASE k.step = "answer" /\ \E j \in jobs : j.kind = "flush" /\ k.todo = j.todo
        BY <1>7, <3>3 DEF NotOwed
      <3> QED
        BY <1>1, <2>3, <3>1, <3>2, <3>3
    <2> QED
      BY <2>2, <2>3 DEF NotOwed
  <1>8. \A q \in Paths : \A i \in intents'[q] : i \in intents[q] /\ i.edge \notin D
    BY <1>3 DEF Apart, IntentsApart
  <1>9. \A q \in Paths : IsFork(q)' => meta[q].edge \notin D
    BY <1>3, <1>6 DEF Apart, ForksApart
  <1>10. \A j \in jobs' : WaitsForLock(j) => j \in jobs /\ j.id \notin D
    BY <1>1, <1>3, <1>4 DEF Apart, WaitingApart, WaitsForLock
  <1>11. Narrowed(D)
    BY <1>5, <1>6, <1>7, <1>8, <1>9, <1>10 DEF Narrowed, ObjectTypeOK
  <1> QED
    BY <1>11

\* A handler that will release nothing but what is owed already.
OwesNoMore(k) ==
  \A e \in Nat : k.kind = "flush" /\ NotOwed(e) => /\ \A r \in k.todo : r.edge # e
                                                   /\ k.step = "call" => k.call.edge # e

\* A step of a handler that owes nothing new, and takes nothing up: the new handler, if there is one, no longer waits.
LEMMA QuietNarrows ==
  ASSUME ObjectTypeOK, UNCHANGED puts,
         \A k \in jobs' : k \in jobs \/ (~WaitsForLock(k) /\ OwesNoMore(k)),
         \A p \in Paths : releases'[p] \subseteq releases[p] /\ intents'[p] \subseteq intents[p],
         \A p \in Paths : IsFork(p)' => IsFork(p) /\ meta'[p].edge = meta[p].edge
  PROVE  Narrowed({})
  <1>1. ASSUME NEW e \in Nat, NotOwed(e) PROVE NotOwed(e)'
    <2>1. \A p \in Paths : \A r \in releases'[p] : r.edge # e
      BY <1>1 DEF NotOwed
    <2>2. ASSUME NEW k \in jobs', k.kind = "flush" PROVE (\A r \in k.todo : r.edge # e) /\ (k.step = "call" => k.call.edge # e)
      <3>1. CASE k \in jobs
        BY <1>1, <2>2, <3>1 DEF NotOwed
      <3>2. CASE OwesNoMore(k)
        BY <1>1, <2>2, <3>2 DEF OwesNoMore
      <3> QED
        BY <3>1, <3>2
    <2> QED
      BY <2>1, <2>2 DEF NotOwed
  <1> QED
    BY <1>1 DEF Narrowed, ObjectTypeOK

\* In particular one that leaves the streams alone.
LEMMA QuietApart ==
  ASSUME ObjectTypeOK, Apart, ObjectTypeOK', UNCHANGED <<puts, meta>>,
         \A k \in jobs' : k \in jobs \/ (~WaitsForLock(k) /\ OwesNoMore(k)),
         \A p \in Paths : releases'[p] \subseteq releases[p] /\ intents'[p] \subseteq intents[p]
  PROVE  Apart'
  <1>1. \A p \in Paths : IsFork(p)' => IsFork(p) /\ meta'[p].edge = meta[p].edge
    BY DEF IsFork, Exists
  <1>2. Narrowed({})
    BY <1>1, QuietNarrows
  <1> QED
    BY <1>2, NarrowedApart

\* Requests, expiry, the alarm and the loss of an object, a fork's PUT apart.
LEMMA RequestApart ==
  ASSUME ObjectTypeOK, Apart, ObjectTypeOK', NEW p \in Paths,
         PutPlain(p) \/ DeletePath(p) \/ Lapse(p) \/ Expire(p) \/ AlarmFires(p) \/ Reset(p)
  PROVE  Apart'
  <1>1. CASE PutPlain(p)
    <2>1. \A q \in Paths : IsFork(q)' => IsFork(q) /\ meta'[q].edge = meta[q].edge
      BY <1>1 DEF PutPlain, IsFork, Exists, Row, ObjectTypeOK
    <2>2. Narrowed({})
      BY <1>1, <2>1 DEF PutPlain, Narrowed, NotOwed, ObjectTypeOK
    <2> QED
      BY <2>2, NarrowedApart
  <1>2. CASE DeletePath(p) \/ Expire(p)
    <2>1. CASE Purge(p, jobs)
      <3>1. \E D : Narrowed(D)
        BY <1>2, <2>1, PurgeNarrows DEF DeletePath, Expire
      <3> QED
        BY <3>1, NarrowedApart
    <2>2. CASE meta' = [meta EXCEPT ![p].softDeleted = TRUE] /\ UNCHANGED <<edges, releases, alarm, jobs>>
      <3>1. \A q \in Paths : IsFork(q)' => IsFork(q) /\ meta'[q].edge = meta[q].edge
        BY <1>2, <2>2 DEF DeletePath, Expire, IsFork, Exists, MetaRow, ObjectTypeOK
      <3>2. Narrowed({})
        BY <1>2, <2>2, <3>1, QuietNarrows DEF DeletePath, Expire
      <3> QED
        BY <3>2, NarrowedApart
    <2> QED
      BY <1>2, <2>1, <2>2 DEF DeletePath, Expire, Retire
  <1>3. CASE Lapse(p)
    <2>1. \A q \in Paths : IsFork(q)' => IsFork(q) /\ meta'[q].edge = meta[q].edge
      BY <1>3 DEF Lapse, IsFork, Exists, MetaRow, ObjectTypeOK
    <2>2. Narrowed({})
      BY <1>3, <2>1, QuietNarrows DEF Lapse
    <2> QED
      BY <2>2, NarrowedApart
  <1>4. CASE AlarmFires(p)
    <2> DEFINE k == Job("alarm", p, 0, {}, "lock")
    <2>1. ~WaitsForLock(k) /\ OwesNoMore(k)
      BY DEF Job, WaitsForLock, OwesNoMore
    <2>2. jobs' = jobs \cup {k} /\ UNCHANGED <<puts, meta, releases, intents>>
      BY <1>4 DEF AlarmFires
    <2> HIDE DEF k
    <2>3. \A l \in jobs' : l \in jobs \/ (~WaitsForLock(l) /\ OwesNoMore(l))
      BY <2>1, <2>2
    <2> QED
      BY <2>2, <2>3, QuietApart
  <1>5. CASE Reset(p)
    <2>1. \A l \in jobs' : l \in jobs
      BY <1>5 DEF Reset
    <2>2. UNCHANGED <<puts, meta, releases, intents>>
      BY <1>5 DEF Reset
    <2> QED
      BY <2>1, <2>2, QuietApart
  <1> QED
    BY <1>1, <1>2, <1>3, <1>4, <1>5

\* A fork's PUT takes the next id.
LEMMA PutForkApart ==
  ASSUME ObjectTypeOK, Apart, NEW p \in Paths, NEW s \in Paths, PutFork(p, s)
  PROVE  Apart'
  <1> DEFINE n == puts + 1
             k == Job("create", p, n, {Edge(n, s, 0)}, "lock")
  <1>1. /\ k.kind = "create" /\ k.step = "lock" /\ k.id = n
        /\ n \in Nat /\ n > puts /\ puts' = n /\ puts \in Nat
    BY DEF PutFork, Job, ObjectTypeOK
  <1>2. jobs' = jobs \cup {k} /\ UNCHANGED <<meta, edges, intents, releases>>
    BY DEF PutFork
  <1> HIDE DEF n, k
  <1>3. ASSUME NEW e, NotOwed(e) PROVE NotOwed(e)'
    BY <1>1, <1>2, <1>3 DEF NotOwed
  <1>4. \A q \in Paths : IsFork(q)' <=> IsFork(q)
    BY <1>2 DEF IsFork, Exists
  <1>5. WaitingApart'
    <2>1. \A e \in Nat : e > puts' => NotOwed(e)'
      BY <1>1, <1>3 DEF Apart, WaitingApart
    <2>2. ASSUME NEW j \in jobs', WaitsForLock(j)
          PROVE  /\ j.id \in 1 .. puts' /\ NotOwed(j.id)'
                 /\ \A l \in jobs' : WaitsForLock(l) /\ l.id = j.id => l = j
                 /\ \A q \in Paths : \A i \in intents'[q] : i.edge # j.id
                 /\ \A q \in Paths : IsFork(q)' => meta'[q].edge # j.id
      <3>1. CASE j \in jobs
        BY <1>1, <1>2, <1>3, <1>4, <2>2, <3>1 DEF Apart, WaitingApart
      <3>2. CASE j = k
        BY <1>1, <1>2, <1>3, <1>4, <3>2 DEF Apart, WaitingApart, IntentsApart, ForksApart
      <3> QED
        BY <1>2, <3>1, <3>2
    <2> QED
      BY <2>1, <2>2 DEF WaitingApart, WaitsForLock
  <1>6. IntentsApart'
    BY <1>1, <1>2, <1>3, <1>4 DEF Apart, IntentsApart
  <1>7. ForksApart'
    <2>1. \A q \in Paths : NotOwed(meta[q].edge) => NotOwed(meta[q].edge)'
      BY <1>1, <1>2 DEF NotOwed
    <2> QED
      BY <1>1, <1>2, <1>4, <2>1 DEF Apart, ForksApart
  <1> QED
    BY <1>5, <1>6, <1>7 DEF Apart

\* A creation that begins turns the id of its PUT into an intent, or takes up an intent that is there.
LEMMA CreateBeginsApart ==
  ASSUME ObjectTypeOK, Apart, JobsOK, ObjectTypeOK', NEW j \in jobs, CreateBegins(j)
  PROVE  Apart'
  <1>1. PICK e \in j.todo :
        \E i \in (IF GetForkIntent(j.at, e.parent) = {} THEN {e} ELSE GetForkIntent(j.at, e.parent)) :
            /\ PutForkIntent(j.at, i)
            /\ Becomes(j, [j EXCEPT !.locks = TRUE, !.step = "call", !.call = i, !.todo = {}])
    BY DEF CreateBegins
  <1>2. PICK i : /\ i = e \/ i \in intents[j.at]
                 /\ intents' = [intents EXCEPT ![j.at] = @ \cup {i}]
                 /\ jobs' = (jobs \ {j}) \cup {[j EXCEPT !.locks = TRUE, !.step = "call", !.call = i, !.todo = {}]}
    BY <1>1 DEF GetForkIntent, PutForkIntent, Becomes
  <1>3. /\ j \in JobRecord /\ j.at \in Paths /\ j.kind = "create" /\ WaitsForLock(j) /\ e.edge = j.id
        /\ UNCHANGED <<meta, edges, releases, puts>>
    BY DEF ObjectTypeOK, JobRecord, CreateBegins, WaitsForLock, JobsOK, CreateOK
  <1> DEFINE k == [j EXCEPT !.locks = TRUE, !.step = "call", !.call = i, !.todo = {}]
  <1>4. k.kind = "create" /\ ~WaitsForLock(k) /\ OwesNoMore(k) /\ jobs' = (jobs \ {j}) \cup {k}
    BY <1>2, <1>3 DEF JobRecord, WaitsForLock, OwesNoMore
  <1> HIDE DEF k
  <1>5. CASE i \in intents[j.at]
    <2>1. \A q \in Paths : releases'[q] \subseteq releases[q] /\ intents'[q] \subseteq intents[q]
      BY <1>2, <1>3, <1>5 DEF ObjectTypeOK
    <2>2. \A l \in jobs' : l \in jobs \/ (~WaitsForLock(l) /\ OwesNoMore(l))
      BY <1>4
    <2> QED
      BY <1>3, <2>1, <2>2, QuietApart
  <1>6. CASE i = e
    <2>1. i.edge = j.id /\ j.id \in 1 .. puts /\ NotOwed(j.id)
      BY <1>3, <1>6 DEF Apart, WaitingApart
    <2>2. /\ \A q \in Paths : \A x \in intents[q] : x.edge # j.id
          /\ \A q \in Paths : IsFork(q) => meta[q].edge # j.id
          /\ \A l \in jobs : WaitsForLock(l) /\ l.id = j.id => l = j
      BY <1>3 DEF Apart, WaitingApart
    <2>3. \A q \in Paths : \A x \in intents'[q] : x \in intents[q] \/ (x = i /\ q = j.at)
      BY <1>2, <1>3 DEF ObjectTypeOK
    <2>4. ASSUME NEW d, NotOwed(d) PROVE NotOwed(d)'
      BY <1>3, <1>4, <2>4 DEF NotOwed
    <2>5. \A q \in Paths : (IsFork(q)' <=> IsFork(q)) /\ meta'[q].edge = meta[q].edge
      BY <1>3 DEF IsFork, Exists
    <2>6. WaitingApart'
      <3>1. \A d \in Nat : d > puts' => NotOwed(d)'
        BY <1>3, <2>4 DEF Apart, WaitingApart
      <3>2. ASSUME NEW l \in jobs', WaitsForLock(l)
            PROVE  /\ l.id \in 1 .. puts' /\ NotOwed(l.id)'
                   /\ \A h \in jobs' : WaitsForLock(h) /\ h.id = l.id => h = l
                   /\ \A q \in Paths : \A x \in intents'[q] : x.edge # l.id
                   /\ \A q \in Paths : IsFork(q)' => meta'[q].edge # l.id
        <4>1. l \in jobs /\ l # j /\ l.id # j.id
          BY <1>4, <2>2, <3>2
        <4>2. /\ l.id \in 1 .. puts /\ NotOwed(l.id)
              /\ \A h \in jobs : WaitsForLock(h) /\ h.id = l.id => h = l
              /\ \A q \in Paths : \A x \in intents[q] : x.edge # l.id
              /\ \A q \in Paths : IsFork(q) => meta[q].edge # l.id
          BY <3>2, <4>1 DEF Apart, WaitingApart
        <4>3. \A q \in Paths : \A x \in intents'[q] : x.edge # l.id
          BY <2>1, <2>3, <4>1, <4>2
        <4>4. \A h \in jobs' : WaitsForLock(h) /\ h.id = l.id => h = l
          BY <1>4, <4>2
        <4> QED
          BY <1>3, <2>4, <2>5, <4>2, <4>3, <4>4
      <3> QED
        BY <3>1, <3>2 DEF WaitingApart, WaitsForLock
    <2>7. IntentsApart'
      <3>1. ASSUME NEW q \in Paths, NEW x \in intents'[q]
            PROVE  /\ x.edge \in 1 .. puts' /\ NotOwed(x.edge)'
                   /\ \A r \in Paths : \A y \in intents'[r] : y.edge = x.edge => r = q /\ y = x
                   /\ \A r \in Paths : IsFork(r)' => meta'[r].edge # x.edge
        <4>1. CASE x = i /\ q = j.at
          BY <1>3, <2>1, <2>2, <2>3, <2>4, <2>5, <4>1
        <4>2. CASE x \in intents[q]
          <5>1. /\ x.edge \in 1 .. puts /\ NotOwed(x.edge) /\ x.edge # i.edge
                /\ \A r \in Paths : \A y \in intents[r] : y.edge = x.edge => r = q /\ y = x
                /\ \A r \in Paths : IsFork(r) => meta[r].edge # x.edge
            BY <2>1, <2>2, <4>2 DEF Apart, IntentsApart
          <5> QED
            BY <1>3, <2>3, <2>4, <2>5, <5>1
        <4> QED
          BY <2>3, <4>1, <4>2
      <3> QED
        BY <3>1 DEF IntentsApart
    <2>8. ForksApart'
      <3>1. \A q \in Paths : NotOwed(meta[q].edge) => NotOwed(meta[q].edge)'
        BY <1>3, <1>4 DEF NotOwed
      <3> QED
        BY <1>3, <2>5, <3>1 DEF Apart, ForksApart
    <2> QED
      BY <2>6, <2>7, <2>8 DEF Apart
  <1> QED
    BY <1>2, <1>5, <1>6

\* A creation that succeeds turns its intent into a fork that owns the edge.
LEMMA CreateStreamApart ==
  ASSUME ObjectTypeOK, Apart, JobsOK, NEW j \in jobs, CreateStream(j)
  PROVE  Apart'
  <1>1. /\ j \in JobRecord /\ j.at \in Paths /\ j.call \in intents[j.at] /\ j.call.edge \in Nat
        /\ jobs' = jobs \ {j} /\ UNCHANGED <<releases, puts>>
        /\ intents' = [intents EXCEPT ![j.at] = @ \ {j.call}]
        /\ meta' = [meta EXCEPT ![j.at] = Row(j.id, j.call.parent, j.call.edge, j.answer)]
    BY DEF ObjectTypeOK, JobRecord, EdgeRecord, CreateStream, DeleteForkIntent, JobsOK, CreateOK
  <1> DEFINE d == j.call.edge
  <1>2. /\ d \in 1 .. puts /\ NotOwed(d)
        /\ \A q \in Paths : \A x \in intents[q] : x.edge = d => q = j.at /\ x = j.call
        /\ \A q \in Paths : IsFork(q) => meta[q].edge # d
    BY <1>1 DEF Apart, IntentsApart
  <1>3. \A l \in jobs : WaitsForLock(l) => l.id # d
    BY <1>1 DEF Apart, WaitingApart
  <1>4. \A q \in Paths : \A x \in intents'[q] : x \in intents[q] /\ x.edge # d
    BY <1>1, <1>2 DEF ObjectTypeOK
  <1>5. ASSUME NEW e, NotOwed(e) PROVE NotOwed(e)'
    BY <1>1, <1>5 DEF NotOwed
  <1>6. \A q \in Paths : IsFork(q)' => \/ q = j.at /\ meta'[q].edge = d
                                       \/ q # j.at /\ IsFork(q) /\ meta'[q].edge = meta[q].edge
    BY <1>1 DEF IsFork, Exists, Row, ObjectTypeOK
  <1> HIDE DEF d
  <1>7. WaitingApart'
    <2>1. \A e \in Nat : e > puts' => NotOwed(e)'
      BY <1>1, <1>5 DEF Apart, WaitingApart
    <2>2. ASSUME NEW l \in jobs', WaitsForLock(l)
          PROVE  /\ l.id \in 1 .. puts' /\ NotOwed(l.id)'
                 /\ \A h \in jobs' : WaitsForLock(h) /\ h.id = l.id => h = l
                 /\ \A q \in Paths : \A x \in intents'[q] : x.edge # l.id
                 /\ \A q \in Paths : IsFork(q)' => meta'[q].edge # l.id
      BY <1>1, <1>3, <1>4, <1>5, <1>6, <2>2 DEF Apart, WaitingApart
    <2> QED
      BY <2>1, <2>2 DEF WaitingApart, WaitsForLock
  <1>8. IntentsApart'
    <2>1. ASSUME NEW q \in Paths, NEW x \in intents'[q]
          PROVE  /\ x.edge \in 1 .. puts' /\ NotOwed(x.edge)'
                 /\ \A r \in Paths : \A y \in intents'[r] : y.edge = x.edge => r = q /\ y = x
                 /\ \A r \in Paths : IsFork(r)' => meta'[r].edge # x.edge
      BY <1>1, <1>4, <1>5, <1>6 DEF Apart, IntentsApart
    <2> QED
      BY <2>1 DEF IntentsApart
  <1>9. ForksApart'
    <2>1. ASSUME NEW p \in Paths, IsFork(p)'
          PROVE  /\ meta'[p].edge \in 1 .. puts' /\ NotOwed(meta[p].edge)'
                 /\ \A q \in Paths : IsFork(q)' /\ meta'[q].edge = meta'[p].edge => q = p
      <3>1. PICK e : e = meta'[p].edge /\ e \in 1 .. puts /\ NotOwed(e)
        BY <1>2, <1>6, <2>1 DEF Apart, ForksApart
      <3>2. NotOwed(meta[p].edge)'
        BY <1>1, <3>1 DEF NotOwed
      <3>3. \A q \in Paths : IsFork(q)' /\ meta'[q].edge = meta'[p].edge => q = p
        BY <1>2, <1>6, <2>1 DEF Apart, ForksApart
      <3> QED
        BY <1>1, <3>1, <3>2, <3>3
    <2> QED
      BY <2>1 DEF ForksApart
  <1> QED
    BY <1>7, <1>8, <1>9 DEF Apart

\* An intent that is settled by a release turns into a debt.
LEMMA SettledApart ==
  ASSUME ObjectTypeOK, Apart, ObjectTypeOK', NEW j \in jobs, j.call \in intents[j.at], UNCHANGED <<meta, puts>>,
         intents' = [intents EXCEPT ![j.at] = @ \ {j.call}],
         \A p \in Paths : \A r \in releases'[p] : r \in releases[p] \/ r.edge = j.call.edge,
         \A k \in jobs' : \/ k \in jobs
                          \/ ~WaitsForLock(k) /\ (k.kind = "flush" => k.step = "next" /\ k.todo \subseteq releases'[j.at])
  PROVE  Apart'
  <1> DEFINE d == j.call.edge
  <1>1. j.at \in Paths /\ d \in Nat
    BY DEF ObjectTypeOK, JobRecord, EdgeRecord
  <1>2. /\ d \in 1 .. puts
        /\ \A q \in Paths : \A x \in intents[q] : x.edge = d => q = j.at /\ x = j.call
        /\ \A q \in Paths : IsFork(q) => meta[q].edge # d
    BY <1>1 DEF Apart, IntentsApart
  <1>3. \A l \in jobs : WaitsForLock(l) => l.id # d
    BY <1>1 DEF Apart, WaitingApart
  <1>4. \A q \in Paths : \A x \in intents'[q] : x \in intents[q] /\ x.edge # d
    BY <1>1, <1>2 DEF ObjectTypeOK
  <1>5. \A q \in Paths : (IsFork(q)' <=> IsFork(q)) /\ meta'[q].edge = meta[q].edge
    BY DEF IsFork, Exists
  <1>6. ASSUME NEW e \in Nat, NotOwed(e), e # d PROVE NotOwed(e)'
    <2>1. \A q \in Paths : \A r \in releases'[q] : r.edge # e
      BY <1>6 DEF NotOwed
    <2>2. ASSUME NEW k \in jobs', k.kind = "flush" PROVE (\A r \in k.todo : r.edge # e) /\ (k.step = "call" => k.call.edge # e)
      BY <1>1, <1>6, <2>1, <2>2 DEF NotOwed
    <2> QED
      BY <2>1, <2>2 DEF NotOwed
  <1> HIDE DEF d
  <1>7. Narrowed({d})
    BY <1>2, <1>3, <1>4, <1>5, <1>6 DEF Narrowed, ObjectTypeOK
  <1> QED
    BY <1>7, NarrowedApart

\* The other steps of handlers.
LEMMA HandlerApart ==
  ASSUME ObjectTypeOK, Apart, JobsOK, ObjectTypeOK', NEW j \in jobs, Progress(j) \/ CallFails(j)
  PROVE  Apart'
  <1>0. j \in JobRecord /\ j.at \in Paths /\ j.call \in EdgeRecord
    BY DEF ObjectTypeOK, JobRecord
  <1>a. ASSUME NEW k, jobs' = (jobs \ {j}) \cup {k}, ~WaitsForLock(k), OwesNoMore(k), UNCHANGED <<puts, meta, releases, intents>>
        PROVE  Apart'
    <2>1. \A l \in jobs' : l \in jobs \/ (~WaitsForLock(l) /\ OwesNoMore(l))
      BY <1>a
    <2> QED
      BY <1>a, <2>1, QuietApart
  <1>b. ASSUME jobs' = jobs \ {j}, UNCHANGED <<puts, meta, releases>>,
               UNCHANGED intents \/ intents' = [intents EXCEPT ![j.at] = @ \ {j.call}]
        PROVE  Apart'
    <2>1. \A q \in Paths : intents'[q] \subseteq intents[q]
      BY <1>0, <1>b DEF ObjectTypeOK
    <2>2. \A l \in jobs' : l \in jobs
      BY <1>b
    <2> QED
      BY <1>b, <2>1, <2>2, QuietApart
  <1>1. CASE CreateBegins(j)
    BY <1>1, CreateBeginsApart
  <1>2. CASE CreateStream(j)
    BY <1>2, CreateStreamApart
  <1>3. CASE CreateRefused(j) \/ FlushDone(j)
    BY <1>3, <1>b DEF CreateRefused, FlushDone, DeleteForkIntent
  <1>4. CASE CreateReleases(j)
    <2> DEFINE r == [j.call EXCEPT !.gen = j.answer]
               owed == releases[j.at] \cup {r}
               k == [j EXCEPT !.kind = "flush", !.todo = owed, !.step = "next"]
    <2>1. /\ releases' = [releases EXCEPT ![j.at] = owed] /\ jobs' = (jobs \ {j}) \cup {k}
          /\ intents' = [intents EXCEPT ![j.at] = @ \ {j.call}] /\ UNCHANGED <<meta, puts>> /\ j.call \in intents[j.at]
      BY <1>4 DEF CreateReleases, Becomes, DeleteForkIntent, JobsOK, CreateOK
    <2>2. r.edge = j.call.edge /\ k.kind = "flush" /\ k.todo = owed /\ k.step = "next"
      BY <1>0 DEF JobRecord, EdgeRecord
    <2> HIDE DEF r, k
    <2>3. releases'[j.at] = owed /\ \A p \in Paths : \A x \in releases'[p] : x \in releases[p] \/ x.edge = j.call.edge
      BY <1>0, <2>1, <2>2 DEF ObjectTypeOK
    <2>4. \A l \in jobs' : \/ l \in jobs
                           \/ ~WaitsForLock(l) /\ (l.kind = "flush" => l.step = "next" /\ l.todo \subseteq releases'[j.at])
      BY <2>1, <2>2, <2>3 DEF WaitsForLock
    <2> QED
      BY <2>1, <2>3, <2>4, SettledApart
  <1>5. CASE AlarmBegins(j)
    <2> DEFINE k == [j EXCEPT !.locks = TRUE, !.step = "next", !.todo = IF Exists(j.at) THEN {} ELSE intents[j.at]]
    <2>1. k.kind = "alarm"
      BY <1>0, <1>5 DEF AlarmBegins, JobRecord
    <2>2. ~WaitsForLock(k) /\ OwesNoMore(k)
      BY <2>1 DEF WaitsForLock, OwesNoMore
    <2> QED
      BY <1>5, <1>a, <2>2 DEF AlarmBegins, Becomes
  <1>6. CASE IntentSettled(j)
    <2> DEFINE r == [j.call EXCEPT !.gen = j.answer]
               k == [j EXCEPT !.step = "next", !.answer = 0]
    <2>1. /\ releases' = [releases EXCEPT ![j.at] = IF j.answer = 0 THEN @ ELSE @ \cup {r}] /\ jobs' = (jobs \ {j}) \cup {k}
          /\ intents' = [intents EXCEPT ![j.at] = @ \ {j.call}] /\ UNCHANGED <<meta, puts>> /\ j.call \in intents[j.at]
      BY <1>6 DEF IntentSettled, Becomes, DeleteForkIntent, JobsOK, AlarmOK
    <2>2. r.edge = j.call.edge /\ k.kind = "alarm"
      BY <1>0, <1>6 DEF JobRecord, EdgeRecord, IntentSettled
    <2> HIDE DEF r, k
    <2>3. \A p \in Paths : \A x \in releases'[p] : x \in releases[p] \/ x.edge = j.call.edge
      BY <1>0, <2>1, <2>2 DEF ObjectTypeOK
    <2>4. \A l \in jobs' : l \in jobs \/ (~WaitsForLock(l) /\ l.kind # "flush")
      BY <2>1, <2>2 DEF WaitsForLock
    <2> QED
      BY <2>1, <2>3, <2>4, SettledApart
  <1>7. CASE IntentsDone(j)
    <2> DEFINE k == [j EXCEPT !.kind = "flush", !.todo = releases[j.at], !.locks = FALSE]
    <2>1. k.kind = "flush" /\ k.todo = releases[j.at] /\ k.step = "next"
      BY <1>0, <1>7 DEF IntentsDone, JobRecord
    <2>2. ~WaitsForLock(k) /\ OwesNoMore(k)
      BY <1>0, <2>1 DEF WaitsForLock, OwesNoMore, NotOwed
    <2> QED
      BY <1>7, <1>a, <2>2 DEF IntentsDone, Becomes
  <1>8. CASE NextCall(j)
    <2>1. PICK c \in j.todo : jobs' = (jobs \ {j}) \cup {[j EXCEPT !.step = "call", !.call = c, !.todo = @ \ {c}]}
      BY <1>8 DEF NextCall, Becomes
    <2> DEFINE k == [j EXCEPT !.step = "call", !.call = c, !.todo = @ \ {c}]
    <2>2. k.kind = j.kind /\ k.step = "call" /\ k.call = c /\ k.todo = j.todo \ {c}
      BY <1>0 DEF JobRecord
    <2>3. ~WaitsForLock(k) /\ OwesNoMore(k)
      BY <2>1, <2>2 DEF WaitsForLock, OwesNoMore, NotOwed
    <2> QED
      BY <1>8, <1>a, <2>1, <2>3 DEF NextCall
  <1>9. CASE Released(j)
    <2> DEFINE k == [j EXCEPT !.step = "next"]
    <2>1. k.kind = "flush" /\ k.todo = j.todo /\ k.step = "next"
      BY <1>0, <1>9 DEF Released, JobRecord
    <2>2. ~WaitsForLock(k) /\ OwesNoMore(k)
      BY <1>9, <2>1 DEF Released, WaitsForLock, OwesNoMore, NotOwed
    <2>3. jobs' = (jobs \ {j}) \cup {k} /\ UNCHANGED <<puts, meta, intents>>
      BY <1>9 DEF Released, Becomes
    <2> HIDE DEF k
    <2>4. \A p \in Paths : releases'[p] \subseteq releases[p]
      BY <1>9 DEF Released, ObjectTypeOK
    <2>5. \A l \in jobs' : l \in jobs \/ (~WaitsForLock(l) /\ OwesNoMore(l))
      BY <2>2, <2>3
    <2> QED
      BY <2>3, <2>4, <2>5, QuietApart
  <1>c. ASSUME NEW g PROVE /\ Answered(j, g).kind = j.kind /\ Answered(j, g).todo = j.todo
                           /\ Answered(j, g).step = "answer"
    BY <1>0 DEF Answered, JobRecord
  <1>d. ASSUME NEW g PROVE ~WaitsForLock(Answered(j, g)) /\ OwesNoMore(Answered(j, g))
    BY <1>c DEF WaitsForLock, OwesNoMore, NotOwed
  <1>10. CASE ForkAcquire(j)
    <2>1. PICK g : jobs' = (jobs \ {j}) \cup {Answered(j, g)}
      BY <1>10 DEF ForkAcquire, Becomes
    <2> QED
      BY <1>10, <1>a, <1>d, <2>1 DEF ForkAcquire
  <1>11. CASE ForkRelease(j)
    <2> DEFINE rest == (jobs \ {j}) \cup {Answered(j, 0)}
               s == j.call.parent
    <2>1. CASE jobs' = rest /\ UNCHANGED <<meta, releases>>
      BY <1>11, <1>a, <1>d, <2>1 DEF ForkRelease
    <2>2. CASE Exists(s) /\ Purge(s, rest)
      <3>1. \A k \in rest : k \in jobs \/ (k.kind = "flush" /\ k.step = "answer" /\ \E h \in jobs : h.kind = "flush" /\ k.todo = h.todo)
        BY <1>11, <1>c DEF ForkRelease
      <3>2. s \in Paths /\ UNCHANGED <<intents, puts>>
        BY <1>0, <1>11 DEF EdgeRecord, ForkRelease
      <3> HIDE DEF rest, s
      <3>3. \E D : Narrowed(D)
        BY <2>2, <3>1, <3>2, PurgeNarrows
      <3> QED
        BY <3>3, NarrowedApart
    <2> QED
      BY <1>11, <2>1, <2>2 DEF ForkRelease
  <1>12. CASE CallFails(j)
    <2>1. CASE jobs' = jobs \ {j}
      BY <1>12, <1>b, <2>1 DEF CallFails
    <2>2. CASE jobs' = (jobs \ {j}) \cup {[j EXCEPT !.step = "next", !.answer = 0]}
      <3> DEFINE k == [j EXCEPT !.step = "next", !.answer = 0]
      <3>1. k.kind = j.kind /\ k.todo = j.todo /\ k.step = "next"
        BY <1>0 DEF JobRecord
      <3>2. ~WaitsForLock(k) /\ OwesNoMore(k)
        BY <3>1 DEF WaitsForLock, OwesNoMore, NotOwed
      <3> QED
        BY <1>12, <1>a, <2>2, <3>2 DEF CallFails
    <2> QED
      BY <1>12, <2>1, <2>2 DEF CallFails, Becomes
  <1> QED
    BY <1>1, <1>2, <1>3, <1>4, <1>5, <1>6, <1>7, <1>8, <1>9, <1>10, <1>11, <1>12 DEF Progress

\* Every step keeps the uses of ids apart.
LEMMA ApartStep == ObjectTypeOK /\ Apart /\ JobsOK /\ [ObjectNext]_objectVars => Apart'
  <1> SUFFICES ASSUME ObjectTypeOK, Apart, JobsOK, [ObjectNext]_objectVars PROVE Apart'
    OBVIOUS
  <1>0. ObjectTypeOK'
    BY ObjectTypeStep
  <1>1. CASE UNCHANGED objectVars
    BY <1>0, <1>1, QuietApart DEF objectVars
  <1> QED
    BY <1>0, <1>1, RequestApart, PutForkApart, HandlerApart DEF ObjectNext, ObjectProgress

-----------------------------------------------------------------------------
(* The rest of the invariant. *)

\* Edges are recorded on streams only.
LEMMA EdgesStep ==
  ASSUME ObjectTypeOK, EdgesHaveStream, [ObjectNext]_objectVars
  PROVE  EdgesHaveStream'
  <1> SUFFICES ASSUME NEW s \in Paths, edges'[s] # {} PROVE Exists(s)'
    BY DEF EdgesHaveStream
  <1>a. ASSUME meta'[s] = meta[s], edges'[s] \subseteq edges[s] PROVE Exists(s)'
    BY <1>a DEF EdgesHaveStream, Exists
  <1>1. ASSUME UNCHANGED <<meta, edges>> PROVE Exists(s)'
    BY <1>1, <1>a
  <1>2. ASSUME NEW p \in Paths, NEW others, Purge(p, others) PROVE Exists(s)'
    BY <1>2, <1>a, PurgeEffect
  <1>3. ASSUME NEW p \in Paths, DeletePath(p) \/ Expire(p) PROVE Exists(s)'
    <2>1. CASE meta' = [meta EXCEPT ![p].softDeleted = TRUE] /\ UNCHANGED edges
      <3>1. CASE p = s
        <4>1. meta'[s] = [meta[s] EXCEPT !.softDeleted = TRUE] /\ meta[s] \in MetaRow
          BY <2>1, <3>1 DEF ObjectTypeOK
        <4>2. meta'[s].softDeleted = TRUE
          BY <4>1 DEF MetaRow
        <4> QED
          BY <4>2 DEF Exists, NoMeta, Row
      <3> QED
        BY <1>a, <2>1, <3>1 DEF ObjectTypeOK
    <2> QED
      BY <1>2, <1>3, <2>1 DEF DeletePath, Expire, Retire
  <1>4. ASSUME NEW p \in Paths, Lapse(p) PROVE Exists(s)'
    <2>1. CASE p = s
      <3>1. meta'[s] = [meta[s] EXCEPT !.expired = TRUE] /\ meta[s] \in MetaRow
        BY <1>4, <2>1 DEF Lapse, ObjectTypeOK
      <3>2. meta'[s].expired = TRUE
        BY <3>1 DEF MetaRow
      <3> QED
        BY <3>2 DEF Exists, NoMeta, Row
    <2> QED
      BY <1>4, <1>a, <2>1 DEF Lapse, ObjectTypeOK
  <1>5. ASSUME NEW p \in Paths, PutPlain(p) PROVE Exists(s)'
    <2>1. p # s
      BY <1>5 DEF PutPlain, EdgesHaveStream, Exists
    <2> QED
      BY <1>5, <1>a, <2>1 DEF PutPlain, ObjectTypeOK
  <1>6. ASSUME NEW j \in jobs, CreateStream(j) PROVE Exists(s)'
    <2>1. j.at # s
      BY <1>6 DEF CreateStream, EdgesHaveStream, Exists
    <2> QED
      BY <1>6, <1>a, <2>1 DEF CreateStream, ObjectTypeOK
  <1>7. ASSUME NEW j \in jobs, ForkAcquire(j) PROVE Exists(s)'
    <2>1. UNCHANGED meta /\ (edges'[s] = edges[s] \/ Exists(s))
      BY <1>7 DEF ForkAcquire, ObjectTypeOK
    <2> QED
      BY <1>a, <2>1 DEF Exists
  <1>8. ASSUME NEW j \in jobs, ForkRelease(j) PROVE Exists(s)'
    <2>1. j.call.parent \in Paths
      BY DEF ObjectTypeOK, JobRecord, EdgeRecord
    <2>2. CASE UNCHANGED meta /\ (UNCHANGED edges \/ edges' = [edges EXCEPT ![j.call.parent] = @ \ {j.call.edge}])
      BY <1>a, <2>1, <2>2 DEF ObjectTypeOK
    <2> QED
      BY <1>2, <1>8, <2>1, <2>2 DEF ForkRelease
  <1>9. ASSUME NEW j \in jobs, Progress(j) \/ CallFails(j), ~CreateStream(j), ~ForkAcquire(j), ~ForkRelease(j)
        PROVE  Exists(s)'
    BY <1>1, <1>9 DEF Progress, CallFails, CreateBegins, CreateRefused, CreateReleases, AlarmBegins, IntentSettled,
                      IntentsDone, NextCall, FlushDone, Released
  <1>10. ASSUME NEW p \in Paths, AlarmFires(p) \/ Reset(p) \/ \E q \in Paths : PutFork(p, q) PROVE Exists(s)'
    BY <1>1, <1>10 DEF AlarmFires, Reset, PutFork
  <1> QED
    BY <1>1, <1>3, <1>4, <1>5, <1>6, <1>7, <1>8, <1>9, <1>10 DEF ObjectNext, ObjectProgress, objectVars

\* A fork there is after a step was there before it, or has just been created.
LEMMA ForkRow ==
  ASSUME ObjectTypeOK, [ObjectNext]_objectVars, NEW p \in Paths, IsFork(p)'
  PROVE  \/ /\ IsFork(p) /\ meta'[p].forkedFrom = meta[p].forkedFrom
            /\ meta'[p].edge = meta[p].edge /\ meta'[p].srcGen = meta[p].srcGen
         \/ \E j \in jobs : CreateStream(j) /\ j.at = p
  <1> DEFINE Same == /\ IsFork(p) /\ meta'[p].forkedFrom = meta[p].forkedFrom
                     /\ meta'[p].edge = meta[p].edge /\ meta'[p].srcGen = meta[p].srcGen
  <1>a. ASSUME meta'[p] = meta[p] PROVE Same
    BY <1>a DEF IsFork, Exists
  <1>1. ASSUME NEW q \in Paths, NEW others, Purge(q, others) PROVE Same
    <2>1. p # q
      BY <1>1, PurgeEffect DEF IsFork, Exists
    <2> QED
      BY <1>1, <1>a, <2>1, PurgeEffect
  <1>2. ASSUME NEW q \in Paths, DeletePath(q) \/ Expire(q) PROVE Same
    <2>1. CASE meta' = [meta EXCEPT ![q].softDeleted = TRUE]
      BY <1>2, <2>1 DEF DeletePath, Expire, IsFork, Exists, MetaRow, ObjectTypeOK
    <2> QED
      BY <1>1, <1>2, <2>1 DEF DeletePath, Expire, Retire
  <1>3. ASSUME NEW q \in Paths, Lapse(q) PROVE Same
    BY <1>3 DEF Lapse, IsFork, Exists, MetaRow, ObjectTypeOK
  <1>4. ASSUME NEW q \in Paths, PutPlain(q) PROVE Same
    <2>1. p # q
      BY <1>4 DEF PutPlain, IsFork, Exists, Row, ObjectTypeOK
    <2> QED
      BY <1>4, <1>a, <2>1 DEF PutPlain, ObjectTypeOK
  <1>5. ASSUME NEW j \in jobs, CreateStream(j), j.at # p PROVE Same
    BY <1>5, <1>a DEF CreateStream, ObjectTypeOK
  <1>6. ASSUME NEW j \in jobs, ForkRelease(j) PROVE Same
    <2>1. j.call.parent \in Paths
      BY DEF ObjectTypeOK, JobRecord, EdgeRecord
    <2> QED
      BY <1>1, <1>6, <1>a, <2>1 DEF ForkRelease
  <1>7. ASSUME NEW j \in jobs, Progress(j) \/ CallFails(j), ~CreateStream(j), ~ForkRelease(j)
        PROVE  Same
    BY <1>a, <1>7 DEF Progress, CallFails, CreateBegins, CreateRefused, CreateReleases, AlarmBegins, IntentSettled,
                      IntentsDone, NextCall, FlushDone, Released, ForkAcquire
  <1>8. ASSUME NEW q \in Paths, AlarmFires(q) \/ Reset(q) \/ \E r \in Paths : PutFork(q, r) PROVE Same
    BY <1>a, <1>8 DEF AlarmFires, Reset, PutFork
  <1>9. ASSUME UNCHANGED objectVars PROVE Same
    BY <1>a, <1>9 DEF objectVars
  <1> HIDE DEF Same
  <1>10. Same \/ \E j \in jobs : CreateStream(j) /\ j.at = p
    BY <1>2, <1>3, <1>4, <1>5, <1>6, <1>7, <1>8, <1>9 DEF ObjectNext, ObjectProgress
  <1> QED
    BY <1>10 DEF Same

\* A fork keeps its source, because nobody owes the edge it owns.
LEMMA ForksStep ==
  ASSUME ObjectInv, [ObjectNext]_objectVars
  PROVE  ForksKeepSource'
  <1>1. ASSUME NEW p \in Paths, IsFork(p)'
        PROVE  /\ Exists(meta[p].forkedFrom)' /\ meta'[meta'[p].forkedFrom].gen = meta'[p].srcGen
               /\ meta'[p].edge \in edges'[meta'[p].forkedFrom]
    <2>1. PICK s, g, e : /\ s \in Paths /\ Held(s, g, e) /\ NotOwed(e)
                         /\ meta'[p].forkedFrom = s /\ meta'[p].srcGen = g /\ meta'[p].edge = e
      <3>1. CASE /\ IsFork(p) /\ meta'[p].forkedFrom = meta[p].forkedFrom
                 /\ meta'[p].edge = meta[p].edge /\ meta'[p].srcGen = meta[p].srcGen
        <4>1. meta[p].forkedFrom \in Paths
          BY <3>1 DEF ObjectInv, ObjectTypeOK, MetaRow, IsFork
        <4>2. Held(meta[p].forkedFrom, meta[p].srcGen, meta[p].edge)
          BY <3>1 DEF ObjectInv, ForksKeepSource, IsFork, Held
        <4>3. NotOwed(meta[p].edge)
          BY <3>1 DEF ObjectInv, Apart, ForksApart
        <4> QED
          BY <3>1, <4>1, <4>2, <4>3
      <3>2. ASSUME NEW j \in jobs, CreateStream(j), j.at = p
            PROVE  \E s, g, e : /\ s \in Paths /\ Held(s, g, e) /\ NotOwed(e)
                                /\ meta'[p].forkedFrom = s /\ meta'[p].srcGen = g /\ meta'[p].edge = e
        <4>1. j.call.parent \in Paths
          BY DEF ObjectInv, ObjectTypeOK, JobRecord, EdgeRecord
        <4>2. Held(j.call.parent, j.answer, j.call.edge) /\ j.call \in intents[p]
          BY <3>2 DEF ObjectInv, JobsOK, CreateOK, CreateStream
        <4>3. NotOwed(j.call.edge)
          BY <4>2 DEF ObjectInv, Apart, IntentsApart
        <4>4. meta'[p] = Row(j.id, j.call.parent, j.call.edge, j.answer)
          BY <3>2 DEF CreateStream, ObjectInv, ObjectTypeOK
        <4>5. meta'[p].forkedFrom = j.call.parent /\ meta'[p].srcGen = j.answer /\ meta'[p].edge = j.call.edge
          BY <4>4 DEF Row
        <4> QED
          BY <4>1, <4>2, <4>3, <4>5
      <3> QED
        BY <1>1, <3>1, <3>2, ForkRow DEF ObjectInv
    <2>2. Held(s, g, e)'
      BY <2>1, HeldStays DEF ObjectInv
    <2> QED
      BY <2>1, <2>2 DEF Held, Exists
  <1> QED
    BY <1>1 DEF ForksKeepSource, IsFork, Exists

-----------------------------------------------------------------------------
(* Handlers. *)

Good(j) == (j.kind = "create" => CreateOK(j)) /\ (j.kind = "alarm" => AlarmOK(j))

\* What a handler relies on stays, if its intents do or it does not hold the lock.
LEMMA GoodStays ==
  ASSUME ObjectInv, [ObjectNext]_objectVars, NEW l \in jobs, l.step = "lock" \/ intents[l.at] \subseteq intents'[l.at]
  PROVE  Good(l)'
  <1>0. l.at \in Paths /\ l.call.parent \in Paths
    BY DEF ObjectInv, ObjectTypeOK, JobRecord, EdgeRecord
  <1>1. ASSUME l.kind = "create" PROVE CreateOK(l)'
    <2>1. CreateOK(l)
      BY <1>1 DEF ObjectInv, JobsOK
    <2>2. ASSUME l.step = "answer", l.answer # 0 PROVE Held(l.call.parent, l.answer, l.call.edge)'
      <3>1. Held(l.call.parent, l.answer, l.call.edge) /\ l.call \in intents[l.at]
        BY <2>1, <2>2 DEF CreateOK
      <3>2. NotOwed(l.call.edge)
        BY <1>0, <3>1 DEF ObjectInv, Apart, IntentsApart
      <3> QED
        BY <1>0, <3>1, <3>2, HeldStays DEF ObjectInv
    <2> QED
      BY <2>1, <2>2 DEF CreateOK
  <1>2. ASSUME l.kind = "alarm" PROVE AlarmOK(l)'
    BY <1>2 DEF ObjectInv, JobsOK, AlarmOK
  <1> QED
    BY <1>1, <1>2 DEF Good

\* A step without a handler: what is new does not hold the lock, and waits for it or only delivers releases.
LEMMA NewHandlers ==
  ASSUME ObjectInv, [ObjectNext]_objectVars, UNCHANGED intents,
         \A k \in jobs' : \/ k \in jobs
                          \/ ~k.locks /\ (k.kind = "flush" \/ (k.step = "lock" /\ \A e \in k.todo : e.edge = k.id))
  PROVE  LockExcludes' /\ JobsOK'
  <1>1. LockExcludes'
    BY DEF ObjectInv, LockExcludes
  <1>2. \A k \in jobs' : Good(k)'
    <2>1. ASSUME NEW k \in jobs' PROVE Good(k)'
      <3>1. CASE k \in jobs
        BY <3>1, GoodStays
      <3>2. CASE k.kind = "flush"
        BY <3>2 DEF Good
      <3>3. CASE k.step = "lock" /\ \A e \in k.todo : e.edge = k.id
        BY <3>3 DEF Good, CreateOK, AlarmOK
      <3> QED
        BY <3>1, <3>2, <3>3
    <2> QED
      BY <2>1
  <1> QED
    BY <1>1, <1>2 DEF JobsOK, Good

\* A step of handler j, which goes on as k or is over; handlers that only deliver releases may have come.
LEMMA HandlerGoesOn ==
  ASSUME ObjectInv, [ObjectNext]_objectVars, NEW j \in jobs, NEW k, k.at = j.at, k.locks => j.locks \/ LockFree(j.at), Good(k)',
         \A l \in jobs' : \/ l \in jobs \ {j} \/ l = k
                          \/ l.kind = "flush" /\ ~l.locks,
         \A p \in Paths : p # j.at => intents[p] \subseteq intents'[p],
         j.locks \/ intents[j.at] \subseteq intents'[j.at]
  PROVE  LockExcludes' /\ JobsOK'
  <1>1. LockExcludes'
    <2>1. ASSUME NEW l \in jobs', NEW h \in jobs', l.at = h.at, l.locks, h.locks PROVE l = h
      BY <2>1 DEF ObjectInv, LockExcludes, LockFree
    <2> QED
      BY <2>1 DEF LockExcludes
  <1>2. ASSUME NEW l \in jobs' PROVE Good(l)'
    <2>1. CASE l \in jobs \ {j}
      <3>1. l.at \in Paths
        BY <2>1 DEF ObjectInv, ObjectTypeOK, JobRecord
      <3>2. CASE l.kind = "flush"
        BY <3>2 DEF Good
      <3>3. CASE l.kind # "flush" /\ l.at = j.at /\ j.locks
        <4>1. ~l.locks
          BY <2>1, <3>3 DEF ObjectInv, LockExcludes
        <4>2. l.kind = "create" \/ l.kind = "alarm"
          BY <2>1, <3>3 DEF ObjectInv, ObjectTypeOK, JobRecord
        <4>3. l.step = "lock"
          BY <2>1, <4>1, <4>2 DEF ObjectInv, JobsOK, CreateOK, AlarmOK
        <4> QED
          BY <2>1, <4>3, GoodStays
      <3>4. CASE intents[l.at] \subseteq intents'[l.at]
        BY <2>1, <3>4, GoodStays
      <3> QED
        BY <3>1, <3>2, <3>3, <3>4
    <2>2. CASE l = k
      BY <2>2
    <2>3. CASE l.kind = "flush"
      BY <2>3 DEF Good
    <2> QED
      BY <2>1, <2>2, <2>3
  <1> QED
    BY <1>1, <1>2 DEF JobsOK, Good

\* Requests, expiry, the alarm and the loss of an object.
LEMMA RequestJobs ==
  ASSUME ObjectInv, [ObjectNext]_objectVars, NEW p \in Paths,
         PutPlain(p) \/ DeletePath(p) \/ Lapse(p) \/ Expire(p) \/ AlarmFires(p) \/ Reset(p) \/ \E s \in Paths : PutFork(p, s)
  PROVE  LockExcludes' /\ JobsOK'
  <1>0. UNCHANGED intents
    BY DEF PutPlain, DeletePath, Lapse, Expire, AlarmFires, Reset, PutFork
  <1> SUFFICES ASSUME NEW k \in jobs', k \notin jobs
               PROVE  ~k.locks /\ (k.kind = "flush" \/ (k.step = "lock" /\ \A e \in k.todo : e.edge = k.id))
    BY <1>0, NewHandlers
  <1>1. CASE PutPlain(p) \/ Lapse(p) \/ Reset(p)
    BY <1>1 DEF PutPlain, Lapse, Reset
  <1>2. CASE DeletePath(p) \/ Expire(p)
    <2>1. PICK id, owed : k \in FlushJob(p, id, owed)
      BY <1>2 DEF DeletePath, Expire, Retire, Purge
    <2> QED
      BY <2>1 DEF FlushJob, Job
  <1>3. CASE AlarmFires(p)
    BY <1>3 DEF AlarmFires, Job
  <1>4. ASSUME NEW s \in Paths, PutFork(p, s) PROVE ~k.locks /\ k.step = "lock" /\ \A e \in k.todo : e.edge = k.id
    <2>1. k = Job("create", p, puts + 1, {Edge(puts + 1, s, 0)}, "lock")
      BY <1>4 DEF PutFork
    <2> QED
      BY <2>1 DEF Job, Edge
  <1> QED
    BY <1>1, <1>2, <1>3, <1>4

\* The steps of handlers.
LEMMA HandlerJobs ==
  ASSUME ObjectInv, [ObjectNext]_objectVars, NEW j \in jobs, Progress(j) \/ CallFails(j)
  PROVE  LockExcludes' /\ JobsOK'
  <1>0. j \in JobRecord /\ j.at \in Paths /\ j.call \in EdgeRecord /\ Good(j)
    BY DEF ObjectInv, ObjectTypeOK, JobRecord, JobsOK, Good
  <1>a. ASSUME NEW k, jobs' = (jobs \ {j}) \cup {k}, k.at = j.at, k.locks => j.locks \/ LockFree(j.at), Good(k)',
               \/ UNCHANGED intents
               \/ j.locks /\ intents' = [intents EXCEPT ![j.at] = @ \ {j.call}]
        PROVE  LockExcludes' /\ JobsOK'
    <2>1. \A p \in Paths : p # j.at => intents[p] \subseteq intents'[p]
      BY <1>a DEF ObjectInv, ObjectTypeOK
    <2> QED
      BY <1>a, <2>1, HandlerGoesOn
  <1>b. ASSUME jobs' = jobs \ {j},
               \/ UNCHANGED intents
               \/ j.locks /\ intents' = [intents EXCEPT ![j.at] = @ \ {j.call}]
        PROVE  LockExcludes' /\ JobsOK'
    <2> DEFINE k == [j EXCEPT !.kind = "flush"]
    <2>1. \A p \in Paths : p # j.at => intents[p] \subseteq intents'[p]
      BY <1>b DEF ObjectInv, ObjectTypeOK
    <2>2. k.at = j.at /\ k.locks = j.locks /\ Good(k)'
      BY <1>0 DEF JobRecord, Good
    <2> HIDE DEF k
    <2> QED
      BY <1>b, <2>1, <2>2, HandlerGoesOn
  <1>1. CASE CreateBegins(j)
    <2>1. PICK i : /\ intents' = [intents EXCEPT ![j.at] = @ \cup {i}]
                   /\ jobs' = (jobs \ {j}) \cup {[j EXCEPT !.locks = TRUE, !.step = "call", !.call = i, !.todo = {}]}
      BY <1>1 DEF CreateBegins, PutForkIntent, Becomes
    <2> DEFINE k == [j EXCEPT !.locks = TRUE, !.step = "call", !.call = i, !.todo = {}]
    <2>2. k.at = j.at /\ k.locks /\ LockFree(j.at) /\ k.kind = "create" /\ k.step = "call" /\ k.call = i
      BY <1>0, <1>1 DEF CreateBegins, JobRecord
    <2>3. jobs' = (jobs \ {j}) \cup {k}
      BY <2>1
    <2> HIDE DEF k
    <2>4. i \in intents'[j.at] /\ \A p \in Paths : intents[p] \subseteq intents'[p]
      BY <1>0, <2>1 DEF ObjectInv, ObjectTypeOK
    <2>5. Good(k)'
      BY <2>2, <2>4 DEF Good, CreateOK
    <2> QED
      BY <1>0, <2>2, <2>3, <2>4, <2>5, HandlerGoesOn
  <1>2. CASE CreateStream(j) \/ CreateRefused(j)
    <2>1. j.locks
      BY <1>0, <1>2 DEF CreateStream, CreateRefused, Good, CreateOK
    <2> QED
      BY <1>2, <1>b, <2>1 DEF CreateStream, CreateRefused, DeleteForkIntent
  <1>3. CASE CreateReleases(j)
    <2>1. PICK owed : jobs' = (jobs \ {j}) \cup {[j EXCEPT !.kind = "flush", !.todo = owed, !.step = "next"]}
      BY <1>3 DEF CreateReleases, Becomes
    <2> DEFINE k == [j EXCEPT !.kind = "flush", !.todo = owed, !.step = "next"]
    <2>2. k.kind = "flush" /\ k.at = j.at /\ k.locks = j.locks
      BY <1>0 DEF JobRecord
    <2>3. Good(k)' /\ j.locks /\ jobs' = (jobs \ {j}) \cup {k}
      BY <1>0, <1>3, <2>1, <2>2 DEF Good, CreateReleases, CreateOK
    <2> HIDE DEF k
    <2> QED
      BY <1>3, <1>a, <2>2, <2>3 DEF CreateReleases, DeleteForkIntent
  <1>4. CASE AlarmBegins(j)
    <2>0. PICK t : t = IF Exists(j.at) THEN {} ELSE intents[j.at]
      OBVIOUS
    <2> DEFINE k == [j EXCEPT !.locks = TRUE, !.step = "next", !.todo = t]
    <2>1. k.at = j.at /\ k.locks /\ LockFree(j.at) /\ k.kind = "alarm" /\ k.step = "next" /\ k.todo = t
      BY <1>0, <1>4 DEF AlarmBegins, JobRecord
    <2>2. jobs' = (jobs \ {j}) \cup {k} /\ UNCHANGED intents
      BY <1>4, <2>0 DEF AlarmBegins, Becomes
    <2>3. t \subseteq intents'[j.at]
      BY <2>0, <2>2
    <2> HIDE DEF k
    <2>4. Good(k)'
      BY <2>1, <2>3 DEF Good, AlarmOK
    <2> QED
      BY <1>a, <2>1, <2>2, <2>4
  <1>5. CASE IntentSettled(j)
    <2> DEFINE k == [j EXCEPT !.step = "next", !.answer = 0]
    <2>1. k.at = j.at /\ k.locks = j.locks /\ k.kind = "alarm" /\ k.step = "next" /\ k.todo = j.todo
      BY <1>0, <1>5 DEF IntentSettled, JobRecord
    <2>2. jobs' = (jobs \ {j}) \cup {k} /\ intents' = [intents EXCEPT ![j.at] = @ \ {j.call}]
      BY <1>5 DEF IntentSettled, Becomes, DeleteForkIntent
    <2> HIDE DEF k
    <2>3. j.locks /\ j.todo \subseteq intents[j.at] /\ j.call \notin j.todo
      BY <1>0, <1>5 DEF IntentSettled, Good, AlarmOK
    <2>4. j.todo \subseteq intents'[j.at]
      BY <1>0, <2>2, <2>3 DEF ObjectInv, ObjectTypeOK
    <2>5. Good(k)'
      BY <2>1, <2>3, <2>4 DEF Good, AlarmOK
    <2> QED
      BY <1>a, <2>1, <2>2, <2>3, <2>5
  <1>6. CASE IntentsDone(j)
    <2>0. PICK t : t = releases[j.at]
      OBVIOUS
    <2> DEFINE k == [j EXCEPT !.kind = "flush", !.todo = t, !.locks = FALSE]
    <2>1. k.kind = "flush" /\ k.at = j.at /\ ~k.locks
      BY <1>0 DEF JobRecord
    <2>2. Good(k)' /\ jobs' = (jobs \ {j}) \cup {k} /\ UNCHANGED intents
      BY <1>6, <2>0, <2>1 DEF Good, IntentsDone, Becomes
    <2> HIDE DEF k
    <2> QED
      BY <1>a, <2>1, <2>2
  <1>7. CASE NextCall(j)
    <2>1. PICK c \in j.todo : jobs' = (jobs \ {j}) \cup {[j EXCEPT !.step = "call", !.call = c, !.todo = @ \ {c}]}
      BY <1>7 DEF NextCall, Becomes
    <2> DEFINE k == [j EXCEPT !.step = "call", !.call = c, !.todo = @ \ {c}]
    <2>2. k.at = j.at /\ k.locks = j.locks /\ k.kind = j.kind /\ k.step = "call" /\ k.call = c /\ k.todo = j.todo \ {c}
      BY <1>0 DEF JobRecord
    <2>3. jobs' = (jobs \ {j}) \cup {k} /\ UNCHANGED intents
      BY <1>7, <2>1 DEF NextCall
    <2> HIDE DEF k
    <2>4. Good(k)'
      BY <1>0, <1>7, <2>1, <2>2, <2>3 DEF Good, NextCall, CreateOK, AlarmOK
    <2> QED
      BY <1>a, <2>2, <2>3, <2>4
  <1>8. CASE FlushDone(j)
    BY <1>8, <1>b DEF FlushDone
  <1>9. CASE Released(j)
    <2> DEFINE k == [j EXCEPT !.step = "next"]
    <2>1. k.kind = "flush" /\ k.at = j.at /\ k.locks = j.locks
      BY <1>0, <1>9 DEF JobRecord, Released
    <2>2. Good(k)' /\ jobs' = (jobs \ {j}) \cup {k} /\ UNCHANGED intents
      BY <1>9, <2>1 DEF Good, Released, Becomes
    <2> HIDE DEF k
    <2> QED
      BY <1>a, <2>1, <2>2
  <1>c. ASSUME NEW g PROVE /\ Answered(j, g).kind = j.kind /\ Answered(j, g).todo = j.todo /\ Answered(j, g).at = j.at
                           /\ Answered(j, g).step = "answer" /\ Answered(j, g).locks = j.locks
                           /\ Answered(j, g).call = j.call /\ Answered(j, g).answer = g
    BY <1>0 DEF Answered, JobRecord
  <1>10. CASE ForkAcquire(j)
    <2>1. PICK g : jobs' = (jobs \ {j}) \cup {Answered(j, g)} /\ (g = 0 \/ Held(j.call.parent, g, j.call.edge)')
      <3> DEFINE s == j.call.parent
                 e == j.call.edge
      <3>0. PICK h : h = meta[s].gen
        OBVIOUS
      <3>1. s \in Paths /\ UNCHANGED meta
        BY <1>0, <1>10 DEF EdgeRecord, ForkAcquire
      <3>2. CASE e \in edges[s] /\ Becomes(j, Answered(j, h)) /\ UNCHANGED edges
        <4>1. Held(s, h, e)'
          BY <3>0, <3>1, <3>2 DEF Held, Exists, ObjectInv, EdgesHaveStream
        <4> QED
          BY <3>2, <4>1 DEF Becomes
      <3>3. CASE Becomes(j, Answered(j, 0))
        BY <3>3 DEF Becomes
      <3>4. CASE Exists(s) /\ edges' = [edges EXCEPT ![s] = @ \cup {e}] /\ Becomes(j, Answered(j, h))
        <4>1. Held(s, h, e)'
          BY <3>0, <3>1, <3>4 DEF Held, Exists, ObjectInv, ObjectTypeOK
        <4> QED
          BY <3>4, <4>1 DEF Becomes
      <3> QED
        BY <1>10, <3>0, <3>2, <3>3, <3>4 DEF ForkAcquire
    <2> DEFINE k == Answered(j, g)
    <2>2. /\ k.kind = j.kind /\ k.todo = j.todo /\ k.at = j.at /\ k.step = "answer" /\ k.locks = j.locks
          /\ k.call = j.call /\ k.answer = g /\ jobs' = (jobs \ {j}) \cup {k}
      BY <1>c, <2>1
    <2> HIDE DEF k
    <2>3. UNCHANGED intents /\ j.step = "call"
      BY <1>10 DEF ForkAcquire
    <2>4. k.kind = "create" => CreateOK(k)'
      BY <1>0, <2>1, <2>2, <2>3 DEF Good, CreateOK
    <2>5. k.kind = "alarm" => AlarmOK(k)'
      BY <1>0, <2>2, <2>3 DEF Good, AlarmOK
    <2>6. Good(k)'
      BY <2>4, <2>5 DEF Good
    <2> QED
      BY <1>a, <2>2, <2>3, <2>6
  <1>11. CASE ForkRelease(j)
    <2> DEFINE k == Answered(j, 0)
               s == j.call.parent
    <2>1. k.at = j.at /\ k.locks = j.locks /\ k.kind = "flush" /\ UNCHANGED intents
      BY <1>c, <1>11 DEF ForkRelease
    <2>2. Good(k)'
      BY <2>1 DEF Good
    <2>3. CASE jobs' = (jobs \ {j}) \cup {k}
      BY <1>a, <2>1, <2>2, <2>3
    <2>4. CASE Purge(s, (jobs \ {j}) \cup {k})
      <3>1. \A l \in jobs' : l \in jobs \ {j} \/ l = k \/ \E id, owed : l \in FlushJob(s, id, owed)
        BY <2>4 DEF Purge
      <3>2. \A l \in jobs' : l \in jobs \ {j} \/ l = k \/ (l.kind = "flush" /\ ~l.locks)
        BY <3>1 DEF FlushJob, Job
      <3> HIDE DEF k
      <3> QED
        BY <2>1, <2>2, <3>2, HandlerGoesOn
    <2> QED
      BY <1>11, <2>3, <2>4 DEF ForkRelease
  <1>12. CASE CallFails(j)
    <2>1. CASE jobs' = jobs \ {j}
      BY <1>12, <1>b, <2>1 DEF CallFails
    <2>2. CASE j.kind # "create" /\ jobs' = (jobs \ {j}) \cup {[j EXCEPT !.step = "next", !.answer = 0]}
      <3> DEFINE k == [j EXCEPT !.step = "next", !.answer = 0]
      <3>1. k.kind = j.kind /\ k.todo = j.todo /\ k.step = "next" /\ k.at = j.at /\ k.locks = j.locks
        BY <1>0 DEF JobRecord
      <3>2. UNCHANGED intents /\ jobs' = (jobs \ {j}) \cup {k} /\ j.step \in {"call", "answer"}
        BY <1>12, <2>2 DEF CallFails
      <3> HIDE DEF k
      <3>3. Good(k)'
        BY <1>0, <2>2, <3>1, <3>2 DEF Good, AlarmOK
      <3> QED
        BY <1>a, <3>1, <3>2, <3>3
    <2> QED
      BY <1>12, <2>1, <2>2 DEF CallFails, Becomes
  <1> QED
    BY <1>1, <1>2, <1>3, <1>4, <1>5, <1>6, <1>7, <1>8, <1>9, <1>10, <1>11, <1>12 DEF Progress

-----------------------------------------------------------------------------
(* The theorems. *)

LEMMA ObjectInvInit == ObjectInit => ObjectInv
  <1> SUFFICES ASSUME ObjectInit PROVE ObjectInv
    OBVIOUS
  <1>1. NoMeta \in MetaRow
    BY DEF NoMeta, Row, MetaRow
  <1>2. ObjectTypeOK
    BY <1>1 DEF ObjectInit, ObjectTypeOK
  <1>3. \A p \in Paths : ~Exists(p) /\ edges[p] = {} /\ intents[p] = {} /\ releases[p] = {}
    BY DEF ObjectInit, Exists
  <1>4. jobs = {}
    BY DEF ObjectInit
  <1> QED
    BY <1>2, <1>3, <1>4 DEF ObjectInv, Apart, WaitingApart, IntentsApart, ForksApart, NotOwed, IsFork, EdgesHaveStream,
                           LockExcludes, JobsOK, ForksKeepSource

LEMMA ObjectInvStep == ObjectInv /\ [ObjectNext]_objectVars => ObjectInv'
  <1> SUFFICES ASSUME ObjectInv, [ObjectNext]_objectVars PROVE ObjectInv'
    OBVIOUS
  <1>1. LockExcludes' /\ JobsOK'
    <2>1. CASE UNCHANGED objectVars
      BY <2>1, NewHandlers DEF objectVars
    <2> QED
      BY <2>1, RequestJobs, HandlerJobs DEF ObjectNext, ObjectProgress
  <1> QED
    BY <1>1, ObjectTypeStep, ApartStep, EdgesStep, ForksStep DEF ObjectInv

\* A fork that exists has its source, on the generation it was acquired from and with its edge recorded there, for
\* every set of paths and whatever calls failed, were repeated or came late (createFork, forkRelease, purgeStream).
THEOREM ForkedSourcesStay == ObjectSpec => []ForksKeepSource
  <1>1. ObjectInv => ForksKeepSource
    BY DEF ObjectInv
  <1> QED
    BY <1>1, ObjectInvInit, ObjectInvStep, PTL DEF ObjectSpec

-----------------------------------------------------------------------------
(***************************************************************************)
(* Sessions that read from one object (StreamObjectReads!SessionInOrder).  *)
(* Invariant: what is acknowledged is in the log; the client stands after  *)
(* the last message it has of the stream that is there; over one SSE       *)
(* connection it has messages of that connection's generation only; at     *)
(* each await the request's own view agrees with the stream as far as it   *)
(* will be used.                                                           *)
(***************************************************************************)

MessageNumber == Int \X Int
StreamRow ==
  [gen : Nat, log : Seq(MessageNumber), closed : BOOLEAN, closedBy : MessageNumber,
   producer : [epoch : Int, lastSeq : Int], acked : SUBSET MessageNumber, aged : SUBSET Nat]
\* what the client has of a message
Item == [gen : Nat, at : Nat, id : MessageNumber, state : {"new", "kept"}]
SessionType ==
  [step : {"idle", "source", "loop", "write", "wait", "over", "gone"}, off : Nat,
   got : Seq(Item), gen : Nat, tail : Nat, shut : BOOLEAN,
   then : {"idle", "loop", "wait"}, told : Nat, since : Nat]

IdsOf(log) == {log[i] : i \in 1 .. Len(log)}

\* what the producer's state says of a number
Passed(p, id) == id[1] < p.epoch \/ (id[1] = p.epoch /\ id[2] <= p.lastSeq)

\* a stream: its messages differ from their neighbours unless the producer's state was lost between them; the
\* state is past the messages stored since it was lost and, while the stream is open, all it counts as stored
\* is in the log; so is what was acknowledged
GoodStream(o, inherited) ==
  /\ Len(o.log) >= inherited
  /\ \A i \in 1 .. Len(o.log) - 1 : o.log[i] # o.log[i + 1] \/ i \in o.aged
  /\ \A t \in o.aged : t <= Len(o.log)
  /\ \A i \in 1 .. Len(o.log) : IF i <= inherited THEN o.log[i] = <<-1, i>>
                                ELSE /\ o.log[i] \in MessageNumbers
                                     /\ (\A t \in o.aged : t < i) => Passed(o.producer, o.log[i])
  /\ ~o.closed => \A id \in MessageNumbers :
                    id[1] = o.producer.epoch /\ id[2] <= o.producer.lastSeq => id \in IdsOf(o.log)
  /\ o.closedBy \in MessageNumbers => o.closedBy \in IdsOf(o.log)
  /\ o.acked \subseteq IdsOf(o.log)

StreamsOK ==
  /\ object \in StreamRow /\ former \in Seq(StreamRow) /\ world \in ReadSetups
  /\ object.gen \in {0, Len(former) + 1}
  /\ object.gen = 0 => Len(former) > 0 /\ Len(object.log) = 0 /\ ~object.closed
  /\ object.gen # 0 => GoodStream(object, Inherited)
  /\ \A g \in 1 .. Len(former) : GoodStream(former[g], Inherited)

\* what the client has, with "past" deleted generations: the last message is where it is, all of the
\* first generation so far is there, and a connection has messages of one generation
HasRead(s, o, past, kind) ==
  /\ Consecutive(s.got) /\ (s.gen \in 0 .. past \/ s.gen = o.gen)
  /\ \A i \in 1 .. Len(s.got) : s.got[i].gen \in 1 .. past \/ (s.got[i].gen = o.gen /\ o.gen # 0)
  /\ Len(s.got) > 0 /\ s.got[Len(s.got)].gen = o.gen =>
       /\ s.off = s.got[Len(s.got)].at /\ s.off \in 1 .. Len(o.log)
       /\ s.got[Len(s.got)].id = o.log[s.off]
  /\ o.gen = 1 => /\ s.off = Len(s.got) /\ s.off <= Len(o.log)
                  /\ \A i \in 1 .. s.off : s.got[i].id = o.log[i]
  /\ kind = "sse" => \A i \in s.since + 1 .. Len(s.got) : s.got[i].gen = s.gen

\* what holds at the awaits of a request
StepFits(s, o, kind, inherited) ==
  /\ kind = "poll" => s.step \notin {"loop", "write"}
  /\ s.step \in {"loop", "source", "write", "wait"} => s.gen # 0
  /\ s.step = "source" => s.off < inherited /\ (kind = "poll" => inherited <= s.tail)
  /\ s.step = "write" => s.then # "idle" /\ (o.gen = s.gen => s.off <= Len(o.log))
  /\ s.step = "wait" => /\ o.gen = s.gen /\ ~o.closed /\ s.off = Len(o.log)
                        /\ kind = "poll" => ~s.shut

\* who was told that a stream is closed is at its end
ToldRight(s, o, old) ==
  s.told # 0 =>
    /\ s.step = "over" /\ (s.told = o.gen \/ s.told \in 1 .. Len(old))
    /\ LET t == IF s.told = o.gen THEN o ELSE old[s.told]
       IN /\ t.closed /\ s.off = Len(t.log)
          /\ s.told = 1 => \A id \in IdsOf(t.log) : \E i \in 1 .. Len(s.got) : s.got[i].id = id

SessionAt(s, o, old, kind, inherited) ==
  /\ s \in SessionType /\ HasRead(s, o, Len(old), kind)
  /\ StepFits(s, o, kind, inherited) /\ ToldRight(s, o, old)

SessionFits == SessionAt(session, object, former, world.kind, Inherited)

ReadsInv == StreamsOK /\ (~omitted => SessionFits)

-----------------------------------------------------------------------------
(* How far a read gets *)

LEMMA FittingFacts ==
  ASSUME NEW from \in Nat, NEW upto \in Nat, NEW bytes
  PROVE  /\ LastFitting(from, upto, bytes) \in Nat /\ from <= LastFitting(from, upto, bytes)
         /\ from <= upto => LastFitting(from, upto, bytes) <= upto
         /\ from >= upto => LastFitting(from, upto, bytes) = from
<1>1. PICK S : S = from + 1 .. upto
  OBVIOUS
<1>2. PICK T : T = {m \in from + 1 .. upto : Fits(from, m, bytes)}
  OBVIOUS
<1>3. T \in SUBSET S
  BY <1>1, <1>2
<1>4. from + 1 \in Int /\ upto \in Int
  OBVIOUS
<1>5. IsFiniteSet(S) /\ Cardinality(S) = IF from + 1 > upto THEN 0 ELSE upto - (from + 1) + 1
  BY <1>1, <1>4, FS_Interval
<1>6. IsFiniteSet(T) /\ Cardinality(T) <= Cardinality(S)
  BY <1>3, <1>5, FS_Subset
<1>7. PICK n \in Nat : n = Cardinality(T)
  BY <1>6, FS_CardinalityType
<1>8. LastFitting(from, upto, bytes) = from + n
  BY <1>2, <1>7 DEF LastFitting
<1>9. CASE from + 1 > upto
  <2>1. n <= 0
    BY <1>5, <1>6, <1>7, <1>9
  <2> QED BY <1>8, <1>9, <2>1
<1>10. CASE ~(from + 1 > upto)
  <2>1. n <= upto - (from + 1) + 1
    BY <1>5, <1>6, <1>7, <1>10
  <2> QED BY <1>8, <1>10, <2>1
<1> QED BY <1>9, <1>10

\* A read from "off" gets further when there is something, and not beyond the tail.
GetsTo(r, off, tail) ==
  /\ r.to \in Nat /\ r.capped \in BOOLEAN
  /\ off < tail => off < r.to /\ r.to <= tail
  /\ off >= tail => r.to = off

LEMMA StitchFacts ==
  ASSUME Inherited \in Nat, NEW off \in Nat, NEW tail \in Nat, Inherited <= tail
  PROVE  GetsTo(ReadStitched(off, tail), off, tail)
<1>1. PICK i \in Nat : i = Inherited
  OBVIOUS
<1>2. PICK r : r = ReadStitched(off, tail)
  OBVIOUS
<1>3. CASE off < i
  <2>1. PICK l : l = LastFitting(off, i, world.budget)
    OBVIOUS
  <2>2. l \in Nat /\ off <= l /\ l <= i
    BY <1>3, <2>1, FittingFacts
  <2>3. PICK a \in Nat : a = IF l = off THEN off + 1 ELSE l
    BY <2>2
  <2>4. off < a /\ a <= i
    BY <1>3, <2>2, <2>3
  <2>5. ReadMessagesRange(off, i, world.budget, TRUE) = a
    BY <1>3, <2>1, <2>3 DEF ReadMessagesRange
  <2>6. PICK left : left = world.budget - (SizeTo(a) - SizeTo(off))
    OBVIOUS
  <2>7. PICK b : b = LastFitting(i, tail, left)
    OBVIOUS
  <2>8. b \in Nat /\ i <= b /\ b <= tail
    BY <1>1, <2>7, FittingFacts
  <2>9. ReadMessagesRange(i, tail, left, off >= i) = b
    <3>1. ~(off >= i)
      BY <1>3
    <3> QED BY <2>7, <3>1 DEF ReadMessagesRange
  <2>10. r = IF a < i \/ left <= 0 THEN [to |-> a, capped |-> TRUE] ELSE [to |-> b, capped |-> b < tail]
    BY <1>1, <1>2, <1>3, <2>5, <2>6, <2>9 DEF ReadStitched
  <2>11. (r.to = a \/ r.to = b) /\ r.capped \in BOOLEAN
    <3>1. CASE a < i \/ left <= 0
      BY <2>10, <3>1
    <3>2. CASE ~(a < i \/ left <= 0)
      BY <2>10, <3>2
    <3> QED BY <3>1, <3>2
  <2>12. off < tail /\ off < a /\ a <= tail /\ off < b
    BY <1>1, <1>3, <2>4, <2>8
  <2> QED BY <1>2, <2>8, <2>11, <2>12 DEF GetsTo
<1>4. CASE ~(off < i)
  <2>1. PICK l : l = LastFitting(off, tail, world.budget)
    OBVIOUS
  <2>2. l \in Nat /\ off <= l /\ (off <= tail => l <= tail) /\ (off >= tail => l = off)
    BY <2>1, FittingFacts
  <2>3. PICK b \in Nat : b = IF l = off /\ off < tail THEN off + 1 ELSE l
    BY <2>2
  <2>4. off >= i
    BY <1>4
  <2>5. ReadMessagesRange(off, tail, world.budget, off >= i) = b
    BY <2>1, <2>3, <2>4 DEF ReadMessagesRange
  <2>6. r = [to |-> b, capped |-> b < tail]
    BY <1>1, <1>2, <1>4, <2>5 DEF ReadStitched
  <2>7. r.to = b /\ r.capped \in BOOLEAN
    BY <2>6
  <2>8. (off < tail => off < b /\ b <= tail) /\ (off >= tail => b = off)
    BY <2>2, <2>3
  <2> QED BY <1>2, <2>7, <2>8 DEF GetsTo
<1> QED BY <1>3, <1>4

-----------------------------------------------------------------------------
(* Streams *)

\* A producer sends natural numbers, and no message under the number of a request to close.
LEMMA NumberFacts ==
  /\ \A x \in MessageNumbers \cup CloseNumbers :
       x \in MessageNumber /\ x[1] \in Nat /\ x[2] \in Nat /\ x = <<x[1], x[2]>>
  /\ \A x \in CloseNumbers : x \notin MessageNumbers
  BY ReadsAssumption DEF MessageNumber

LEMMA NewbornGood ==
  ASSUME Inherited \in Nat, NEW gen \in Nat, NEW o, o = Newborn(gen)
  PROVE  o \in StreamRow /\ o.gen = gen /\ GoodStream(o, Inherited)
<1>1. PICK i \in Nat : i = Inherited
  OBVIOUS
<1>2. PICK log : log = [k \in 1 .. i |-> <<-1, k>>]
  OBVIOUS
<1>3. log \in [1 .. i -> MessageNumber]
  BY <1>2 DEF MessageNumber
<1>4. log \in Seq(MessageNumber) /\ Len(log) = i
  BY <1>3
<1>5. \A k \in 1 .. i : log[k] = <<-1, k>>
  BY <1>2
<1>6. PICK m \in MessageNumber : m = <<-1, -1>>
  <2>1. <<-1, -1>> \in MessageNumber
    BY DEF MessageNumber
  <2> QED BY <2>1
<1>7. PICK p \in [epoch : Int, lastSeq : Int] : p = NoProducer
  <2>1. NoProducer \in [epoch : Int, lastSeq : Int]
    BY DEF NoProducer
  <2> QED BY <2>1
<1>8. PICK none \in SUBSET MessageNumber : none = {}
  OBVIOUS
<1>a. PICK never \in SUBSET Nat : never = {}
  OBVIOUS
<1>9. o = [gen |-> gen, log |-> log, closed |-> FALSE, closedBy |-> m, producer |-> p, acked |-> none,
           aged |-> never]
  BY <1>1, <1>2, <1>6, <1>7, <1>8, <1>a DEF Newborn
<1>10. /\ o \in StreamRow /\ o.gen = gen /\ o.log = log /\ ~o.closed /\ o.closedBy = m
       /\ o.producer = p /\ o.acked = none /\ o.aged = never
  BY <1>4, <1>9 DEF StreamRow
<1>11. \A k \in 1 .. i - 1 : log[k] # log[k + 1]
  <2>1. SUFFICES ASSUME NEW k \in 1 .. i - 1
                 PROVE  log[k] # log[k + 1]
    OBVIOUS
  <2>2. k \in 1 .. i /\ k + 1 \in 1 .. i
    OBVIOUS
  <2>3. log[k][2] = k /\ log[k + 1][2] = k + 1
    BY <1>5, <2>2
  <2> QED BY <2>3
<1>12. \A id \in MessageNumbers : id[1] # p.epoch
  <2>1. p.epoch = -1
    BY <1>7 DEF NoProducer
  <2> QED BY <2>1, NumberFacts
<1>13. m \notin MessageNumbers
  <2>1. m[1] = -1
    BY <1>6
  <2> QED BY <2>1, NumberFacts
<1> QED BY <1>1, <1>4, <1>5, <1>8, <1>a, <1>10, <1>11, <1>12, <1>13 DEF GoodStream

LEMMA NoObjectFacts ==
  ASSUME Inherited \in Nat
  PROVE  NoObject \in StreamRow /\ NoObject.gen = 0 /\ Len(NoObject.log) = 0 /\ ~NoObject.closed
<1>1. PICK o : o = Newborn(0)
  OBVIOUS
<1>2. o \in StreamRow /\ o.gen = 0
  BY <1>1, NewbornGood
<1>3. ~o.closed
  BY <1>1 DEF Newborn
<1>4. PICK e \in Seq(MessageNumber) : e = <<>> /\ Len(e) = 0
  <2>1. <<>> \in Seq(MessageNumber) /\ Len(<<>>) = 0
    OBVIOUS
  <2> QED BY <2>1
<1>5. NoObject = [o EXCEPT !.log = e]
  BY <1>1, <1>4 DEF NoObject
<1>6. [o EXCEPT !.log = e] \in StreamRow
  BY <1>2 DEF StreamRow
<1>7. [o EXCEPT !.log = e].gen = 0 /\ [o EXCEPT !.log = e].log = e /\ ~[o EXCEPT !.log = e].closed
  BY <1>2, <1>3 DEF StreamRow
<1> QED BY <1>4, <1>5, <1>6, <1>7

\* What validateProducer says.
LEMMA AcceptedFacts ==
  ASSUME NEW p \in [epoch : Int, lastSeq : Int], NEW e \in Int, NEW n \in Int,
         <<e, n>> \in MessageNumbers \cup CloseNumbers,
         ValidateObjectProducer(p, e, n) = "accepted",
         NEW q, q = [epoch |-> e, lastSeq |-> n]
  PROVE  /\ ~Passed(p, <<e, n>>) /\ Passed(q, <<e, n>>)
         /\ \A x \in MessageNumbers : Passed(p, x) => Passed(q, x)
         /\ \A x \in MessageNumbers :
              x[1] = e /\ x[2] <= n => x = <<e, n>> \/ (x[1] = p.epoch /\ x[2] <= p.lastSeq)
<1>1. p.epoch \in Int /\ p.lastSeq \in Int /\ q.epoch = e /\ q.lastSeq = n
  OBVIOUS
<1>2. \A x \in MessageNumbers : x[1] \in Nat /\ x[2] \in Nat /\ x = <<x[1], x[2]>>
  BY NumberFacts
<1>3. e \in Nat
  <2>1. <<e, n>>[1] \in Nat
    BY NumberFacts
  <2> QED BY <2>1
<1>4. CASE p = NoProducer
  <2>1. n = 0 /\ p.epoch = -1 /\ p.lastSeq = -1
    BY <1>4 DEF ValidateObjectProducer, NoProducer
  <2> QED BY <1>1, <1>2, <1>3, <2>1 DEF Passed
<1>5. CASE p # NoProducer
  <2>1. (e > p.epoch /\ n = 0) \/ (e = p.epoch /\ n = p.lastSeq + 1)
    <3>1. CASE e < p.epoch
      BY <1>1, <1>5, <3>1 DEF ValidateObjectProducer
    <3>2. CASE e > p.epoch
      BY <1>1, <1>5, <3>2 DEF ValidateObjectProducer
    <3>3. CASE e = p.epoch
      BY <1>1, <1>5, <3>3 DEF ValidateObjectProducer
    <3> QED BY <1>1, <3>1, <3>2, <3>3
  <2>2. CASE e > p.epoch /\ n = 0
    BY <1>1, <1>2, <2>2 DEF Passed
  <2>3. CASE e = p.epoch /\ n = p.lastSeq + 1
    BY <1>1, <1>2, <2>3 DEF Passed
  <2> QED BY <2>1, <2>2, <2>3
<1> QED BY <1>4, <1>5

LEMMA DuplicateFacts ==
  ASSUME NEW p \in [epoch : Int, lastSeq : Int], NEW e \in Int, NEW n \in Int,
         ValidateObjectProducer(p, e, n) = "duplicate"
  PROVE  e = p.epoch /\ n <= p.lastSeq
<1>1. p.epoch \in Int /\ p.lastSeq \in Int
  OBVIOUS
<1>2. p # NoProducer
  BY DEF ValidateObjectProducer
<1>3. CASE e < p.epoch
  BY <1>1, <1>2, <1>3 DEF ValidateObjectProducer
<1>4. CASE e > p.epoch
  BY <1>1, <1>2, <1>4 DEF ValidateObjectProducer
<1>5. CASE e = p.epoch
  BY <1>1, <1>2, <1>5 DEF ValidateObjectProducer
<1> QED BY <1>1, <1>3, <1>4, <1>5

\* What a request may do to the stream it finds.
Evolves(o, o2) ==
  /\ o2.gen = o.gen /\ Len(o.log) <= Len(o2.log)
  /\ \A i \in 1 .. Len(o.log) : o2.log[i] = o.log[i]
  /\ o.closed => o2.closed /\ Len(o2.log) = Len(o.log)

LEMMA PostedGood ==
  ASSUME NEW inherited \in Nat, NEW o \in StreamRow, GoodStream(o, inherited), ~o.closed,
         NEW e \in Int, NEW n \in Int, <<e, n>> \in MessageNumbers,
         ValidateObjectProducer(o.producer, e, n) = "accepted",
         NEW o2 \in StreamRow, o2.gen = o.gen, o2.log = Append(o.log, <<e, n>>),
         o2.producer = [epoch |-> e, lastSeq |-> n],
         o2.closedBy = o.closedBy \/ o2.closedBy = <<e, n>>,
         o2.acked = o.acked \cup {<<e, n>>}, o2.aged = o.aged
  PROVE  GoodStream(o2, inherited) /\ Evolves(o, o2) /\ Len(o2.log) = Len(o.log) + 1
<1>1. PICK L \in Seq(MessageNumber) : L = o.log
  BY DEF StreamRow
<1>2. PICK id \in MessageNumber : id = <<e, n>>
  BY DEF MessageNumber
<1>3. PICK l \in Nat : l = Len(L)
  OBVIOUS
<1>4. PICK M \in Seq(MessageNumber) : M = o2.log
  BY DEF StreamRow
<1>5. M = Append(L, id)
  BY <1>1, <1>2, <1>4
<1>6. Len(M) = l + 1 /\ M[l + 1] = id /\ \A i \in 1 .. l : M[i] = L[i]
  BY <1>3, <1>5
<1>7. l >= inherited
  BY <1>1, <1>3 DEF GoodStream
<1>8. PICK p \in [epoch : Int, lastSeq : Int] : p = o.producer
  BY DEF StreamRow
<1>9. PICK q : q = o2.producer
  OBVIOUS
<1>10. /\ ~Passed(p, id) /\ Passed(q, id) /\ \A x \in MessageNumbers : Passed(p, x) => Passed(q, x)
       /\ \A x \in MessageNumbers :
            x[1] = e /\ x[2] <= n => x = id \/ (x[1] = p.epoch /\ x[2] <= p.lastSeq)
  BY <1>2, <1>8, <1>9, AcceptedFacts
<1>a. PICK A \in SUBSET Nat : A = o.aged
  BY DEF StreamRow
<1>b. \A t \in A : t \in Nat /\ t <= l
  BY <1>1, <1>3, <1>a DEF GoodStream
<1>11. \A i \in 1 .. l : IF i <= inherited THEN L[i] = <<-1, i>>
                         ELSE /\ L[i] \in MessageNumbers
                              /\ (\A t \in A : t < i) => Passed(p, L[i])
  BY <1>1, <1>3, <1>8, <1>a DEF GoodStream
<1>12. id \in MessageNumbers /\ \A i \in Int : id # <<-1, i>>
  <2>1. id \in MessageNumbers /\ id[1] = e
    BY <1>2
  <2>2. e \in Nat
    BY <2>1, NumberFacts
  <2> QED BY <2>1, <2>2
<1>13. \A i \in 1 .. l : (\A t \in A : t < i) => L[i] # id
  <2>1. SUFFICES ASSUME NEW i \in 1 .. l, \A t \in A : t < i
                 PROVE  L[i] # id
    OBVIOUS
  <2>2. CASE i <= inherited
    <3>1. L[i] = <<-1, i>> /\ i \in Int
      BY <1>11, <2>2
    <3> QED BY <1>12, <3>1
  <2>3. CASE ~(i <= inherited)
    <3>1. Passed(p, L[i])
      BY <1>11, <2>1, <2>3
    <3> QED BY <1>10, <3>1
  <2> QED BY <2>2, <2>3
<1>14. \A i \in 1 .. Len(M) - 1 : M[i] # M[i + 1] \/ i \in A
  <2>1. SUFFICES ASSUME NEW i \in 1 .. l, i \notin A
                 PROVE  M[i] # M[i + 1]
    BY <1>6
  <2>2. CASE i = l
    <3>1. ASSUME NEW t \in A PROVE t < i
      <4>1. t \in Nat /\ t <= l /\ t # i
        BY <1>b, <2>1, <3>1
      <4> QED BY <2>2, <4>1
    <3>2. L[i] # id
      BY <1>13, <3>1
    <3> QED BY <1>6, <2>2, <3>2
  <2>3. CASE i # l
    <3>1. i + 1 \in 1 .. l /\ i \in 1 .. l - 1
      BY <2>3
    <3>2. M[i] = L[i] /\ M[i + 1] = L[i + 1]
      BY <1>6, <3>1
    <3>3. L[i] # L[i + 1]
      BY <1>1, <1>3, <1>a, <2>1, <3>1 DEF GoodStream
    <3> QED BY <3>2, <3>3
  <2> QED BY <2>2, <2>3
<1>15. \A i \in 1 .. Len(M) : IF i <= inherited THEN M[i] = <<-1, i>>
                              ELSE /\ M[i] \in MessageNumbers
                                   /\ (\A t \in A : t < i) => Passed(q, M[i])
  <2>1. SUFFICES ASSUME NEW i \in 1 .. l + 1
                 PROVE  IF i <= inherited THEN M[i] = <<-1, i>>
                        ELSE /\ M[i] \in MessageNumbers
                             /\ (\A t \in A : t < i) => Passed(q, M[i])
    BY <1>6
  <2>2. CASE i = l + 1
    <3>1. ~(i <= inherited)
      BY <1>7, <2>2
    <3> QED BY <1>6, <1>10, <1>12, <2>2, <3>1
  <2>3. CASE i # l + 1
    <3>1. i \in 1 .. l /\ M[i] = L[i]
      BY <1>6, <2>3
    <3> QED BY <1>10, <1>11, <3>1
  <2> QED BY <2>2, <2>3
<1>16. IdsOf(L) \cup {id} \subseteq IdsOf(M)
  <2>1. id \in IdsOf(M)
    BY <1>6 DEF IdsOf
  <2>2. ASSUME NEW x \in IdsOf(L)
        PROVE  x \in IdsOf(M)
    <3>1. PICK i \in 1 .. l : x = L[i]
      BY <1>3 DEF IdsOf
    <3>2. x = M[i] /\ i \in 1 .. Len(M)
      BY <1>6, <3>1
    <3> QED BY <3>2 DEF IdsOf
  <2> QED BY <2>1, <2>2
<1>17. \A x \in MessageNumbers : x[1] = q.epoch /\ x[2] <= q.lastSeq => x \in IdsOf(M)
  <2>1. SUFFICES ASSUME NEW x \in MessageNumbers, x[1] = e, x[2] <= n
                 PROVE  x \in IdsOf(M)
    BY <1>9
  <2>2. x = id \/ (x[1] = p.epoch /\ x[2] <= p.lastSeq)
    BY <1>10, <2>1
  <2>3. x[1] = p.epoch /\ x[2] <= p.lastSeq => x \in IdsOf(L)
    BY <1>1, <1>8 DEF GoodStream
  <2> QED BY <1>16, <2>2, <2>3
<1>18. o2.closedBy \in MessageNumbers => o2.closedBy \in IdsOf(M)
  BY <1>1, <1>2, <1>16 DEF GoodStream
<1>19. o2.acked \subseteq IdsOf(M)
  BY <1>1, <1>2, <1>16 DEF GoodStream
<1>20. Len(M) >= inherited /\ \A t \in A : t <= Len(M)
  BY <1>6, <1>7, <1>b
<1>21. GoodStream(o2, inherited)
  BY <1>4, <1>a, <1>9, <1>14, <1>15, <1>17, <1>18, <1>19, <1>20 DEF GoodStream
<1>22. Evolves(o, o2)
  BY <1>1, <1>3, <1>4, <1>6 DEF Evolves
<1> QED BY <1>1, <1>3, <1>4, <1>6, <1>21, <1>22

\* Requests that store no message.
LEMMA ClosedGood ==
  ASSUME NEW inherited \in Nat, NEW o \in StreamRow, GoodStream(o, inherited),
         NEW o2 \in StreamRow, o2.gen = o.gen, o2.log = o.log, o.closed => o2.closed,
         \A x \in MessageNumbers : Passed(o.producer, x) => Passed(o2.producer, x),
         o2.closed \/ o2.producer = o.producer,
         o2.closedBy = o.closedBy \/ o2.closedBy \notin MessageNumbers,
         o2.acked \subseteq IdsOf(o.log), o2.aged = o.aged
  PROVE  GoodStream(o2, inherited) /\ Evolves(o, o2)
<1>1. /\ Len(o2.log) >= inherited /\ \A t \in o2.aged : t <= Len(o2.log)
      /\ \A i \in 1 .. Len(o2.log) - 1 : o2.log[i] # o2.log[i + 1] \/ i \in o2.aged
  BY DEF GoodStream
<1>2. \A i \in 1 .. Len(o2.log) : IF i <= inherited THEN o2.log[i] = <<-1, i>>
                                  ELSE /\ o2.log[i] \in MessageNumbers
                                       /\ (\A t \in o2.aged : t < i) => Passed(o2.producer, o2.log[i])
  BY DEF GoodStream
<1>3. ~o2.closed => \A id \in MessageNumbers :
        id[1] = o2.producer.epoch /\ id[2] <= o2.producer.lastSeq => id \in IdsOf(o2.log)
  BY DEF GoodStream
<1>4. o2.closedBy \in MessageNumbers => o2.closedBy \in IdsOf(o2.log)
  BY DEF GoodStream
<1>5. GoodStream(o2, inherited)
  BY <1>1, <1>2, <1>3, <1>4 DEF GoodStream
<1>6. PICK l \in Nat : l = Len(o.log)
  BY DEF StreamRow
<1>7. Evolves(o, o2)
  BY <1>6 DEF Evolves
<1> QED BY <1>5, <1>7

-----------------------------------------------------------------------------
(* What the client is given *)

LEMMA JoinFacts ==
  ASSUME NEW E, NEW a \in Seq(E), NEW b \in Seq(E), NEW h, h = a \o b,
         NEW n, n = Len(a), NEW k, k = Len(b)
  PROVE  /\ h \in Seq(E) /\ Len(h) = n + k
         /\ \A i \in 1 .. n : h[i] = a[i]
         /\ \A i \in 1 .. k : h[n + i] = b[i]
  OBVIOUS

LEMMA ReceivedReads ==
  ASSUME NEW s \in SessionType, NEW o \in StreamRow, o.gen # 0, NEW inherited \in Nat,
         GoodStream(o, inherited), NEW past \in Nat, NEW kind, HasRead(s, o, past, kind),
         NEW to \in Nat, s.off < to, to <= Len(o.log), kind = "sse" => s.gen = o.gen,
         NEW t, t = Received(s, o, to)
  PROVE  /\ t \in SessionType /\ HasRead(t, o, past, kind) /\ t.off = to /\ t.gen = s.gen
         /\ t.step = s.step /\ t.tail = s.tail /\ t.shut = s.shut
<1>1. PICK got \in Seq(Item) : got = s.got
  BY DEF SessionType
<1>2. PICK n \in Nat : n = Len(got)
  OBVIOUS
<1>3. PICK f \in Nat : f = s.off
  BY DEF SessionType
<1>4. PICK L \in Seq(MessageNumber) : L = o.log
  BY DEF StreamRow
<1>5. PICK l \in Nat : l = Len(L)
  OBVIOUS
<1>6. PICK g \in Nat : g = o.gen
  BY DEF StreamRow
<1>7. PICK k \in Nat : k = to - f /\ k > 0 /\ f + k = to /\ f + k <= l
  <2>1. f < to /\ to <= l
    BY <1>3, <1>4, <1>5
  <2>2. to - f \in Nat /\ to - f > 0 /\ f + (to - f) = to
    BY <2>1
  <2> QED BY <2>1, <2>2
<1>a. PICK A \in SUBSET Nat : A = o.aged
  BY DEF StreamRow
<1>8. PICK m : m = [i \in 1 .. k |-> [gen |-> g, at |-> f + i, id |-> L[f + i],
                                    state |-> IF f + i - 1 \in A THEN "new" ELSE "kept"]]
  OBVIOUS
<1>9. \A i \in 1 .. k : f + i \in Nat /\ L[f + i] \in MessageNumber
  <2>1. ASSUME NEW i \in 1 .. k
        PROVE  f + i \in Nat /\ L[f + i] \in MessageNumber
    <3>1. f + i \in 1 .. Len(L) /\ f + i \in Nat
      BY <1>5, <1>7
    <3> QED BY <3>1
  <2> QED BY <2>1
<1>10. PICK E : E = Item
  OBVIOUS
<1>11. m \in Seq(E) /\ Len(m) = k
  <2>1. ASSUME NEW i \in 1 .. k
        PROVE  [gen |-> g, at |-> f + i, id |-> L[f + i],
                state |-> IF f + i - 1 \in A THEN "new" ELSE "kept"] \in E
    <3>1. PICK b \in {"new", "kept"} : b = IF f + i - 1 \in A THEN "new" ELSE "kept"
      OBVIOUS
    <3>2. [gen |-> g, at |-> f + i, id |-> L[f + i], state |-> b] \in Item
      BY <1>9, <2>1 DEF Item
    <3> QED BY <1>10, <3>1, <3>2
  <2>2. m \in [1 .. k -> E]
    BY <1>8, <2>1
  <2> QED BY <2>2
<1>12. \A i \in 1 .. k : /\ m[i].gen = g /\ m[i].at = f + i /\ m[i].id = L[f + i]
                         /\ f + i - 1 \in A => m[i].state = "new"
  BY <1>8
<1>13. PICK h : h = got \o m
  OBVIOUS
<1>14. /\ h \in Seq(Item) /\ Len(h) = n + k
       /\ \A i \in 1 .. n : h[i] = got[i]
       /\ \A i \in 1 .. k : h[n + i] = m[i]
  <2>1. got \in Seq(E)
    BY <1>10
  <2>2. m \in Seq(E) /\ k = Len(m)
    BY <1>11
  <2>3. h \in Seq(E)
    BY <1>2, <1>13, <2>1, <2>2, JoinFacts
  <2>4. Len(h) = n + k /\ \A i \in 1 .. n : h[i] = got[i]
    BY <1>2, <1>13, <2>1, <2>2, JoinFacts
  <2>5. \A i \in 1 .. k : h[n + i] = m[i]
    BY <1>2, <1>13, <2>1, <2>2, JoinFacts
  <2> QED BY <1>10, <2>3, <2>4, <2>5
<1>15. \A i \in 1 .. k : /\ h[n + i].gen = g /\ h[n + i].at = f + i /\ h[n + i].id = L[f + i]
                         /\ f + i - 1 \in A => h[n + i].state = "new"
  BY <1>12, <1>14
<1>16. t = [s EXCEPT !.got = h, !.off = to]
  BY <1>1, <1>3, <1>4, <1>6, <1>7, <1>8, <1>a, <1>13 DEF Received
<1>17. /\ t \in SessionType /\ t.got = h /\ t.off = to /\ t.gen = s.gen /\ t.step = s.step
       /\ t.tail = s.tail /\ t.shut = s.shut /\ t.since = s.since
  BY <1>14, <1>16 DEF SessionType
<1>18. n > 0 /\ got[n].gen = g => f = got[n].at /\ f \in 1 .. l /\ got[n].id = L[f]
  BY <1>1, <1>2, <1>3, <1>4, <1>5, <1>6 DEF HasRead
<1>19. Consecutive(h)
  <2>1. SUFFICES ASSUME NEW i \in 1 .. n + k - 1, h[i].gen = h[i + 1].gen
                 PROVE  Adjoins(h[i], h[i + 1])
    BY <1>14 DEF Consecutive
  <2>2. \A j \in 1 .. l - 1 : L[j] # L[j + 1] \/ j \in A
    BY <1>4, <1>5, <1>a DEF GoodStream
  <2>3. CASE i < n
    <3>1. i \in 1 .. n - 1 /\ h[i] = got[i] /\ h[i + 1] = got[i + 1]
      <4>1. i \in 1 .. n - 1 /\ i \in 1 .. n /\ i + 1 \in 1 .. n
        BY <2>3
      <4> QED BY <1>14, <4>1
    <3>2. Consecutive(got)
      BY <1>1 DEF HasRead
    <3> QED BY <1>2, <2>1, <3>1, <3>2 DEF Consecutive
  <2>4. CASE i = n
    <3>1. n > 0 /\ n \in 1 .. n /\ 1 \in 1 .. k
      BY <1>7, <2>1, <2>4
    <3>2. /\ h[i] = got[n] /\ h[i + 1].gen = g /\ h[i + 1].at = f + 1 /\ h[i + 1].id = L[f + 1]
          /\ f + 1 - 1 \in A => h[i + 1].state = "new"
      BY <1>14, <1>15, <2>4, <3>1
    <3>a. f \in A => h[i + 1].state = "new"
      BY <3>2
    <3>3. f = got[n].at /\ f \in 1 .. l /\ got[n].id = L[f]
      BY <1>18, <2>1, <3>1, <3>2
    <3>4. f \in 1 .. l - 1
      <4>1. f \in 1 .. l
        BY <3>3
      <4>2. f + k <= l /\ k >= 1
        BY <1>7
      <4> QED BY <4>1, <4>2
    <3> QED BY <2>2, <3>2, <3>a, <3>3, <3>4 DEF Adjoins
  <2>5. CASE i > n
    <3>1. PICK j \in 1 .. k : i = n + j /\ j + 1 \in 1 .. k
      <4>1. i - n \in 1 .. k /\ i = n + (i - n) /\ (i - n) + 1 \in 1 .. k
        BY <2>1, <2>5
      <4> QED BY <4>1
    <3>2. i + 1 = n + (j + 1)
      BY <3>1
    <3>3. h[i].at = f + j /\ h[i].id = L[f + j]
      BY <1>15, <3>1
    <3>4. /\ h[i + 1].at = f + (j + 1) /\ h[i + 1].id = L[f + (j + 1)]
          /\ f + (j + 1) - 1 \in A => h[i + 1].state = "new"
      BY <1>15, <3>1, <3>2
    <3>5. f + j \in 1 .. l - 1 /\ f + (j + 1) = (f + j) + 1 /\ f + (j + 1) - 1 = f + j
      BY <1>7, <3>1
    <3>6. L[f + j] # L[(f + j) + 1] \/ f + j \in A
      BY <2>2, <3>5
    <3> QED BY <3>3, <3>4, <3>5, <3>6 DEF Adjoins
  <2> QED BY <2>3, <2>4, <2>5
<1>20. \A i \in 1 .. n + k : h[i].gen \in 1 .. past \/ h[i].gen = g
  <2>1. SUFFICES ASSUME NEW i \in 1 .. n + k
                 PROVE  h[i].gen \in 1 .. past \/ h[i].gen = g
    OBVIOUS
  <2>2. CASE i <= n
    <3>1. i \in 1 .. n
      BY <2>2
    <3>2. h[i] = got[i]
      BY <1>14, <3>1
    <3> QED BY <1>1, <1>2, <1>6, <3>1, <3>2 DEF HasRead
  <2>3. CASE i > n
    <3>1. i - n \in 1 .. k /\ i = n + (i - n)
      BY <2>3
    <3> QED BY <1>15, <3>1
  <2> QED BY <2>2, <2>3
<1>21. h[n + k].at = to /\ h[n + k].id = L[to] /\ to \in 1 .. l
  <2>1. k \in 1 .. k /\ to = f + k /\ to <= l /\ to >= 1
    BY <1>7
  <2>2. h[n + k].at = f + k /\ h[n + k].id = L[f + k]
    BY <1>15, <2>1
  <2> QED BY <2>1, <2>2
<1>22. ASSUME g = 1
       PROVE  to = n + k /\ \A i \in 1 .. to : h[i].id = L[i]
  <2>1. f = n /\ \A i \in 1 .. f : got[i].id = L[i]
    BY <1>1, <1>2, <1>3, <1>4, <1>6, <1>22 DEF HasRead
  <2>2. ASSUME NEW i \in 1 .. to
        PROVE  h[i].id = L[i]
    <3>1. CASE i <= n
      <4>1. i \in 1 .. n
        BY <3>1
      <4> QED BY <1>14, <2>1, <4>1
    <3>2. CASE i > n
      <4>1. i - n \in 1 .. k /\ i = n + (i - n)
        BY <1>7, <2>1, <3>2
      <4> QED BY <1>15, <2>1, <4>1
    <3> QED BY <3>1, <3>2
  <2> QED BY <1>7, <2>1, <2>2
<1>23. ASSUME kind = "sse", NEW i \in s.since + 1 .. n + k
       PROVE  h[i].gen = s.gen
  <2>1. s.since \in Nat /\ s.gen = g
    BY <1>6, <1>23 DEF SessionType
  <2>2. CASE i <= n
    <3>1. i \in 1 .. n /\ i \in s.since + 1 .. n
      BY <1>23, <2>1, <2>2
    <3>2. got[i].gen = s.gen
      BY <1>1, <1>2, <1>23, <3>1 DEF HasRead
    <3> QED BY <1>14, <3>1, <3>2
  <2>3. CASE i > n
    <3>1. i - n \in 1 .. k /\ i = n + (i - n)
      BY <1>23, <2>1, <2>3
    <3> QED BY <1>15, <2>1, <3>1
  <2> QED BY <1>23, <2>1, <2>2, <2>3
<1>24. s.gen \in 0 .. past \/ s.gen = o.gen
  BY DEF HasRead
<1>25. HasRead(t, o, past, kind)
  <2>1. Consecutive(t.got) /\ (t.gen \in 0 .. past \/ t.gen = o.gen)
    BY <1>17, <1>19, <1>24
  <2>2. \A i \in 1 .. Len(t.got) : t.got[i].gen \in 1 .. past \/ (t.got[i].gen = o.gen /\ o.gen # 0)
    BY <1>6, <1>14, <1>17, <1>20
  <2>3. /\ t.off = t.got[Len(t.got)].at /\ t.off \in 1 .. Len(o.log)
        /\ t.got[Len(t.got)].id = o.log[t.off]
    BY <1>4, <1>5, <1>14, <1>17, <1>21
  <2>4. o.gen = 1 => /\ t.off = Len(t.got) /\ t.off <= Len(o.log)
                     /\ \A i \in 1 .. t.off : t.got[i].id = o.log[i]
    BY <1>4, <1>6, <1>14, <1>17, <1>22
  <2>5. kind = "sse" => \A i \in t.since + 1 .. Len(t.got) : t.got[i].gen = t.gen
    BY <1>14, <1>17, <1>23
  <2> QED BY <2>1, <2>2, <2>3, <2>4, <2>5 DEF HasRead
<1> QED BY <1>17, <1>25

\* HasRead is about where the client is and what it has.
LEMMA SameRead ==
  ASSUME NEW s, NEW t, NEW o, NEW past, NEW kind, HasRead(s, o, past, kind),
         t.got = s.got, t.off = s.off, t.gen = s.gen, t.since = s.since
  PROVE  HasRead(t, o, past, kind)
  BY DEF HasRead

AtTail(s, o) == [s EXCEPT !.off = Len(o.log)]

LEMMA AtTailReads ==
  ASSUME NEW s \in SessionType, NEW o \in StreamRow, NEW past \in Nat, NEW kind,
         HasRead(s, o, past, kind), s.off >= Len(o.log), NEW t, t = AtTail(s, o)
  PROVE  /\ t \in SessionType /\ HasRead(t, o, past, kind) /\ t.off = Len(o.log) /\ t.gen = s.gen
         /\ t.step = s.step /\ t.tail = s.tail /\ t.shut = s.shut
<1>1. PICK l \in Nat : l = Len(o.log)
  BY DEF StreamRow
<1>2. PICK f \in Nat : f = s.off
  BY DEF SessionType
<1>3. t = [s EXCEPT !.off = l]
  BY <1>1 DEF AtTail
<1>4. /\ t \in SessionType /\ t.off = l /\ t.got = s.got /\ t.gen = s.gen /\ t.since = s.since
      /\ t.step = s.step /\ t.tail = s.tail /\ t.shut = s.shut
  BY <1>3 DEF SessionType
<1>5. f >= l
  BY <1>1, <1>2
<1>6. CASE f = l
  BY <1>1, <1>2, <1>4, <1>6, SameRead
<1>7. CASE f # l
  <2>1. ~(f <= l)
    BY <1>5, <1>7
  <2>2. ~(Len(s.got) > 0 /\ s.got[Len(s.got)].gen = o.gen)
    <3>1. SUFFICES ASSUME Len(s.got) > 0, s.got[Len(s.got)].gen = o.gen
                   PROVE  FALSE
      OBVIOUS
    <3>2. f \in 1 .. l
      BY <1>1, <1>2, <3>1 DEF HasRead
    <3> QED BY <2>1, <3>2
  <2>3. o.gen # 1
    BY <1>1, <1>2, <2>1 DEF HasRead
  <2> QED BY <1>1, <1>4, <2>2, <2>3 DEF HasRead
<1> QED BY <1>6, <1>7

\* where a read leaves the client of a stream that is there
Moved(s, o, r) == IF r.to > s.off THEN Received(s, o, r.to) ELSE AtTail(s, o)

LEMMA MovedReads ==
  ASSUME NEW s \in SessionType, NEW o \in StreamRow, o.gen # 0, NEW inherited \in Nat,
         GoodStream(o, inherited), NEW past \in Nat, NEW kind, HasRead(s, o, past, kind),
         kind = "sse" => s.gen = o.gen, NEW r, GetsTo(r, s.off, Len(o.log)),
         NEW t, t = Moved(s, o, r)
  PROVE  /\ t \in SessionType /\ HasRead(t, o, past, kind) /\ t.gen = s.gen
         /\ t.off <= Len(o.log)
<1>1. PICK l \in Nat : l = Len(o.log)
  BY DEF StreamRow
<1>2. PICK f \in Nat : f = s.off
  BY DEF SessionType
<1>3. PICK to \in Nat : to = r.to
  BY DEF GetsTo
<1>4. CASE f < l
  <2>1. f < to /\ to <= l
    BY <1>1, <1>2, <1>3, <1>4 DEF GetsTo
  <2>2. t = Received(s, o, to)
    <3>1. to > f
      BY <2>1
    <3> QED BY <1>2, <1>3, <3>1 DEF Moved
  <2>3. s.off < to /\ to <= Len(o.log)
    BY <1>1, <1>2, <2>1
  <2>4. t \in SessionType /\ HasRead(t, o, past, kind) /\ t.off = to /\ t.gen = s.gen
    BY <2>2, <2>3, ReceivedReads
  <2> QED BY <2>3, <2>4
<1>5. CASE ~(f < l)
  <2>1. f >= l /\ ~(to > f)
    <3>1. f >= l
      BY <1>5
    <3>2. to = f
      BY <1>1, <1>2, <1>3, <3>1 DEF GetsTo
    <3> QED BY <3>1, <3>2
  <2>2. t = AtTail(s, o)
    BY <1>2, <1>3, <2>1 DEF Moved
  <2>3. s.off >= Len(o.log)
    BY <1>1, <1>2, <2>1
  <2>4. t \in SessionType /\ HasRead(t, o, past, kind) /\ t.off = Len(o.log) /\ t.gen = s.gen
    BY <2>2, <2>3, AtTailReads
  <2>5. t.off <= Len(o.log)
    BY <1>1, <2>4
  <2> QED BY <2>4, <2>5
<1> QED BY <1>4, <1>5

\* A session that was not told that the stream is closed.
LEMMA QuietFits ==
  ASSUME NEW t \in SessionType, NEW o, NEW old, NEW kind, NEW inherited,
         HasRead(t, o, Len(old), kind), StepFits(t, o, kind, inherited), t.told = 0
  PROVE  SessionAt(t, o, old, kind, inherited)
  BY DEF SessionAt, ToldRight

\* One that is told so of the stream that is there.
LEMMA ToldFits ==
  ASSUME NEW t \in SessionType, NEW o \in StreamRow, NEW old, NEW kind, NEW inherited,
         HasRead(t, o, Len(old), kind), t.step = "over", t.told = o.gen, o.gen # 0, o.closed,
         t.off = Len(o.log)
  PROVE  SessionAt(t, o, old, kind, inherited)
<1>1. StepFits(t, o, kind, inherited)
  BY DEF StepFits
<1>2. ASSUME o.gen = 1, NEW id \in IdsOf(o.log)
      PROVE  \E i \in 1 .. Len(t.got) : t.got[i].id = id
  <2>1. PICK i \in 1 .. Len(o.log) : id = o.log[i]
    BY <1>2 DEF IdsOf
  <2>2. Len(t.got) = Len(o.log) /\ t.got[i].id = o.log[i]
    BY <1>2, <2>1 DEF HasRead
  <2> QED BY <2>1, <2>2
<1>3. ToldRight(t, o, old)
  BY <1>2 DEF ToldRight
<1> QED BY <1>1, <1>3 DEF SessionAt

Over(s, g) == [s EXCEPT !.step = "over", !.told = g]
Idle(s) == [s EXCEPT !.step = "idle", !.told = 0]

LEMMA ReplyFacts ==
  ASSUME NEW s, NEW g, NEW b
  PROVE  /\ b => Reply(s, b, g) = Over(s, g)
         /\ ~b => Reply(s, b, g) = Idle(s)
  BY DEF Reply, Over, Idle

LEMMA OverFits ==
  ASSUME NEW s \in SessionType, NEW o \in StreamRow, NEW old, NEW kind, NEW inherited,
         HasRead(s, o, Len(old), kind), NEW g, g = o.gen, o.gen # 0, o.closed, s.off = Len(o.log),
         NEW t, t = Over(s, g)
  PROVE  SessionAt(t, o, old, kind, inherited)
<1>1. g \in Nat
  BY DEF StreamRow
<1>2. /\ t \in SessionType /\ t.step = "over" /\ t.told = g /\ t.got = s.got /\ t.off = s.off
      /\ t.gen = s.gen /\ t.since = s.since
  BY <1>1 DEF Over, SessionType
<1>3. HasRead(t, o, Len(old), kind)
  BY <1>2, SameRead
<1> QED BY <1>2, <1>3, ToldFits

LEMMA IdleFits ==
  ASSUME NEW s \in SessionType, NEW o, NEW old, NEW kind, NEW inherited,
         HasRead(s, o, Len(old), kind), NEW t, t = Idle(s)
  PROVE  SessionAt(t, o, old, kind, inherited)
<1>1. /\ t \in SessionType /\ t.step = "idle" /\ t.told = 0 /\ t.got = s.got /\ t.off = s.off
      /\ t.gen = s.gen /\ t.since = s.since
  BY DEF Idle, SessionType
<1>2. HasRead(t, o, Len(old), kind)
  BY <1>1, SameRead
<1>3. StepFits(t, o, kind, inherited)
  BY <1>1 DEF StepFits
<1> QED BY <1>1, <1>2, <1>3, QuietFits

InStep(s, st) == [s EXCEPT !.step = st]

\* A request that goes on.
LEMMA InStepFacts ==
  ASSUME NEW s \in SessionType, NEW st \in {"idle", "source", "loop", "write", "wait", "over", "gone"},
         NEW o, NEW past, NEW kind, HasRead(s, o, past, kind), NEW t, t = InStep(s, st)
  PROVE  /\ t \in SessionType /\ HasRead(t, o, past, kind) /\ t.step = st /\ t.told = s.told
         /\ t.off = s.off /\ t.gen = s.gen /\ t.tail = s.tail /\ t.shut = s.shut /\ t.then = s.then
<1>1. /\ t \in SessionType /\ t.step = st /\ t.told = s.told /\ t.got = s.got /\ t.off = s.off
      /\ t.gen = s.gen /\ t.since = s.since /\ t.tail = s.tail /\ t.shut = s.shut /\ t.then = s.then
  BY DEF InStep, SessionType
<1> QED BY <1>1, SameRead

-----------------------------------------------------------------------------
(* Answers *)

\* A long-poll answered from the stream that is there.
LEMMA RespondFits ==
  ASSUME NEW s \in SessionType, NEW o \in StreamRow, o.gen # 0, NEW inherited \in Nat,
         GoodStream(o, inherited), NEW old \in Seq(StreamRow), HasRead(s, o, Len(old), "poll"),
         NEW r, GetsTo(r, s.off, Len(o.log)), NEW t, t = Respond(s, o, r)
  PROVE  SessionAt(t, o, old, "poll", inherited)
<1>1. PICK u : u = Moved(s, o, r)
  OBVIOUS
<1>2. u \in SessionType /\ HasRead(u, o, Len(old), "poll")
  <2>1. Len(old) \in Nat
    OBVIOUS
  <2> QED BY <1>1, <2>1, MovedReads
<1>3. PICK b : b = (o.closed /\ u.off = Len(o.log) /\ ~r.capped)
  OBVIOUS
<1>4. t = Reply(u, b, o.gen)
  <2>1. LastSeen(s, o) = [gen |-> o.gen, tail |-> Len(o.log), closed |-> o.closed]
    BY DEF LastSeen, TailOf
  <2>2. t = Reply(u, LastSeen(s, o).closed /\ u.off = LastSeen(s, o).tail /\ ~r.capped, LastSeen(s, o).gen)
    BY <1>1, <2>1 DEF Respond, Moved, AtTail
  <2> QED BY <1>3, <2>1, <2>2
<1>5. CASE b
  <2>1. o.closed /\ u.off = Len(o.log)
    BY <1>3, <1>5
  <2>2. t = Over(u, o.gen)
    BY <1>4, <1>5, ReplyFacts
  <2> QED BY <1>2, <2>1, <2>2, OverFits
<1>6. CASE ~b
  <2>1. t = Idle(u)
    BY <1>4, <1>6, ReplyFacts
  <2> QED BY <1>2, <2>1, IdleFits
<1> QED BY <1>5, <1>6

\* A frame of the pump, which reads the stream it began with.
LEMMA FrameFits ==
  ASSUME NEW s \in SessionType, NEW o \in StreamRow, o.gen # 0, s.gen = o.gen, NEW inherited \in Nat,
         GoodStream(o, inherited), NEW old \in Seq(StreamRow), HasRead(s, o, Len(old), "sse"),
         NEW r, GetsTo(r, s.off, Len(o.log)), NEW t, t = Frame(s, o, r)
  PROVE  SessionAt(t, o, old, "sse", inherited)
<1>1. PICK u : u = Moved(s, o, r)
  OBVIOUS
<1>2. u \in SessionType /\ HasRead(u, o, Len(old), "sse") /\ u.gen = s.gen /\ u.off <= Len(o.log)
  <2>1. Len(old) \in Nat
    OBVIOUS
  <2> QED BY <1>1, <2>1, MovedReads
<1>3. PICK then \in {"loop", "wait"} : then = IF r.capped THEN "loop" ELSE "wait"
  OBVIOUS
<1>4. PICK last : last = (o.closed /\ ~r.capped /\ u.off = Len(o.log))
  OBVIOUS
<1>5. t = [u EXCEPT !.step = IF last THEN "over" ELSE "write", !.told = IF last THEN s.gen ELSE 0,
                    !.then = then]
  BY <1>1, <1>3, <1>4 DEF Frame, Moved, AtTail, TailOf
<1>6. CASE last
  <2>1. o.closed /\ u.off = Len(o.log) /\ s.gen \in Nat
    BY <1>4, <1>6 DEF SessionType
  <2>2. t = [u EXCEPT !.step = "over", !.told = s.gen, !.then = then]
    BY <1>5, <1>6
  <2>3. /\ t \in SessionType /\ t.step = "over" /\ t.told = s.gen /\ t.got = u.got /\ t.off = u.off
        /\ t.gen = u.gen /\ t.since = u.since
    BY <1>2, <2>1, <2>2 DEF SessionType
  <2>4. HasRead(t, o, Len(old), "sse")
    BY <1>2, <2>3, SameRead
  <2> QED BY <2>1, <2>3, <2>4, ToldFits
<1>7. CASE ~last
  <2>1. t = [u EXCEPT !.step = "write", !.told = 0, !.then = then]
    BY <1>5, <1>7
  <2>2. /\ t \in SessionType /\ t.step = "write" /\ t.told = 0 /\ t.got = u.got /\ t.off = u.off
        /\ t.gen = u.gen /\ t.since = u.since /\ t.then = then
    <3>1. PICK w \in {"idle", "loop", "wait"} : w = then
      OBVIOUS
    <3>2. PICK zero \in Nat : zero = 0
      OBVIOUS
    <3>3. t = [u EXCEPT !.step = "write", !.told = zero, !.then = w]
      BY <2>1, <3>1, <3>2
    <3>4. t \in SessionType
      BY <1>2, <3>3 DEF SessionType
    <3>5. t.step = "write" /\ t.told = zero /\ t.then = w
      BY <1>2, <3>3 DEF SessionType
    <3>6. t.got = u.got /\ t.off = u.off /\ t.gen = u.gen /\ t.since = u.since
      BY <1>2, <3>3 DEF SessionType
    <3> QED BY <3>1, <3>2, <3>4, <3>5, <3>6
  <2>3. HasRead(t, o, Len(old), "sse")
    BY <1>2, <2>2, SameRead
  <2>4. StepFits(t, o, "sse", inherited)
    BY <1>2, <2>2 DEF StepFits
  <2> QED BY <2>2, <2>3, <2>4, QuietFits
<1> QED BY <1>6, <1>7

-----------------------------------------------------------------------------
(* Requests of others, as the client meets them *)

LEMMA EvolvesReads ==
  ASSUME NEW s \in SessionType, NEW o \in StreamRow, NEW o2 \in StreamRow, Evolves(o, o2),
         NEW past, NEW kind, HasRead(s, o, past, kind)
  PROVE  HasRead(s, o2, past, kind)
<1>1. PICK l \in Nat : l = Len(o.log)
  BY DEF StreamRow
<1>2. PICK l2 \in Nat : l2 = Len(o2.log)
  BY DEF StreamRow
<1>3. o2.gen = o.gen /\ l <= l2 /\ \A i \in 1 .. l : o2.log[i] = o.log[i]
  BY <1>1, <1>2 DEF Evolves
<1>4. PICK f \in Nat : f = s.off
  BY DEF SessionType
<1>5. /\ Consecutive(s.got) /\ (s.gen \in 0 .. past \/ s.gen = o2.gen)
      /\ \A i \in 1 .. Len(s.got) : s.got[i].gen \in 1 .. past \/ (s.got[i].gen = o2.gen /\ o2.gen # 0)
      /\ kind = "sse" => \A i \in s.since + 1 .. Len(s.got) : s.got[i].gen = s.gen
  BY <1>3 DEF HasRead
<1>6. ASSUME Len(s.got) > 0, s.got[Len(s.got)].gen = o2.gen
      PROVE  /\ s.off = s.got[Len(s.got)].at /\ s.off \in 1 .. Len(o2.log)
             /\ s.got[Len(s.got)].id = o2.log[s.off]
  <2>1. s.off = s.got[Len(s.got)].at /\ s.off \in 1 .. Len(o.log) /\ s.got[Len(s.got)].id = o.log[s.off]
    BY <1>3, <1>6 DEF HasRead
  <2>2. f \in 1 .. l
    BY <1>1, <1>4, <2>1
  <2>3. f \in 1 .. l2 /\ o2.log[f] = o.log[f]
    BY <1>3, <2>2
  <2> QED BY <1>2, <1>4, <2>1, <2>3
<1>7. ASSUME o2.gen = 1
      PROVE  /\ s.off = Len(s.got) /\ s.off <= Len(o2.log)
             /\ \A i \in 1 .. s.off : s.got[i].id = o2.log[i]
  <2>1. s.off = Len(s.got) /\ f <= l /\ \A i \in 1 .. f : s.got[i].id = o.log[i]
    BY <1>1, <1>3, <1>4, <1>7 DEF HasRead
  <2>2. f <= l2
    BY <1>3, <2>1
  <2>3. \A i \in 1 .. f : s.got[i].id = o2.log[i]
    <3>1. ASSUME NEW i \in 1 .. f
          PROVE  i \in 1 .. l
      BY <2>1
    <3> QED BY <1>3, <2>1, <3>1
  <2> QED BY <1>2, <1>4, <2>1, <2>2, <2>3
<1> QED BY <1>5, <1>6, <1>7 DEF HasRead

LEMMA EvolvesKeeps ==
  ASSUME NEW s, NEW o \in StreamRow, o.gen # 0, NEW o2 \in StreamRow, Evolves(o, o2),
         NEW old \in Seq(StreamRow), NEW kind, NEW inherited, SessionAt(s, o, old, kind, inherited),
         s.step = "wait" => ~o2.closed /\ Len(o2.log) = Len(o.log)
  PROVE  SessionAt(s, o2, old, kind, inherited)
<1>1. s \in SessionType /\ HasRead(s, o, Len(old), kind)
  BY DEF SessionAt
<1>2. HasRead(s, o2, Len(old), kind)
  BY <1>1, EvolvesReads
<1>3. PICK l \in Nat : l = Len(o.log)
  BY DEF StreamRow
<1>4. PICK l2 \in Nat : l2 = Len(o2.log)
  BY DEF StreamRow
<1>5. /\ o2.gen = o.gen /\ l <= l2 /\ \A i \in 1 .. l : o2.log[i] = o.log[i]
      /\ o.closed => o2.closed /\ l2 = l
  BY <1>3, <1>4 DEF Evolves
<1>6. StepFits(s, o, kind, inherited)
  BY DEF SessionAt
<1>7. PICK f \in Nat : f = s.off
  BY <1>1 DEF SessionType
<1>8. s.step = "write" => s.then # "idle" /\ (o2.gen = s.gen => s.off <= Len(o2.log))
  <2>1. s.step = "write" /\ o.gen = s.gen => f <= l
    BY <1>3, <1>6, <1>7 DEF StepFits
  <2>2. s.step = "write" /\ o.gen = s.gen => f <= l2
    BY <1>5, <2>1
  <2> QED BY <1>4, <1>5, <1>6, <1>7, <2>2 DEF StepFits
<1>9. StepFits(s, o2, kind, inherited)
  BY <1>5, <1>6, <1>8 DEF StepFits
<1>10. ToldRight(s, o2, old)
  <2>1. SUFFICES ASSUME s.told # 0
                 PROVE  ToldRight(s, o2, old)
    BY DEF ToldRight
  <2>2. ToldRight(s, o, old)
    BY DEF SessionAt
  <2>3. CASE s.told = o.gen
    <3>1. /\ s.step = "over" /\ o.closed /\ s.off = l
          /\ s.told = 1 => \A id \in IdsOf(o.log) : \E i \in 1 .. Len(s.got) : s.got[i].id = id
      BY <1>3, <2>1, <2>2, <2>3 DEF ToldRight
    <3>2. o2.closed /\ l2 = l
      BY <1>5, <3>1
    <3>3. IdsOf(o2.log) \subseteq IdsOf(o.log)
      <4>1. ASSUME NEW id \in IdsOf(o2.log)
            PROVE  id \in IdsOf(o.log)
        <5>1. PICK i \in 1 .. l : id = o2.log[i]
          BY <1>4, <3>2 DEF IdsOf
        <5>2. id = o.log[i]
          BY <1>5, <5>1
        <5> QED BY <1>3, <5>2 DEF IdsOf
      <4> QED BY <4>1
    <3> QED BY <1>4, <1>5, <2>3, <3>1, <3>2, <3>3 DEF ToldRight
  <2>4. CASE s.told # o.gen
    BY <1>5, <2>2, <2>4 DEF ToldRight
  <2> QED BY <2>3, <2>4
<1> QED BY <1>1, <1>2, <1>9, <1>10 DEF SessionAt

\* A waiting client is woken, or has nothing to be told.
LEMMA WokenFits ==
  ASSUME StreamsOK, SessionFits, Inherited \in Nat, world.kind \in {"poll", "sse"}, object.gen # 0,
         NEW o \in StreamRow, Evolves(object, o), GoodStream(o, Inherited)
  PROVE  SessionAt(Woken(o), o, former, world.kind, Inherited)
<1>1. PICK i \in Nat : i = Inherited
  OBVIOUS
<1>2. PICK s : s = session
  OBVIOUS
<1>3. SessionAt(s, object, former, world.kind, i) /\ object \in StreamRow /\ former \in Seq(StreamRow)
  BY <1>1, <1>2 DEF SessionFits, StreamsOK
<1>4. s \in SessionType /\ HasRead(s, object, Len(former), world.kind)
  BY <1>3 DEF SessionAt
<1>5. CASE s.step # "wait"
  <2>1. Woken(o) = s
    BY <1>2, <1>5 DEF Woken
  <2>2. SessionAt(s, o, former, world.kind, i)
    BY <1>3, <1>5, EvolvesKeeps
  <2> QED BY <1>1, <2>1, <2>2
<1>6. CASE s.step = "wait"
  <2>1. PICK l \in Nat : l = Len(o.log)
    BY DEF StreamRow
  <2>2. PICK f \in Nat : f = s.off
    BY <1>4 DEF SessionType
  <2>3. StepFits(s, object, world.kind, i) /\ ToldRight(s, object, former)
    BY <1>3 DEF SessionAt
  <2>4. o.gen # 0 /\ o.gen = s.gen /\ f <= l /\ s.gen # 0 /\ f = Len(object.log)
    <3>1. object.gen = s.gen /\ s.off = Len(object.log) /\ s.gen # 0
      BY <1>6, <2>3 DEF StepFits
    <3> QED BY <2>1, <2>2, <3>1 DEF Evolves
  <2>5. s.told = 0
    BY <1>6, <2>3 DEF ToldRight
  <2>6. HasRead(s, o, Len(former), world.kind)
    BY <1>3, <1>4, EvolvesReads
  <2>7. CASE l > f
    <3>1. CASE world.kind = "poll"
      <4>1. PICK r : r = ReadStitched(f, l)
        OBVIOUS
      <4>2. Woken(o) = Respond(s, o, r)
        BY <1>2, <1>6, <2>1, <2>2, <2>4, <2>7, <3>1, <4>1 DEF Woken, TailOf
      <4>3. GetsTo(r, f, l)
        <5>1. Inherited <= l
          BY <2>1 DEF GoodStream
        <5> QED BY <4>1, <5>1, StitchFacts
      <4>4. GetsTo(r, s.off, Len(o.log))
        BY <2>1, <2>2, <4>3
      <4>5. HasRead(s, o, Len(former), "poll") /\ GoodStream(o, i)
        BY <1>1, <2>6, <3>1
      <4>6. SessionAt(Woken(o), o, former, "poll", i)
        BY <1>3, <1>4, <2>4, <4>2, <4>4, <4>5, RespondFits
      <4> QED BY <1>1, <3>1, <4>6
    <3>2. CASE world.kind = "sse"
      <4>1. PICK t : t = InStep(s, "loop")
        OBVIOUS
      <4>2. Woken(o) = t
        BY <1>2, <1>6, <2>1, <2>2, <2>4, <2>7, <3>2, <4>1 DEF Woken, TailOf, InStep
      <4>3. /\ t \in SessionType /\ HasRead(t, o, Len(former), world.kind) /\ t.step = "loop"
            /\ t.told = s.told /\ t.gen = s.gen
        BY <1>4, <2>6, <4>1, InStepFacts
      <4>4. StepFits(t, o, world.kind, i)
        BY <2>4, <3>2, <4>3 DEF StepFits
      <4>5. SessionAt(t, o, former, world.kind, i)
        BY <2>5, <4>3, <4>4, QuietFits
      <4> QED BY <1>1, <4>2, <4>5
    <3> QED BY <3>1, <3>2
  <2>8. CASE ~(l > f)
    <3>1. l = f
      BY <2>4, <2>8
    <3>2. CASE o.closed
      <4>1. Woken(o) = Over(s, s.gen)
        BY <1>2, <1>6, <2>1, <2>2, <2>8, <3>2 DEF Woken, TailOf, Reply, Over
      <4>2. s.off = Len(o.log) /\ s.gen = o.gen
        BY <2>1, <2>2, <2>4, <3>1
      <4>3. SessionAt(Woken(o), o, former, world.kind, i)
        BY <1>4, <2>4, <2>6, <3>2, <4>1, <4>2, OverFits
      <4> QED BY <1>1, <4>3
    <3>3. CASE ~o.closed
      <4>1. Woken(o) = s
        BY <1>2, <1>6, <2>1, <2>2, <2>4, <2>8, <3>3 DEF Woken, TailOf
      <4>2. Len(o.log) = Len(object.log)
        BY <2>1, <2>4, <3>1
      <4>3. SessionAt(s, o, former, world.kind, i)
        BY <1>3, <3>3, <4>2, EvolvesKeeps
      <4> QED BY <1>1, <4>1, <4>3
    <3> QED BY <3>2, <3>3
  <2> QED BY <2>7, <2>8
<1> QED BY <1>5, <1>6

\* The stream is deleted: what the client has is of generations that are gone.
LEMMA DeletedReads ==
  ASSUME NEW s \in SessionType, NEW o \in StreamRow, NEW past \in Nat, NEW kind,
         o.gen = past + 1, HasRead(s, o, past, kind), NEW none, none.gen = 0,
         NEW t, t.got = s.got, t.gen = s.gen, t.since = s.since
  PROVE  HasRead(t, none, past + 1, kind)
<1>1. PICK n \in Nat : n = Len(s.got)
  BY DEF SessionType
<1>2. \A i \in 1 .. n : s.got[i].gen \in 1 .. past + 1
  <2>1. ASSUME NEW i \in 1 .. n
        PROVE  s.got[i].gen \in 1 .. past + 1
    <3>1. s.got[i].gen \in 1 .. past \/ s.got[i].gen = past + 1
      BY <1>1 DEF HasRead
    <3> QED BY <3>1
  <2> QED BY <2>1
<1>3. t.gen \in 0 .. past + 1
  <2>1. s.gen \in 0 .. past \/ s.gen = past + 1
    BY DEF HasRead
  <2> QED BY <2>1
<1>4. ~(n > 0 /\ s.got[n].gen = 0)
  <2>1. n > 0 => n \in 1 .. n
    OBVIOUS
  <2> QED BY <1>2, <2>1
<1>5. Consecutive(t.got) /\ (kind = "sse" => \A i \in t.since + 1 .. Len(t.got) : t.got[i].gen = t.gen)
  BY DEF HasRead
<1> QED BY <1>1, <1>2, <1>3, <1>4, <1>5 DEF HasRead

LEMMA DeletedTold ==
  ASSUME NEW s, NEW o \in StreamRow, NEW old \in Seq(StreamRow), o.gen = Len(old) + 1,
         ToldRight(s, o, old), s.told \in Nat, NEW none, none.gen = 0,
         NEW old2, old2 = Append(old, o)
  PROVE  ToldRight(s, none, old2)
<1>1. SUFFICES ASSUME s.told # 0
               PROVE  ToldRight(s, none, old2)
  BY DEF ToldRight
<1>2. PICK n \in Nat : n = Len(old)
  OBVIOUS
<1>3. Len(old2) = n + 1 /\ old2[n + 1] = o /\ \A i \in 1 .. n : old2[i] = old[i]
  BY <1>2
<1>4. s.step = "over" /\ (s.told = n + 1 \/ s.told \in 1 .. n)
  BY <1>1, <1>2 DEF ToldRight
<1>5. CASE s.told = n + 1
  <2>1. /\ o.closed /\ s.off = Len(o.log)
        /\ s.told = 1 => \A id \in IdsOf(o.log) : \E i \in 1 .. Len(s.got) : s.got[i].id = id
    BY <1>1, <1>2, <1>5 DEF ToldRight
  <2>2. old2[s.told] = o /\ s.told \in 1 .. Len(old2)
    BY <1>3, <1>5
  <2> QED BY <1>1, <1>4, <2>1, <2>2 DEF ToldRight
<1>6. CASE s.told \in 1 .. n
  <2>1. s.told # o.gen
    BY <1>2, <1>6
  <2>2. PICK w : w = old[s.told]
    OBVIOUS
  <2>3. /\ w.closed /\ s.off = Len(w.log)
        /\ s.told = 1 => \A id \in IdsOf(w.log) : \E i \in 1 .. Len(s.got) : s.got[i].id = id
    BY <1>1, <2>1, <2>2 DEF ToldRight
  <2>4. old2[s.told] = w /\ s.told \in 1 .. Len(old2)
    BY <1>3, <1>6, <2>2
  <2> QED BY <1>1, <1>4, <2>3, <2>4 DEF ToldRight
<1> QED BY <1>4, <1>5, <1>6

LEMMA WokenByDeletion ==
  ASSUME StreamsOK, SessionFits, Inherited \in Nat, world.kind \in {"poll", "sse"}, object.gen # 0,
         NEW old, old = Append(former, object)
  PROVE  SessionAt(Woken(NoObject), NoObject, old, world.kind, Inherited)
<1>1. PICK i \in Nat : i = Inherited
  OBVIOUS
<1>2. PICK s : s = session
  OBVIOUS
<1>3. PICK none \in StreamRow : none = NoObject /\ none.gen = 0 /\ Len(none.log) = 0 /\ ~none.closed
  BY NoObjectFacts
<1>4. SessionAt(s, object, former, world.kind, i) /\ object \in StreamRow /\ former \in Seq(StreamRow)
  BY <1>1, <1>2 DEF SessionFits, StreamsOK
<1>5. /\ s \in SessionType /\ HasRead(s, object, Len(former), world.kind)
      /\ StepFits(s, object, world.kind, i) /\ ToldRight(s, object, former)
  BY <1>4 DEF SessionAt
<1>6. PICK n \in Nat : n = Len(former)
  BY <1>4
<1>7. object.gen = n + 1 /\ Len(old) = n + 1
  BY <1>4, <1>6 DEF StreamsOK
<1>8. HasRead(s, object, n, world.kind)
  BY <1>5, <1>6
<1>9. CASE s.step # "wait"
  <2>1. Woken(NoObject) = s
    BY <1>2, <1>9 DEF Woken
  <2>2. HasRead(s, none, Len(old), world.kind)
    BY <1>3, <1>4, <1>5, <1>7, <1>8, DeletedReads
  <2>3. ToldRight(s, none, old)
    <3>1. object.gen = Len(former) + 1 /\ s.told \in Nat
      BY <1>5, <1>6, <1>7 DEF SessionType
    <3> QED BY <1>3, <1>4, <1>5, <3>1, DeletedTold
  <2>4. StepFits(s, none, world.kind, i)
    BY <1>3, <1>5, <1>9 DEF StepFits
  <2>5. SessionAt(s, none, old, world.kind, i)
    BY <1>5, <2>2, <2>3, <2>4 DEF SessionAt
  <2> QED BY <1>1, <1>3, <2>1, <2>5
<1>10. CASE s.step = "wait"
  <2>1. s.told = 0 /\ s.gen # 0
    BY <1>5, <1>10 DEF ToldRight, StepFits
  <2>2. PICK f \in Nat : f = s.off
    BY <1>5 DEF SessionType
  <2>3. ~(none.gen # 0 /\ TailOf(none) > s.off)
    BY <1>3
  <2>4. CASE world.kind = "poll"
    <3>1. ~s.shut
      BY <1>5, <1>10, <2>4 DEF StepFits
    <3>2. PICK u : u = [s EXCEPT !.off = s.tail]
      OBVIOUS
    <3>3. u \in SessionType /\ u.got = s.got /\ u.gen = s.gen /\ u.since = s.since
      <4>1. PICK tail \in Nat : tail = s.tail
        BY <1>5 DEF SessionType
      <4>2. u = [s EXCEPT !.off = tail]
        BY <3>2, <4>1
      <4> QED BY <1>5, <4>2 DEF SessionType
    <3>4. PICK r : r = [to |-> s.off, capped |-> FALSE]
      OBVIOUS
    <3>5. Woken(NoObject) = Respond(s, none, r)
      BY <1>2, <1>3, <1>10, <2>3, <2>4, <3>4 DEF Woken
    <3>6. LastSeen(s, none) = [gen |-> s.gen, tail |-> s.tail, closed |-> s.shut]
      BY <1>3 DEF LastSeen
    <3>7. Respond(s, none, r) = Reply(u, LastSeen(s, none).closed /\ u.off = LastSeen(s, none).tail /\ ~r.capped,
                                      LastSeen(s, none).gen)
      BY <1>3, <3>2, <3>6 DEF Respond
    <3>8. PICK b : b = (LastSeen(s, none).closed /\ u.off = LastSeen(s, none).tail /\ ~r.capped)
      OBVIOUS
    <3>9. ~b
      <4>1. ~LastSeen(s, none).closed
        BY <3>1, <3>6
      <4> QED BY <3>8, <4>1
    <3>10. Woken(NoObject) = Idle(u)
      BY <3>5, <3>7, <3>8, <3>9, ReplyFacts
    <3>11. HasRead(u, none, Len(old), world.kind)
      BY <1>3, <1>4, <1>5, <1>7, <1>8, <3>3, DeletedReads
    <3>12. SessionAt(Woken(NoObject), none, old, world.kind, i)
      BY <3>3, <3>10, <3>11, IdleFits
    <3> QED BY <1>1, <1>3, <3>12
  <2>5. CASE world.kind = "sse"
    <3>1. PICK t : t = InStep(s, "loop")
      OBVIOUS
    <3>2. Woken(NoObject) = t
      BY <1>2, <1>3, <1>10, <2>3, <2>5, <3>1 DEF Woken, InStep
    <3>3. HasRead(s, none, Len(old), world.kind)
      BY <1>3, <1>4, <1>5, <1>7, <1>8, DeletedReads
    <3>4. /\ t \in SessionType /\ HasRead(t, none, Len(old), world.kind) /\ t.step = "loop"
          /\ t.told = s.told /\ t.gen = s.gen
      BY <1>5, <3>1, <3>3, InStepFacts
    <3>5. StepFits(t, none, world.kind, i)
      BY <2>1, <2>5, <3>4 DEF StepFits
    <3>6. SessionAt(t, none, old, world.kind, i)
      BY <2>1, <3>4, <3>5, QuietFits
    <3> QED BY <1>1, <1>3, <3>2, <3>6
  <2> QED BY <2>4, <2>5
<1> QED BY <1>9, <1>10

\* The stream is created again, for a client that knows the ones before it.
LEMMA CreatedKeeps ==
  ASSUME NEW s, NEW none, none.gen = 0, NEW old \in Seq(StreamRow), Len(old) > 0, NEW kind,
         NEW inherited, SessionAt(s, none, old, kind, inherited), NEW o, o.gen = Len(old) + 1
  PROVE  SessionAt(s, o, old, kind, inherited)
<1>1. PICK n \in Nat : n = Len(old) /\ n > 0
  OBVIOUS
<1>2. /\ s \in SessionType /\ HasRead(s, none, n, kind) /\ StepFits(s, none, kind, inherited)
      /\ ToldRight(s, none, old)
  BY <1>1 DEF SessionAt
<1>3. o.gen = n + 1
  BY <1>1
<1>4. \A i \in 1 .. Len(s.got) : s.got[i].gen \in 1 .. n
  BY <1>2 DEF HasRead
<1>5. s.gen \in 0 .. n
  <2>1. s.gen \in 0 .. n \/ s.gen = 0
    BY <1>2 DEF HasRead
  <2> QED BY <2>1
<1>6. PICK m \in Nat : m = Len(s.got)
  BY <1>2 DEF SessionType
<1>7. ~(m > 0 /\ s.got[m].gen = o.gen)
  <2>1. m > 0 => m \in 1 .. m
    OBVIOUS
  <2>2. m > 0 => s.got[m].gen \in 1 .. n
    BY <1>4, <1>6, <2>1
  <2> QED BY <1>3, <2>2
<1>8. o.gen # 1 /\ s.gen # o.gen
  BY <1>1, <1>3, <1>5
<1>9. Consecutive(s.got) /\ (kind = "sse" => \A i \in s.since + 1 .. Len(s.got) : s.got[i].gen = s.gen)
  BY <1>2 DEF HasRead
<1>10. HasRead(s, o, n, kind)
  BY <1>4, <1>5, <1>6, <1>7, <1>8, <1>9 DEF HasRead
<1>11. s.step # "wait"
  BY <1>2 DEF StepFits
<1>12. StepFits(s, o, kind, inherited)
  BY <1>2, <1>8, <1>11 DEF StepFits
<1>13. ToldRight(s, o, old)
  <2>1. SUFFICES ASSUME s.told # 0
                 PROVE  ToldRight(s, o, old)
    BY DEF ToldRight
  <2>2. s.told # none.gen /\ s.told \in 1 .. n
    BY <1>1, <1>2, <2>1 DEF ToldRight
  <2>3. s.told # o.gen
    BY <1>3, <2>2
  <2> QED BY <1>2, <2>2, <2>3 DEF ToldRight
<1> QED BY <1>1, <1>2, <1>10, <1>12, <1>13 DEF SessionAt

-----------------------------------------------------------------------------
(* The actions *)

LEMMA WorldFacts ==
  ASSUME StreamsOK
  PROVE  Inherited \in Nat /\ world.kind \in {"poll", "sse"}
  BY ReadsAssumption DEF StreamsOK, Inherited

\* what an action finds
LEMMA FoundFacts ==
  ASSUME ReadsInv, ~omitted
  PROVE  /\ session \in SessionType /\ object \in StreamRow /\ former \in Seq(StreamRow)
         /\ HasRead(session, object, Len(former), world.kind)
         /\ StepFits(session, object, world.kind, Inherited)
         /\ session.step # "over" => session.told = 0
<1>1. StreamsOK /\ SessionAt(session, object, former, world.kind, Inherited)
  BY DEF ReadsInv, SessionFits
<1>2. object \in StreamRow /\ former \in Seq(StreamRow)
  BY <1>1 DEF StreamsOK
<1>3. /\ session \in SessionType /\ HasRead(session, object, Len(former), world.kind)
      /\ StepFits(session, object, world.kind, Inherited) /\ ToldRight(session, object, former)
  BY <1>1 DEF SessionAt
<1>4. session.step # "over" => session.told = 0
  BY <1>3 DEF ToldRight
<1> QED BY <1>2, <1>3, <1>4

LEMMA ReadStepKeeps ==
  ASSUME ReadsInv, UNCHANGED <<world, object, former>>,
         ~omitted' => SessionAt(session', object, former, world.kind, Inherited)
  PROVE  ReadsInv'
<1>1. StreamsOK'
  BY DEF ReadsInv, StreamsOK, Inherited
<1>2. ~omitted' => SessionFits'
  BY DEF SessionFits, Inherited
<1> QED BY <1>1, <1>2 DEF ReadsInv

\* a read of the stream that is there
LEMMA StitchedGetsTo ==
  ASSUME StreamsOK, object.gen # 0, NEW off \in Nat, NEW r, r = ReadStitched(off, TailOf(object))
  PROVE  GetsTo(r, off, Len(object.log))
<1>1. Inherited \in Nat
  BY WorldFacts
<1>2. PICK l \in Nat : l = Len(object.log)
  BY DEF StreamsOK, StreamRow
<1>3. Inherited <= l
  BY <1>2 DEF StreamsOK, GoodStream
<1>4. r = ReadStitched(off, l)
  BY <1>2 DEF TailOf
<1>5. GetsTo(r, off, l)
  BY <1>1, <1>3, <1>4, StitchFacts
<1> QED BY <1>2, <1>5

LEMMA GetKeeps ==
  ASSUME ReadsInv, Get
  PROVE  ReadsInv'
<1>1. SUFFICES ASSUME ~omitted
               PROVE  SessionAt(session', object, former, world.kind, Inherited)
  BY ReadStepKeeps DEF Get
<1>2. PICK i \in Nat : i = Inherited
  BY WorldFacts DEF ReadsInv
<1>3. /\ session \in SessionType /\ object \in StreamRow /\ former \in Seq(StreamRow)
      /\ HasRead(session, object, Len(former), "poll") /\ session.told = 0
  BY <1>1, FoundFacts DEF Get
<1>4. PICK l \in Nat : l = Len(object.log)
  BY <1>3 DEF StreamRow
<1>5. PICK f \in Nat : f = session.off
  BY <1>3 DEF SessionType
<1>6. PICK s : s = [session EXCEPT !.gen = object.gen, !.tail = TailOf(object), !.shut = object.closed]
  OBVIOUS
<1>7. /\ s \in SessionType /\ s.gen = object.gen /\ s.tail = l /\ s.shut = object.closed
      /\ s.off = f /\ s.got = session.got /\ s.told = 0 /\ s.since = session.since
  <2>1. PICK g \in Nat : g = object.gen
    BY <1>3 DEF StreamRow
  <2>2. PICK c \in BOOLEAN : c = object.closed
    BY <1>3 DEF StreamRow
  <2>3. s = [session EXCEPT !.gen = g, !.tail = l, !.shut = c]
    BY <1>4, <1>6, <2>1, <2>2 DEF TailOf
  <2>4. s \in SessionType
    BY <1>3, <2>3 DEF SessionType
  <2>5. s.gen = g /\ s.tail = l /\ s.shut = c /\ s.off = session.off /\ s.got = session.got
    BY <1>3, <2>3 DEF SessionType
  <2>6. s.told = session.told /\ s.since = session.since
    BY <1>3, <2>3 DEF SessionType
  <2> QED BY <1>3, <1>5, <2>1, <2>2, <2>4, <2>5, <2>6
<1>8. HasRead(s, object, Len(former), "poll")
  <2>1. s.off = session.off
    BY <1>5, <1>7
  <2> QED BY <1>3, <1>7, <2>1 DEF HasRead
<1>9. session' = IF object.gen = 0 THEN InStep(s, "gone")
                 ELSE IF s.off < i THEN InStep(s, "source")
                 ELSE AfterRead(s, object, ReadStitched(s.off, TailOf(object)))
  BY <1>2, <1>6 DEF Get, InStep
<1>10. world.kind = "poll"
  BY DEF Get
<1>11. CASE object.gen = 0
  <2>1. session' = InStep(s, "gone")
    BY <1>9, <1>11
  <2>2. PICK t : t = InStep(s, "gone")
    OBVIOUS
  <2>3. t \in SessionType /\ HasRead(t, object, Len(former), "poll") /\ t.step = "gone" /\ t.told = s.told
    BY <1>7, <1>8, <2>2, InStepFacts
  <2>4. StepFits(t, object, "poll", i)
    BY <2>3 DEF StepFits
  <2>5. SessionAt(t, object, former, "poll", i)
    BY <1>7, <2>3, <2>4, QuietFits
  <2> QED BY <1>2, <1>10, <2>1, <2>2, <2>5
<1>12. CASE object.gen # 0 /\ f < i
  <2>1. session' = InStep(s, "source")
    BY <1>7, <1>9, <1>12
  <2>2. PICK t : t = InStep(s, "source")
    OBVIOUS
  <2>3. /\ t \in SessionType /\ HasRead(t, object, Len(former), "poll") /\ t.step = "source"
        /\ t.told = s.told /\ t.gen = s.gen /\ t.off = s.off /\ t.tail = s.tail
    BY <1>7, <1>8, <2>2, InStepFacts
  <2>4. i <= l
    BY <1>2, <1>4, <1>12 DEF ReadsInv, StreamsOK, GoodStream
  <2>5. StepFits(t, object, "poll", i)
    BY <1>7, <1>12, <2>3, <2>4 DEF StepFits
  <2>6. SessionAt(t, object, former, "poll", i)
    BY <1>7, <2>3, <2>5, QuietFits
  <2> QED BY <1>2, <1>10, <2>1, <2>2, <2>6
<1>13. CASE object.gen # 0 /\ ~(f < i)
  <2>1. PICK r : r = ReadStitched(s.off, TailOf(object))
    OBVIOUS
  <2>2. session' = AfterRead(s, object, r)
    BY <1>7, <1>9, <1>13, <2>1
  <2>3. GetsTo(r, s.off, Len(object.log))
    BY <1>7, <1>13, <2>1, StitchedGetsTo DEF ReadsInv
  <2>4. CASE s.off = s.tail /\ r.to = s.off
    <3>1. session' = IF s.shut THEN Reply(s, TRUE, s.gen) ELSE EnterWait(s, object)
      BY <2>2, <2>4 DEF AfterRead
    <3>2. s.off = Len(object.log) /\ s.off = l /\ s.gen = object.gen
      BY <1>4, <1>7, <2>4
    <3>3. CASE object.closed
      <4>1. session' = Over(s, s.gen)
        BY <1>7, <3>1, <3>3 DEF Reply, Over
      <4>2. SessionAt(session', object, former, "poll", i)
        BY <1>3, <1>7, <1>8, <1>13, <3>2, <3>3, <4>1, OverFits
      <4> QED BY <1>2, <1>10, <4>2
    <3>4. CASE ~object.closed
      <4>1. session' = EnterWait(s, object)
        BY <1>7, <3>1, <3>4
      <4>2. TailOf(object) <= s.off
        BY <1>4, <3>2 DEF TailOf
      <4>3. session' = InStep(s, "wait")
        BY <1>13, <3>4, <4>1, <4>2 DEF EnterWait, InStep
      <4>4. PICK t : t = InStep(s, "wait")
        OBVIOUS
      <4>5. /\ t \in SessionType /\ HasRead(t, object, Len(former), "poll") /\ t.step = "wait"
            /\ t.told = s.told /\ t.gen = s.gen /\ t.off = s.off /\ t.shut = s.shut
        BY <1>7, <1>8, <4>4, InStepFacts
      <4>6. StepFits(t, object, "poll", i)
        BY <1>7, <1>13, <3>2, <3>4, <4>5 DEF StepFits
      <4>7. SessionAt(t, object, former, "poll", i)
        BY <1>7, <4>5, <4>6, QuietFits
      <4> QED BY <1>2, <1>10, <4>3, <4>4, <4>7
    <3> QED BY <3>3, <3>4
  <2>5. CASE ~(s.off = s.tail /\ r.to = s.off)
    <3>1. session' = Respond(s, object, r)
      BY <2>2, <2>5 DEF AfterRead
    <3>2. GoodStream(object, i)
      BY <1>2, <1>13 DEF ReadsInv, StreamsOK
    <3>3. SessionAt(session', object, former, "poll", i)
      BY <1>3, <1>7, <1>8, <1>13, <2>3, <3>1, <3>2, RespondFits
    <3> QED BY <1>2, <1>10, <3>3
  <2> QED BY <2>4, <2>5
<1> QED BY <1>11, <1>12, <1>13

LEMMA SubscribeKeeps ==
  ASSUME ReadsInv, Subscribe
  PROVE  ReadsInv'
<1>1. SUFFICES ASSUME ~omitted
               PROVE  SessionAt(session', object, former, world.kind, Inherited)
  BY ReadStepKeeps DEF Subscribe
<1>2. PICK i : i = Inherited
  OBVIOUS
<1>3. /\ session \in SessionType /\ object \in StreamRow
      /\ HasRead(session, object, Len(former), "sse") /\ session.told = 0
  BY <1>1, FoundFacts DEF Subscribe
<1>4. PICK n \in Nat : n = Len(session.got)
  BY <1>3 DEF SessionType
<1>5. PICK g \in Nat : g = object.gen
  BY <1>3 DEF StreamRow
<1>6. PICK st \in {"gone", "loop"} : st = IF object.gen = 0 THEN "gone" ELSE "loop"
  OBVIOUS
<1>7. PICK t : t = [session EXCEPT !.step = st, !.gen = g, !.since = n]
  OBVIOUS
<1>8. session' = t
  BY <1>4, <1>5, <1>6, <1>7 DEF Subscribe
<1>9. t \in SessionType
  BY <1>3, <1>7 DEF SessionType
<1>10. t.step = st /\ t.gen = g /\ t.since = n /\ t.off = session.off /\ t.got = session.got
  BY <1>3, <1>7 DEF SessionType
<1>11. t.told = 0
  BY <1>3, <1>7 DEF SessionType
<1>12. \A j \in t.since + 1 .. Len(t.got) : t.got[j].gen = t.gen
  <2>1. \A j \in n + 1 .. n : FALSE
    OBVIOUS
  <2> QED BY <1>4, <1>10, <2>1
<1>13. HasRead(t, object, Len(former), "sse")
  BY <1>3, <1>5, <1>10, <1>12 DEF HasRead
<1>14. StepFits(t, object, "sse", i)
  BY <1>5, <1>6, <1>10 DEF StepFits
<1>15. SessionAt(t, object, former, "sse", i)
  BY <1>9, <1>11, <1>13, <1>14, QuietFits
<1> QED BY <1>2, <1>8, <1>15 DEF Subscribe

\* a request of the client that goes on in another step, or ends
LEMMA GoesOn ==
  ASSUME NEW s \in SessionType, NEW o, NEW old, NEW kind, NEW inherited,
         HasRead(s, o, Len(old), kind), s.told = 0,
         NEW st \in {"idle", "loop", "source", "wait"},
         kind = "poll" => st # "loop", st # "idle" => s.gen # 0,
         st = "source" => s.off < inherited /\ kind # "poll",
         st = "wait" => /\ o.gen = s.gen /\ ~o.closed /\ s.off = Len(o.log)
                        /\ kind = "poll" => ~s.shut,
         NEW t, t = InStep(s, st)
  PROVE  SessionAt(t, o, old, kind, inherited)
<1>1. /\ t \in SessionType /\ HasRead(t, o, Len(old), kind) /\ t.step = st /\ t.told = s.told
      /\ t.off = s.off /\ t.gen = s.gen /\ t.tail = s.tail /\ t.shut = s.shut
  BY InStepFacts
<1>2. StepFits(t, o, kind, inherited)
  BY <1>1 DEF StepFits
<1> QED BY <1>1, <1>2, QuietFits

LEMMA PumpKeeps ==
  ASSUME ReadsInv, Pump
  PROVE  ReadsInv'
<1>1. SUFFICES ASSUME ~omitted
               PROVE  SessionAt(session', object, former, world.kind, Inherited)
  BY ReadStepKeeps DEF Pump
<1>2. PICK i \in Nat : i = Inherited
  BY WorldFacts DEF ReadsInv
<1>3. PICK s : s = session
  OBVIOUS
<1>4. /\ s \in SessionType /\ object \in StreamRow /\ former \in Seq(StreamRow)
      /\ HasRead(s, object, Len(former), world.kind) /\ StepFits(s, object, world.kind, i)
      /\ s.told = 0 /\ s.step = "loop"
  BY <1>1, <1>2, <1>3, FoundFacts DEF Pump
<1>5. world.kind = "sse" /\ s.gen # 0
  BY <1>4, WorldFacts DEF ReadsInv, StepFits
<1>6. HasRead(s, object, Len(former), "sse")
  BY <1>4, <1>5
<1>7. session' = IF object.gen # s.gen THEN InStep(s, "idle")
                 ELSE IF s.off < i THEN InStep(s, "source")
                 ELSE Frame(s, object, ReadStitched(s.off, TailOf(object)))
  BY <1>2, <1>3 DEF Pump, InStep
<1>8. CASE object.gen # s.gen
  <2>1. session' = InStep(s, "idle")
    BY <1>7, <1>8
  <2>2. SessionAt(session', object, former, "sse", i)
    BY <1>4, <1>6, <2>1, GoesOn
  <2> QED BY <1>2, <1>5, <2>2
<1>9. CASE object.gen = s.gen /\ s.off < i
  <2>1. session' = InStep(s, "source")
    BY <1>7, <1>9
  <2>2. SessionAt(session', object, former, "sse", i)
    BY <1>4, <1>5, <1>6, <1>9, <2>1, GoesOn
  <2> QED BY <1>2, <1>5, <2>2
<1>10. CASE object.gen = s.gen /\ ~(s.off < i)
  <2>1. PICK r : r = ReadStitched(s.off, TailOf(object))
    OBVIOUS
  <2>2. session' = Frame(s, object, r)
    BY <1>7, <1>10, <2>1
  <2>3. object.gen # 0 /\ s.off \in Nat
    BY <1>4, <1>5, <1>10 DEF SessionType
  <2>4. GetsTo(r, s.off, Len(object.log))
    BY <2>1, <2>3, StitchedGetsTo DEF ReadsInv
  <2>5. GoodStream(object, i)
    BY <1>2, <2>3 DEF ReadsInv, StreamsOK
  <2>6. SessionAt(session', object, former, "sse", i)
    BY <1>4, <1>6, <1>10, <2>2, <2>3, <2>4, <2>5, FrameFits
  <2> QED BY <1>2, <1>5, <2>6
<1> QED BY <1>8, <1>9, <1>10

LEMMA SourceAnswersKeeps ==
  ASSUME ReadsInv, SourceAnswers
  PROVE  ReadsInv'
<1>1. SUFFICES ASSUME ~omitted, object.gen # 0
               PROVE  SessionAt(session', object, former, world.kind, Inherited)
  BY ReadStepKeeps DEF SourceAnswers
<1>2. PICK i \in Nat : i = Inherited
  BY WorldFacts DEF ReadsInv
<1>3. PICK s : s = session
  OBVIOUS
<1>4. /\ s \in SessionType /\ object \in StreamRow /\ former \in Seq(StreamRow)
      /\ HasRead(s, object, Len(former), world.kind) /\ StepFits(s, object, world.kind, i)
      /\ s.told = 0 /\ s.step = "source"
  BY <1>1, <1>2, <1>3, FoundFacts DEF SourceAnswers
<1>5. PICK r : r = ReadStitched(s.off, TailOf(object))
  OBVIOUS
<1>6. session' = IF world.kind = "poll" THEN AfterRead(s, object, r) ELSE AfterPumpRead(s, object, r)
  BY <1>1, <1>3, <1>5 DEF SourceAnswers
<1>7. s.off \in Nat /\ s.tail \in Nat
  BY <1>4 DEF SessionType
<1>8. GetsTo(r, s.off, Len(object.log))
  BY <1>1, <1>5, <1>7, StitchedGetsTo DEF ReadsInv
<1>9. GoodStream(object, i)
  BY <1>1, <1>2 DEF ReadsInv, StreamsOK
<1>10. CASE world.kind = "poll"
  <2>1. s.off < i /\ i <= s.tail
    BY <1>4, <1>10 DEF StepFits
  <2>2. s.off # s.tail
    BY <1>7, <2>1
  <2>3. session' = Respond(s, object, r)
    BY <1>6, <1>10, <2>2 DEF AfterRead
  <2>4. HasRead(s, object, Len(former), "poll")
    BY <1>4, <1>10
  <2>5. SessionAt(session', object, former, "poll", i)
    BY <1>1, <1>4, <1>8, <1>9, <2>3, <2>4, RespondFits
  <2> QED BY <1>2, <1>10, <2>5
<1>11. CASE world.kind = "sse"
  <2>1. session' = IF object.gen # s.gen THEN InStep(s, "idle") ELSE Frame(s, object, r)
    BY <1>6, <1>11 DEF AfterPumpRead, InStep
  <2>2. HasRead(s, object, Len(former), "sse")
    BY <1>4, <1>11
  <2>3. CASE object.gen # s.gen
    <3>1. session' = InStep(s, "idle")
      BY <2>1, <2>3
    <3>2. SessionAt(session', object, former, "sse", i)
      BY <1>4, <2>2, <3>1, GoesOn
    <3> QED BY <1>2, <1>11, <3>2
  <2>4. CASE object.gen = s.gen
    <3>1. session' = Frame(s, object, r)
      BY <2>1, <2>4
    <3>2. SessionAt(session', object, former, "sse", i)
      BY <1>1, <1>4, <1>8, <1>9, <2>2, <2>4, <3>1, FrameFits
    <3> QED BY <1>2, <1>11, <3>2
  <2> QED BY <2>3, <2>4
<1> QED BY <1>10, <1>11, WorldFacts DEF ReadsInv

LEMMA FrameTakenKeeps ==
  ASSUME ReadsInv, FrameTaken
  PROVE  ReadsInv'
<1>1. SUFFICES ASSUME ~omitted, session.then = "wait" => object.gen \in {0, session.gen}
               PROVE  SessionAt(session', object, former, world.kind, Inherited)
  BY ReadStepKeeps DEF FrameTaken
<1>2. PICK i : i = Inherited
  OBVIOUS
<1>3. PICK s : s = session
  OBVIOUS
<1>4. /\ s \in SessionType /\ object \in StreamRow /\ former \in Seq(StreamRow)
      /\ HasRead(s, object, Len(former), world.kind) /\ StepFits(s, object, world.kind, i)
      /\ s.told = 0 /\ s.step = "write"
  BY <1>1, <1>2, <1>3, FoundFacts DEF FrameTaken
<1>5. world.kind = "sse" /\ s.gen # 0 /\ s.then \in {"loop", "wait"}
  BY <1>4, WorldFacts DEF ReadsInv, StepFits, SessionType
<1>6. HasRead(s, object, Len(former), "sse")
  BY <1>4, <1>5
<1>7. \/ session' = InStep(s, "idle")
      \/ s.then = "loop" /\ session' = InStep(s, "loop")
      \/ s.then = "wait" /\ session' = EnterWait(s, object)
  BY <1>3, <1>5 DEF FrameTaken, InStep
<1>8. CASE session' = InStep(s, "idle")
  <2>1. SessionAt(session', object, former, "sse", i)
    BY <1>4, <1>6, <1>8, GoesOn
  <2> QED BY <1>2, <1>5, <2>1
<1>9. ASSUME session' = InStep(s, "loop")
      PROVE  SessionAt(session', object, former, world.kind, Inherited)
  <2>1. SessionAt(session', object, former, "sse", i)
    BY <1>4, <1>5, <1>6, <1>9, GoesOn
  <2> QED BY <1>2, <1>5, <2>1
<1>10. CASE s.then = "wait" /\ session' = EnterWait(s, object)
  <2>1. object.gen = 0 \/ object.gen = s.gen
    BY <1>1, <1>3, <1>10
  <2>2. CASE object.gen = 0
    <3>1. session' = InStep(s, "loop")
      BY <1>5, <1>10, <2>2 DEF EnterWait, InStep
    <3> QED BY <1>9, <3>1
  <2>3. CASE object.gen = s.gen
    <3>1. PICK l \in Nat : l = Len(object.log)
      BY <1>4 DEF StreamRow
    <3>2. PICK f \in Nat : f = s.off
      BY <1>4 DEF SessionType
    <3>3. f <= l /\ object.gen # 0
      BY <1>4, <1>5, <2>3, <3>1, <3>2 DEF StepFits
    <3>4. CASE f = l /\ object.closed
      <4>1. session' = Over(s, s.gen)
        BY <1>5, <1>10, <3>1, <3>2, <3>3, <3>4 DEF EnterWait, TailOf, Reply, Over
      <4>2. s.off = Len(object.log)
        BY <3>1, <3>2, <3>4
      <4>3. SessionAt(session', object, former, "sse", i)
        BY <1>4, <1>6, <2>3, <3>3, <3>4, <4>1, <4>2, OverFits
      <4> QED BY <1>2, <1>5, <4>3
    <3>5. CASE f = l /\ ~object.closed
      <4>1. s.off = Len(object.log) /\ Len(object.log) <= s.off
        BY <3>1, <3>2, <3>5
      <4>2. session' = InStep(s, "wait")
        BY <1>10, <3>3, <3>5, <4>1 DEF EnterWait, TailOf, InStep
      <4>3. SessionAt(session', object, former, "sse", i)
        BY <1>4, <1>5, <1>6, <2>3, <3>5, <4>1, <4>2, GoesOn
      <4> QED BY <1>2, <1>5, <4>3
    <3>6. CASE f # l
      <4>1. ~(l <= f)
        BY <3>3, <3>6
      <4>2. session' = InStep(s, "loop")
        BY <1>5, <1>10, <3>1, <3>2, <3>6, <4>1 DEF EnterWait, TailOf, InStep
      <4> QED BY <1>9, <4>2
    <3> QED BY <3>4, <3>5, <3>6
  <2> QED BY <2>1, <2>2, <2>3
<1> QED BY <1>7, <1>8, <1>9, <1>10

LEMMA WaitTimesOutKeeps ==
  ASSUME ReadsInv, WaitTimesOut
  PROVE  ReadsInv'
<1>1. SUFFICES ASSUME ~omitted
               PROVE  SessionAt(session', object, former, world.kind, Inherited)
  BY ReadStepKeeps DEF WaitTimesOut
<1>2. PICK i : i = Inherited
  OBVIOUS
<1>3. PICK s : s = session
  OBVIOUS
<1>4. /\ s \in SessionType /\ object \in StreamRow /\ former \in Seq(StreamRow)
      /\ HasRead(s, object, Len(former), world.kind) /\ StepFits(s, object, world.kind, i)
      /\ s.told = 0 /\ s.step = "wait"
  BY <1>1, <1>2, <1>3, FoundFacts DEF WaitTimesOut
<1>5. object.gen = s.gen /\ ~object.closed /\ s.off = Len(object.log) /\ s.gen # 0
  BY <1>4 DEF StepFits
<1>6. CASE world.kind = "poll"
  <2>1. session' = Idle(s)
    BY <1>3, <1>5, <1>6 DEF WaitTimesOut, Reply, Idle
  <2>2. SessionAt(session', object, former, world.kind, i)
    BY <1>4, <2>1, IdleFits
  <2> QED BY <1>2, <2>2
<1>7. CASE world.kind = "sse"
  <2>1. PICK t : t = [s EXCEPT !.step = "write", !.then = "loop"]
    OBVIOUS
  <2>2. session' = t
    BY <1>3, <1>5, <1>7, <2>1 DEF WaitTimesOut
  <2>3. t \in SessionType /\ t.step = "write" /\ t.then = "loop"
    BY <1>4, <2>1 DEF SessionType
  <2>4. t.told = s.told /\ t.got = s.got /\ t.off = s.off /\ t.gen = s.gen /\ t.since = s.since
    BY <1>4, <2>1 DEF SessionType
  <2>5. HasRead(t, object, Len(former), world.kind)
    BY <1>4, <2>4, SameRead
  <2>6. t.off <= Len(object.log)
    <3>1. PICK l \in Nat : l = Len(object.log)
      BY <1>4 DEF StreamRow
    <3> QED BY <1>5, <2>4, <3>1
  <2>7. StepFits(t, object, world.kind, i)
    BY <1>5, <1>7, <2>3, <2>4, <2>6 DEF StepFits
  <2>8. SessionAt(t, object, former, world.kind, i)
    BY <1>4, <2>3, <2>4, <2>5, <2>7, QuietFits
  <2> QED BY <1>2, <2>2, <2>8
<1> QED BY <1>6, <1>7, WorldFacts DEF ReadsInv

\* a request that changes the stream it found, and wakes the client when that is of interest to it
LEMMA WriteKeeps ==
  ASSUME ReadsInv, object.gen # 0, UNCHANGED <<world, former, omitted>>,
         NEW o \in StreamRow, object' = o, Evolves(object, o), GoodStream(o, Inherited),
         \/ session' = Woken(o)
         \/ session' = session /\ Len(o.log) = Len(object.log) /\ o.closed = object.closed
  PROVE  ReadsInv'
<1>1. PICK i \in Nat : i = Inherited
  BY WorldFacts DEF ReadsInv
<1>2. StreamsOK'
  <2>1. o.gen = object.gen
    BY DEF Evolves
  <2>2. Inherited' = Inherited
    BY DEF Inherited
  <2> QED BY <2>1, <2>2 DEF ReadsInv, StreamsOK
<1>3. ASSUME ~omitted
      PROVE  SessionAt(session', o, former, world.kind, i)
  <2>1. CASE session' = Woken(o)
    <3>1. StreamsOK /\ SessionFits /\ Inherited \in Nat /\ world.kind \in {"poll", "sse"}
      BY <1>3, WorldFacts DEF ReadsInv
    <3>2. SessionAt(Woken(o), o, former, world.kind, Inherited)
      BY <3>1, WokenFits
    <3> QED BY <1>1, <2>1, <3>2
  <2>2. CASE session' = session /\ Len(o.log) = Len(object.log) /\ o.closed = object.closed
    <3>1. PICK s : s = session
      OBVIOUS
    <3>2. SessionAt(s, object, former, world.kind, i)
      BY <1>1, <1>3, <3>1 DEF ReadsInv, SessionFits
    <3>3. object \in StreamRow /\ former \in Seq(StreamRow)
      BY DEF ReadsInv, StreamsOK
    <3>4. s.step = "wait" => ~o.closed /\ Len(o.log) = Len(object.log)
      BY <2>2, <3>2 DEF SessionAt, StepFits
    <3>5. SessionAt(s, o, former, world.kind, i)
      BY <3>2, <3>3, <3>4, EvolvesKeeps
    <3> QED BY <2>2, <3>1, <3>5
  <2> QED BY <2>1, <2>2
<1>4. ~omitted' => SessionFits'
  BY <1>1, <1>3 DEF SessionFits, Inherited
<1> QED BY <1>2, <1>4 DEF ReadsInv

Acked(o, id) == [o EXCEPT !.acked = @ \cup {id}]

LEMMA AckedFacts ==
  ASSUME NEW inherited \in Nat, NEW o \in StreamRow, GoodStream(o, inherited), NEW id \in IdsOf(o.log),
         id \in MessageNumber, NEW o2, o2 = Acked(o, id)
  PROVE  /\ o2 \in StreamRow /\ GoodStream(o2, inherited) /\ Evolves(o, o2)
         /\ Len(o2.log) = Len(o.log) /\ o2.closed = o.closed
<1>1. PICK a \in SUBSET MessageNumber : a = o.acked \cup {id}
  BY DEF StreamRow
<1>2. o2 = [o EXCEPT !.acked = a]
  BY <1>1 DEF Acked
<1>3. o2 \in StreamRow
  BY <1>2 DEF StreamRow
<1>4. o2.gen = o.gen /\ o2.log = o.log /\ o2.closed = o.closed
  BY <1>2 DEF StreamRow
<1>5. o2.producer = o.producer /\ o2.closedBy = o.closedBy /\ o2.acked = a /\ o2.aged = o.aged
  BY <1>2 DEF StreamRow
<1>6. a \subseteq IdsOf(o.log)
  BY <1>1 DEF GoodStream
<1>7. GoodStream(o2, inherited) /\ Evolves(o, o2)
  BY <1>3, <1>4, <1>5, <1>6, ClosedGood
<1> QED BY <1>3, <1>4, <1>7

\* the row of an accepted message
Posted(o, id) == [CommitProducerState(AppendMessage(o, id), id) EXCEPT !.acked = @ \cup {id}]
PostedLast(o, id) ==
  [SetClosed(CommitProducerState(AppendMessage(o, id), id), id) EXCEPT !.acked = @ \cup {id}]

HasPosted(o, o2, id) ==
  /\ o2 \in StreamRow /\ o2.gen = o.gen /\ o2.log = Append(o.log, id)
  /\ o2.producer = [epoch |-> id[1], lastSeq |-> id[2]]
  /\ o2.closedBy = o.closedBy \/ o2.closedBy = id
  /\ o2.acked = o.acked \cup {id} /\ o2.aged = o.aged

LEMMA PostedFacts ==
  ASSUME NEW o \in StreamRow, NEW id \in MessageNumber,
         NEW o2, o2 = Posted(o, id) \/ o2 = PostedLast(o, id)
  PROVE  HasPosted(o, o2, id)
<1>1. PICK L \in Seq(MessageNumber) : L = Append(o.log, id)
  <2>1. PICK q \in Seq(MessageNumber) : q = o.log
    BY DEF StreamRow
  <2>2. Append(q, id) \in Seq(MessageNumber)
    OBVIOUS
  <2> QED BY <2>1, <2>2
<1>2. PICK p \in [epoch : Int, lastSeq : Int] : p = [epoch |-> id[1], lastSeq |-> id[2]]
  BY DEF MessageNumber
<1>3. PICK a \in SUBSET MessageNumber : a = o.acked \cup {id}
  BY DEF StreamRow
<1>4. PICK u : u = [o EXCEPT !.log = L, !.producer = p]
  OBVIOUS
<1>5. u \in StreamRow
  BY <1>4 DEF StreamRow
<1>6. /\ u.gen = o.gen /\ u.log = L /\ u.producer = p /\ u.closedBy = o.closedBy
      /\ u.acked = o.acked /\ u.aged = o.aged
  BY <1>4 DEF StreamRow
<1>7. CommitProducerState(AppendMessage(o, id), id) = u
  <2>1. AppendMessage(o, id) = [o EXCEPT !.log = L]
    BY <1>1 DEF AppendMessage
  <2>2. CommitProducerState(AppendMessage(o, id), id) = [[o EXCEPT !.log = L] EXCEPT !.producer = p]
    BY <1>2, <2>1 DEF CommitProducerState
  <2>3. [[o EXCEPT !.log = L] EXCEPT !.producer = p] = u
    BY <1>4 DEF StreamRow
  <2> QED BY <2>2, <2>3
<1>8. PICK v : /\ o2 = [v EXCEPT !.acked = v.acked \cup {id}]
               /\ v = u \/ v = [u EXCEPT !.closed = TRUE, !.closedBy = id]
  BY <1>7 DEF Posted, PostedLast, SetClosed
<1>9. /\ v \in StreamRow /\ v.gen = u.gen /\ v.log = u.log /\ v.producer = u.producer
      /\ v.acked = u.acked /\ v.aged = u.aged
  BY <1>5, <1>8 DEF StreamRow
<1>10. v.closedBy = o.closedBy \/ v.closedBy = id
  BY <1>5, <1>6, <1>8 DEF StreamRow
<1>11. o2 = [v EXCEPT !.acked = a]
  <2>1. v.acked \cup {id} = a
    BY <1>3, <1>6, <1>9
  <2> QED BY <1>8, <2>1
<1>12. o2 \in StreamRow
  BY <1>9, <1>11 DEF StreamRow
<1>13. o2.gen = v.gen /\ o2.log = v.log /\ o2.producer = v.producer
  BY <1>9, <1>11 DEF StreamRow
<1>14. o2.closedBy = v.closedBy /\ o2.acked = a /\ o2.aged = v.aged
  BY <1>9, <1>11 DEF StreamRow
<1> QED BY <1>1, <1>2, <1>3, <1>6, <1>9, <1>10, <1>12, <1>13, <1>14 DEF HasPosted

\* the row of a stream that is closed by a request that stores nothing
LEMMA ShutFacts ==
  ASSUME NEW inherited \in Nat, NEW o \in StreamRow, GoodStream(o, inherited),
         NEW p \in [epoch : Int, lastSeq : Int],
         \A x \in MessageNumbers : Passed(o.producer, x) => Passed(p, x),
         NEW by \in MessageNumber, by = o.closedBy \/ by \notin MessageNumbers,
         NEW o2, o2 = [o EXCEPT !.producer = p, !.closed = TRUE, !.closedBy = by]
  PROVE  o2 \in StreamRow /\ GoodStream(o2, inherited) /\ Evolves(o, o2)
<1>1. o2 \in StreamRow
  BY DEF StreamRow
<1>2. o2.gen = o.gen /\ o2.log = o.log /\ o2.closed
  BY DEF StreamRow
<1>3. o2.producer = p /\ o2.closedBy = by /\ o2.acked = o.acked /\ o2.aged = o.aged
  BY DEF StreamRow
<1>4. o2.acked \subseteq IdsOf(o.log)
  BY <1>3 DEF GoodStream
<1>5. GoodStream(o2, inherited) /\ Evolves(o, o2)
  BY <1>1, <1>2, <1>3, <1>4, ClosedGood
<1> QED BY <1>1, <1>5

LEMMA PostKeeps ==
  ASSUME ReadsInv, NEW w \in MessageNumbers, NEW closes, Post(w[1], w[2], closes)
  PROVE  ReadsInv'
<1>1. PICK i \in Nat : i = Inherited
  BY WorldFacts DEF ReadsInv
<1>2. object \in StreamRow /\ object.gen # 0 /\ GoodStream(object, i)
  BY <1>1 DEF ReadsInv, StreamsOK, Post
<1>3. PICK e \in Int : e = w[1]
  <2>1. w[1] \in Int
    BY NumberFacts
  <2> QED BY <2>1
<1>4. PICK n \in Int : n = w[2]
  <2>1. w[2] \in Int
    BY NumberFacts
  <2> QED BY <2>1
<1>5. w = <<e, n>> /\ w \in MessageNumber
  BY <1>3, <1>4, NumberFacts
<1>6. PICK p \in [epoch : Int, lastSeq : Int] : p = object.producer
  BY <1>2 DEF StreamRow
<1>7. PICK answer : answer = ValidateObjectProducer(p, e, n)
  OBVIOUS
<1>8. UNCHANGED <<world, former, omitted>>
  BY DEF Post
<1>9. \/ object.closed /\ object.closedBy = w /\ object' = Acked(object, w) /\ session' = session
      \/ ~object.closed /\ ProducerFailureResponse(answer, e, n)
      \/ ~object.closed /\ answer = "accepted" /\ CommitPost(e, n, closes)
  BY <1>3, <1>4, <1>5, <1>6, <1>7 DEF Post, Acked
<1>10. ASSUME w \in IdsOf(object.log), object' = Acked(object, w), session' = session
       PROVE  ReadsInv'
  <2>1. PICK o : o = Acked(object, w)
    OBVIOUS
  <2>2. /\ o \in StreamRow /\ GoodStream(o, i) /\ Evolves(object, o)
        /\ Len(o.log) = Len(object.log) /\ o.closed = object.closed
    BY <1>2, <1>5, <1>10, <2>1, AckedFacts
  <2>3. GoodStream(o, Inherited) /\ object' = o
    BY <1>1, <1>10, <2>1, <2>2
  <2> QED BY <1>2, <1>8, <1>10, <2>2, <2>3, WriteKeeps
<1>11. CASE object.closed /\ object.closedBy = w /\ object' = Acked(object, w) /\ session' = session
  <2>1. w \in IdsOf(object.log)
    BY <1>2, <1>11 DEF GoodStream
  <2> QED BY <1>10, <1>11, <2>1
<1>12. CASE ~object.closed /\ ProducerFailureResponse(answer, e, n)
  <2>1. session' = session
    BY <1>12 DEF ProducerFailureResponse
  <2>2. CASE answer = "duplicate"
    <3>1. e = p.epoch /\ n <= p.lastSeq
      BY <1>7, <2>2, DuplicateFacts
    <3>2. w \in IdsOf(object.log)
      BY <1>2, <1>3, <1>4, <1>6, <1>12, <3>1 DEF GoodStream
    <3>3. object' = Acked(object, w)
      BY <1>5, <1>12, <2>2 DEF ProducerFailureResponse, Acked
    <3> QED BY <1>10, <2>1, <3>2, <3>3
  <2>3. CASE answer # "duplicate"
    <3>1. object' = [object EXCEPT !.acked = object.acked]
      BY <1>12, <2>3 DEF ProducerFailureResponse
    <3>2. object' = object
      BY <1>2, <3>1 DEF StreamRow
    <3>3. Evolves(object, object) /\ GoodStream(object, Inherited)
      <4>1. PICK l \in Nat : l = Len(object.log)
        BY <1>2 DEF StreamRow
      <4> QED BY <1>1, <1>2, <4>1 DEF Evolves
    <3> QED BY <1>2, <1>8, <2>1, <3>2, <3>3, WriteKeeps
  <2> QED BY <2>2, <2>3
<1>13. CASE ~object.closed /\ answer = "accepted" /\ CommitPost(e, n, closes)
  <2>1. PICK o : o = object'
    OBVIOUS
  <2>2. object' = o /\ session' = Woken(o)
    BY <1>13, <2>1 DEF CommitPost
  <2>3. /\ o \in StreamRow /\ o.gen = object.gen /\ o.log = Append(object.log, w)
        /\ o.producer = [epoch |-> e, lastSeq |-> n]
        /\ o.closedBy = object.closedBy \/ o.closedBy = w
        /\ o.acked = object.acked \cup {w} /\ o.aged = object.aged
    <3>1. o = Posted(object, w) \/ o = PostedLast(object, w)
      BY <1>5, <1>13, <2>1 DEF CommitPost, Posted, PostedLast
    <3>2. HasPosted(object, o, w)
      BY <1>2, <1>5, <3>1, PostedFacts
    <3> QED BY <1>3, <1>4, <3>2 DEF HasPosted
  <2>4. ValidateObjectProducer(object.producer, e, n) = "accepted"
    BY <1>6, <1>7, <1>13
  <2>5. GoodStream(o, i) /\ Evolves(object, o)
    BY <1>2, <1>5, <1>13, <2>3, <2>4, PostedGood
  <2>6. GoodStream(o, Inherited)
    BY <1>1, <2>5
  <2> QED BY <1>2, <1>8, <2>2, <2>3, <2>5, <2>6, WriteKeeps
<1> QED BY <1>9, <1>11, <1>12, <1>13

LEMMA CloseOnlyKeeps ==
  ASSUME ReadsInv, CloseOnly
  PROVE  ReadsInv'
<1>1. PICK i \in Nat : i = Inherited
  BY WorldFacts DEF ReadsInv
<1>2. object \in StreamRow /\ object.gen # 0 /\ GoodStream(object, i)
  BY <1>1 DEF ReadsInv, StreamsOK, CloseOnly
<1>3. PICK p \in [epoch : Int, lastSeq : Int] : p = object.producer
  BY <1>2 DEF StreamRow
<1>4. PICK by \in MessageNumber : by = object.closedBy
  BY <1>2 DEF StreamRow
<1>5. PICK o : o = [object EXCEPT !.producer = p, !.closed = TRUE, !.closedBy = by]
  OBVIOUS
<1>6. SetClosed(object, object.closedBy) = o
  BY <1>2, <1>3, <1>4, <1>5 DEF SetClosed, StreamRow
<1>7. object' = o /\ session' = Woken(o) /\ UNCHANGED <<world, former, omitted>>
  BY <1>6 DEF CloseOnly
<1>8. o \in StreamRow /\ GoodStream(o, i) /\ Evolves(object, o)
  BY <1>2, <1>3, <1>4, <1>5, ShutFacts
<1>9. GoodStream(o, Inherited)
  BY <1>1, <1>8
<1> QED BY <1>2, <1>7, <1>8, <1>9, WriteKeeps

LEMMA CloseOnlyAsKeeps ==
  ASSUME ReadsInv, NEW w \in CloseNumbers, CloseOnlyAs(w[1], w[2])
  PROVE  ReadsInv'
<1>1. PICK i \in Nat : i = Inherited
  BY WorldFacts DEF ReadsInv
<1>2. object \in StreamRow /\ object.gen # 0 /\ GoodStream(object, i)
  BY <1>1 DEF ReadsInv, StreamsOK, CloseOnlyAs
<1>3. PICK e \in Int : e = w[1]
  <2>1. w[1] \in Int
    BY NumberFacts
  <2> QED BY <2>1
<1>4. PICK n \in Int : n = w[2]
  <2>1. w[2] \in Int
    BY NumberFacts
  <2> QED BY <2>1
<1>5. w = <<e, n>> /\ w \in MessageNumber /\ w \notin MessageNumbers
  BY <1>3, <1>4, NumberFacts
<1>6. PICK p \in [epoch : Int, lastSeq : Int] : p = object.producer
  BY <1>2 DEF StreamRow
<1>7. PICK q \in [epoch : Int, lastSeq : Int] : q = [epoch |-> e, lastSeq |-> n]
  OBVIOUS
<1>8. ValidateObjectProducer(p, e, n) = "accepted"
  BY <1>3, <1>4, <1>6 DEF CloseOnlyAs
<1>9. \A x \in MessageNumbers : Passed(p, x) => Passed(q, x)
  BY <1>5, <1>7, <1>8, AcceptedFacts
<1>10. PICK o : o = [object EXCEPT !.producer = q, !.closed = TRUE, !.closedBy = w]
  OBVIOUS
<1>11. SetClosed(CommitProducerState(object, w), w) = o
  <2>1. CommitProducerState(object, w) = [object EXCEPT !.producer = q]
    BY <1>3, <1>4, <1>7 DEF CommitProducerState
  <2> QED BY <1>2, <1>10, <2>1 DEF SetClosed, StreamRow
<1>12. object' = o /\ session' = Woken(o) /\ UNCHANGED <<world, former, omitted>>
  BY <1>3, <1>4, <1>5, <1>11 DEF CloseOnlyAs
<1>13. o \in StreamRow /\ GoodStream(o, i) /\ Evolves(object, o)
  BY <1>2, <1>5, <1>6, <1>9, <1>10, ShutFacts
<1>14. GoodStream(o, Inherited)
  BY <1>1, <1>13
<1> QED BY <1>2, <1>12, <1>13, <1>14, WriteKeeps

\* A producer's state that is deleted: the messages stored so far are behind the place where it was lost.
LEMMA ProducerAgesKeeps ==
  ASSUME ReadsInv, ProducerAges
  PROVE  ReadsInv'
<1>1. PICK inherited \in Nat : inherited = Inherited
  BY WorldFacts DEF ReadsInv
<1>2. PICK o \in StreamRow : o = object
  BY DEF ReadsInv, StreamsOK
<1>3. o.gen # 0 /\ GoodStream(o, inherited)
  BY <1>1, <1>2 DEF ReadsInv, StreamsOK, ProducerAges
<1>4. PICK p \in [epoch : Int, lastSeq : Int] : p = NoProducer
  <2>1. NoProducer \in [epoch : Int, lastSeq : Int]
    BY DEF NoProducer
  <2> QED BY <2>1
<1>5. PICK l \in Nat : l = Len(o.log)
  BY DEF StreamRow
<1>6. PICK A \in SUBSET Nat : A = o.aged
  BY DEF StreamRow
<1>7. PICK B \in SUBSET Nat : B = A \cup {l}
  OBVIOUS
<1>8. PICK o2 : o2 = [o EXCEPT !.producer = p, !.aged = B]
  OBVIOUS
<1>9. object' = o2 /\ UNCHANGED <<world, former, session, omitted>>
  BY <1>2, <1>4, <1>5, <1>6, <1>7, <1>8 DEF ProducerAges, TailOf
<1>10. o2 \in StreamRow
  BY <1>8 DEF StreamRow
<1>11. o2.gen = o.gen /\ o2.log = o.log /\ o2.closed = o.closed
  BY <1>8 DEF StreamRow
<1>12. o2.closedBy = o.closedBy /\ o2.acked = o.acked /\ o2.producer = p /\ o2.aged = B
  BY <1>8 DEF StreamRow
<1>13. /\ l >= inherited /\ \A t \in B : t <= l
       /\ \A i \in 1 .. l - 1 : o.log[i] # o.log[i + 1] \/ i \in B
  BY <1>3, <1>5, <1>6, <1>7 DEF GoodStream
<1>14. \A i \in 1 .. l : IF i <= inherited THEN o.log[i] = <<-1, i>>
                         ELSE /\ o.log[i] \in MessageNumbers
                              /\ (\A t \in B : t < i) => Passed(p, o.log[i])
  <2>1. ASSUME NEW i \in 1 .. l PROVE ~(\A t \in B : t < i)
    BY <1>7
  <2>2. \A i \in 1 .. l : IF i <= inherited THEN o.log[i] = <<-1, i>> ELSE o.log[i] \in MessageNumbers
    BY <1>3, <1>5 DEF GoodStream
  <2> QED BY <2>1, <2>2
<1>15. \A id \in MessageNumbers : id[1] # p.epoch
  <2>1. p.epoch = -1
    BY <1>4 DEF NoProducer
  <2> QED BY <2>1, NumberFacts
<1>16. /\ o.closedBy \in MessageNumbers => o.closedBy \in IdsOf(o.log)
       /\ o.acked \subseteq IdsOf(o.log)
  BY <1>3 DEF GoodStream
<1>17. GoodStream(o2, inherited)
  BY <1>5, <1>11, <1>12, <1>13, <1>14, <1>15, <1>16 DEF GoodStream
<1>18. Evolves(o, o2)
  BY <1>5, <1>11 DEF Evolves
<1> QED BY <1>1, <1>2, <1>3, <1>9, <1>10, <1>11, <1>17, <1>18, WriteKeeps

LEMMA DeleteObjectKeeps ==
  ASSUME ReadsInv, DeleteObject
  PROVE  ReadsInv'
<1>1. PICK i \in Nat : i = Inherited
  BY WorldFacts DEF ReadsInv
<1>2. /\ object \in StreamRow /\ former \in Seq(StreamRow) /\ object.gen = Len(former) + 1
      /\ GoodStream(object, i) /\ \A g \in 1 .. Len(former) : GoodStream(former[g], i)
  BY <1>1 DEF ReadsInv, StreamsOK, DeleteObject
<1>3. PICK old : old = Append(former, object)
  OBVIOUS
<1>4. PICK n \in Nat : n = Len(former)
  BY <1>2
<1>5. old \in Seq(StreamRow) /\ Len(old) = n + 1 /\ old[n + 1] = object /\ \A g \in 1 .. n : old[g] = former[g]
  BY <1>2, <1>3, <1>4
<1>6. \A g \in 1 .. Len(old) : GoodStream(old[g], i)
  <2>1. SUFFICES ASSUME NEW g \in 1 .. n + 1
                 PROVE  GoodStream(old[g], i)
    BY <1>5
  <2>2. CASE g = n + 1
    BY <1>2, <1>5, <2>2
  <2>3. CASE g # n + 1
    <3>1. g \in 1 .. n
      BY <2>3
    <3> QED BY <1>2, <1>4, <1>5, <3>1
  <2> QED BY <2>2, <2>3
<1>7. PICK none : none = NoObject
  OBVIOUS
<1>8. none \in StreamRow /\ none.gen = 0 /\ Len(none.log) = 0 /\ ~none.closed
  BY <1>1, <1>7, NoObjectFacts
<1>9. /\ object' = none /\ former' = old /\ session' = Woken(NoObject)
      /\ UNCHANGED <<world, omitted>> /\ Inherited' = i
  BY <1>1, <1>3, <1>7 DEF DeleteObject, Inherited
<1>10. Len(old) > 0 /\ world \in ReadSetups
  BY <1>5 DEF ReadsInv, StreamsOK
<1>11. StreamsOK'
  BY <1>5, <1>6, <1>8, <1>9, <1>10 DEF StreamsOK
<1>12. ASSUME ~omitted
       PROVE  SessionAt(session', none, old, world.kind, i)
  <2>1. StreamsOK /\ SessionFits /\ Inherited \in Nat /\ world.kind \in {"poll", "sse"} /\ object.gen # 0
    BY <1>12, WorldFacts DEF ReadsInv, DeleteObject
  <2>2. SessionAt(Woken(NoObject), NoObject, old, world.kind, Inherited)
    BY <1>3, <2>1, WokenByDeletion
  <2> QED BY <1>1, <1>7, <1>9, <2>2
<1>13. ~omitted' => SessionFits'
  BY <1>9, <1>12 DEF SessionFits
<1> QED BY <1>11, <1>13 DEF ReadsInv

LEMMA CreateObjectKeeps ==
  ASSUME ReadsInv, CreateObject
  PROVE  ReadsInv'
<1>1. PICK i \in Nat : i = Inherited
  BY WorldFacts DEF ReadsInv
<1>2. /\ object \in StreamRow /\ former \in Seq(StreamRow) /\ object.gen = 0 /\ Len(former) > 0
      /\ world \in ReadSetups /\ \A g \in 1 .. Len(former) : GoodStream(former[g], i)
  BY <1>1 DEF ReadsInv, StreamsOK, CreateObject
<1>3. PICK g \in Nat : g = Len(former) + 1 /\ g # 0
  <2>1. PICK n \in Nat : n = Len(former)
    BY <1>2
  <2>2. n + 1 \in Nat /\ n + 1 # 0
    OBVIOUS
  <2> QED BY <2>1, <2>2
<1>4. PICK o : o = Newborn(g)
  OBVIOUS
<1>5. o \in StreamRow /\ o.gen = g /\ GoodStream(o, i)
  <2>1. Inherited \in Nat
    BY <1>1
  <2>2. o \in StreamRow /\ o.gen = g /\ GoodStream(o, Inherited)
    BY <1>4, <2>1, NewbornGood
  <2> QED BY <1>1, <2>2
<1>6. object' = o /\ UNCHANGED <<world, former, session, omitted>> /\ Inherited' = i
  BY <1>1, <1>3, <1>4 DEF CreateObject, Inherited
<1>7. StreamsOK'
  BY <1>2, <1>3, <1>5, <1>6 DEF StreamsOK
<1>8. ASSUME ~omitted
      PROVE  SessionAt(session', o, former, world.kind, i)
  <2>1. SessionAt(session, object, former, world.kind, i)
    BY <1>1, <1>8 DEF ReadsInv, SessionFits
  <2>2. SessionAt(session, o, former, world.kind, i)
    BY <1>2, <1>3, <1>5, <2>1, CreatedKeeps
  <2> QED BY <1>6, <2>2
<1>9. ~omitted' => SessionFits'
  BY <1>6, <1>8 DEF SessionFits
<1> QED BY <1>7, <1>9 DEF ReadsInv

LEMMA ReadsInitInv ==
  ASSUME ReadsInit
  PROVE  ReadsInv
<1>1. PICK i \in Nat : i = Inherited
  BY ReadsAssumption DEF ReadsInit, Inherited
<1>2. PICK o : o = object
  OBVIOUS
<1>3. o \in StreamRow /\ o.gen = 1 /\ GoodStream(o, Inherited)
  <2>1. Inherited \in Nat /\ o = Newborn(1)
    BY <1>1, <1>2 DEF ReadsInit
  <2> QED BY <2>1, NewbornGood
<1>4. former \in Seq(StreamRow) /\ Len(former) = 0
  BY DEF ReadsInit
<1>5. StreamsOK
  BY <1>2, <1>3, <1>4 DEF StreamsOK, ReadsInit
<1>6. PICK got \in Seq(Item) : got = <<>>
  <2>1. <<>> \in Seq(Item)
    OBVIOUS
  <2> QED BY <2>1
<1>7. Len(got) = 0
  BY <1>6
<1>8. session = [step |-> "idle", off |-> 0, got |-> got, gen |-> 0, tail |-> 0, shut |-> FALSE,
                 then |-> "idle", told |-> 0, since |-> 0]
  BY <1>6 DEF ReadsInit, Start
<1>9. session \in SessionType
  BY <1>8 DEF SessionType
<1>10. /\ session.step = "idle" /\ session.off = 0 /\ session.got = got /\ session.gen = 0
       /\ session.told = 0 /\ session.since = 0
  BY <1>8
<1>11. HasRead(session, object, Len(former), world.kind)
  <2>1. PICK l \in Nat : l = Len(object.log)
    BY <1>2, <1>3 DEF StreamRow
  <2> QED BY <1>4, <1>7, <1>10, <2>1 DEF HasRead, Consecutive
<1>12. StepFits(session, object, world.kind, Inherited)
  BY <1>10 DEF StepFits
<1>13. SessionFits
  BY <1>9, <1>10, <1>11, <1>12, QuietFits DEF SessionFits
<1> QED BY <1>5, <1>13 DEF ReadsInv

LEMMA InvInOrder ==
  ASSUME ReadsInv
  PROVE  SessionInOrder
<1>1. SUFFICES ASSUME ~omitted
               PROVE  /\ Consecutive(session.got)
                      /\ world.kind = "sse" =>
                           \A i, j \in session.since + 1 .. Len(session.got) : session.got[i].gen = session.got[j].gen
                      /\ session.told # 0 =>
                           LET o == Generation(session.told)
                           IN /\ o.closed /\ session.off = TailOf(o)
                              /\ session.told = 1 =>
                                   o.acked \subseteq {session.got[i].id : i \in DOMAIN session.got}
  BY DEF SessionInOrder
<1>2. /\ session \in SessionType /\ HasRead(session, object, Len(former), world.kind)
      /\ ToldRight(session, object, former)
  BY <1>1 DEF ReadsInv, SessionFits, SessionAt
<1>3. Consecutive(session.got)
  BY <1>2 DEF HasRead
<1>4. world.kind = "sse" =>
        \A i, j \in session.since + 1 .. Len(session.got) : session.got[i].gen = session.got[j].gen
  BY <1>2 DEF HasRead
<1>5. ASSUME session.told # 0, NEW o, o = Generation(session.told)
      PROVE  /\ o.closed /\ session.off = TailOf(o)
             /\ session.told = 1 => o.acked \subseteq {session.got[i].id : i \in DOMAIN session.got}
  <2>1. o = IF session.told = object.gen THEN object ELSE former[session.told]
    BY <1>5 DEF Generation
  <2>2. /\ session.told = object.gen \/ session.told \in 1 .. Len(former)
        /\ o.closed /\ session.off = Len(o.log)
        /\ session.told = 1 =>
             \A id \in IdsOf(o.log) : \E i \in 1 .. Len(session.got) : session.got[i].id = id
    BY <1>2, <1>5, <2>1 DEF ToldRight
  <2>3. GoodStream(o, Inherited)
    <3>1. CASE session.told = object.gen
      BY <1>5, <2>1, <3>1 DEF ReadsInv, StreamsOK
    <3>2. CASE session.told # object.gen
      BY <2>1, <2>2, <3>2 DEF ReadsInv, StreamsOK
    <3> QED BY <3>1, <3>2
  <2>4. o.acked \subseteq IdsOf(o.log)
    BY <2>3 DEF GoodStream
  <2>5. DOMAIN session.got = 1 .. Len(session.got)
    BY <1>2 DEF SessionType
  <2>6. session.told = 1 => o.acked \subseteq {session.got[i].id : i \in DOMAIN session.got}
    BY <2>2, <2>4, <2>5
  <2> QED BY <2>2, <2>6 DEF TailOf
<1> QED BY <1>3, <1>4, <1>5

\* A client of the Cloudflare server, over long-polls or SSE, gets the messages of a generation in order and
\* once, unless the producer's state was lost to age between a message and its retry; it is told that a stream
\* is closed only when it is at its end and, if the path was never deleted, has all that was acknowledged;
\* whatever the sizes, the budget, the number of deletions and the order of requests (handleGet, pumpSse,
\* readStitched, waitForMessages, handlePost, handleCloseOnly, handleDelete).
THEOREM SessionsStayInOrder == ReadsSpec => []SessionInOrder
<1>1. ReadsInit => ReadsInv
  BY ReadsInitInv
<1>2. ReadsInv /\ [ReadsNext]_readVars => ReadsInv'
  <2>1. SUFFICES ASSUME ReadsInv, [ReadsNext]_readVars
                 PROVE  ReadsInv'
    OBVIOUS
  <2>2. CASE UNCHANGED readVars
    BY <2>1, <2>2 DEF readVars, ReadsInv, StreamsOK, SessionFits, Inherited
  <2>3. CASE Get
    BY <2>1, <2>3, GetKeeps
  <2>4. CASE Subscribe
    BY <2>1, <2>4, SubscribeKeeps
  <2>5. CASE Pump
    BY <2>1, <2>5, PumpKeeps
  <2>6. CASE SourceAnswers
    BY <2>1, <2>6, SourceAnswersKeeps
  <2>7. CASE FrameTaken
    BY <2>1, <2>7, FrameTakenKeeps
  <2>8. CASE WaitTimesOut
    BY <2>1, <2>8, WaitTimesOutKeeps
  <2>9. CASE \E w \in MessageNumbers : \E closes \in BOOLEAN : Post(w[1], w[2], closes)
    BY <2>1, <2>9, PostKeeps
  <2>10. CASE \E w \in CloseNumbers : CloseOnlyAs(w[1], w[2])
    BY <2>1, <2>10, CloseOnlyAsKeeps
  <2>11. CASE CloseOnly
    BY <2>1, <2>11, CloseOnlyKeeps
  <2>12. CASE DeleteObject
    BY <2>1, <2>12, DeleteObjectKeeps
  <2>13. CASE CreateObject
    BY <2>1, <2>13, CreateObjectKeeps
  <2>14. CASE ProducerAges
    BY <2>1, <2>14, ProducerAgesKeeps
  <2> QED
    BY <2>1, <2>2, <2>3, <2>4, <2>5, <2>6, <2>7, <2>8, <2>9, <2>10, <2>11, <2>12, <2>13, <2>14 DEF ReadsNext
<1>3. ReadsInv => SessionInOrder
  BY InvInOrder
<1> QED BY <1>1, <1>2, <1>3, PTL DEF ReadsSpec
=============================================================================
