---------------------------- MODULE StreamObject ----------------------------
(***************************************************************************)
(* The Durable Objects of the Cloudflare server and the references forks   *)
(* hold on their sources (server-cloudflare/src/stream-object.ts and       *)
(* store.ts).  Every path is an object of its own with its own SQLite      *)
(* tables: the meta row, the fork edges other paths hold on it, its        *)
(* intents to acquire an edge and the releases it still owes.  Objects     *)
(* talk through RPCs that may fail before or after they took effect; an    *)
(* object may lose its memory (and the handlers it was running) at any     *)
(* await, and its alarm is delivered at least once.                        *)
(*                                                                         *)
(* Code between two awaits that are not storage operations is one step:    *)
(* the input gate of a Durable Object delivers no event while a storage    *)
(* operation runs, and its writes are committed together.                  *)
(***************************************************************************)
EXTENDS Naturals, FiniteSets

CONSTANTS Paths,        \* stream paths, one Durable Object each
          Plain,        \* paths that plain PUTs name
          Forks,        \* the pairs <<path, source>> that fork PUTs name
          Mortal,       \* paths whose streams have a lifetime
          MaxPuts,      \* PUT requests; the n-th one is also the source of fresh ids
          MaxFaults     \* failing calls and lost objects

ASSUME ObjectAssumption == MaxPuts \in Nat \ {0} /\ MaxFaults \in Nat

VARIABLES meta,         \* the meta row of each path, or NoMeta
          edges,        \* fork_edges: the ids of the references held on each path
          intents,      \* fork_intents: acquisitions begun and not yet settled
          releases,     \* gc_releases: references still to be released
          alarm,        \* is an alarm pending for the object?
          jobs,         \* the handlers waiting at an await
          puts,         \* PUT requests so far
          faults        \* faults so far

objectVars == <<meta, edges, intents, releases, alarm, jobs, puts, faults>>

NoPath == "no path"

Row(gen, parent, edge, srcGen) ==
  [gen |-> gen, forkedFrom |-> parent, edge |-> edge, srcGen |-> srcGen,
   softDeleted |-> FALSE, expired |-> FALSE]

NoMeta == Row(0, NoPath, 0, 0)

Exists(p) == meta[p] # NoMeta

(***************************************************************************)
(* A handler waiting at an await.  "todo" holds the edges it has still to  *)
(* deal with, "call" the one it deals with now; "step" is where it waits:  *)
(* for the fork create lock, before its next call, for the other object to *)
(* run the call, or for the answer (the generation of the source, 0 when   *)
(* the source refuses).  The handler of an alarm has the id 0.             *)
(***************************************************************************)
Edge(edge, parent, gen) == [edge |-> edge, parent |-> parent, gen |-> gen]

Job(kind, p, id, todo, step) ==
  [kind |-> kind, at |-> p, id |-> id, todo |-> todo, step |-> step,
   call |-> Edge(0, p, 0), answer |-> 0, locks |-> FALSE]

\* withForkCreateLock: the creation of forks and the reconciliation of intents exclude each other
LockFree(p) == \A j \in jobs : j.at = p => ~j.locks

Becomes(j, k) == jobs' = (jobs \ {j}) \cup {k}

(***************************************************************************)
(* Purging and releasing.  flushGcReleases arms the retry alarm before its *)
(* first call; a handler that has nothing to deliver is over.              *)
(***************************************************************************)
FlushJob(p, id, owed) == IF owed = {} THEN {} ELSE {Job("flush", p, id, owed, "next")}

\* A mutant: the alarm is armed only once a delivery has failed.
PurgeUnarmed(p, others) ==
  LET m    == meta[p]
      owed == releases[p] \cup (IF m.forkedFrom = NoPath THEN {}
                                ELSE {Edge(m.edge, m.forkedFrom, m.srcGen)})
  IN /\ meta' = [meta EXCEPT ![p] = NoMeta]
     /\ edges' = [edges EXCEPT ![p] = {}]
     /\ releases' = [releases EXCEPT ![p] = owed]
     /\ alarm' = [alarm EXCEPT ![p] = FALSE]
     /\ jobs' = others \cup FlushJob(p, m.gen, owed)

\* purgeStream: the tables are emptied, intents and releases stay; the release of the stream's own edge
\* is queued and the queue delivered
Purge(p, others) ==
  LET m    == meta[p]
      owed == releases[p] \cup (IF m.forkedFrom = NoPath THEN {}
                                ELSE {Edge(m.edge, m.forkedFrom, m.srcGen)})
  IN /\ meta' = [meta EXCEPT ![p] = NoMeta]
     /\ edges' = [edges EXCEPT ![p] = {}]
     /\ releases' = [releases EXCEPT ![p] = owed]
     /\ alarm' = [alarm EXCEPT ![p] = owed # {}]
     /\ jobs' = others \cup FlushJob(p, m.gen, owed)

\* deleting a stream that forks refer to keeps its data for them
Retire(p) ==
  \/ /\ edges[p] # {} /\ ~meta[p].softDeleted
     /\ meta' = [meta EXCEPT ![p].softDeleted = TRUE]
     /\ UNCHANGED <<edges, releases, alarm, jobs>>
  \/ edges[p] = {} /\ Purge(p, jobs)

(***************************************************************************)
(* Requests.                                                               *)
(***************************************************************************)
\* a plain PUT on a free path; it does not wait for the create lock
PutPlain(p) ==
  /\ puts < MaxPuts /\ ~Exists(p) /\ p \in Plain
  /\ puts' = puts + 1
  /\ meta' = [meta EXCEPT ![p] = Row(puts + 1, NoPath, 0, 0)]
  /\ UNCHANGED <<edges, intents, releases, alarm, jobs, faults>>

\* a PUT with Stream-Forked-From: the path was free when it was looked up, the rest waits for the lock
PutFork(p, s) ==
  /\ puts < MaxPuts /\ ~Exists(p) /\ <<p, s>> \in Forks /\ s # p
  /\ puts' = puts + 1
  /\ jobs' = jobs \cup {Job("create", p, puts + 1, {Edge(puts + 1, s, 0)}, "lock")}
  /\ UNCHANGED <<meta, edges, intents, releases, alarm, faults>>

DeletePath(p) ==
  /\ Exists(p) /\ ~meta[p].softDeleted /\ ~meta[p].expired
  /\ Retire(p)
  /\ UNCHANGED <<intents, puts, faults>>

\* the stream's lifetime is over
Lapse(p) ==
  /\ p \in Mortal /\ Exists(p) /\ ~meta[p].expired
  /\ meta' = [meta EXCEPT ![p].expired = TRUE]
  /\ UNCHANGED <<edges, intents, releases, alarm, jobs, puts, faults>>

\* getMeta on an expired stream, by any request or by the alarm
Expire(p) ==
  /\ Exists(p) /\ meta[p].expired
  /\ Retire(p)
  /\ UNCHANGED <<intents, puts, faults>>

(***************************************************************************)
(* createFork.                                                             *)
(***************************************************************************)
\* the store's table of intents: one per edge, found again by the parameters of the creation
GetForkIntent(p, parent) == {i \in intents[p] : i.parent = parent}
PutForkIntent(p, i) == intents' = [intents EXCEPT ![p] = @ \cup {i}]
DeleteForkIntent(p, i) == intents' = [intents EXCEPT ![p] = @ \ {i}]

\* the edge gets its identity and a durable intent before the call; an intent of the same parameters is reused
CreateBegins(j) ==
  /\ j.kind = "create" /\ j.step = "lock" /\ LockFree(j.at)
  /\ \E e \in j.todo :
       LET known == GetForkIntent(j.at, e.parent)
       IN \E i \in (IF known = {} THEN {e} ELSE known) :
            /\ PutForkIntent(j.at, i)
            /\ alarm' = [alarm EXCEPT ![j.at] = @ \/ known = {}]
            /\ Becomes(j, [j EXCEPT !.locks = TRUE, !.step = "call", !.call = i, !.todo = {}])
  /\ UNCHANGED <<meta, edges, releases, puts, faults>>

\* the source refused: no reference was taken for this edge
CreateRefused(j) ==
  /\ j.kind = "create" /\ j.step = "answer" /\ j.answer = 0
  /\ DeleteForkIntent(j.at, j.call)
  /\ jobs' = jobs \ {j}
  /\ UNCHANGED <<meta, edges, releases, alarm, puts, faults>>

\* release(): the release is queued and the intent dropped in one commit, then the queue is delivered under the
\* lock.  Writes to the object's own database do not fail in this model.
CreateReleases(j) ==
  /\ j.kind = "create" /\ j.step = "answer" /\ j.answer # 0
  /\ Exists(j.at) => meta[j.at].edge # j.call.edge
  /\ LET owed == releases[j.at] \cup {[j.call EXCEPT !.gen = j.answer]}
     IN /\ releases' = [releases EXCEPT ![j.at] = owed]
        /\ Becomes(j, [j EXCEPT !.kind = "flush", !.todo = owed, !.step = "next"])
  /\ DeleteForkIntent(j.at, j.call)
  /\ alarm' = [alarm EXCEPT ![j.at] = TRUE]
  /\ UNCHANGED <<meta, edges, puts, faults>>

\* the path is still free: the edge is now owned by the meta row
CreateStream(j) ==
  /\ j.kind = "create" /\ j.step = "answer" /\ j.answer # 0
  /\ ~Exists(j.at)
  /\ meta' = [meta EXCEPT ![j.at] = Row(j.id, j.call.parent, j.call.edge, j.answer)]
  /\ DeleteForkIntent(j.at, j.call)
  /\ jobs' = jobs \ {j}
  /\ UNCHANGED <<edges, releases, alarm, puts, faults>>

(***************************************************************************)
(* The alarm: interrupted creations are compensated, queued releases       *)
(* delivered.  Expiry is Expire.                                           *)
(***************************************************************************)
AlarmFires(p) ==
  /\ alarm[p] /\ \A j \in jobs : j.at = p => j.id # 0
  /\ alarm' = [alarm EXCEPT ![p] = FALSE]
  /\ jobs' = jobs \cup {Job("alarm", p, 0, {}, "lock")}
  /\ UNCHANGED <<meta, edges, intents, releases, puts, faults>>

\* A mutant: the reconciliation does not wait for a creation that is under way.
AlarmUnlocked(j) ==
  /\ j.kind = "alarm" /\ j.step = "lock"
  /\ Becomes(j, [j EXCEPT !.locks = TRUE, !.step = "next",
                          !.todo = IF Exists(j.at) THEN {} ELSE intents[j.at]])
  /\ UNCHANGED <<meta, edges, intents, releases, alarm, puts, faults>>

\* processForkIntents, under the lock; nothing is done while the path holds a stream
AlarmBegins(j) ==
  /\ j.kind = "alarm" /\ j.step = "lock" /\ LockFree(j.at)
  /\ Becomes(j, [j EXCEPT !.locks = TRUE, !.step = "next",
                          !.todo = IF Exists(j.at) THEN {} ELSE intents[j.at]])
  /\ UNCHANGED <<meta, edges, intents, releases, alarm, puts, faults>>

\* the repeated acquire tells the generation, whether the first one had taken effect or not
IntentSettled(j) ==
  /\ j.kind = "alarm" /\ j.step = "answer"
  /\ releases' = [releases EXCEPT ![j.at] =
                    IF j.answer = 0 THEN @ ELSE @ \cup {[j.call EXCEPT !.gen = j.answer]}]
  /\ DeleteForkIntent(j.at, j.call)
  /\ Becomes(j, [j EXCEPT !.step = "next", !.answer = 0])
  /\ UNCHANGED <<meta, edges, alarm, puts, faults>>

\* after the intents the lock is given back and the releases that are due are delivered
IntentsDone(j) ==
  /\ j.kind = "alarm" /\ j.step = "next" /\ j.todo = {}
  /\ Becomes(j, [j EXCEPT !.kind = "flush", !.todo = releases[j.at], !.locks = FALSE])
  /\ UNCHANGED <<meta, edges, intents, releases, alarm, puts, faults>>

(***************************************************************************)
(* processGcReleases, and the calls as the called object runs them.        *)
(***************************************************************************)
NextCall(j) ==
  /\ j.step = "next"
  /\ \E c \in j.todo :
       Becomes(j, [j EXCEPT !.step = "call", !.call = c, !.todo = @ \ {c}])
  /\ UNCHANGED <<meta, edges, intents, releases, alarm, puts, faults>>

FlushDone(j) ==
  /\ j.kind = "flush" /\ j.step = "next" /\ j.todo = {}
  /\ jobs' = jobs \ {j}
  /\ UNCHANGED <<meta, edges, intents, releases, alarm, puts, faults>>

\* the release was answered: it is no longer owed
Released(j) ==
  /\ j.kind = "flush" /\ j.step = "answer"
  /\ releases' = [releases EXCEPT ![j.at] = {r \in @ : r.edge # j.call.edge}]
  /\ Becomes(j, [j EXCEPT !.step = "next"])
  /\ UNCHANGED <<meta, edges, intents, alarm, puts, faults>>

Answered(j, gen) == [j EXCEPT !.step = "answer", !.answer = gen]

\* forkAcquire: an edge that exists is confirmed; otherwise the source may refuse (gone, another content type,
\* an offset beyond its end) or take the reference
ForkAcquire(j) ==
  /\ j.step = "call" /\ j.kind \in {"create", "alarm"}
  /\ LET s == j.call.parent
         e == j.call.edge
     IN /\ Exists(s) /\ meta[s].expired => meta[s].softDeleted  \* getMeta expires it first
        /\ \/ e \in edges[s] /\ Becomes(j, Answered(j, meta[s].gen)) /\ UNCHANGED edges
           \/ e \notin edges[s] /\ Becomes(j, Answered(j, 0)) /\ UNCHANGED edges
           \/ /\ e \notin edges[s] /\ Exists(s) /\ ~meta[s].softDeleted
              /\ edges' = [edges EXCEPT ![s] = @ \cup {e}]
              /\ Becomes(j, Answered(j, meta[s].gen))
  /\ UNCHANGED <<meta, intents, releases, alarm, puts, faults>>

\* forkRelease: ignored by another generation; the last reference to a soft-deleted stream purges it
ForkRelease(j) ==
  /\ j.step = "call" /\ j.kind = "flush"
  /\ LET s == j.call.parent
         e == j.call.edge
         held == Exists(s) /\ j.call.gen = meta[s].gen /\ e \in edges[s]
         rest == (jobs \ {j}) \cup {Answered(j, 0)}
     IN \/ ~held /\ jobs' = rest /\ UNCHANGED <<meta, edges, releases, alarm>>
        \/ held /\ meta[s].softDeleted /\ edges[s] = {e} /\ Purge(s, rest)
        \/ /\ held /\ ~(meta[s].softDeleted /\ edges[s] = {e})
           /\ edges' = [edges EXCEPT ![s] = @ \ {e}]
           /\ jobs' = rest
           /\ UNCHANGED <<meta, releases, alarm>>
  /\ UNCHANGED <<intents, puts, faults>>

(***************************************************************************)
(* Faults.                                                                 *)
(***************************************************************************)
\* a call fails before it took effect or loses its answer: a creation gives up and leaves its intent, the
\* deliveries arm the alarm and go on
CallFails(j) ==
  /\ faults < MaxFaults /\ j.step \in {"call", "answer"}
  /\ faults' = faults + 1
  /\ \/ j.kind = "create" /\ jobs' = jobs \ {j} /\ UNCHANGED alarm
     \/ /\ j.kind # "create"
        /\ alarm' = [alarm EXCEPT ![j.at] = TRUE]
        /\ Becomes(j, [j EXCEPT !.step = "next", !.answer = 0])
  /\ UNCHANGED <<meta, edges, intents, releases, puts>>

\* the object is reset: its handlers are gone, an alarm that was being handled is delivered again
Reset(p) ==
  /\ faults < MaxFaults /\ \E j \in jobs : j.at = p
  /\ faults' = faults + 1
  /\ jobs' = {j \in jobs : j.at # p}
  /\ alarm' = [alarm EXCEPT ![p] = @ \/ \E j \in jobs : j.at = p /\ j.id = 0]
  /\ UNCHANGED <<meta, edges, intents, releases, puts>>

-----------------------------------------------------------------------------
ObjectInit ==
  /\ meta = [p \in Paths |-> NoMeta]
  /\ edges = [p \in Paths |-> {}] /\ intents = [p \in Paths |-> {}]
  /\ releases = [p \in Paths |-> {}] /\ alarm = [p \in Paths |-> FALSE]
  /\ jobs = {} /\ puts = 0 /\ faults = 0

Progress(j) ==
  \/ CreateBegins(j) \/ CreateRefused(j) \/ CreateReleases(j) \/ CreateStream(j)
  \/ AlarmBegins(j) \/ IntentSettled(j) \/ IntentsDone(j)
  \/ NextCall(j) \/ FlushDone(j) \/ Released(j)
  \/ ForkAcquire(j) \/ ForkRelease(j)

ObjectProgress ==
  \/ \E j \in jobs : Progress(j)
  \/ \E p \in Paths : AlarmFires(p) \/ Expire(p)

ObjectNext ==
  \/ ObjectProgress
  \/ \E p \in Paths : \/ PutPlain(p) \/ DeletePath(p) \/ Lapse(p) \/ Reset(p)
                      \/ \E s \in Paths : PutFork(p, s)
  \/ \E j \in jobs : CallFails(j)

\* the runtime resumes handlers whose call is answered and delivers alarms
ObjectFairness == WF_objectVars(ObjectProgress)

ObjectSpec == ObjectInit /\ [][ObjectNext]_objectVars /\ ObjectFairness

-----------------------------------------------------------------------------
(***************************************************************************)
(* Properties.                                                             *)
(***************************************************************************)
Owned(s, e) == \E p \in Paths : Exists(p) /\ meta[p].forkedFrom = s /\ meta[p].edge = e

\* A fork is never left without its source: while the fork exists its edge is recorded on the very generation
\* it was acquired from, whatever calls were retried, lost or delayed (createFork, forkRelease, purgeStream).
ForksKeepSource ==
  \A p \in Paths : Exists(p) /\ meta[p].forkedFrom # NoPath =>
    LET s == meta[p].forkedFrom
    IN Exists(s) /\ meta[s].gen = meta[p].srcGen /\ meta[p].edge \in edges[s]

\* an intent nobody will look at again: the alarm was spent while the path held a stream, or deleted with it
Stranded(s, e) ==
  \E p \in Paths : /\ Edge(e, s, 0) \in intents[p]
                   /\ ~alarm[p] /\ \A j \in jobs : j.at # p

\* Once the faults are over every reference still recorded belongs to a fork that exists, so a deleted source
\* is freed with its last fork; forgotten intents are the exception (flushGcReleases, processForkIntents).
EdgesSettle == []<>(\A s \in Paths : \A e \in edges[s] : Owned(s, e) \/ Stranded(s, e))
=============================================================================
