------------------------- MODULE SubscriptionProofs -------------------------
(***************************************************************************)
(* Subscriptions, for every set of streams, subscription bodies and        *)
(* workers: no message is skipped, and no subscription with work left is   *)
(* forgotten.                                                              *)
(***************************************************************************)
EXTENDS Subscriptions, TLAPS

Snapshots == UNION {[linked -> Nat] : linked \in SUBSET Streams}

Record ==
    [input : Inputs, explicit : SUBSET Streams, glob : SUBSET Streams,
     acked : [Streams -> Int], covered : [Streams -> Int],
     gen : Nat, wake : Nat, snapshot : Snapshots, token : BOOLEAN, relinked : BOOLEAN,
     holder : Workers \cup {None}, lease : BOOLEAN, retry : BOOLEAN, failed : BOOLEAN]

Tokens == [rec : DOMAIN recs, gen : Nat, wake : Nat, shown : Snapshots]

SubscriptionTypeOK ==
    /\ tails \in [Streams -> Nat]
    /\ recs \in Seq(Record)
    /\ current \in {0} \cup DOMAIN recs
    /\ deliveries \subseteq Tokens
    /\ held \subseteq Tokens
    /\ claiming \subseteq [worker : Workers, rec : DOMAIN recs]
    /\ down \in BOOLEAN /\ lateDone \in BOOLEAN
    /\ down => current = 0

----------------------------------------------------------------------------
(* The inductive invariant *)

\* A wake under way has somebody to end it: its lease, or the next claim.
Watched(r) ==
    (r.wake # 0 \/ r.holder # None) =>
        \/ r.lease
        \/ r.input.type = "pull-wake" /\ r.wake # 0 /\ r.holder = None

\* A stream ahead of its cursor with no wake under way: its append has yet to
\* be noticed, or never will be.
Noticed(r) ==
    (r.wake = 0 /\ r.holder = None /\ ~r.lease) =>
        \A s \in Streams : Pending(r, s) => s \in notices \cup quiet

\* What the wake under way would acknowledge is in its streams.
SnapshotCurrent(r) ==
    /\ r.wake <= r.gen
    /\ r.wake = 0 => DOMAIN r.snapshot = {}
    /\ r.wake # 0 /\ ~r.relinked =>
         \A s \in DOMAIN r.snapshot : s \in Linked(r) /\ r.snapshot[s] <= tails[s]

\* ... and was shown to the worker that was told of the wake.
Shown(r, d) ==
    /\ d.wake <= r.gen
    /\ r.wake # 0 /\ d.wake = r.wake /\ ~r.relinked =>
         \A s \in DOMAIN r.snapshot : s \in DOMAIN d.shown /\ r.snapshot[s] <= d.shown[s]

\* No cursor is ahead of the workers.
Behind(r) == \A s \in Linked(r) : r.acked[s] <= r.covered[s]

RecordOK(r) ==
    /\ r.input.type \in {"webhook", "pull-wake"}
    /\ Watched(r) /\ Noticed(r) /\ SnapshotCurrent(r)
    /\ \A d \in deliveries : d.rec = current => Shown(r, d)
    /\ ~lateDone => Behind(r)

WakesOK == current # 0 => RecordOK(recs[current])

SubscriptionInv == SubscriptionTypeOK /\ WakesOK

----------------------------------------------------------------------------
(* Types of the helpers *)

LEMMA RecordUpdate ==
    ASSUME recs \in Seq(Record), NEW k \in DOMAIN recs, NEW r \in Record
    PROVE  LET new == [recs EXCEPT ![k] = r] IN
           /\ new \in Seq(Record) /\ DOMAIN new = DOMAIN recs
           /\ \A j \in DOMAIN recs : new[j] = IF j = k THEN r ELSE recs[j]
OBVIOUS

LEMMA NoSnapshotType == NoSnapshot \in Snapshots /\ DOMAIN NoSnapshot = {}
<1>1. NoSnapshot \in [{} -> Nat] /\ DOMAIN NoSnapshot = {}
  BY DEF NoSnapshot
<1>2. {} \in SUBSET Streams
  OBVIOUS
<1> QED
  BY <1>1, <1>2, Zenon DEF Snapshots

LEMMA StreamInfosType ==
    ASSUME tails \in [Streams -> Nat], NEW r \in Record
    PROVE  /\ StreamInfos(r) \in Snapshots /\ DOMAIN StreamInfos(r) = Linked(r)
           /\ \A s \in Linked(r) : StreamInfos(r)[s] = tails[s]
<1>1. Linked(r) \in SUBSET Streams
  BY DEF Record, Linked
<1>2. /\ StreamInfos(r) \in [Linked(r) -> Nat]
      /\ DOMAIN StreamInfos(r) = Linked(r)
      /\ \A s \in Linked(r) : StreamInfos(r)[s] = tails[s]
  BY <1>1 DEF StreamInfos
<1> QED
  BY <1>1, <1>2, Zenon DEF Snapshots

\* createWake starts the next generation.
LEMMA WithWakeType ==
    ASSUME tails \in [Streams -> Nat], NEW r \in Record
    PROVE  LET u == WithWake(r) IN
           /\ u \in Record
           /\ u.input = r.input /\ u.explicit = r.explicit /\ u.glob = r.glob
           /\ u.acked = r.acked /\ u.covered = r.covered
           /\ u.gen = r.gen + 1 /\ u.wake = r.gen + 1
           /\ u.snapshot = StreamInfos(r) /\ ~u.relinked
           /\ u.holder = r.holder
           /\ r.input.type = "webhook" => u.lease
<1> DEFINE infos == StreamInfos(r)
           n == r.gen + 1
<1>1. infos \in Snapshots /\ n \in Nat
  BY StreamInfosType DEF Record
<1> HIDE DEF infos, n
<1>2. CASE r.input.type = "webhook"
  <2>1. WithWake(r) = [r EXCEPT !.gen = n, !.wake = n, !.snapshot = infos,
                                !.relinked = FALSE, !.token = TRUE, !.lease = TRUE]
    BY <1>2 DEF WithWake, infos, n
  <2> QED
    BY <1>1, <1>2, <2>1 DEF Record, n, infos
<1>3. CASE r.input.type # "webhook"
  <2>1. WithWake(r) = [r EXCEPT !.gen = n, !.wake = n, !.snapshot = infos,
                                !.relinked = FALSE, !.token = r.token, !.lease = r.lease]
    BY <1>3 DEF WithWake, infos, n, Record
  <2> QED
    BY <1>1, <1>3, <2>1 DEF Record, n, infos
<1> QED
  BY <1>2, <1>3

LEMMA IdledType ==
    ASSUME NEW r \in Record
    PROVE  LET u == Idled(r) IN
           /\ u \in Record
           /\ u.input = r.input /\ u.explicit = r.explicit /\ u.glob = r.glob
           /\ u.acked = r.acked /\ u.covered = r.covered
           /\ u.gen = r.gen /\ u.wake = 0 /\ u.snapshot = NoSnapshot
           /\ u.holder = None /\ ~u.lease
BY NoSnapshotType DEF Idled, Record

LEMMA DeliveryType ==
    ASSUME tails \in [Streams -> Nat], NEW k \in DOMAIN recs, NEW r \in Record
    PROVE  LET d == Delivery(k, r) IN
           /\ d \in Tokens
           /\ d.rec = k /\ d.wake = r.wake /\ d.shown = StreamInfos(r)
BY StreamInfosType DEF Delivery, Tokens, Record

LEMMA CreateWakeType ==
    ASSUME SubscriptionTypeOK, NEW k \in DOMAIN recs, NEW r \in Record,
           NEW posts \in SUBSET Tokens, CreateWake(k, r, posts)
    PROVE  /\ recs' = [recs EXCEPT ![k] = WithWake(r)]
           /\ recs' \in Seq(Record) /\ DOMAIN recs' = DOMAIN recs
           /\ deliveries' \subseteq posts \cup {Delivery(k, WithWake(r))}
           /\ deliveries' \subseteq Tokens /\ held' \subseteq Tokens
<1>1. WithWake(r) \in Record
  BY WithWakeType DEF SubscriptionTypeOK
<1>2. recs' = [recs EXCEPT ![k] = WithWake(r)]
  BY DEF CreateWake
<1>3. recs' \in Seq(Record) /\ DOMAIN recs' = DOMAIN recs
  BY <1>1, <1>2, RecordUpdate DEF SubscriptionTypeOK
<1>4. Delivery(k, WithWake(r)) \in Tokens
  BY <1>1, DeliveryType DEF SubscriptionTypeOK
<1>5. /\ deliveries' \subseteq posts \cup {Delivery(k, WithWake(r))}
      /\ held' \subseteq held \cup {Delivery(k, WithWake(r))}
  BY DEF CreateWake
<1> QED
  BY <1>2, <1>3, <1>4, <1>5 DEF SubscriptionTypeOK

LEMMA NoWakeType ==
    ASSUME SubscriptionTypeOK, NEW k \in DOMAIN recs, NEW r \in Record,
           NEW posts \in SUBSET Tokens, NoWake(k, r, posts)
    PROVE  /\ recs' \in Seq(Record) /\ DOMAIN recs' = DOMAIN recs
           /\ deliveries' \subseteq Tokens /\ held' \subseteq Tokens
BY RecordUpdate DEF NoWake, SubscriptionTypeOK

LEMMA FinishWakeType ==
    ASSUME SubscriptionTypeOK, NEW k \in DOMAIN recs, NEW r \in Record,
           NEW posts \in SUBSET Tokens, FinishWake(k, r, posts)
    PROVE  /\ recs' \in Seq(Record) /\ DOMAIN recs' = DOMAIN recs
           /\ deliveries' \subseteq Tokens /\ held' \subseteq Tokens
<1>1. Idled(r) \in Record
  BY IdledType
<1> QED
  BY <1>1, CreateWakeType, NoWakeType DEF FinishWake

LEMMA LinkStreamType ==
    ASSUME NEW r \in Record, NEW s \in Streams, NEW offset \in Int
    PROVE  LET u == LinkStream(r, s, offset) IN
           /\ u \in Record
           /\ u.input = r.input /\ u.explicit = r.explicit /\ u.glob = r.glob
           /\ u.gen = r.gen /\ u.wake = r.wake /\ u.snapshot = r.snapshot
           /\ u.relinked = r.relinked /\ u.holder = r.holder /\ u.lease = r.lease
           /\ \A t \in Streams : t # s => u.acked[t] = r.acked[t] /\ u.covered[t] = r.covered[t]
           /\ s \in Linked(r) => u.acked = r.acked /\ u.covered = r.covered
           /\ s \notin Linked(r) => u.acked[s] = offset /\ u.covered[s] = offset
<1>1. CASE s \in Linked(r)
  BY <1>1 DEF LinkStream
<1>2. CASE s \notin Linked(r)
  <2>1. LinkStream(r, s, offset) =
          [r EXCEPT !.acked = [r.acked EXCEPT ![s] = offset],
                    !.covered = [r.covered EXCEPT ![s] = offset]]
    BY <1>2 DEF LinkStream
  <2>2. /\ [r.acked EXCEPT ![s] = offset] \in [Streams -> Int]
        /\ [r.covered EXCEPT ![s] = offset] \in [Streams -> Int]
    BY DEF Record
  <2>3. PICK A \in [Streams -> Int] : A = [r.acked EXCEPT ![s] = offset]
    BY <2>2
  <2>4. PICK C \in [Streams -> Int] : C = [r.covered EXCEPT ![s] = offset]
    BY <2>2
  <2>5. PICK u : u = LinkStream(r, s, offset)
    OBVIOUS
  <2>6. u = [r EXCEPT !.acked = A, !.covered = C]
    BY <2>1, <2>3, <2>4, <2>5
  <2>7. /\ u \in Record /\ u.acked = A /\ u.covered = C
        /\ u.input = r.input /\ u.explicit = r.explicit /\ u.glob = r.glob
        /\ u.gen = r.gen /\ u.wake = r.wake /\ u.snapshot = r.snapshot
        /\ u.relinked = r.relinked /\ u.holder = r.holder /\ u.lease = r.lease
    BY ONLY <2>6, r \in Record, A \in [Streams -> Int], C \in [Streams -> Int] DEF Record
  <2>8. r.acked \in [Streams -> Int] /\ r.covered \in [Streams -> Int]
    BY DEF Record
  <2>9. A[s] = offset /\ C[s] = offset /\ \A t \in Streams : t # s => A[t] = r.acked[t] /\ C[t] = r.covered[t]
    BY <2>3, <2>4, <2>8
  <2> QED
    BY <1>2, <2>5, <2>7, <2>9
<1> QED
  BY <1>1, <1>2

LEMMA CoverType ==
    ASSUME NEW r \in Record, NEW shown \in Snapshots
    PROVE  LET u == Cover(r, shown) IN
           /\ u \in Record
           /\ u.input = r.input /\ u.explicit = r.explicit /\ u.glob = r.glob
           /\ u.gen = r.gen /\ u.wake = r.wake /\ u.snapshot = r.snapshot
           /\ u.relinked = r.relinked /\ u.holder = r.holder /\ u.lease = r.lease
           /\ u.acked = r.acked
           /\ \A s \in Streams : /\ u.covered[s] >= r.covered[s]
                                 /\ s \in DOMAIN shown => u.covered[s] >= shown[s]
<1>1. \A s \in DOMAIN shown : shown[s] \in Int
  BY DEF Snapshots
<1> DEFINE f == [s \in Streams |->
                   IF s \in DOMAIN shown THEN Larger(r.covered[s], shown[s])
                   ELSE r.covered[s]]
<1>2. r.covered \in [Streams -> Int]
  BY DEF Record
<1>3. /\ f \in [Streams -> Int]
      /\ \A s \in Streams : /\ f[s] >= r.covered[s]
                            /\ s \in DOMAIN shown => f[s] >= shown[s]
  BY <1>1, <1>2 DEF Larger
<1>4. Cover(r, shown) = [r EXCEPT !.covered = f]
  BY DEF Cover
<1> HIDE DEF f
<1> QED
  BY <1>3, <1>4 DEF Record

LEMMA AutoAckType ==
    ASSUME NEW r \in Record
    PROVE  LET u == AutoAckWakeSnapshot(r) IN
           /\ u \in Record
           /\ u.input = r.input /\ u.explicit = r.explicit /\ u.glob = r.glob
           /\ u.gen = r.gen /\ u.covered = r.covered
           /\ \A s \in Streams :
                u.acked[s] = IF s \in DOMAIN r.snapshot /\ s \in Linked(r)
                             THEN r.snapshot[s] ELSE r.acked[s]
<1>1. \A s \in DOMAIN r.snapshot : r.snapshot[s] \in Int
  BY DEF Snapshots, Record
<1> DEFINE f == [s \in Streams |->
                   IF s \in DOMAIN r.snapshot /\ s \in Linked(r) THEN r.snapshot[s]
                   ELSE r.acked[s]]
<1>2. r.acked \in [Streams -> Int]
  BY DEF Record
<1>3. f \in [Streams -> Int]
  BY <1>1, <1>2
<1>4. AutoAckWakeSnapshot(r) = [r EXCEPT !.acked = f]
  BY DEF AutoAckWakeSnapshot
<1>5. \A s \in Streams : f[s] = IF s \in DOMAIN r.snapshot /\ s \in Linked(r)
                                THEN r.snapshot[s] ELSE r.acked[s]
  OBVIOUS
<1> HIDE DEF f
<1> QED
  BY <1>3, <1>4, <1>5 DEF Record

LEMMA WithAcksType ==
    ASSUME NEW r \in Record, NEW acks \in Snapshots
    PROVE  LET u == WithAcks(r, acks) IN
           /\ u \in Record
           /\ u.input = r.input /\ u.explicit = r.explicit /\ u.glob = r.glob
           /\ u.gen = r.gen /\ u.wake = r.wake /\ u.snapshot = r.snapshot
           /\ u.relinked = r.relinked /\ u.holder = r.holder /\ u.lease = r.lease
           /\ \A s \in Streams :
                /\ u.acked[s] = IF s \in DOMAIN acks THEN acks[s] ELSE r.acked[s]
                /\ u.covered[s] >= r.covered[s]
                /\ s \in DOMAIN acks => u.covered[s] >= acks[s]
<1>1. \A s \in DOMAIN acks : acks[s] \in Int
  BY DEF Snapshots
<1> DEFINE f == [s \in Streams |-> IF s \in DOMAIN acks THEN acks[s] ELSE r.acked[s]]
           v == [r EXCEPT !.acked = f]
<1>2. r.acked \in [Streams -> Int]
  BY DEF Record
<1>3. f \in [Streams -> Int]
  BY <1>1, <1>2
<1>4. WithAcks(r, acks) = Cover(v, acks)
  BY DEF WithAcks
<1>5. \A s \in Streams : f[s] = IF s \in DOMAIN acks THEN acks[s] ELSE r.acked[s]
  OBVIOUS
<1> HIDE DEF f
<1>6. /\ v \in Record
      /\ v.input = r.input /\ v.explicit = r.explicit /\ v.glob = r.glob
      /\ v.gen = r.gen /\ v.wake = r.wake /\ v.snapshot = r.snapshot
      /\ v.relinked = r.relinked /\ v.holder = r.holder /\ v.lease = r.lease
      /\ v.acked = f /\ v.covered = r.covered
  BY <1>3 DEF Record
<1> HIDE DEF v
<1> QED
  BY <1>4, <1>5, <1>6, CoverType

----------------------------------------------------------------------------
(* What keeps the invariant *)

\* A new wake of the current record, whatever became of its cursors.
LEMMA CreateWakeOK ==
    ASSUME SubscriptionInv, current # 0, NEW r \in Record, NEW posts \in SUBSET deliveries,
           CreateWake(current, r, posts), current' = current, tails' = tails,
           r.gen = recs[current].gen, r.input = recs[current].input, r.holder = None,
           ~lateDone' => Behind(r)
    PROVE  WakesOK'
<1> DEFINE k == current
           u == WithWake(r)
<1>0. /\ k \in DOMAIN recs /\ tails \in [Streams -> Nat] /\ posts \in SUBSET Tokens
      /\ RecordOK(recs[k]) /\ recs \in Seq(Record)
  BY DEF SubscriptionInv, SubscriptionTypeOK, WakesOK
<1>1. /\ u \in Record
      /\ u.input = r.input /\ u.explicit = r.explicit /\ u.glob = r.glob
      /\ u.acked = r.acked /\ u.covered = r.covered
      /\ u.gen = r.gen + 1 /\ u.wake = r.gen + 1
      /\ u.snapshot = StreamInfos(r) /\ ~u.relinked
      /\ u.holder = r.holder
      /\ r.input.type = "webhook" => u.lease
  BY <1>0, WithWakeType
<1>2. r.gen \in Nat
  BY DEF Record
<1>3. /\ recs' = [recs EXCEPT ![k] = u]
      /\ deliveries' \subseteq posts \cup {Delivery(k, u)}
  BY <1>0, CreateWakeType DEF SubscriptionInv
<1> PICK v : v = u
  OBVIOUS
<1> HIDE DEF u
<1>4. recs'[current'] = v
  BY <1>0, <1>1, <1>3, RecordUpdate
<1>5. v.input.type \in {"webhook", "pull-wake"}
  BY <1>0, <1>1 DEF RecordOK
<1>6. Watched(v)'
  BY <1>1, <1>2, <1>5 DEF Watched
<1>7. Noticed(v)'
  BY <1>1, <1>2 DEF Noticed
<1>8. /\ DOMAIN v.snapshot = Linked(v)
      /\ \A s \in Linked(v) : v.snapshot[s] = tails[s] /\ tails[s] \in Nat
  <2>1. /\ DOMAIN StreamInfos(r) = Linked(r)
        /\ \A s \in Linked(r) : StreamInfos(r)[s] = tails[s]
    BY <1>0, StreamInfosType
  <2>2. Linked(v) = Linked(r) /\ Linked(r) \subseteq Streams
    BY <1>1 DEF Linked, Record
  <2> QED
    BY <1>0, <1>1, <2>1, <2>2
<1>9. SnapshotCurrent(v)'
  BY <1>1, <1>2, <1>8 DEF SnapshotCurrent, Linked
<1>10. ASSUME NEW d \in deliveries', d.rec = current
       PROVE  Shown(v, d)
  <2>1. CASE d \in posts
    <3>1. d.wake <= r.gen /\ d.wake \in Nat
      BY <1>0, <1>10, <2>1 DEF RecordOK, Shown, Tokens
    <3> QED
      BY <1>1, <1>2, <3>1 DEF Shown
  <2>2. CASE d = Delivery(k, u)
    <3>1. d.wake = u.wake /\ d.shown = StreamInfos(u)
      BY <1>0, <1>1, <2>2, DeliveryType
    <3>2. /\ DOMAIN StreamInfos(u) = Linked(u)
          /\ \A s \in Linked(u) : StreamInfos(u)[s] = tails[s]
      BY <1>0, <1>1, StreamInfosType
    <3> QED
      BY <1>1, <1>2, <1>8, <3>1, <3>2 DEF Shown
  <2> QED
    BY <1>3, <1>10, <2>1, <2>2
<1>11. ~lateDone' => Behind(v)
  BY <1>1 DEF Behind, Linked
<1>12. RecordOK(v)'
  BY <1>5, <1>6, <1>7, <1>9, <1>10, <1>11 DEF RecordOK, Shown, Behind
<1> QED
  BY <1>4, <1>12 DEF WakesOK

\* The wake ends; the next one starts if there is work left.
LEMMA FinishWakeOK ==
    ASSUME SubscriptionInv, current # 0, NEW r \in Record, NEW posts \in SUBSET deliveries,
           FinishWake(current, r, posts), current' = current, tails' = tails,
           r.gen = recs[current].gen, r.input = recs[current].input,
           ~lateDone' => Behind(r)
    PROVE  WakesOK'
<1> DEFINE k == current
           u == Idled(r)
<1>0. /\ k \in DOMAIN recs /\ tails \in [Streams -> Nat] /\ posts \in SUBSET Tokens
      /\ RecordOK(recs[k]) /\ recs \in Seq(Record)
  BY DEF SubscriptionInv, SubscriptionTypeOK, WakesOK
<1>1. /\ u \in Record
      /\ u.input = r.input /\ u.explicit = r.explicit /\ u.glob = r.glob
      /\ u.acked = r.acked /\ u.covered = r.covered
      /\ u.gen = r.gen /\ u.wake = 0 /\ u.snapshot = NoSnapshot
      /\ u.holder = None /\ ~u.lease
  BY IdledType
<1>2. ~lateDone' => Behind(u)
  BY <1>1 DEF Behind, Linked
<1>3. CASE HasPendingWork(r)
  <2>1. CreateWake(k, u, posts)
    BY <1>3 DEF FinishWake
  <2> HIDE DEF u
  <2> QED
    BY <1>1, <1>2, <2>1, CreateWakeOK
<1>4. CASE ~HasPendingWork(r)
  <2>1. recs' = [recs EXCEPT ![k] = u] /\ deliveries' = posts
    BY <1>4 DEF FinishWake, NoWake
  <2> PICK v : v = u
    OBVIOUS
  <2> HIDE DEF u
  <2>2. recs'[current'] = v
    BY <1>0, <1>1, <2>1, RecordUpdate
  <2>3. v.input.type \in {"webhook", "pull-wake"}
    BY <1>0, <1>1 DEF RecordOK
  <2>4. Watched(v)'
    BY <1>1 DEF Watched
  <2>5. Noticed(v)'
    BY <1>1, <1>4 DEF Noticed, HasPendingWork, Pending, Linked
  <2>6. SnapshotCurrent(v)'
    BY <1>1, NoSnapshotType DEF SnapshotCurrent, Record
  <2>7. ASSUME NEW d \in deliveries', d.rec = current
        PROVE  Shown(v, d)
    BY <1>0, <1>1, <2>1, <2>7 DEF RecordOK, Shown
  <2>8. RecordOK(v)'
    BY <1>2, <2>3, <2>4, <2>5, <2>6, <2>7 DEF RecordOK, Shown, Behind
  <2> QED
    BY <2>2, <2>8 DEF WakesOK
<1> QED
  BY <1>3, <1>4

\* The current record as it was, as far as its wake goes.
Similar(r, u) ==
    u.input = r.input /\ u.gen = r.gen /\ u.wake = r.wake /\ u.snapshot = r.snapshot

\* A step that leaves the wake of the current record alone: it may link and
\* unlink streams, and move tails, as long as what goes back is marked and what
\* gets ahead is noticed.
LEMMA SimilarOK ==
    ASSUME SubscriptionInv, current # 0, current' = current,
           NEW u \in Record, recs'[current] = u, Similar(recs[current], u),
           Watched(u), Noticed(u)',
           ~u.relinked => /\ ~recs[current].relinked
                          /\ Linked(recs[current]) \subseteq Linked(u)
                          /\ \A s \in Streams : tails[s] <= tails'[s],
           tails' \in [Streams -> Nat],
           \A d \in deliveries' : d.rec = current => d \in deliveries \/ Shown(u, d),
           ~lateDone' => ~lateDone, ~lateDone' => Behind(u)
    PROVE  WakesOK'
<1> DEFINE r == recs[current]
<1>0. r \in Record /\ RecordOK(r) /\ tails \in [Streams -> Nat]
  BY DEF SubscriptionInv, SubscriptionTypeOK, WakesOK
<1>1. u.input.type \in {"webhook", "pull-wake"}
  BY <1>0 DEF RecordOK, Similar
<1>2. Watched(u)'
  BY DEF Watched
<1>3. SnapshotCurrent(u)'
  <2>1. u.wake <= u.gen /\ (u.wake = 0 => DOMAIN u.snapshot = {})
    BY <1>0 DEF RecordOK, Similar, SnapshotCurrent
  <2>2. ASSUME u.wake # 0, ~u.relinked, NEW s \in DOMAIN u.snapshot
        PROVE  s \in Linked(u) /\ u.snapshot[s] <= tails'[s]
    <3>1. s \in Linked(r) /\ r.snapshot[s] <= tails[s] /\ u.snapshot = r.snapshot
      BY <1>0, <2>2 DEF RecordOK, Similar, SnapshotCurrent
    <3>2. s \in Streams /\ tails[s] \in Nat /\ tails'[s] \in Nat /\ tails[s] <= tails'[s]
      BY <1>0, <2>2, <3>1 DEF Linked, Record
    <3>3. u.snapshot[s] \in Nat
      BY <2>2 DEF Record, Snapshots
    <3>4. s \in Linked(u)
      BY <2>2, <3>1
    <3> QED
      BY <3>1, <3>2, <3>3, <3>4
  <2> QED
    BY <2>1, <2>2 DEF SnapshotCurrent, Linked
<1>4. ASSUME NEW d \in deliveries', d.rec = current
      PROVE  Shown(u, d)
  <2>1. CASE d \in deliveries
    BY <1>0, <1>4, <2>1 DEF RecordOK, Shown, Similar
  <2> QED
    BY <1>4, <2>1
<1>5. RecordOK(u)'
  BY <1>1, <1>2, <1>3, <1>4 DEF RecordOK, Shown, Behind
<1> QED
  BY <1>5 DEF WakesOK

\* A step that does not touch the current record, or anything it depends on.
LEMMA UntouchedOK ==
    ASSUME SubscriptionInv, current' = current, current # 0 => recs'[current] = recs[current],
           tails' = tails, notices' = notices, quiet' = quiet,
           \A d \in deliveries' : d.rec = current => d \in deliveries,
           ~lateDone' => ~lateDone
    PROVE  WakesOK'
<1>1. CASE current = 0
  BY <1>1 DEF WakesOK
<1>2. CASE current # 0
  <2> PICK r : r = recs[current]
    OBVIOUS
  <2>1. RecordOK(r)
    BY <1>2 DEF SubscriptionInv, WakesOK
  <2>2. RecordOK(r)'
    BY <2>1 DEF RecordOK, Watched, Noticed, SnapshotCurrent, Shown, Behind, Pending, Linked
  <2> QED
    BY <1>2, <2>2 DEF WakesOK
<1> QED
  BY <1>1, <1>2

----------------------------------------------------------------------------
(* Control *)

LEMMA NewRecordType ==
    ASSUME tails \in [Streams -> Nat], NEW in \in Inputs
    PROVE  LET u == NewRecord(in) IN
           /\ u \in Record
           /\ u.input = in /\ u.gen = 0 /\ u.wake = 0 /\ u.snapshot = NoSnapshot
           /\ u.holder = None /\ ~u.lease /\ u.covered = u.acked
           /\ \A s \in Streams : u.acked[s] = tails[s]
<1> DEFINE matched == {s \in Streams : in.pattern # <<>> /\ tails[s] > 0
                                         /\ GlobMatch(in.pattern, s)}
           a == [s \in Streams |-> tails[s]]
<1>1. /\ matched \in SUBSET Streams /\ in.streams \in SUBSET Streams
      /\ a \in [Streams -> Int] /\ \A s \in Streams : a[s] = tails[s]
  BY InputsAssumption
<1>2. NewRecord(in) =
        [input |-> in, explicit |-> in.streams, glob |-> matched, acked |-> a, covered |-> a,
         gen |-> 0, wake |-> 0, snapshot |-> NoSnapshot, token |-> FALSE, relinked |-> FALSE,
         holder |-> None, lease |-> FALSE, retry |-> FALSE, failed |-> FALSE]
  BY DEF NewRecord
<1> HIDE DEF matched, a
<1> QED
  BY <1>1, <1>2, NoSnapshotType DEF Record

LEMMA CreateOrConfirmOK ==
    ASSUME SubscriptionInv, NEW in \in Inputs, CreateOrConfirm(in)
    PROVE  SubscriptionInv'
<1> DEFINE u == NewRecord(in)
           n == Len(recs) + 1
<1>0. SubscriptionTypeOK
  BY DEF SubscriptionInv
<1>1. /\ recs' = Append(recs, u) /\ current' = n /\ ~down
      /\ UNCHANGED <<tails, notices, quiet, deliveries, held, claiming, down, lateDone>>
  BY DEF CreateOrConfirm
<1>a. in.type \in {"webhook", "pull-wake"}
  <2>1. ParseCreateInput(in)
    BY DEF CreateOrConfirm, InputAccepted
  <2> QED
    BY <2>1 DEF ParseCreateInput
<1>2. /\ u \in Record
      /\ u.input = in /\ u.gen = 0 /\ u.wake = 0 /\ u.snapshot = NoSnapshot
      /\ u.holder = None /\ ~u.lease /\ u.covered = u.acked
      /\ \A s \in Streams : u.acked[s] = tails[s]
  BY <1>0, NewRecordType DEF SubscriptionTypeOK
<1> PICK v : v = u
  OBVIOUS
<1> HIDE DEF u
<1>3. /\ recs' \in Seq(Record) /\ DOMAIN recs \subseteq DOMAIN recs'
      /\ n \in DOMAIN recs' /\ n \notin DOMAIN recs /\ recs'[n] = v /\ n # 0
  BY <1>0, <1>1, <1>2 DEF SubscriptionTypeOK
<1>4. SubscriptionTypeOK'
  BY <1>0, <1>1, <1>3 DEF SubscriptionTypeOK, Tokens
<1>5. Noticed(v)'
  BY <1>0, <1>1, <1>2 DEF Noticed, Pending, SubscriptionTypeOK
<1>6. SnapshotCurrent(v)' /\ Watched(v)'
  BY <1>2, NoSnapshotType DEF SnapshotCurrent, Watched
<1>7. \A d \in deliveries' : d.rec # n
  BY <1>0, <1>1, <1>3 DEF SubscriptionTypeOK, Tokens
<1>8. Behind(v)
  BY <1>2 DEF Behind, Record, Linked
<1>9. RecordOK(v)'
  BY <1>1, <1>a, <1>2, <1>5, <1>6, <1>7, <1>8 DEF RecordOK, Behind
<1> QED
  BY <1>1, <1>3, <1>4, <1>9 DEF SubscriptionInv, WakesOK

\* The current record goes out of the map.
LEMMA ForgetOK ==
    ASSUME SubscriptionInv, DeleteSubscription \/ Shutdown
    PROVE  SubscriptionInv'
<1>0. SubscriptionTypeOK
  BY DEF SubscriptionInv
<1> DEFINE u == [recs[current] EXCEPT !.lease = FALSE, !.retry = FALSE]
<1>1. /\ current' = 0
      /\ UNCHANGED <<tails, notices, quiet, deliveries, held, claiming, lateDone>>
      /\ down' \in BOOLEAN
  BY <1>0 DEF DeleteSubscription, Shutdown, SubscriptionTypeOK
<1>2. current # 0 => recs' = [recs EXCEPT ![current] = u]
  BY DEF DeleteSubscription, Shutdown
<1>3. current # 0 => u \in Record
  <2>1. current # 0 => recs[current] \in Record
    BY <1>0 DEF SubscriptionTypeOK
  <2> QED
    BY <2>1 DEF Record
<1> HIDE DEF u
<1>4. recs' \in Seq(Record) /\ DOMAIN recs' = DOMAIN recs
  <2>1. CASE current = 0
    BY <1>0, <2>1 DEF DeleteSubscription, Shutdown, SubscriptionTypeOK
  <2>2. CASE current # 0
    BY <1>0, <1>2, <1>3, <2>2, RecordUpdate DEF SubscriptionTypeOK
  <2> QED
    BY <2>1, <2>2
<1> QED
  BY <1>0, <1>1, <1>4 DEF SubscriptionInv, SubscriptionTypeOK, WakesOK, Tokens

\* The current record becomes u, and nothing is sent.
LEMMA CurrentTyped ==
    ASSUME SubscriptionTypeOK, current # 0, NEW u \in Record,
           recs' = [recs EXCEPT ![current] = u], tails' \in [Streams -> Nat],
           UNCHANGED <<current, deliveries, held, claiming, down, lateDone>>
    PROVE  SubscriptionTypeOK' /\ recs'[current] = u
<1>1. /\ recs' \in Seq(Record) /\ DOMAIN recs' = DOMAIN recs /\ recs'[current] = u
  BY RecordUpdate DEF SubscriptionTypeOK
<1> QED
  BY <1>1 DEF SubscriptionTypeOK, Tokens

LEMMA AddExplicitStreamOK ==
    ASSUME SubscriptionInv, NEW s \in Streams, AddExplicitStream(s)
    PROVE  SubscriptionInv'
<1> DEFINE r == recs[current]
           l == LinkStream(r, s, tails[s])
           u == [l EXCEPT !.explicit = l.explicit \cup {s}]
<1>0. /\ SubscriptionTypeOK /\ r \in Record /\ RecordOK(r) /\ tails \in [Streams -> Nat]
      /\ tails[s] \in Nat /\ current # 0
  BY DEF AddExplicitStream, SubscriptionInv, SubscriptionTypeOK, WakesOK
<1>1. /\ recs' = [recs EXCEPT ![current] = u]
      /\ UNCHANGED <<tails, notices, quiet, current, deliveries, held, claiming, down, lateDone>>
  BY DEF AddExplicitStream
<1>2. /\ l \in Record
      /\ l.input = r.input /\ l.explicit = r.explicit /\ l.glob = r.glob
      /\ l.gen = r.gen /\ l.wake = r.wake /\ l.snapshot = r.snapshot
      /\ l.relinked = r.relinked /\ l.holder = r.holder /\ l.lease = r.lease
      /\ \A t \in Streams : t # s => l.acked[t] = r.acked[t] /\ l.covered[t] = r.covered[t]
      /\ s \in Linked(r) => l.acked = r.acked /\ l.covered = r.covered
      /\ s \notin Linked(r) => l.acked[s] = tails[s] /\ l.covered[s] = tails[s]
  <2>1. r \in Record /\ tails[s] \in Int
    BY <1>0
  <2> HIDE DEF r
  <2> QED
    BY <2>1, LinkStreamType, Zenon
<1> HIDE DEF l
<1>3. /\ u \in Record
      /\ u.input = r.input /\ u.explicit = r.explicit \cup {s} /\ u.glob = r.glob
      /\ u.gen = r.gen /\ u.wake = r.wake /\ u.snapshot = r.snapshot
      /\ u.relinked = r.relinked /\ u.holder = r.holder /\ u.lease = r.lease
      /\ u.acked = l.acked /\ u.covered = l.covered
  BY <1>2 DEF Record
<1> PICK v : v = u
  OBVIOUS
<1> HIDE DEF u
<1>4. SubscriptionTypeOK' /\ recs'[current] = v
  BY <1>0, <1>1, <1>3, CurrentTyped
<1>5. \A t \in Streams : Pending(v, t)' => Pending(r, t)
  BY <1>0, <1>1, <1>2, <1>3 DEF Pending, Linked
<1>6. Noticed(v)'
  BY <1>0, <1>1, <1>3, <1>5 DEF Noticed, RecordOK
<1>7. Watched(v) /\ Similar(r, v)
  BY <1>0, <1>3 DEF Watched, RecordOK, Similar
<1>8. ~lateDone' => Behind(v)
  <2>1. \A t \in Linked(r) : t \in Streams
    BY <1>0 DEF Linked, Record
  <2>2. \A t \in Linked(v) : t = s \/ t \in Linked(r)
    BY <1>3 DEF Linked
  <2> QED
    BY <1>0, <1>1, <1>2, <1>3, <2>1, <2>2 DEF Behind, RecordOK
<1>9. Linked(r) \subseteq Linked(v)
  BY <1>3 DEF Linked
<1>10. WakesOK'
  <2> HIDE DEF r
  <2>1. \A t \in Streams : tails[t] <= tails'[t]
    BY <1>0, <1>1
  <2>2. ~v.relinked => ~r.relinked
    BY <1>3
  <2>3. tails' \in [Streams -> Nat]
    BY <1>0, <1>1
  <2> QED
    BY <1>0, <1>1, <1>3, <1>4, <1>6, <1>7, <1>8, <1>9, <2>1, <2>2, <2>3, SimilarOK DEF r
<1> QED
  BY <1>4, <1>10 DEF SubscriptionInv

\* A step that unlinks streams of the current record, or takes one away.
LEMMA RelinkedOK ==
    ASSUME SubscriptionInv, current # 0, NEW u \in Record,
           recs' = [recs EXCEPT ![current] = u], tails' \in [Streams -> Nat],
           UNCHANGED <<notices, quiet, current, deliveries, held, claiming, down, lateDone>>,
           u.relinked, Similar(recs[current], u),
           u.holder = recs[current].holder, u.lease = recs[current].lease,
           u.acked = recs[current].acked, u.covered = recs[current].covered,
           Linked(u) \subseteq Linked(recs[current]),
           \A s \in Streams : tails'[s] = tails[s] \/ (tails'[s] = 0 /\ tails[s] > 0)
    PROVE  SubscriptionInv'
<1> DEFINE r == recs[current]
<1>0. SubscriptionTypeOK /\ r \in Record /\ RecordOK(r) /\ tails \in [Streams -> Nat]
  BY DEF SubscriptionInv, SubscriptionTypeOK, WakesOK
<1>1. SubscriptionTypeOK' /\ recs'[current] = u
  BY <1>0, CurrentTyped
<1>2. \A s \in Streams : Pending(u, s)' => Pending(r, s)
  <2>1. \A s \in Streams : r.acked[s] \in Int /\ tails[s] \in Nat
    BY <1>0 DEF Record
  <2> QED
    BY <2>1 DEF Pending, Linked
<1>3. Noticed(u)'
  BY <1>0, <1>2 DEF Noticed, RecordOK, Similar
<1>4. Watched(u)
  BY <1>0 DEF Watched, RecordOK, Similar
<1>5. ~lateDone' => Behind(u)
  BY <1>0 DEF Behind, RecordOK
<1>6. WakesOK'
  BY <1>1, <1>3, <1>4, <1>5, SimilarOK
<1> QED
  BY <1>1, <1>6 DEF SubscriptionInv

LEMMA RemoveExplicitStreamOK ==
    ASSUME SubscriptionInv, NEW s \in Streams, RemoveExplicitStream(s)
    PROVE  SubscriptionInv'
<1> DEFINE r == recs[current]
           u == [r EXCEPT !.explicit = r.explicit \ {s}, !.relinked = TRUE]
<1>0. r \in Record /\ tails \in [Streams -> Nat] /\ current # 0
  BY DEF RemoveExplicitStream, SubscriptionInv, SubscriptionTypeOK
<1>1. /\ recs' = [recs EXCEPT ![current] = u]
      /\ UNCHANGED <<tails, notices, quiet, current, deliveries, held, claiming, down, lateDone>>
  BY DEF RemoveExplicitStream
<1>2. /\ u \in Record /\ u.relinked /\ Similar(r, u)
      /\ u.explicit = r.explicit \ {s} /\ u.glob = r.glob
      /\ u.holder = r.holder /\ u.lease = r.lease
      /\ u.acked = r.acked /\ u.covered = r.covered
  BY <1>0 DEF Record, Similar
<1> HIDE DEF u
<1>3. Linked(u) \subseteq Linked(r)
  BY <1>2 DEF Linked
<1> QED
  BY <1>0, <1>1, <1>2, <1>3, RelinkedOK

----------------------------------------------------------------------------
(* Streams *)

LEMMA StreamGrowsOK ==
    ASSUME SubscriptionInv, NEW s \in Streams, StreamGrowsBy1(s)
    PROVE  SubscriptionInv'
<1>0. SubscriptionTypeOK /\ tails \in [Streams -> Nat]
  BY DEF SubscriptionInv, SubscriptionTypeOK
<1>1. /\ tails' = [tails EXCEPT ![s] = tails[s] + 1] /\ notices' = notices \cup {s}
      /\ UNCHANGED <<quiet, recs, current, deliveries, held, claiming, down, lateDone>>
  BY DEF StreamGrowsBy1
<1>2. tails' \in [Streams -> Nat] /\ \A t \in Streams : tails[t] <= tails'[t]
  BY <1>0, <1>1
<1>3. SubscriptionTypeOK'
  BY <1>0, <1>1, <1>2 DEF SubscriptionTypeOK, Tokens
<1>4. CASE current = 0
  BY <1>1, <1>3, <1>4 DEF SubscriptionInv, WakesOK
<1>5. CASE current # 0
  <2> PICK r : r = recs[current]
    OBVIOUS
  <2>1. r \in Record /\ RecordOK(r)
    BY <1>0, <1>5 DEF SubscriptionInv, SubscriptionTypeOK, WakesOK
  <2>2. \A t \in Streams : Pending(r, t)' => t = s \/ Pending(r, t)
    BY <1>0, <1>1 DEF Pending, Linked
  <2>3. Noticed(r)'
    BY <1>1, <2>1, <2>2 DEF Noticed, RecordOK
  <2>4. Watched(r) /\ Similar(r, r) /\ (~lateDone => Behind(r))
    BY <2>1 DEF RecordOK, Similar
  <2>5. WakesOK'
    BY <1>1, <1>2, <1>5, <2>1, <2>3, <2>4, SimilarOK
  <2> QED
    BY <1>3, <2>5 DEF SubscriptionInv
<1> QED
  BY <1>4, <1>5

LEMMA StreamForkedOK ==
    ASSUME SubscriptionInv, NEW s \in Streams, StreamForked(s)
    PROVE  SubscriptionInv'
<1>0. SubscriptionTypeOK /\ tails \in [Streams -> Nat]
  BY DEF SubscriptionInv, SubscriptionTypeOK
<1> PICK n \in 1 .. MaxOffset - churn : tails' = [tails EXCEPT ![s] = n]
  BY DEF StreamForked
<1>1. /\ tails[s] = 0 /\ quiet' = quiet \cup {s}
      /\ UNCHANGED <<notices, recs, current, deliveries, held, claiming, down, lateDone>>
  BY DEF StreamForked
<1>a. n \in Int /\ n > 0
  OBVIOUS
<1>2. tails' \in [Streams -> Nat] /\ \A t \in Streams : tails[t] <= tails'[t]
  BY <1>0, <1>1, <1>a
<1>3. SubscriptionTypeOK'
  BY <1>0, <1>1, <1>2 DEF SubscriptionTypeOK, Tokens
<1>4. CASE current = 0
  BY <1>1, <1>3, <1>4 DEF SubscriptionInv, WakesOK
<1>5. CASE current # 0
  <2> PICK r : r = recs[current]
    OBVIOUS
  <2>1. r \in Record /\ RecordOK(r)
    BY <1>0, <1>5 DEF SubscriptionInv, SubscriptionTypeOK, WakesOK
  <2>2. \A t \in Streams : Pending(r, t)' => t = s \/ Pending(r, t)
    BY <1>0, <1>1 DEF Pending, Linked
  <2>3. Noticed(r)'
    BY <1>1, <2>1, <2>2 DEF Noticed, RecordOK
  <2>4. Watched(r) /\ Similar(r, r) /\ (~lateDone => Behind(r))
    BY <2>1 DEF RecordOK, Similar
  <2>5. WakesOK'
    BY <1>1, <1>2, <1>5, <2>1, <2>3, <2>4, SimilarOK
  <2> QED
    BY <1>3, <2>5 DEF SubscriptionInv
<1> QED
  BY <1>4, <1>5

\* A record that has been given a link to s, from the beginning.
LEMMA GlobLinkedOK ==
    ASSUME SubscriptionInv, current # 0, NEW s \in Streams
    PROVE  LET r == recs[current]
               l == LinkStream(r, s, BeforeFirst)
               u == [l EXCEPT !.glob = l.glob \cup {s}]
           IN /\ u \in Record
              /\ u.input = r.input /\ u.gen = r.gen /\ u.wake = r.wake
              /\ u.snapshot = r.snapshot /\ u.relinked = r.relinked
              /\ u.holder = r.holder /\ u.lease = r.lease
              /\ Linked(u) = Linked(r) \cup {s}
              /\ Behind(r) => Behind(u)
<1> DEFINE r == recs[current]
           l == LinkStream(r, s, BeforeFirst)
           u == [l EXCEPT !.glob = l.glob \cup {s}]
<1>0. r \in Record
  BY DEF SubscriptionInv, SubscriptionTypeOK
<1>1. /\ l \in Record
      /\ l.input = r.input /\ l.explicit = r.explicit /\ l.glob = r.glob
      /\ l.gen = r.gen /\ l.wake = r.wake /\ l.snapshot = r.snapshot
      /\ l.relinked = r.relinked /\ l.holder = r.holder /\ l.lease = r.lease
      /\ \A t \in Streams : t # s => l.acked[t] = r.acked[t] /\ l.covered[t] = r.covered[t]
      /\ s \in Linked(r) => l.acked = r.acked /\ l.covered = r.covered
      /\ s \notin Linked(r) => l.acked[s] = BeforeFirst /\ l.covered[s] = BeforeFirst
  <2>1. BeforeFirst \in Int
    BY DEF BeforeFirst
  <2> HIDE DEF r
  <2> QED
    BY <1>0, <2>1, LinkStreamType, Zenon
<1> HIDE DEF l
<1>2. /\ u \in Record
      /\ u.input = r.input /\ u.explicit = r.explicit /\ u.glob = r.glob \cup {s}
      /\ u.gen = r.gen /\ u.wake = r.wake /\ u.snapshot = r.snapshot
      /\ u.relinked = r.relinked /\ u.holder = r.holder /\ u.lease = r.lease
      /\ u.acked = l.acked /\ u.covered = l.covered
  BY <1>1 DEF Record
<1> HIDE DEF u
<1>3. Linked(u) = Linked(r) \cup {s} /\ Linked(r) \subseteq Streams
  BY <1>0, <1>2 DEF Linked, Record
<1>4. Behind(r) => Behind(u)
  BY <1>1, <1>2, <1>3 DEF Behind, BeforeFirst
<1> QED
  BY <1>2, <1>3, <1>4 DEF u, l

LEMMA MaybeWakeOK ==
    ASSUME SubscriptionInv, current # 0, NEW u \in Record, MaybeWake(current, u),
           UNCHANGED <<tails, current, claiming, down, lateDone>>,
           Similar(recs[current], u), u.relinked = recs[current].relinked,
           u.holder = recs[current].holder, u.lease = recs[current].lease,
           Linked(recs[current]) \subseteq Linked(u), ~lateDone => Behind(u)
    PROVE  SubscriptionInv'
<1> DEFINE r == recs[current]
<1>0. /\ SubscriptionTypeOK /\ r \in Record /\ RecordOK(r) /\ tails \in [Streams -> Nat]
      /\ current \in DOMAIN recs /\ deliveries \in SUBSET Tokens
  BY DEF SubscriptionInv, SubscriptionTypeOK, WakesOK
<1>1. CASE u.wake # 0 \/ u.holder # None \/ ~HasPendingWork(u)
  <2>1. recs' = [recs EXCEPT ![current] = u] /\ UNCHANGED <<deliveries, held>>
    BY <1>1 DEF MaybeWake, NoWake
  <2>2. SubscriptionTypeOK' /\ recs'[current] = u
    BY <1>0, <2>1, CurrentTyped
  <2>3. Noticed(u)'
    BY <1>1 DEF Noticed, HasPendingWork, Pending, Linked
  <2>4. Watched(u)
    BY <1>0 DEF Watched, RecordOK, Similar
  <2>5. \A t \in Streams : tails[t] <= tails'[t]
    BY <1>0
  <2>6. WakesOK'
    BY <1>0, <2>1, <2>2, <2>3, <2>4, <2>5, SimilarOK
  <2> QED
    BY <2>2, <2>6 DEF SubscriptionInv
<1>2. CASE u.wake = 0 /\ u.holder = None /\ HasPendingWork(u)
  <2>1. CreateWake(current, u, deliveries)
    BY <1>2 DEF MaybeWake
  <2>2. /\ recs' \in Seq(Record) /\ DOMAIN recs' = DOMAIN recs
        /\ deliveries' \subseteq Tokens /\ held' \subseteq Tokens
    BY <1>0, <2>1, CreateWakeType
  <2>3. SubscriptionTypeOK'
    BY <1>0, <2>2 DEF SubscriptionTypeOK, Tokens
  <2>4. WakesOK'
    BY <1>2, <2>1, CreateWakeOK DEF Similar
  <2> QED
    BY <2>3, <2>4 DEF SubscriptionInv
<1> QED
  BY <1>1, <1>2

LEMMA OnStreamAppendOK ==
    ASSUME SubscriptionInv, NEW s \in Streams, OnStreamAppend(s)
    PROVE  SubscriptionInv'
<1> DEFINE r == recs[current]
           matches == r.input.pattern # <<>> /\ GlobMatch(r.input.pattern, s)
           l == LinkStream(r, s, BeforeFirst)
           g == [l EXCEPT !.glob = l.glob \cup {s}]
           u == IF matches THEN g ELSE r
<1>0. SubscriptionTypeOK /\ tails \in [Streams -> Nat]
  BY DEF SubscriptionInv, SubscriptionTypeOK
<1>1. /\ notices' = notices \ {s} /\ quiet' = quiet \ {s}
      /\ UNCHANGED <<tails, current, claiming, down, lateDone>>
  BY DEF OnStreamAppend
<1>2. IF current # 0 /\ ~down /\ s \in Linked(u) THEN MaybeWake(current, u)
      ELSE UNCHANGED <<recs, deliveries, held>>
  BY DEF OnStreamAppend
<1>3. CASE current = 0
  <2>1. UNCHANGED <<recs, deliveries, held>>
    BY <1>2, <1>3
  <2> QED
    BY <1>0, <1>1, <1>3, <2>1 DEF SubscriptionInv, SubscriptionTypeOK, Tokens, WakesOK
<1>4. CASE current # 0
  <2>1. r \in Record /\ RecordOK(r) /\ ~down
    BY <1>0, <1>4 DEF SubscriptionInv, SubscriptionTypeOK, WakesOK
  <2>2. /\ g \in Record
        /\ g.input = r.input /\ g.gen = r.gen /\ g.wake = r.wake
        /\ g.snapshot = r.snapshot /\ g.relinked = r.relinked
        /\ g.holder = r.holder /\ g.lease = r.lease
        /\ Linked(g) = Linked(r) \cup {s}
        /\ Behind(r) => Behind(g)
    BY <1>4, GlobLinkedOK
  <2> HIDE DEF g, matches
  <2>3. /\ u \in Record /\ Similar(r, u) /\ u.relinked = r.relinked
        /\ u.holder = r.holder /\ u.lease = r.lease
        /\ Linked(r) \subseteq Linked(u) /\ (~lateDone => Behind(u))
    BY <2>1, <2>2 DEF Similar, RecordOK
  <2> HIDE DEF u
  <2>4. CASE s \in Linked(u)
    <3>1. MaybeWake(current, u)
      BY <1>2, <1>4, <2>1, <2>4
    <3> QED
      BY <1>1, <1>4, <2>3, <3>1, MaybeWakeOK
  <2>5. CASE s \notin Linked(u)
    <3>1. UNCHANGED <<recs, deliveries, held>>
      BY <1>2, <1>4, <2>5
    <3>2. SubscriptionTypeOK'
      BY <1>0, <1>1, <3>1 DEF SubscriptionTypeOK, Tokens
    <3> PICK v : v = r
      OBVIOUS
    <3>3. \A t \in Streams : Pending(v, t)' => Pending(v, t) /\ t # s
      BY <1>1, <2>3, <2>5 DEF Pending, Linked
    <3>4. Noticed(v)'
      BY <1>1, <2>1, <3>3 DEF Noticed, RecordOK
    <3>5. Watched(v) /\ Similar(v, v) /\ (~lateDone => Behind(v))
      BY <2>1 DEF RecordOK, Similar
    <3>6. \A t \in Streams : tails[t] <= tails'[t]
      BY <1>0, <1>1
    <3>7. WakesOK'
      BY <1>0, <1>1, <1>4, <2>1, <3>1, <3>4, <3>5, <3>6, SimilarOK
    <3> QED
      BY <3>2, <3>7 DEF SubscriptionInv
  <2> QED
    BY <2>4, <2>5
<1> QED
  BY <1>3, <1>4

LEMMA StreamIsDeletedOK ==
    ASSUME SubscriptionInv, NEW s \in Streams, StreamIsDeleted(s)
    PROVE  SubscriptionInv'
<1> DEFINE r == recs[current]
           u == [r EXCEPT !.relinked = TRUE]
<1>0. SubscriptionTypeOK /\ tails \in [Streams -> Nat]
  BY DEF SubscriptionInv, SubscriptionTypeOK
<1>1. /\ tails[s] > 0 /\ tails' = [tails EXCEPT ![s] = 0]
      /\ recs' = IF current = 0 THEN recs ELSE [recs EXCEPT ![current] = u]
      /\ UNCHANGED <<notices, quiet, current, deliveries, held, claiming, down, lateDone>>
  BY DEF StreamIsDeleted
<1>2. /\ tails' \in [Streams -> Nat]
      /\ \A t \in Streams : tails'[t] = tails[t] \/ (tails'[t] = 0 /\ tails[t] > 0)
  BY <1>0, <1>1
<1>3. CASE current = 0
  BY <1>0, <1>1, <1>2, <1>3 DEF SubscriptionInv, SubscriptionTypeOK, Tokens, WakesOK
<1>4. CASE current # 0
  <2>1. r \in Record
    BY <1>0, <1>4 DEF SubscriptionTypeOK
  <2>2. /\ u \in Record /\ u.relinked /\ Similar(r, u)
        /\ u.explicit = r.explicit /\ u.glob = r.glob
        /\ u.holder = r.holder /\ u.lease = r.lease
        /\ u.acked = r.acked /\ u.covered = r.covered
    BY <2>1 DEF Record, Similar
  <2>3. recs' = [recs EXCEPT ![current] = u]
    BY <1>1, <1>4
  <2> HIDE DEF u
  <2>4. Linked(u) \subseteq Linked(r)
    BY <2>2 DEF Linked
  <2> QED
    BY <1>1, <1>2, <1>4, <2>2, <2>3, <2>4, RelinkedOK
<1> QED
  BY <1>3, <1>4

LEMMA OnStreamDeletedOK ==
    ASSUME SubscriptionInv, NEW s \in Streams, OnStreamDeleted(s)
    PROVE  SubscriptionInv'
<1> DEFINE r == recs[current]
           u == [r EXCEPT !.explicit = r.explicit \ {s}, !.glob = r.glob \ {s},
                          !.relinked = TRUE]
<1>0. SubscriptionTypeOK /\ tails \in [Streams -> Nat]
  BY DEF SubscriptionInv, SubscriptionTypeOK
<1>1. /\ recs' = IF current = 0 THEN recs ELSE [recs EXCEPT ![current] = u]
      /\ UNCHANGED <<tails, notices, quiet, current, deliveries, held, claiming, down, lateDone>>
  BY DEF OnStreamDeleted
<1>2. CASE current = 0
  BY <1>0, <1>1, <1>2 DEF SubscriptionInv, SubscriptionTypeOK, Tokens, WakesOK
<1>3. CASE current # 0
  <2>1. r \in Record
    BY <1>0, <1>3 DEF SubscriptionTypeOK
  <2>2. /\ u \in Record /\ u.relinked /\ Similar(r, u)
        /\ u.explicit = r.explicit \ {s} /\ u.glob = r.glob \ {s}
        /\ u.holder = r.holder /\ u.lease = r.lease
        /\ u.acked = r.acked /\ u.covered = r.covered
    BY <2>1 DEF Record, Similar
  <2>3. recs' = [recs EXCEPT ![current] = u]
    BY <1>1, <1>3
  <2> HIDE DEF u
  <2>4. Linked(u) \subseteq Linked(r)
    BY <2>2 DEF Linked
  <2> QED
    BY <1>0, <1>1, <1>3, <2>2, <2>3, <2>4, RelinkedOK
<1> QED
  BY <1>2, <1>3

----------------------------------------------------------------------------
(* Webhooks *)

\* FinishWake of any record.
LEMMA FinishOK ==
    ASSUME SubscriptionInv, NEW k \in DOMAIN recs, NEW r \in Record,
           NEW posts \in SUBSET deliveries, FinishWake(k, r, posts),
           UNCHANGED <<tails, notices, quiet, current, claiming, down>>,
           lateDone' \in BOOLEAN, ~lateDone' => ~lateDone,
           k = current => /\ r.gen = recs[k].gen /\ r.input = recs[k].input
                          /\ ~lateDone' => Behind(r)
    PROVE  SubscriptionInv'
<1>0. SubscriptionTypeOK /\ posts \in SUBSET Tokens /\ recs \in Seq(Record) /\ k # 0
  BY DEF SubscriptionInv, SubscriptionTypeOK
<1>1. /\ recs' \in Seq(Record) /\ DOMAIN recs' = DOMAIN recs
      /\ deliveries' \subseteq Tokens /\ held' \subseteq Tokens
  BY <1>0, FinishWakeType
<1>2. SubscriptionTypeOK'
  BY <1>0, <1>1 DEF SubscriptionTypeOK, Tokens
<1>3. CASE k = current
  <2>1. WakesOK'
    BY <1>0, <1>3, FinishWakeOK
  <2> QED
    BY <1>2, <2>1 DEF SubscriptionInv
<1>4. CASE k # current
  <2>1. Idled(r) \in Record
    BY IdledType
  <2>2. \E u \in Record : recs' = [recs EXCEPT ![k] = u]
    <3>1. WithWake(Idled(r)) \in Record
      BY <1>0, <2>1, WithWakeType DEF SubscriptionTypeOK
    <3> QED
      BY <2>1, <3>1 DEF FinishWake, CreateWake, NoWake
  <2>3. current # 0 => recs'[current] = recs[current]
    BY <1>0, <1>4, <2>2, RecordUpdate DEF SubscriptionTypeOK
  <2>4. \A d \in deliveries' : d.rec = current => d \in deliveries
    <3>1. Delivery(k, WithWake(Idled(r))).rec = k
      BY DEF Delivery
    <3>2. deliveries' \subseteq posts \cup {Delivery(k, WithWake(Idled(r)))}
      BY DEF FinishWake, CreateWake, NoWake
    <3> QED
      BY <1>4, <3>1, <3>2
  <2>5. WakesOK'
    BY <2>3, <2>4, UntouchedOK
  <2> QED
    BY <1>2, <2>5 DEF SubscriptionInv
<1> QED
  BY <1>3, <1>4

\* A done answer acknowledges the snapshot of the wake that is current now: if
\* it is the one the answer is for, the worker was shown it.
LEMMA WebhookDoneOK ==
    ASSUME SubscriptionInv, NEW d \in deliveries, WebhookDone(d)
    PROVE  SubscriptionInv'
<1> DEFINE k == d.rec
           r == recs[k]
           f == [r EXCEPT !.failed = FALSE]
           a == AutoAckWakeSnapshot(f)
           u == Cover(a, d.shown)
<1>0. /\ SubscriptionTypeOK /\ k \in DOMAIN recs /\ d.shown \in Snapshots /\ r \in Record
      /\ recs \in Seq(Record)
  BY DEF SubscriptionInv, SubscriptionTypeOK, Tokens
<1>1. /\ FinishWake(k, u, deliveries \ {d})
      /\ lateDone' = (lateDone \/ (r.wake # 0 /\ r.wake # d.wake) \/ r.relinked)
      /\ UNCHANGED <<tails, notices, quiet, current, claiming, down>>
  BY DEF WebhookDone
<1>2. /\ f \in Record
      /\ f.input = r.input /\ f.explicit = r.explicit /\ f.glob = r.glob
      /\ f.gen = r.gen /\ f.covered = r.covered /\ f.acked = r.acked
      /\ f.snapshot = r.snapshot
  BY <1>0 DEF Record
<1> HIDE DEF f
<1>3. /\ a \in Record
      /\ a.input = f.input /\ a.explicit = f.explicit /\ a.glob = f.glob
      /\ a.gen = f.gen /\ a.covered = f.covered
      /\ \A s \in Streams :
           a.acked[s] = IF s \in DOMAIN f.snapshot /\ s \in Linked(f)
                        THEN f.snapshot[s] ELSE f.acked[s]
  BY <1>2, AutoAckType
<1> HIDE DEF a
<1>4. /\ u \in Record
      /\ u.input = a.input /\ u.explicit = a.explicit /\ u.glob = a.glob
      /\ u.gen = a.gen /\ u.acked = a.acked
      /\ \A s \in Streams : /\ u.covered[s] >= a.covered[s]
                            /\ s \in DOMAIN d.shown => u.covered[s] >= d.shown[s]
  BY <1>0, <1>3, CoverType
<1> HIDE DEF u
<1>5. ASSUME k = current, ~lateDone'
      PROVE  Behind(u)
  <2>1. RecordOK(r) /\ ~lateDone /\ ~r.relinked /\ (r.wake = 0 \/ r.wake = d.wake)
    <3>1. k # 0
      BY <1>0
    <3>2. RecordOK(r)
      BY <1>5, <3>1 DEF SubscriptionInv, WakesOK
    <3>3. ~lateDone /\ ~r.relinked /\ (r.wake = 0 \/ r.wake = d.wake)
      BY <1>1, <1>5, Zenon
    <3> QED
      BY <3>2, <3>3
  <2>2. Linked(u) = Linked(r) /\ Linked(f) = Linked(r) /\ Linked(r) \subseteq Streams
    BY <1>0, <1>2, <1>3, <1>4 DEF Linked, Record
  <2>3. ASSUME NEW s \in Linked(u)
        PROVE  u.acked[s] <= u.covered[s]
    <3>1. r.acked[s] <= r.covered[s] /\ u.covered[s] >= r.covered[s] /\ s \in Streams
      BY <1>2, <1>3, <1>4, <2>1, <2>2, <2>3 DEF RecordOK, Behind
    <3>2. r.acked[s] \in Int /\ r.covered[s] \in Int /\ u.covered[s] \in Int
      BY <1>0, <1>4, <3>1 DEF Record
    <3>3. CASE s \notin DOMAIN r.snapshot
      <4>1. u.acked[s] = r.acked[s]
        BY <1>2, <1>3, <1>4, <3>1, <3>3
      <4> QED
        BY <3>1, <3>2, <4>1
    <3>4. CASE s \in DOMAIN r.snapshot
      <4>1. u.acked[s] = r.snapshot[s]
        BY <1>2, <1>3, <1>4, <2>2, <2>3, <3>1, <3>4
      <4>2. r.wake # 0
        BY <2>1, <3>4 DEF RecordOK, SnapshotCurrent
      <4>3. s \in DOMAIN d.shown /\ r.snapshot[s] <= d.shown[s]
        BY <1>5, <2>1, <3>4, <4>2 DEF RecordOK, Shown
      <4>4. r.snapshot[s] \in Int /\ d.shown[s] \in Int
        BY <1>0, <3>4, <4>3 DEF Record, Snapshots
      <4>5. u.covered[s] >= d.shown[s]
        BY <1>4, <3>1, <4>3
      <4> QED
        BY <3>2, <4>1, <4>3, <4>4, <4>5
    <3> QED
      BY <3>3, <3>4
  <2> QED
    BY <2>3 DEF Behind
<1>6. lateDone' \in BOOLEAN /\ (~lateDone' => ~lateDone)
  BY <1>0, <1>1 DEF SubscriptionTypeOK
<1>7. deliveries \ {d} \in SUBSET deliveries
  OBVIOUS
<1>8. u.gen = r.gen /\ u.input = r.input
  BY <1>2, <1>3, <1>4
<1> QED
  BY <1>0, <1>1, <1>4, <1>5, <1>6, <1>7, <1>8, FinishOK

\* A record that changes in its timers and marks alone.
LEMMA MarkedOK ==
    ASSUME SubscriptionInv, NEW k \in DOMAIN recs, NEW u \in Record,
           recs' = [recs EXCEPT ![k] = u],
           UNCHANGED <<tails, notices, quiet, current, claiming, down, lateDone>>,
           Similar(recs[k], u), u.holder = recs[k].holder, u.lease = recs[k].lease,
           u.relinked = recs[k].relinked,
           u.explicit = recs[k].explicit, u.glob = recs[k].glob,
           u.acked = recs[k].acked, u.covered = recs[k].covered,
           deliveries' \subseteq Tokens, held' \subseteq Tokens,
           \A d \in deliveries' : d.rec = current => d \in deliveries \/ (k = current /\ Shown(u, d))
    PROVE  SubscriptionInv'
<1>0. SubscriptionTypeOK /\ tails \in [Streams -> Nat] /\ recs \in Seq(Record) /\ k # 0
  BY DEF SubscriptionInv, SubscriptionTypeOK
<1>1. /\ recs' \in Seq(Record) /\ DOMAIN recs' = DOMAIN recs
      /\ \A j \in DOMAIN recs : recs'[j] = IF j = k THEN u ELSE recs[j]
  BY <1>0, RecordUpdate
<1>2. SubscriptionTypeOK'
  BY <1>0, <1>1 DEF SubscriptionTypeOK, Tokens
<1>3. CASE k = current
  <2>1. RecordOK(recs[k])
    BY <1>0, <1>3 DEF SubscriptionInv, WakesOK
  <2>2. Noticed(u)'
    BY <2>1 DEF RecordOK, Noticed, Similar, Pending, Linked
  <2>3. Watched(u) /\ (~lateDone => Behind(u))
    BY <2>1 DEF RecordOK, Watched, Similar, Behind, Linked
  <2>4. Linked(recs[k]) \subseteq Linked(u) /\ \A t \in Streams : tails[t] <= tails'[t]
    BY <1>0 DEF Linked
  <2>5. recs'[current] = u
    BY <1>1, <1>3
  <2>6. WakesOK'
    BY <1>0, <1>3, <2>2, <2>3, <2>4, <2>5, SimilarOK
  <2> QED
    BY <1>2, <2>6 DEF SubscriptionInv
<1>4. CASE k # current
  <2>1. current # 0 => recs'[current] = recs[current]
    BY <1>0, <1>1, <1>4 DEF SubscriptionTypeOK
  <2>2. WakesOK'
    BY <1>4, <2>1, UntouchedOK
  <2> QED
    BY <1>2, <2>2 DEF SubscriptionInv
<1> QED
  BY <1>3, <1>4

LEMMA WebhookAnsweredOK ==
    ASSUME SubscriptionInv, NEW d \in deliveries, WebhookAccepted(d) \/ WebhookFails(d)
    PROVE  SubscriptionInv'
<1> DEFINE k == d.rec
           r == recs[k]
<1>0. k \in DOMAIN recs /\ r \in Record /\ deliveries \subseteq Tokens /\ held \subseteq Tokens
  BY DEF SubscriptionInv, SubscriptionTypeOK, Tokens
<1>1. \A u \in {r, [r EXCEPT !.failed = FALSE], [r EXCEPT !.failed = TRUE, !.retry = TRUE]} :
        /\ u \in Record /\ Similar(r, u) /\ u.holder = r.holder /\ u.lease = r.lease
        /\ u.relinked = r.relinked /\ u.explicit = r.explicit /\ u.glob = r.glob
        /\ u.acked = r.acked /\ u.covered = r.covered
  <2>0. PICK v \in Record : v = r BY <1>0
  <2>1. ASSUME NEW u, u = v \/ u = [v EXCEPT !.failed = FALSE] \/ u = [v EXCEPT !.failed = TRUE, !.retry = TRUE]
        PROVE  /\ u \in Record /\ Similar(v, u) /\ u.holder = v.holder /\ u.lease = v.lease
               /\ u.relinked = v.relinked /\ u.explicit = v.explicit /\ u.glob = v.glob
               /\ u.acked = v.acked /\ u.covered = v.covered
    <3>1. CASE u = v BY ONLY <3>1, v \in Record DEF Similar
    <3>2. CASE u = [v EXCEPT !.failed = FALSE] BY ONLY <3>2, v \in Record DEF Record, Similar
    <3>3. CASE u = [v EXCEPT !.failed = TRUE, !.retry = TRUE] BY ONLY <3>3, v \in Record DEF Record, Similar
    <3> QED BY <2>1, <3>1, <3>2, <3>3
  <2> HIDE DEF r
  <2> QED BY <2>0, <2>1
<1>2. PICK u \in {r, [r EXCEPT !.failed = FALSE], [r EXCEPT !.failed = TRUE, !.retry = TRUE]} :
        NoWake(k, u, deliveries \ {d})
  BY DEF WebhookAccepted, WebhookFails
<1>3. UNCHANGED <<tails, notices, quiet, current, claiming, down, lateDone>>
  BY DEF WebhookAccepted, WebhookFails
<1>4. recs' = [recs EXCEPT ![k] = u] /\ deliveries' = deliveries \ {d} /\ held' = held
  BY <1>2 DEF NoWake
<1> QED
  BY <1>0, <1>1, <1>3, <1>4, MarkedOK

\* A retry shows the worker at least what the wake's snapshot holds.
LEMMA RetryFiresOK ==
    ASSUME SubscriptionInv, NEW k \in DOMAIN recs, RetryFires(k)
    PROVE  SubscriptionInv'
<1> DEFINE u == [recs[k] EXCEPT !.retry = FALSE]
           d == Delivery(k, u)
<1>0. /\ recs[k] \in Record /\ tails \in [Streams -> Nat]
      /\ deliveries \subseteq Tokens /\ held \subseteq Tokens /\ k # 0
  BY DEF SubscriptionInv, SubscriptionTypeOK
<1>1. /\ recs' = [recs EXCEPT ![k] = u]
      /\ deliveries' \subseteq deliveries \cup {d} /\ held' \subseteq held \cup {d}
      /\ UNCHANGED <<tails, notices, quiet, current, claiming, down, lateDone>>
  BY DEF RetryFires
<1>2. /\ u \in Record /\ Similar(recs[k], u)
      /\ u.holder = recs[k].holder /\ u.lease = recs[k].lease
      /\ u.relinked = recs[k].relinked
      /\ u.explicit = recs[k].explicit /\ u.glob = recs[k].glob
      /\ u.acked = recs[k].acked /\ u.covered = recs[k].covered
  BY <1>0 DEF Record, Similar
<1> HIDE DEF u
<1>3. d \in Tokens /\ d.rec = k /\ d.wake = u.wake /\ d.shown = StreamInfos(u)
  BY <1>0, <1>2, DeliveryType
<1>4. /\ DOMAIN StreamInfos(u) = Linked(u)
      /\ \A s \in Linked(u) : StreamInfos(u)[s] = tails[s]
  BY <1>0, <1>2, StreamInfosType
<1> HIDE DEF d
<1>5. k = current => Shown(u, d)
  <2>1. k = current => SnapshotCurrent(recs[k])
    BY <1>0 DEF SubscriptionInv, WakesOK, RecordOK
  <2>2. k = current => SnapshotCurrent(u)
    BY <1>2, <2>1 DEF SnapshotCurrent, Similar, Linked
  <2> QED
    BY <1>3, <1>4, <2>2 DEF SnapshotCurrent, Shown
<1>6. \A e \in deliveries' : e.rec = current => e \in deliveries \/ (k = current /\ Shown(u, e))
  BY <1>1, <1>3, <1>5
<1>7. deliveries' \subseteq Tokens /\ held' \subseteq Tokens
  BY <1>0, <1>1, <1>3
<1> QED
  BY <1>1, <1>2, <1>6, <1>7, MarkedOK

LEMMA LeaseExpiresOK ==
    ASSUME SubscriptionInv, NEW k \in DOMAIN recs, LeaseExpires(k)
    PROVE  SubscriptionInv'
<1>0. recs[k] \in Record /\ lateDone \in BOOLEAN /\ k # 0
  BY DEF SubscriptionInv, SubscriptionTypeOK
<1>1. /\ FinishWake(k, recs[k], deliveries)
      /\ UNCHANGED <<tails, notices, quiet, current, claiming, down, lateDone>>
  BY DEF LeaseExpires
<1>2. k = current /\ ~lateDone => Behind(recs[k])
  BY <1>0 DEF SubscriptionInv, WakesOK, RecordOK
<1> QED
  BY <1>0, <1>1, <1>2, FinishOK

----------------------------------------------------------------------------
(* Workers *)

LEMMA ClaimOK ==
    ASSUME SubscriptionInv, NEW w \in Workers, Claim(w)
    PROVE  SubscriptionInv'
<1> DEFINE r == recs[current]
           c == [worker |-> w, rec |-> current]
<1>0. /\ SubscriptionTypeOK /\ current # 0 /\ current \in DOMAIN recs /\ r \in Record
      /\ RecordOK(r) /\ deliveries \in SUBSET Tokens
  BY DEF Claim, SubscriptionInv, SubscriptionTypeOK, WakesOK
<1>1. /\ claiming' = claiming \cup {c} /\ r.holder = None
      /\ UNCHANGED <<tails, notices, quiet, current, down, lateDone>>
  BY DEF Claim
<1>2. CASE r.wake = 0
  <2>1. CreateWake(current, r, deliveries)
    BY <1>2 DEF Claim
  <2>2. /\ recs' \in Seq(Record) /\ DOMAIN recs' = DOMAIN recs
        /\ deliveries' \subseteq Tokens /\ held' \subseteq Tokens
    BY <1>0, <2>1, CreateWakeType
  <2>3. SubscriptionTypeOK'
    BY <1>0, <1>1, <2>2 DEF SubscriptionTypeOK, Tokens
  <2>4. ~lateDone' => Behind(r)
    BY <1>0, <1>1 DEF RecordOK
  <2>5. deliveries \in SUBSET deliveries
    OBVIOUS
  <2>6. WakesOK'
    BY <1>0, <1>1, <2>1, <2>4, <2>5, CreateWakeOK
  <2> QED
    BY <2>3, <2>6 DEF SubscriptionInv
<1>3. CASE r.wake # 0
  <2>1. UNCHANGED <<recs, deliveries, held>>
    BY <1>3 DEF Claim
  <2>2. SubscriptionTypeOK'
    BY <1>0, <1>1, <2>1 DEF SubscriptionTypeOK, Tokens
  <2>3. WakesOK'
    BY <1>1, <2>1, UntouchedOK
  <2> QED
    BY <2>2, <2>3 DEF SubscriptionInv
<1> QED
  BY <1>2, <1>3

\* The current record with its lease running, and cursors that only go forward
\* as far as the workers are.
LEMMA LeasedOK ==
    ASSUME SubscriptionInv, current # 0, NEW u \in Record, recs'[current] = u,
           UNCHANGED <<tails, current, deliveries, lateDone>>,
           Similar(recs[current], u), u.lease, u.relinked = recs[current].relinked,
           Linked(u) = Linked(recs[current]), ~lateDone => Behind(u)
    PROVE  WakesOK'
<1>1. Watched(u) /\ Noticed(u)'
  BY DEF Watched, Noticed
<1>2. tails \in [Streams -> Nat] /\ \A t \in Streams : tails[t] <= tails'[t]
  BY DEF SubscriptionInv, SubscriptionTypeOK
<1> QED
  BY <1>1, <1>2, SimilarOK

LEMMA ClaimResumesOK ==
    ASSUME SubscriptionInv, NEW c \in claiming, ClaimResumes(c)
    PROVE  SubscriptionInv'
<1> DEFINE k == c.rec
           u == [recs[k] EXCEPT !.holder = c.worker, !.token = TRUE, !.lease = TRUE]
<1>0. /\ SubscriptionTypeOK /\ k \in DOMAIN recs /\ c.worker \in Workers
      /\ recs[k] \in Record /\ recs \in Seq(Record) /\ k # 0
      /\ tails \in [Streams -> Nat]
  <2>1. c \in [worker : Workers, rec : DOMAIN recs]
    BY DEF SubscriptionInv, SubscriptionTypeOK
  <2> QED
    BY <2>1 DEF SubscriptionInv, SubscriptionTypeOK
<1>1. /\ recs' = [recs EXCEPT ![k] = u] /\ claiming' = claiming \ {c}
      /\ held' = held \cup {Delivery(k, u)}
      /\ UNCHANGED <<tails, notices, quiet, current, deliveries, down, lateDone>>
  BY DEF ClaimResumes
<1>2. /\ u \in Record /\ Similar(recs[k], u) /\ u.lease
      /\ u.relinked = recs[k].relinked
      /\ u.explicit = recs[k].explicit /\ u.glob = recs[k].glob
      /\ u.acked = recs[k].acked /\ u.covered = recs[k].covered
  BY <1>0 DEF Record, Similar
<1> HIDE DEF u
<1>3. /\ recs' \in Seq(Record) /\ DOMAIN recs' = DOMAIN recs
      /\ \A j \in DOMAIN recs : recs'[j] = IF j = k THEN u ELSE recs[j]
  BY <1>0, <1>1, <1>2, RecordUpdate
<1>4. Delivery(k, u) \in Tokens
  BY <1>0, <1>2, DeliveryType
<1>5. SubscriptionTypeOK'
  BY <1>0, <1>1, <1>3, <1>4 DEF SubscriptionTypeOK, Tokens
<1>6. CASE k = current
  <2>1. Linked(u) = Linked(recs[current])
    BY <1>2, <1>6 DEF Linked
  <2>2. ~lateDone => Behind(u)
    BY <1>0, <1>2, <1>6, <2>1 DEF SubscriptionInv, WakesOK, RecordOK, Behind
  <2>3. recs'[current] = u
    BY <1>0, <1>3, <1>6
  <2>4. WakesOK'
    BY <1>0, <1>1, <1>2, <1>6, <2>1, <2>2, <2>3, LeasedOK
  <2> QED
    BY <1>5, <2>4 DEF SubscriptionInv
<1>7. CASE k # current
  <2>1. current # 0 => recs'[current] = recs[current]
    BY <1>0, <1>3, <1>7 DEF SubscriptionTypeOK
  <2>2. WakesOK'
    BY <1>1, <2>1, UntouchedOK
  <2> QED
    BY <1>5, <2>2 DEF SubscriptionInv
<1> QED
  BY <1>6, <1>7

LEMMA AcksOfType ==
    ASSUME NEW h \in Tokens, NEW acks \in AcksOf(h)
    PROVE  acks \in Snapshots
<1>1. h.shown \in Snapshots
  BY DEF Tokens
<1>2. DOMAIN h.shown \subseteq Streams
  BY <1>1 DEF Snapshots
<1>3. ASSUME NEW t \in DOMAIN h.shown
      PROVE  [s \in {t} |-> 1] \in Snapshots
  <2>1. {t} \in SUBSET Streams
    BY <1>2, <1>3
  <2>2. [s \in {t} |-> 1] \in [{t} -> Nat]
    OBVIOUS
  <2> QED
    BY <2>1, <2>2, Zenon DEF Snapshots
<1> QED
  BY <1>1, <1>3, NoSnapshotType DEF AcksOf

LEMMA AcknowledgeOK ==
    ASSUME SubscriptionInv, NEW h \in held, NEW acks \in AcksOf(h), NEW done \in BOOLEAN,
           Acknowledge(h, acks, done)
    PROVE  SubscriptionInv'
<1> DEFINE r == recs[current]
           a == WithAcks(r, acks)
           u == [a EXCEPT !.lease = TRUE]
<1>0. /\ SubscriptionTypeOK /\ current # 0 /\ current \in DOMAIN recs /\ r \in Record
      /\ RecordOK(r) /\ lateDone \in BOOLEAN /\ h \in Tokens
  BY DEF Acknowledge, SubscriptionInv, SubscriptionTypeOK, WakesOK
<1>1. acks \in Snapshots
  BY <1>0, AcksOfType
<1>2. /\ a \in Record
      /\ a.input = r.input /\ a.explicit = r.explicit /\ a.glob = r.glob
      /\ a.gen = r.gen /\ a.wake = r.wake /\ a.snapshot = r.snapshot
      /\ a.relinked = r.relinked /\ a.holder = r.holder /\ a.lease = r.lease
      /\ \A s \in Streams :
           /\ a.acked[s] = IF s \in DOMAIN acks THEN acks[s] ELSE r.acked[s]
           /\ a.covered[s] >= r.covered[s]
           /\ s \in DOMAIN acks => a.covered[s] >= acks[s]
  <2> HIDE DEF r
  <2> QED
    BY <1>0, <1>1, WithAcksType, Zenon
<1>3. /\ UNCHANGED <<tails, notices, quiet, current, claiming, down, lateDone>>
      /\ IF done THEN FinishWake(current, a, deliveries) ELSE NoWake(current, u, deliveries)
  BY DEF Acknowledge
<1> HIDE DEF a
<1>4. ~lateDone => Behind(a)
  <2>1. Linked(a) = Linked(r) /\ Linked(r) \subseteq Streams
    BY <1>0, <1>2 DEF Linked, Record
  <2>2. ~lateDone => Behind(r)
    BY <1>0 DEF RecordOK
  <2>3. ASSUME ~lateDone, NEW s \in Linked(a)
        PROVE  a.acked[s] <= a.covered[s]
    <3>1. s \in Streams /\ r.acked[s] <= r.covered[s]
      BY <2>1, <2>2, <2>3 DEF Behind
    <3>2. r.acked[s] \in Int /\ r.covered[s] \in Int /\ a.covered[s] \in Int
          /\ a.acked[s] \in Int
      BY <1>0, <1>2, <3>1 DEF Record
    <3> QED
      BY <1>2, <3>1, <3>2
  <2> QED
    BY <2>3 DEF Behind
<1>5. CASE done
  <2>1. FinishWake(current, a, deliveries) /\ deliveries \in SUBSET deliveries
    BY <1>3, <1>5
  <2> QED
    BY <1>0, <1>2, <1>3, <1>4, <2>1, FinishOK
<1>6. CASE ~done
  <2>1. recs' = [recs EXCEPT ![current] = u] /\ UNCHANGED <<deliveries, held>>
    BY <1>3, <1>6 DEF NoWake
  <2>2. /\ u \in Record /\ Similar(r, u) /\ u.lease
        /\ u.relinked = r.relinked /\ u.explicit = a.explicit /\ u.glob = a.glob
        /\ u.acked = a.acked /\ u.covered = a.covered
    BY <1>2 DEF Record, Similar
  <2> HIDE DEF u
  <2>3. Linked(u) = Linked(r) /\ (~lateDone => Behind(u))
    BY <1>2, <1>4, <2>2 DEF Linked, Behind
  <2>4. SubscriptionTypeOK' /\ recs'[current] = u
    BY <1>0, <1>3, <2>1, <2>2, CurrentTyped DEF SubscriptionTypeOK
  <2>5. WakesOK'
    BY <1>0, <1>3, <2>1, <2>2, <2>3, <2>4, LeasedOK
  <2> QED
    BY <2>4, <2>5 DEF SubscriptionInv
<1> QED
  BY <1>5, <1>6

LEMMA ReleaseOK ==
    ASSUME SubscriptionInv, NEW h, Release(h)
    PROVE  SubscriptionInv'
<1>0. /\ current # 0 /\ current \in DOMAIN recs /\ recs[current] \in Record
      /\ RecordOK(recs[current]) /\ lateDone \in BOOLEAN
  BY DEF Release, SubscriptionInv, SubscriptionTypeOK, WakesOK
<1>1. /\ FinishWake(current, recs[current], deliveries)
      /\ UNCHANGED <<tails, notices, quiet, current, claiming, down, lateDone>>
      /\ deliveries \in SUBSET deliveries
  BY DEF Release
<1>2. ~lateDone => Behind(recs[current])
  BY <1>0 DEF RecordOK
<1> QED
  BY <1>0, <1>1, <1>2, FinishOK

----------------------------------------------------------------------------
(* The theorems *)

LEMMA SubscriptionInitOK == SubscriptionInit => SubscriptionInv
<1> SUFFICES ASSUME SubscriptionInit PROVE SubscriptionInv
  OBVIOUS
<1>1. tails \in [Streams -> Nat]
  BY DEF SubscriptionInit
<1>2. <<>> \in Seq(Record)
  OBVIOUS
<1>3. SubscriptionTypeOK
  BY <1>1, <1>2, Zenon DEF SubscriptionInit, SubscriptionTypeOK
<1>4. WakesOK
  BY DEF SubscriptionInit, WakesOK
<1> QED
  BY <1>3, <1>4 DEF SubscriptionInv

LEMMA SubscriptionStep ==
    ASSUME SubscriptionInv, [SubscriptionNext]_subscriptionVars
    PROVE  SubscriptionInv'
<1>1. CASE UNCHANGED subscriptionVars
  <2>1. SubscriptionTypeOK'
    BY <1>1 DEF subscriptionVars, SubscriptionInv, SubscriptionTypeOK, Tokens
  <2>2. WakesOK'
    BY <1>1, UntouchedOK DEF subscriptionVars
  <2> QED
    BY <2>1, <2>2 DEF SubscriptionInv
<1>2. ASSUME NEW in \in Inputs, CreateOrConfirm(in)
      PROVE  SubscriptionInv'
  BY <1>2, CreateOrConfirmOK
<1>3. CASE DeleteSubscription \/ Shutdown
  BY <1>3, ForgetOK
<1>4. ASSUME NEW s \in Streams, HandleStreams(s) \/ HandleStream(s)
      PROVE  SubscriptionInv'
  BY <1>4, AddExplicitStreamOK, RemoveExplicitStreamOK DEF HandleStreams, HandleStream
<1>5. ASSUME NEW s \in Streams, StreamGrowsBy1(s) \/ StreamForked(s) \/ OnStreamAppend(s)
      PROVE  SubscriptionInv'
  BY <1>5, StreamGrowsOK, StreamForkedOK, OnStreamAppendOK
<1>6. ASSUME NEW s \in Streams, StreamIsDeleted(s) \/ OnStreamDeleted(s)
      PROVE  SubscriptionInv'
  BY <1>6, StreamIsDeletedOK, OnStreamDeletedOK
<1>7. ASSUME NEW d \in deliveries, WebhookDone(d) \/ WebhookAccepted(d) \/ WebhookFails(d)
      PROVE  SubscriptionInv'
  BY <1>7, WebhookDoneOK, WebhookAnsweredOK
<1>8. ASSUME NEW k \in DOMAIN recs, RetryFires(k) \/ LeaseExpires(k)
      PROVE  SubscriptionInv'
  BY <1>8, RetryFiresOK, LeaseExpiresOK
<1>9. ASSUME NEW w \in Workers, HandleClaim(w)
      PROVE  SubscriptionInv'
  BY <1>9, ClaimOK DEF HandleClaim
<1>10. ASSUME NEW c \in claiming, ClaimResumes(c)
       PROVE  SubscriptionInv'
  BY <1>10, ClaimResumesOK
<1>11. ASSUME NEW h \in held, NEW acks \in AcksOf(h), NEW done \in BOOLEAN,
              HandleCallback(h, acks, done) \/ HandleAck(h, acks, done)
       PROVE  SubscriptionInv'
  BY <1>11, AcknowledgeOK DEF HandleCallback, HandleAck, Callback, Ack
<1>12. ASSUME NEW h \in held, HandleRelease(h)
       PROVE  SubscriptionInv'
  BY <1>12, ReleaseOK DEF HandleRelease
<1> QED
  BY <1>1, <1>2, <1>3, <1>4, <1>5, <1>6, <1>7, <1>8, <1>9, <1>10, <1>11, <1>12
     DEF SubscriptionNext

LEMMA Subscribed == SubscriptionSpec => []SubscriptionInv
<1>1. SubscriptionInv /\ [SubscriptionNext]_subscriptionVars => SubscriptionInv'
  BY SubscriptionStep
<1> QED
  BY <1>1, SubscriptionInitOK, PTL DEF SubscriptionSpec

\* Whatever the streams, the subscriptions and the workers, and however
\* appends, deletes, webhook answers, retries, lease expiries, claims and
\* acknowledgements overlap: a subscription with a stream ahead of its cursor
\* has a wake that its lease will end, a wake to be claimed, or the hook of an
\* append to come (maybeWake and triggerNextWakeIfPending).  A stream whose
\* messages came with a PUT that gave no notice is excepted until its next append.
THEOREM NobodyStuck == SubscriptionSpec => []NeverStuck
<1>1. SubscriptionInv => NeverStuck
  BY DEF SubscriptionInv, WakesOK, RecordOK, Watched, Noticed, NeverStuck, Attended
<1> QED
  BY <1>1, Subscribed, PTL

\* No cursor passes a message that no worker was shown and answered for, unless
\* a done answer meets another wake, or a stream of its wake was unlinked or
\* deleted (autoAckWakeSnapshot acknowledges the snapshot of the current wake).
THEOREM NoMessageSkipped == SubscriptionSpec => []NothingSkipped
<1>1. SubscriptionInv => NothingSkipped
  BY DEF SubscriptionInv, WakesOK, RecordOK, Behind, NothingSkipped
<1> QED
  BY <1>1, Subscribed, PTL
=============================================================================
