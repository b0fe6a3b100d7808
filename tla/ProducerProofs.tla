--------------------------- MODULE ProducerProofs ---------------------------
(***************************************************************************)
(* What an idempotent producer tells its user is so, for any number of     *)
(* instances, options, messages, restarts and failed fetches: the stream   *)
(* has its messages once and in order, a batch reported as sent is stored, *)
(* and close() resolves only when everything before it is.                 *)
(*                                                                         *)
(* The argument is about the numbered batches of an instance, wherever     *)
(* they are: in the queue, with a running task, in a request that is       *)
(* awaited or in one that was given up.  Their numbers follow the order of *)
(* the messages, and the server's last number divides those that are       *)
(* stored from those that can still be accepted.  Three invariants say it, *)
(* each on top of the one before: OrderInv, DeliveryInv and CloseInv.      *)
(***************************************************************************)
EXTENDS ProducerClient, FiniteSetTheorems, TLAPS

\* No instance claims epochs by itself: autoClaim has its default, and no
\* producer is one of writable().
NoClaims == \A i \in Instances : ~setup[i].autoClaim

\* The epochs of an instance with options o: its first, and one per restart().
EpochsOf(o) == o.epoch .. (o.epoch + o.restarts)

\* No epoch is that of two instances: the user gives every process that uses a
\* producerId an epoch past those of the process before it.
EpochsApart ==
    \A i, j \in Instances : i # j => EpochsOf(setup[i]) \cap EpochsOf(setup[j]) = {}

----------------------------------------------------------------------------
(* Types *)

Messages == Instances \X Nat
TaskType == [batch : Seq(Messages), seq : Nat]
RunningType ==
    [batch : Seq(Messages), seq0 : Nat, epoch0 : Nat, seq : Nat, epoch : Nat,
     waits : SUBSET Nat]
ProducerType ==
    [epoch : Nat, nextSeq : Nat, appended : Nat, pendingBatch : Seq(Messages),
     linger : BOOLEAN, queue : Seq(TaskType), running : SUBSET RunningType,
     deferred : {<<>>}, claimed : {TRUE},
     seqState : SUBSET [epoch : Nat, seq : Nat, ok : BOOLEAN],
     closed : BOOLEAN, closeResult : BOOLEAN,
     call : {"none", "closing"} \cup Call, failed : BOOLEAN, aborted : BOOLEAN,
     restarts : Nat]
RequestType ==
    [from : Instances, key : Messages, epoch : Nat, seq : Nat, body : Seq(Messages),
     close : BOOLEAN, awaited : BOOLEAN]
AnswerType ==
    [from : Instances, key : Messages,
     answer : [status : {200, 204, 400, 403, 409}, n : Nat]]

ProducerTypeOK ==
    /\ setup \in ProducerSetups
    /\ producers \in [Instances -> ProducerType]
    /\ requests \subseteq RequestType /\ answers \subseteq AnswerType
    /\ log \in Seq(Messages)
    /\ seen \in [epoch : Int, lastSeq : Int] /\ seen.epoch >= -1 /\ seen.lastSeq >= -1
    /\ closedBy \in Int \X Int

\* At most maxInFlight tasks run.
Bounded(p, max) == IsFiniteSet(p.running) /\ Cardinality(p.running) <= max

----------------------------------------------------------------------------
(* Messages are stored once and in order *)

Item(batch, epoch, seq) == [batch |-> batch, epoch |-> epoch, seq |-> seq]

\* The numbered batches of instance i: queued, running or on their way.
Items(i, p, rs) ==
    {Item(p.queue[k].batch, p.epoch, p.queue[k].seq) : k \in 1 .. Len(p.queue)}
    \cup {Item(t.batch, t.epoch, t.seq) : t \in p.running}
    \cup {Item(r.body, r.epoch, r.seq) : r \in {r \in rs : r.from = i /\ ~r.close}}

\* The number <<e, s>> is before <<e2, s2>>.
Prior(e, s, e2, s2) == e < e2 \/ (e = e2 /\ s < s2)

\* A batch of messages of i, in order, up to the one numbered last.
OwnBatch(i, b, last) ==
    /\ b \in Seq(Messages)
    /\ \A k \in 1 .. Len(b) : b[k] = <<i, b[k][2]>> /\ b[k][2] \in 1 .. last
    /\ \A k, l \in 1 .. Len(b) : k < l => b[k][2] < b[l][2]

Precedes(b, c) == \A k \in 1 .. Len(b), l \in 1 .. Len(c) : b[k][2] < c[l][2]

\* The numbers of the batches follow the order of their messages.
NumbersOK(i, p, items) ==
    /\ OwnBatch(i, p.pendingBatch, p.appended)
    /\ \A x \in items : /\ OwnBatch(i, x.batch, p.appended) /\ Len(x.batch) > 0
                        /\ x.epoch \in Nat /\ x.seq \in Nat
                        /\ Prior(x.epoch, x.seq, p.epoch, p.nextSeq)
                        /\ Precedes(x.batch, p.pendingBatch)
    /\ \A x, y \in items :
          /\ x.epoch = y.epoch /\ x.seq = y.seq => x.batch = y.batch
          /\ Prior(x.epoch, x.seq, y.epoch, y.seq) => Precedes(x.batch, y.batch)

\* What may still be accepted comes after what is stored.
LaterOK(i, p, items, lg, sn) ==
    \A j \in 1 .. Len(lg) : lg[j][1] = i =>
      /\ lg[j][2] <= p.appended
      /\ \A l \in 1 .. Len(p.pendingBatch) : lg[j][2] < p.pendingBatch[l][2]
      /\ \A x \in items : Prior(sn.epoch, sn.lastSeq, x.epoch, x.seq) =>
            \A l \in 1 .. Len(x.batch) : lg[j][2] < x.batch[l][2]

StoredIn(b, lg) == \A k \in 1 .. Len(b) : \E j \in 1 .. Len(lg) : lg[j] = b[k]

\* A request is known by its first message, a close by the number 0.
RequestOK(r) ==
    IF r.close THEN r.key = <<r.from, 0>> /\ r.body = <<<<r.from, 0>>>>
    ELSE r.key = r.body[1]

InstanceOK(i, p, X, lg, sn) == NumbersOK(i, p, X) /\ LaterOK(i, p, X, lg, sn)

\* A closed producer has nothing pending, and its epoch counts its restarts.
CallOK(o, p) ==
    /\ p.closed => p.pendingBatch = <<>>
    /\ p.call \in {"close", "closing"} => p.closed
    /\ p.epoch = o.epoch + p.restarts /\ p.restarts <= o.restarts
    /\ p.call = "restart" => p.restarts < o.restarts

\* The inductive invariant of LogInOrder, where no instance claims epochs.
OrderInv ==
    /\ ProducerTypeOK
    /\ \A i \in Instances : Bounded(producers[i], setup[i].maxInFlight)
    /\ \A r \in requests : RequestOK(r)
    /\ \A i \in Instances :
         InstanceOK(i, producers[i], Items(i, producers[i], requests), log, seen)
    /\ \A i \in Instances : CallOK(setup[i], producers[i])
    /\ \A r \in requests : r.close => producers[r.from].closed
    /\ \A a \in answers : a.key[2] = 0 => producers[a.from].closed
    /\ closedBy = Open => \A j \in 1 .. Len(log) : log[j][2] # 0
    /\ LogInOrder

----------------------------------------------------------------------------
(* What is delivered is stored *)

\* A close is numbered after every batch of its instance.
ClosesOK(i, o, p, items, rs) ==
    /\ \A r \in rs : r.from = i /\ r.close =>
          /\ r.epoch >= o.epoch /\ r.epoch <= p.epoch
          /\ \A x \in items : Prior(x.epoch, x.seq, r.epoch, r.seq)
    /\ \A x \in items : x.epoch >= o.epoch

\* When the server is at an epoch of an instance, its number is one given.
SeenOK(o, p, sn) ==
    sn.epoch \in EpochsOf(o) =>
       /\ sn.epoch <= p.epoch
       /\ sn.epoch = p.epoch /\ ~p.closed => sn.lastSeq < p.nextSeq

\* A batch whose number the server has passed is stored: a "duplicate" is one.
AcceptedOK(items, lg, sn, cb) ==
    \A x \in items : /\ x.epoch = sn.epoch /\ x.seq <= sn.lastSeq => StoredIn(x.batch, lg)
                     /\ cb # <<x.epoch, x.seq>>

\* The batch that a 200 or 204 is for is stored.
AnsweredOK(i, p, items, lg, ans) ==
    \A a \in ans : a.from = i =>
       /\ a.key[2] <= p.appended
       /\ \A l \in 1 .. Len(p.pendingBatch) : a.key[2] < p.pendingBatch[l][2]
       /\ a.answer.status \in {200, 204} =>
             \A x \in items : x.batch[1] = a.key => StoredIn(x.batch, lg)

Delivered(i, o, p, X, rs, lg, sn, cb, ans) ==
    /\ ClosesOK(i, o, p, X, rs)
    /\ SeenOK(o, p, sn)
    /\ AcceptedOK(X, lg, sn, cb)
    /\ AnsweredOK(i, p, X, lg, ans)

\* Inductive with OrderInv, where epochs are apart.
DeliveryInv ==
    /\ \A i \in Instances :
         Delivered(i, setup[i], producers[i], Items(i, producers[i], requests), requests,
                   log, seen, closedBy, answers)
    /\ closedBy # Open =>
         \E i \in Instances : producers[i].closed /\ closedBy[1] \in EpochsOf(setup[i])
    /\ DeliveredMeansStored

----------------------------------------------------------------------------
(* close() covers everything *)

HasMessage(b, i, n) == \E k \in 1 .. Len(b) : b[k] = <<i, n>>

\* Message n has been given the number s: it is in every batch of that number,
\* it is stored once the server has passed it, and a close comes after it.
NumberedBy(i, o, X, rs, lg, sn, n, s) ==
    /\ \A x \in X : x.epoch = o.epoch /\ x.seq = s => HasMessage(x.batch, i, n)
    /\ sn.epoch = o.epoch /\ s <= sn.lastSeq => HasMessage(lg, i, n)
    /\ \A r \in rs : r.from = i /\ r.close => s < r.seq

\* Every message appended is pending or has been given a number.  A batch that
\* failed keeps its number: no later one, the close included, can be accepted.
Covers(i, o, p, X, rs, lg, sn) ==
    \A n \in 1 .. p.appended :
        \/ HasMessage(p.pendingBatch, i, n)
        \/ \E s \in 0 .. (p.nextSeq - 1) : NumberedBy(i, o, X, rs, lg, sn, n, s)
CoveredOK(i, o, p, X, rs, lg, sn) ==
    p.restarts = 0 /\ ~p.aborted => Covers(i, o, p, X, rs, lg, sn)

\* While the stream is open, the server has not reached the number of a close.
Unsent(i, p, rs, sn, cb) ==
    cb = Open =>
        /\ \A r \in rs : r.from = i /\ r.close /\ sn.epoch = r.epoch => sn.lastSeq < r.seq
        /\ sn.epoch = p.epoch => sn.lastSeq < p.nextSeq

\* The stream is closed by the final message of i, after what i has appended.
Finished(i, p, lg, cb) ==
    /\ p.closed /\ cb # Open /\ lg # <<>> /\ lg[Len(lg)] = <<i, 0>>
    /\ p.restarts = 0 /\ ~p.aborted => \A n \in 1 .. p.appended : HasMessage(lg, i, n)

Settled(i, o, p, X, rs, lg, sn, cb, ans) ==
    /\ CoveredOK(i, o, p, X, rs, lg, sn)
    /\ Unsent(i, p, rs, sn, cb)
    /\ cb # Open /\ cb[1] \in EpochsOf(o) => Finished(i, p, lg, cb)
    /\ \A a \in ans : a.from = i /\ a.key[2] = 0 /\ a.answer.status \in {200, 204} =>
          Finished(i, p, lg, cb)
    /\ p.closeResult => Finished(i, p, lg, cb)

\* Inductive with OrderInv and DeliveryInv.
CloseInv ==
    \A i \in Instances :
        Settled(i, setup[i], producers[i], Items(i, producers[i], requests), requests,
                log, seen, closedBy, answers)

----------------------------------------------------------------------------
(* What a step does to the batches of an instance *)

\* The fields that numbers and order depend on.
Numbered(p) == p.appended \in Nat /\ p.epoch \in Nat /\ p.nextSeq \in Nat

\* Nothing is numbered: batches go, and the next number moves on.
QuietMove(p, X, q, Y) ==
    /\ Y \subseteq X /\ q.appended = p.appended
    /\ q.pendingBatch = p.pendingBatch \/ (q.pendingBatch = <<>> /\ q.aborted)
    /\ \/ q.epoch = p.epoch /\ q.nextSeq = p.nextSeq
       \/ Prior(p.epoch, p.nextSeq, q.epoch, q.nextSeq)

\* append() puts a message behind the pending batch.
AppendMove(i, p, X, q, Y) ==
    /\ Y \subseteq X /\ q.appended = p.appended + 1
    /\ q.pendingBatch = Append(p.pendingBatch, Message(i, p.appended + 1))
    /\ q.epoch = p.epoch /\ q.nextSeq = p.nextSeq /\ q.closed = p.closed

\* The pending batch gets the next number.
LaunchMove(p, X, q, Y) ==
    /\ p.pendingBatch # <<>>
    /\ Y \subseteq X \cup {Item(p.pendingBatch, p.epoch, p.nextSeq)}
    /\ q.appended = p.appended /\ q.pendingBatch = <<>>
    /\ q.epoch = p.epoch /\ q.nextSeq = p.nextSeq + 1

LEMMA QuietKeeps ==
    ASSUME NEW i, NEW p, NEW X, NEW q, NEW Y, NEW lg, NEW sn,
           Numbered(p), Numbered(q), InstanceOK(i, p, X, lg, sn), QuietMove(p, X, q, Y)
    PROVE  InstanceOK(i, q, Y, lg, sn)
<1>1. \A x \in Y : x \in X /\ x.epoch \in Nat /\ x.seq \in Nat BY DEF InstanceOK, NumbersOK, QuietMove
<1>2. OwnBatch(i, q.pendingBatch, q.appended)
  <2>1. CASE q.pendingBatch = p.pendingBatch BY <2>1 DEF InstanceOK, NumbersOK, QuietMove
  <2>2. CASE q.pendingBatch = <<>>
    <3>1. <<>> \in Seq(Messages) /\ Len(<<>>) = 0 OBVIOUS
    <3> QED BY <3>1, <2>2 DEF OwnBatch
  <2> QED BY <2>1, <2>2 DEF QuietMove
<1>3. \A x \in Y : Prior(x.epoch, x.seq, q.epoch, q.nextSeq)
  <2> SUFFICES ASSUME NEW x \in Y PROVE Prior(x.epoch, x.seq, q.epoch, q.nextSeq) OBVIOUS
  <2>1. Prior(x.epoch, x.seq, p.epoch, p.nextSeq) BY <1>1 DEF InstanceOK, NumbersOK
  <2> QED BY <2>1, <1>1 DEF Prior, QuietMove, Numbered
<1>4. \A x \in Y : Precedes(x.batch, q.pendingBatch)
  <2>1. \A x \in Y : Precedes(x.batch, p.pendingBatch) BY <1>1 DEF InstanceOK, NumbersOK
  <2>2. \A b : Precedes(b, <<>>) BY DEF Precedes
  <2> QED BY <2>1, <2>2 DEF QuietMove
<1>5. NumbersOK(i, q, Y)
  BY <1>1, <1>2, <1>3, <1>4 DEF InstanceOK, NumbersOK, QuietMove
<1>6. LaterOK(i, q, Y, lg, sn)
  <2> SUFFICES ASSUME NEW j \in 1 .. Len(lg), lg[j][1] = i
               PROVE  /\ lg[j][2] <= q.appended
                      /\ \A l \in 1 .. Len(q.pendingBatch) : lg[j][2] < q.pendingBatch[l][2]
                      /\ \A x \in Y : Prior(sn.epoch, sn.lastSeq, x.epoch, x.seq) =>
                            \A l \in 1 .. Len(x.batch) : lg[j][2] < x.batch[l][2]
    BY DEF LaterOK
  <2>1. Len(<<>>) = 0 OBVIOUS
  <2> QED BY <1>1, <2>1 DEF InstanceOK, LaterOK, QuietMove
<1> QED BY <1>5, <1>6 DEF InstanceOK

LEMMA AppendKeeps ==
    ASSUME NEW i \in Instances, NEW p, NEW X, NEW q, NEW Y, NEW lg \in Seq(Messages), NEW sn,
           Numbered(p), Numbered(q), InstanceOK(i, p, X, lg, sn), AppendMove(i, p, X, q, Y)
    PROVE  InstanceOK(i, q, Y, lg, sn)
<1> PICK b : b = p.pendingBatch OBVIOUS
<1> PICK c : c = q.pendingBatch OBVIOUS
<1> PICK a \in Nat : a = p.appended BY DEF Numbered
<1>1. OwnBatch(i, b, a) BY DEF InstanceOK, NumbersOK
<1>2. c = Append(b, <<i, a + 1>>) /\ q.appended = a + 1 BY DEF AppendMove, Message
<1>3. b \in Seq(Messages) /\ <<i, a + 1>> \in Messages BY <1>1 DEF OwnBatch, Messages
<1>4. c \in Seq(Messages) /\ Len(c) = Len(b) + 1 /\ c[Len(b) + 1] = <<i, a + 1>>
  BY <1>2, <1>3
<1>5. \A k \in 1 .. Len(b) : c[k] = b[k] BY <1>2, <1>3
<1>6. \A k \in 1 .. Len(c) : k = Len(b) + 1 \/ k \in 1 .. Len(b) BY <1>4, <1>3
<1>7. \A k \in 1 .. Len(b) : b[k] = <<i, b[k][2]>> /\ b[k][2] \in 1 .. a BY <1>1 DEF OwnBatch
<1>8. \A k \in 1 .. Len(c) : c[k] = <<i, c[k][2]>> /\ c[k][2] \in 1 .. (a + 1)
  <2> SUFFICES ASSUME NEW k \in 1 .. Len(c)
               PROVE  c[k] = <<i, c[k][2]>> /\ c[k][2] \in 1 .. (a + 1)
    OBVIOUS
  <2>1. CASE k = Len(b) + 1
    <3>1. c[k] = <<i, a + 1>> BY <2>1, <1>4
    <3>2. <<i, a + 1>>[2] = a + 1 OBVIOUS
    <3> QED BY <3>1, <3>2
  <2>2. CASE k \in 1 .. Len(b)
    <3>1. c[k] = b[k] /\ b[k] = <<i, b[k][2]>> /\ b[k][2] \in 1 .. a BY <2>2, <1>5, <1>7
    <3> QED BY <3>1
  <2> QED BY <2>1, <2>2, <1>6
<1>9. OwnBatch(i, c, a + 1)
  <2> SUFFICES ASSUME NEW k \in 1 .. Len(c), NEW l \in 1 .. Len(c), k < l PROVE c[k][2] < c[l][2]
    BY <1>4, <1>8 DEF OwnBatch
  <2>1. k \in 1 .. Len(b) BY <1>3, <1>4
  <2>2. CASE l = Len(b) + 1
    <3>1. c[l] = <<i, a + 1>> BY <2>2, <1>4
    <3>2. c[l][2] = a + 1 BY <3>1
    <3>3. c[k] = b[k] /\ b[k][2] \in 1 .. a BY <2>1, <1>5, <1>7
    <3> QED BY <3>2, <3>3
  <2>3. CASE l \in 1 .. Len(b) BY <2>1, <2>3, <1>5, <1>1 DEF OwnBatch
  <2> QED BY <2>2, <2>3, <1>6
<1>10. \A x \in Y : x \in X /\ x.epoch \in Nat /\ x.seq \in Nat /\ OwnBatch(i, x.batch, a) /\ Len(x.batch) > 0
                    /\ Precedes(x.batch, b)
  BY DEF InstanceOK, NumbersOK, AppendMove
<1>11. \A x \in Y : OwnBatch(i, x.batch, a + 1)
  <2> SUFFICES ASSUME NEW x \in Y PROVE OwnBatch(i, x.batch, a + 1) OBVIOUS
  <2>1. OwnBatch(i, x.batch, a) BY <1>10
  <2>2. 1 .. a \subseteq 1 .. (a + 1) OBVIOUS
  <2> QED BY ONLY <2>1, <2>2 DEF OwnBatch
<1>12. \A x \in Y : Precedes(x.batch, c)
  <2> SUFFICES ASSUME NEW x \in Y, NEW k \in 1 .. Len(x.batch), NEW l \in 1 .. Len(c)
               PROVE x.batch[k][2] < c[l][2]
    BY DEF Precedes
  <2>1. x.batch[k][2] \in 1 .. a BY <1>10 DEF OwnBatch
  <2>2. CASE l = Len(b) + 1 BY <2>1, <2>2, <1>4
  <2>3. CASE l \in 1 .. Len(b) BY <2>3, <1>5, <1>10 DEF Precedes
  <2> QED BY <2>2, <2>3, <1>6
<1>13. NumbersOK(i, q, Y)
  BY <1>2, <1>9, <1>10, <1>11, <1>12 DEF InstanceOK, NumbersOK, AppendMove
<1>14. LaterOK(i, q, Y, lg, sn)
  <2> SUFFICES ASSUME NEW j \in 1 .. Len(lg), lg[j][1] = i
               PROVE  /\ lg[j][2] <= a + 1
                      /\ \A l \in 1 .. Len(c) : lg[j][2] < c[l][2]
                      /\ \A x \in Y : Prior(sn.epoch, sn.lastSeq, x.epoch, x.seq) =>
                            \A l \in 1 .. Len(x.batch) : lg[j][2] < x.batch[l][2]
    BY <1>2 DEF LaterOK
  <2>1. lg[j] \in Messages OBVIOUS
  <2>2. lg[j][2] \in Nat BY <2>1 DEF Messages
  <2>3. lg[j][2] <= a /\ \A l \in 1 .. Len(b) : lg[j][2] < b[l][2] BY DEF InstanceOK, LaterOK
  <2>4. \A l \in 1 .. Len(c) : lg[j][2] < c[l][2]
    <3> SUFFICES ASSUME NEW l \in 1 .. Len(c) PROVE lg[j][2] < c[l][2] OBVIOUS
    <3>1. CASE l = Len(b) + 1 BY <3>1, <2>2, <2>3, <1>4
    <3>2. CASE l \in 1 .. Len(b) BY <3>2, <2>3, <1>5
    <3> QED BY <3>1, <3>2, <1>6
  <2>5. \A x \in Y : Prior(sn.epoch, sn.lastSeq, x.epoch, x.seq) =>
                            \A l \in 1 .. Len(x.batch) : lg[j][2] < x.batch[l][2]
    BY <1>10 DEF InstanceOK, LaterOK
  <2> QED BY <2>2, <2>3, <2>4, <2>5
<1> QED BY <1>13, <1>14 DEF InstanceOK

LEMMA LaunchKeeps ==
    ASSUME NEW i, NEW p, NEW X, NEW q, NEW Y, NEW lg, NEW sn,
           Numbered(p), Numbered(q), InstanceOK(i, p, X, lg, sn), LaunchMove(p, X, q, Y)
    PROVE  InstanceOK(i, q, Y, lg, sn)
<1> PICK b : b = p.pendingBatch OBVIOUS
<1> PICK z : z = Item(b, p.epoch, p.nextSeq) OBVIOUS
<1>1. z.batch = b /\ z.epoch = p.epoch /\ z.seq = p.nextSeq BY DEF Item
<1>2. \A x \in Y : x \in X \/ x = z BY DEF LaunchMove
<1>3. OwnBatch(i, b, p.appended) /\ b # <<>> BY DEF InstanceOK, NumbersOK, LaunchMove
<1>4. Len(b) > 0 BY <1>3 DEF OwnBatch
<1>5. \A x \in X : /\ OwnBatch(i, x.batch, p.appended) /\ Len(x.batch) > 0
                   /\ x.epoch \in Nat /\ x.seq \in Nat
                   /\ Prior(x.epoch, x.seq, p.epoch, p.nextSeq)
                   /\ Precedes(x.batch, b)
  BY DEF InstanceOK, NumbersOK
<1>6. OwnBatch(i, q.pendingBatch, q.appended)
  <2>1. <<>> \in Seq(Messages) /\ Len(<<>>) = 0 OBVIOUS
  <2> QED BY <2>1 DEF OwnBatch, LaunchMove
<1>7. \A x \in Y : /\ OwnBatch(i, x.batch, q.appended) /\ Len(x.batch) > 0
                   /\ x.epoch \in Nat /\ x.seq \in Nat
  BY <1>1, <1>2, <1>3, <1>4, <1>5 DEF LaunchMove, Numbered
<1>8. \A x \in Y : Prior(x.epoch, x.seq, q.epoch, q.nextSeq)
  BY <1>1, <1>2, <1>5 DEF LaunchMove, Numbered, Prior
<1>9. \A x \in Y : Precedes(x.batch, q.pendingBatch)
  BY DEF Precedes, LaunchMove
<1>10. \A x, y \in Y : /\ x.epoch = y.epoch /\ x.seq = y.seq => x.batch = y.batch
                       /\ Prior(x.epoch, x.seq, y.epoch, y.seq) => Precedes(x.batch, y.batch)
  <2> SUFFICES ASSUME NEW x \in Y, NEW y \in Y
               PROVE  /\ x.epoch = y.epoch /\ x.seq = y.seq => x.batch = y.batch
                      /\ Prior(x.epoch, x.seq, y.epoch, y.seq) => Precedes(x.batch, y.batch)
    OBVIOUS
  <2>1. CASE x \in X /\ y \in X BY <2>1 DEF InstanceOK, NumbersOK
  <2>2. CASE x = z /\ y = z
    <3>1. ~Prior(x.epoch, x.seq, y.epoch, y.seq) BY <2>2, <1>1 DEF Prior, Numbered
    <3> QED BY <3>1, <2>2
  <2>3. CASE x \in X /\ y = z
    <3>1. Prior(x.epoch, x.seq, y.epoch, y.seq) /\ Precedes(x.batch, y.batch) BY <2>3, <1>1, <1>5
    <3>2. ~(x.epoch = y.epoch /\ x.seq = y.seq) BY <3>1, <1>7 DEF Prior
    <3> QED BY <3>1, <3>2
  <2>4. CASE x = z /\ y \in X
    <3>1. Prior(y.epoch, y.seq, x.epoch, x.seq) BY <2>4, <1>1, <1>5
    <3>2. ~(x.epoch = y.epoch /\ x.seq = y.seq) BY <3>1, <1>7 DEF Prior
    <3>3. ~Prior(x.epoch, x.seq, y.epoch, y.seq) BY <3>1, <1>7 DEF Prior
    <3> QED BY <3>2, <3>3
  <2> QED BY <2>1, <2>2, <2>3, <2>4, <1>2
<1>11. NumbersOK(i, q, Y) BY <1>6, <1>7, <1>8, <1>9, <1>10 DEF NumbersOK
<1>12. LaterOK(i, q, Y, lg, sn)
  <2> SUFFICES ASSUME NEW j \in 1 .. Len(lg), lg[j][1] = i
               PROVE  /\ lg[j][2] <= q.appended
                      /\ \A l \in 1 .. Len(q.pendingBatch) : lg[j][2] < q.pendingBatch[l][2]
                      /\ \A x \in Y : Prior(sn.epoch, sn.lastSeq, x.epoch, x.seq) =>
                            \A l \in 1 .. Len(x.batch) : lg[j][2] < x.batch[l][2]
    BY DEF LaterOK
  <2>1. Len(<<>>) = 0 OBVIOUS
  <2>2. \A l \in 1 .. Len(b) : lg[j][2] < b[l][2] BY DEF InstanceOK, LaterOK
  <2>3. lg[j][2] <= q.appended BY DEF InstanceOK, LaterOK, LaunchMove
  <2>4. \A x \in Y : Prior(sn.epoch, sn.lastSeq, x.epoch, x.seq) =>
                            \A l \in 1 .. Len(x.batch) : lg[j][2] < x.batch[l][2]
    BY <1>1, <1>2, <2>2 DEF InstanceOK, LaterOK
  <2> QED BY <2>1, <2>3, <2>4 DEF LaunchMove
<1> QED BY <1>11, <1>12 DEF InstanceOK

\* what is stored now does not come after what may still be accepted
BodyOK(i, p, X, body, e, s) ==
    \A k \in 1 .. Len(body) : body[k][1] = i =>
      /\ body[k][2] <= p.appended
      /\ \A l \in 1 .. Len(p.pendingBatch) : body[k][2] < p.pendingBatch[l][2]
      /\ \A y \in X : Prior(e, s, y.epoch, y.seq) =>
            \A l \in 1 .. Len(y.batch) : body[k][2] < y.batch[l][2]

LEMMA AcceptKeeps ==
    ASSUME NEW i, NEW p, NEW X, NEW Y, Y \subseteq X, NEW lg \in Seq(Messages), NEW body \in Seq(Messages),
           NEW sn \in ProducerState, NEW e \in Nat, NEW s \in Nat, Prior(sn.epoch, sn.lastSeq, e, s),
           InstanceOK(i, p, X, lg, sn), BodyOK(i, p, X, body, e, s)
    PROVE  InstanceOK(i, p, Y, lg \o body, ProposedState(e, s))
<1> PICK L : L = lg \o body OBVIOUS
<1>1. L \in Seq(Messages) /\ Len(L) = Len(lg) + Len(body) OBVIOUS
<1>2. \A j \in 1 .. Len(lg) : L[j] = lg[j] OBVIOUS
<1>3. \A j \in 1 .. Len(L) : j \in 1 .. Len(lg) \/ (j - Len(lg) \in 1 .. Len(body) /\ L[j] = body[j - Len(lg)])
  OBVIOUS
<1>4. NumbersOK(i, p, Y) BY DEF InstanceOK, NumbersOK
<1>5. \A y \in Y : y \in X /\ y.epoch \in Nat /\ y.seq \in Nat BY DEF InstanceOK, NumbersOK
<1>6. sn.epoch \in Int /\ sn.lastSeq \in Int BY DEF ProducerState
<1>7. \A y \in Y : Prior(e, s, y.epoch, y.seq) => Prior(sn.epoch, sn.lastSeq, y.epoch, y.seq)
  BY <1>5, <1>6 DEF Prior
<1>8. LaterOK(i, p, Y, L, ProposedState(e, s))
  <2> SUFFICES ASSUME NEW j \in 1 .. Len(L), L[j][1] = i
               PROVE  /\ L[j][2] <= p.appended
                      /\ \A l \in 1 .. Len(p.pendingBatch) : L[j][2] < p.pendingBatch[l][2]
                      /\ \A y \in Y : Prior(e, s, y.epoch, y.seq) =>
                            \A l \in 1 .. Len(y.batch) : L[j][2] < y.batch[l][2]
    BY DEF LaterOK, ProposedState
  <2>1. CASE j \in 1 .. Len(lg)
    <3>1. L[j] = lg[j] BY <2>1, <1>2
    <3>2. /\ lg[j][2] <= p.appended
          /\ \A l \in 1 .. Len(p.pendingBatch) : lg[j][2] < p.pendingBatch[l][2]
          /\ \A y \in X : Prior(sn.epoch, sn.lastSeq, y.epoch, y.seq) =>
                \A l \in 1 .. Len(y.batch) : lg[j][2] < y.batch[l][2]
      BY <2>1, <3>1 DEF InstanceOK, LaterOK
    <3> QED BY <3>1, <3>2, <1>5, <1>7
  <2>2. CASE j - Len(lg) \in 1 .. Len(body) /\ L[j] = body[j - Len(lg)]
    BY <2>2, <1>5 DEF BodyOK
  <2> QED BY <2>1, <2>2, <1>3
<1> QED BY <1>4, <1>8 DEF InstanceOK

\* an own batch that is accepted
LEMMA OwnBody ==
    ASSUME NEW i, NEW p, NEW X, NEW lg, NEW sn, NEW x \in X, InstanceOK(i, p, X, lg, sn), Numbered(p)
    PROVE  BodyOK(i, p, X, x.batch, x.epoch, x.seq)
<1>1. OwnBatch(i, x.batch, p.appended) /\ Precedes(x.batch, p.pendingBatch) BY DEF InstanceOK, NumbersOK
<1>2. \A y \in X : Prior(x.epoch, x.seq, y.epoch, y.seq) => Precedes(x.batch, y.batch)
  BY DEF InstanceOK, NumbersOK
<1>3. \A k \in 1 .. Len(x.batch) : x.batch[k][2] <= p.appended BY <1>1 DEF OwnBatch, Numbered
<1> QED BY <1>1, <1>2, <1>3 DEF BodyOK, Precedes

\* the final message of a close
LEMMA FinalBody ==
    ASSUME NEW i, NEW p, NEW X, NEW lg, NEW sn, InstanceOK(i, p, X, lg, sn), Numbered(p),
           NEW body, \A k \in 1 .. Len(body) : body[k][2] = 0, NEW e, NEW s
    PROVE  BodyOK(i, p, X, body, e, s)
<1>1. \A l \in 1 .. Len(p.pendingBatch) : p.pendingBatch[l][2] > 0
  BY DEF InstanceOK, NumbersOK, OwnBatch, Numbered
<1>2. \A y \in X : \A l \in 1 .. Len(y.batch) : y.batch[l][2] > 0
  BY DEF InstanceOK, NumbersOK, OwnBatch, Numbered
<1> QED BY <1>1, <1>2 DEF BodyOK, Numbered

\* LogInOrder of a longer log
LEMMA LongerLog ==
    ASSUME NEW lg \in Seq(Messages), NEW body \in Seq(Messages),
           \A j, k \in 1 .. Len(lg) : j < k /\ lg[j][1] = lg[k][1] =>
               lg[j][2] # 0 /\ (lg[k][2] = 0 \/ lg[j][2] < lg[k][2]),
           \A j \in 1 .. Len(lg), k \in 1 .. Len(body) : lg[j][1] = body[k][1] =>
               lg[j][2] # 0 /\ (body[k][2] = 0 \/ lg[j][2] < body[k][2]),
           \A j, k \in 1 .. Len(body) : j < k =>
               body[j][2] # 0 /\ body[j][2] < body[k][2],
           NEW L, L = lg \o body, NEW j \in DOMAIN L, NEW k \in DOMAIN L, j < k, L[j][1] = L[k][1]
    PROVE  L[j][2] # 0 /\ (L[k][2] = 0 \/ L[j][2] < L[k][2])
<1>1. L \in Seq(Messages) /\ Len(L) = Len(lg) + Len(body) /\ DOMAIN L = 1 .. Len(L) OBVIOUS
<1>2. \A m \in 1 .. Len(L) : \/ m \in 1 .. Len(lg) /\ L[m] = lg[m]
                             \/ m > Len(lg) /\ m - Len(lg) \in 1 .. Len(body) /\ L[m] = body[m - Len(lg)]
  OBVIOUS
<1>3. CASE k \in 1 .. Len(lg) /\ L[k] = lg[k]
  <2>1. j \in 1 .. Len(lg) /\ L[j] = lg[j] BY <1>1, <1>2, <1>3
  <2> QED BY <2>1, <1>3
<1>4. CASE k > Len(lg) /\ k - Len(lg) \in 1 .. Len(body) /\ L[k] = body[k - Len(lg)]
  <2>1. CASE j \in 1 .. Len(lg) /\ L[j] = lg[j] BY <2>1, <1>4
  <2>2. CASE j > Len(lg) /\ j - Len(lg) \in 1 .. Len(body) /\ L[j] = body[j - Len(lg)]
    <3>1. j - Len(lg) < k - Len(lg) BY <1>1
    <3> QED BY <3>1, <2>2, <1>4
  <2> QED BY <2>1, <2>2, <1>1, <1>2
<1> QED BY <1>1, <1>2, <1>3, <1>4

----------------------------------------------------------------------------
(* Batches change hands: pendingBatch, queue, running, requests *)

Started(p, n) ==
    [p EXCEPT !.running = @ \cup {RunningTask(p.queue[k], p.epoch) : k \in 1 .. n},
              !.queue = SubSeq(@, n + 1, Len(@))]

LEMMA StartedNumber ==
    ASSUME NEW p \in ProducerType, NEW max \in Nat, Bounded(p, max)
    PROVE  \E n \in 0 .. Len(p.queue) :
              n + Cardinality(p.running) <= max /\ StartTasks(p, max) = Started(p, n)
<1>1. Cardinality(p.running) \in Nat BY FS_CardinalityType DEF Bounded
<1>2. p.queue \in Seq(TaskType) BY DEF ProducerType
<1>3. Len(p.queue) \in Nat BY <1>2
<1> DEFINE n == IF max - Cardinality(p.running) < Len(p.queue)
                THEN max - Cardinality(p.running) ELSE Len(p.queue)
<1>4. StartTasks(p, max) = Started(p, n) BY DEF StartTasks, Started
<1>5. n \in 0 .. Len(p.queue) /\ n + Cardinality(p.running) <= max BY <1>1, <1>3 DEF Bounded
<1> QED BY <1>4, <1>5

SameCall(p, q) ==
    /\ q.closed = p.closed /\ q.call = p.call /\ q.restarts = p.restarts
    /\ q.aborted = p.aborted /\ q.closeResult = p.closeResult

\* starting tasks leaves these alone
SameNumbers(p, q) ==
    /\ q.appended = p.appended /\ q.pendingBatch = p.pendingBatch
    /\ q.epoch = p.epoch /\ q.nextSeq = p.nextSeq
    /\ SameCall(p, q)

LEMMA StartedBounded ==
    ASSUME NEW p \in ProducerType, NEW max \in Nat, Bounded(p, max), NEW n \in 0 .. Len(p.queue),
           n + Cardinality(p.running) <= max
    PROVE  Bounded(Started(p, n), max)
<1> DEFINE f == [k \in 1 .. n |-> RunningTask(p.queue[k], p.epoch)]
<1> DEFINE T == {RunningTask(p.queue[k], p.epoch) : k \in 1 .. n}
<1>0. p.queue \in Seq(TaskType) BY DEF ProducerType
<1>00. n \in Nat BY <1>0
<1>1. f \in Surjection(1 .. n, T) BY DEF Surjection
<1>2. IsFiniteSet(1 .. n) /\ Cardinality(1 .. n) = n
  <2>1. 1 \in Int /\ n \in Int BY <1>00
  <2>2. IsFiniteSet(1 .. n) /\ Cardinality(1 .. n) = IF 1 > n THEN 0 ELSE n - 1 + 1
    BY ONLY <2>1, FS_Interval
  <2> QED BY <2>2, <1>00
<1>3. IsFiniteSet(T) /\ Cardinality(T) <= n BY <1>1, <1>2, FS_Surjection DEF ExistsSurjection
<1>4. Cardinality(T) \in Nat /\ Cardinality(p.running) \in Nat BY <1>3, FS_CardinalityType DEF Bounded
<1>5. IsFiniteSet(p.running \cup T) BY <1>3, FS_Union DEF Bounded
<1>6. Cardinality(p.running \cup T) = Cardinality(p.running) + Cardinality(T) - Cardinality(p.running \cap T)
  BY <1>3, FS_Union DEF Bounded
<1>7. Cardinality(p.running \cap T) \in Nat
  <2>1. IsFiniteSet(p.running \cap T) BY <1>3, FS_Subset
  <2> QED BY <2>1, FS_CardinalityType
<1>8. Cardinality(p.running \cup T) <= max BY <1>3, <1>4, <1>6, <1>7, <1>00
<1>9. Started(p, n).running = p.running \cup T BY DEF Started, ProducerType
<1> QED BY <1>5, <1>8, <1>9 DEF Bounded

LEMMA StartedType ==
    ASSUME NEW p \in ProducerType, NEW n \in 0 .. Len(p.queue)
    PROVE  Started(p, n) \in ProducerType /\ SameNumbers(p, Started(p, n))
<1>1. p.queue \in Seq(TaskType) /\ p.epoch \in Nat /\ p.running \in SUBSET RunningType BY DEF ProducerType
<1>2. SubSeq(p.queue, n + 1, Len(p.queue)) \in Seq(TaskType) BY <1>1
<1>3. \A k \in 1 .. n : RunningTask(p.queue[k], p.epoch) \in RunningType
  <2> SUFFICES ASSUME NEW k \in 1 .. n PROVE RunningTask(p.queue[k], p.epoch) \in RunningType OBVIOUS
  <2>1. p.queue[k] \in TaskType BY <1>1
  <2> QED BY <2>1, <1>1 DEF RunningTask, RunningType, TaskType
<1>4. p.running \cup {RunningTask(p.queue[k], p.epoch) : k \in 1 .. n} \in SUBSET RunningType
  BY <1>1, <1>3
<1>5. Started(p, n) \in ProducerType BY <1>2, <1>4 DEF Started, ProducerType
<1>6. SameNumbers(p, Started(p, n)) BY DEF SameNumbers, SameCall, Started, ProducerType
<1> QED BY <1>5, <1>6

LEMMA StartedItems ==
    ASSUME NEW i, NEW rs, NEW p \in ProducerType, NEW n \in 0 .. Len(p.queue)
    PROVE  Items(i, Started(p, n), rs) \subseteq Items(i, p, rs)
<1> PICK q : q = Started(p, n) OBVIOUS
<1> PICK m \in Nat : m = Len(p.queue) BY DEF ProducerType
<1>1. p.queue \in Seq(TaskType) BY DEF ProducerType
<1>2. q.queue = SubSeq(p.queue, n + 1, m) /\ q.epoch = p.epoch BY DEF Started, ProducerType
<1>3. q.running = p.running \cup {RunningTask(p.queue[k], p.epoch) : k \in 1 .. n} BY DEF Started, ProducerType
<1>4. Len(q.queue) = m - n /\ \A k \in 1 .. (m - n) : q.queue[k] = p.queue[k + n] /\ k + n \in 1 .. m
  <2>1. PICK Q \in Seq(TaskType) : Q = p.queue BY <1>1
  <2>2. m = Len(Q) /\ n \in 0 .. m BY <2>1
  <2>3. PICK S : S = SubSeq(Q, n + 1, m) OBVIOUS
  <2>4. Len(S) = m - n BY ONLY <2>2, <2>3, m \in Nat, Q \in Seq(TaskType)
  <2>5. ASSUME NEW k \in 1 .. (m - n) PROVE S[k] = Q[k + n] /\ k + n \in 1 .. m
    <3>1. k + n \in 1 .. m BY ONLY <2>2, m \in Nat, k \in 1 .. (m - n)
    <3>2. S[k] = Q[k + n] BY ONLY <2>2, <2>3, m \in Nat, Q \in Seq(TaskType), k \in 1 .. (m - n)
    <3> QED BY <3>1, <3>2
  <2> QED BY <1>2, <2>1, <2>3, <2>4, <2>5
<1>5. SUFFICES ASSUME NEW x \in Items(i, q, rs) PROVE x \in Items(i, p, rs) OBVIOUS
<1>6. CASE \E k \in 1 .. Len(q.queue) : x = Item(q.queue[k].batch, q.epoch, q.queue[k].seq)
  <2>1. PICK k \in 1 .. Len(q.queue) : x = Item(q.queue[k].batch, q.epoch, q.queue[k].seq) BY <1>6
  <2>2. PICK j \in 1 .. m : q.queue[k] = p.queue[j] BY <1>4
  <2>3. x = Item(p.queue[j].batch, p.epoch, p.queue[j].seq) BY <1>2, <2>1, <2>2
  <2>4. \E h \in 1 .. Len(p.queue) : x = Item(p.queue[h].batch, p.epoch, p.queue[h].seq) BY <2>3
  <2> QED BY <2>4 DEF Items
<1>7. CASE \E t \in p.running : x = Item(t.batch, t.epoch, t.seq)
  BY <1>7 DEF Items
<1>8. CASE \E k \in 1 .. n : x = Item(RunningTask(p.queue[k], p.epoch).batch,
                                      RunningTask(p.queue[k], p.epoch).epoch,
                                      RunningTask(p.queue[k], p.epoch).seq)
  <2>1. PICK k \in 1 .. n : x = Item(RunningTask(p.queue[k], p.epoch).batch,
                                      RunningTask(p.queue[k], p.epoch).epoch,
                                      RunningTask(p.queue[k], p.epoch).seq)
    BY <1>8
  <2>2. x = Item(p.queue[k].batch, p.epoch, p.queue[k].seq) BY <2>1 DEF RunningTask
  <2> QED BY <2>2 DEF Items
<1>9. CASE \E r \in {r \in rs : r.from = i /\ ~r.close} : x = Item(r.body, r.epoch, r.seq)
  BY <1>9 DEF Items
<1> QED BY <1>3, <1>5, <1>6, <1>7, <1>8, <1>9 DEF Items

WellFormed(p, max) == p \in ProducerType /\ Bounded(p, max)

LEMMA StartTasksOK ==
    ASSUME NEW i, NEW rs, NEW p, NEW max \in Nat, WellFormed(p, max), NEW q, q = StartTasks(p, max)
    PROVE  WellFormed(q, max) /\ SameNumbers(p, q) /\ Items(i, q, rs) \subseteq Items(i, p, rs)
<1>0. p \in ProducerType /\ Bounded(p, max) BY DEF WellFormed
<1>1. PICK n \in 0 .. Len(p.queue) : n + Cardinality(p.running) <= max /\ q = Started(p, n)
  BY <1>0, StartedNumber
<1>2. Bounded(q, max) BY <1>0, <1>1, StartedBounded
<1>3. q \in ProducerType /\ SameNumbers(p, q) BY <1>0, <1>1, StartedType
<1>4. Items(i, q, rs) \subseteq Items(i, p, rs) BY <1>0, <1>1, StartedItems
<1> QED BY <1>2, <1>3, <1>4 DEF WellFormed

LEMMA PushedOK ==
    ASSUME NEW i, NEW rs, NEW p, NEW max \in Nat, WellFormed(p, max), p.pendingBatch # <<>>,
           NEW q, q = PushBatch([p EXCEPT !.pendingBatch = <<>>], p.pendingBatch)
    PROVE  /\ WellFormed(q, max) /\ SameCall(p, q)
           /\ LaunchMove(p, Items(i, p, rs), q, Items(i, q, rs))
<1>0. p \in ProducerType /\ Bounded(p, max) BY DEF WellFormed
<1> PICK z : z = [batch |-> p.pendingBatch, seq |-> p.nextSeq] OBVIOUS
<1>1. p.pendingBatch \in Seq(Messages) /\ p.nextSeq \in Nat /\ p.queue \in Seq(TaskType)
  BY <1>0 DEF ProducerType
<1>2. z \in TaskType BY <1>1 DEF TaskType
<1>3. q = [p EXCEPT !.pendingBatch = <<>>, !.queue = Append(p.queue, z), !.nextSeq = p.nextSeq + 1]
  BY <1>0 DEF PushBatch, ProducerType
<1>4. Append(p.queue, z) \in Seq(TaskType) BY <1>1, <1>2
<1>5. <<>> \in Seq(Messages) OBVIOUS
<1>6. q \in ProducerType
  <2>1. PICK Q \in Seq(TaskType) : Q = Append(p.queue, z) BY <1>4
  <2>2. PICK E \in Seq(Messages) : E = <<>> BY <1>5
  <2>3. PICK N \in Nat : N = p.nextSeq + 1 BY <1>1
  <2>4. q = [p EXCEPT !.pendingBatch = E, !.queue = Q, !.nextSeq = N] BY <1>3, <2>1, <2>2, <2>3
  <2> QED BY ONLY <1>0, <2>1, <2>2, <2>3, <2>4 DEF ProducerType
<1>7. q.running = p.running /\ SameCall(p, q) /\ q.appended = p.appended /\ q.pendingBatch = <<>>
      /\ q.epoch = p.epoch /\ q.nextSeq = p.nextSeq + 1 /\ q.queue = Append(p.queue, z)
  BY <1>0, <1>3 DEF ProducerType, SameCall
<1>8. Items(i, q, rs) \subseteq Items(i, p, rs) \cup {Item(p.pendingBatch, p.epoch, p.nextSeq)}
  <2> SUFFICES ASSUME NEW x \in Items(i, q, rs)
               PROVE  x \in Items(i, p, rs) \/ x = Item(p.pendingBatch, p.epoch, p.nextSeq)
    OBVIOUS
  <2>1. CASE \E k \in 1 .. Len(q.queue) : x = Item(q.queue[k].batch, q.epoch, q.queue[k].seq)
    <3>1. PICK k \in 1 .. Len(q.queue) : x = Item(q.queue[k].batch, q.epoch, q.queue[k].seq) BY <2>1
    <3>2. CASE k \in 1 .. Len(p.queue)
      <4>1. q.queue[k] = p.queue[k]
        <5>1. PICK Q \in Seq(TaskType) : Q = p.queue BY <1>1
        <5>2. q.queue = Append(Q, z) /\ k \in 1 .. Len(Q) BY <5>1, <3>2, <1>7
        <5>3. Append(Q, z)[k] = Q[k] BY ONLY <5>2, <1>2, Q \in Seq(TaskType)
        <5> QED BY <5>1, <5>2, <5>3
      <4> QED BY <4>1, <3>1, <3>2, <1>7 DEF Items
    <3>3. CASE k = Len(p.queue) + 1
      <4>1. q.queue[k] = z BY <3>3, <1>1, <1>2, <1>7
      <4> QED BY <4>1, <3>1, <1>7
    <3> QED BY <3>2, <3>3, <1>1, <1>2, <1>7
  <2>2. CASE \E t \in p.running : x = Item(t.batch, t.epoch, t.seq) BY <2>2 DEF Items
  <2>3. CASE \E r \in {r \in rs : r.from = i /\ ~r.close} : x = Item(r.body, r.epoch, r.seq)
    BY <2>3 DEF Items
  <2> QED BY <2>1, <2>2, <2>3, <1>7 DEF Items
<1> QED BY <1>0, <1>6, <1>7, <1>8 DEF WellFormed, Bounded, LaunchMove

LEMMA EnqueueOK ==
    ASSUME NEW i, NEW rs, NEW p, NEW opts, ~opts.autoClaim, opts.maxInFlight \in Nat,
           WellFormed(p, opts.maxInFlight), NEW q, q = EnqueuePendingBatch(p, opts)
    PROVE  /\ WellFormed(q, opts.maxInFlight) /\ SameCall(p, q)
           /\ q.pendingBatch = <<>>
           /\ \/ q = p
              \/ LaunchMove(p, Items(i, p, rs), q, Items(i, q, rs))
<1>1. CASE p.pendingBatch = <<>>
  <2>1. q = p BY <1>1 DEF EnqueuePendingBatch
  <2> QED BY <2>1, <1>1 DEF SameCall
<1>2. CASE p.pendingBatch # <<>>
  <2> PICK m : m = PushBatch([p EXCEPT !.pendingBatch = <<>>], p.pendingBatch) OBVIOUS
  <2>1. q = StartTasks(m, opts.maxInFlight) BY <1>2 DEF EnqueuePendingBatch
  <2>2. /\ WellFormed(m, opts.maxInFlight) /\ SameCall(p, m)
        /\ LaunchMove(p, Items(i, p, rs), m, Items(i, m, rs))
    BY <1>2, PushedOK
  <2>3. WellFormed(q, opts.maxInFlight) /\ SameNumbers(m, q) /\ Items(i, q, rs) \subseteq Items(i, m, rs)
    BY <2>1, <2>2, StartTasksOK
  <2>4. LaunchMove(p, Items(i, p, rs), q, Items(i, q, rs)) BY <2>2, <2>3 DEF LaunchMove, SameNumbers
  <2>5. SameCall(p, q) /\ q.pendingBatch = <<>> BY <2>2, <2>3 DEF SameCall, SameNumbers, LaunchMove
  <2> QED BY <2>3, <2>4, <2>5
<1> QED BY <1>1, <1>2

LEMMA FinishTaskOK ==
    ASSUME NEW i, NEW rs, NEW p, NEW max \in Nat, WellFormed(p, max), NEW t \in p.running, NEW ok \in BOOLEAN,
           NEW q, q = FinishTask(p, t, ok, max)
    PROVE  WellFormed(q, max) /\ SameNumbers(p, q) /\ Items(i, q, rs) \subseteq Items(i, p, rs)
<1> DEFINE kept == {e \in p.seqState : ~(/\ e.epoch = t.epoch0
                                         /\ \/ e.seq = t.seq0
                                            \/ e.seq < t.seq0 - max * 3)}
           new == kept \cup {[epoch |-> t.epoch0, seq |-> t.seq0, ok |-> ok]}
           m == [p EXCEPT !.running = @ \ {t}, !.claimed = @ \/ ok, !.failed = @ \/ ~ok, !.seqState = new]
<1>0. p \in ProducerType /\ Bounded(p, max) BY DEF WellFormed
<1>1. q = StartTasks(m, max) BY DEF FinishTask
<1>2. p.running \in SUBSET RunningType /\ p.claimed = TRUE /\ p.failed \in BOOLEAN
      /\ p.seqState \in SUBSET [epoch : Nat, seq : Nat, ok : BOOLEAN]
  BY <1>0 DEF ProducerType
<1>3. t.epoch0 \in Nat /\ t.seq0 \in Nat BY <1>2 DEF RunningType
<1>4. new \in SUBSET [epoch : Nat, seq : Nat, ok : BOOLEAN] BY <1>2, <1>3
<1> HIDE DEF new, kept
<1>5. m \in ProducerType
  <2>1. PICK R \in SUBSET RunningType : R = p.running \ {t} BY <1>2
  <2>2. PICK F \in BOOLEAN : F = (p.failed \/ ~ok) BY <1>2
  <2>3. PICK S \in SUBSET [epoch : Nat, seq : Nat, ok : BOOLEAN] : S = new BY <1>4
  <2>4. m = [p EXCEPT !.running = R, !.claimed = TRUE, !.failed = F, !.seqState = S]
    BY <1>0, <1>2, <2>1, <2>2, <2>3 DEF ProducerType
  <2> HIDE DEF m
  <2> QED BY ONLY <1>0, <2>1, <2>2, <2>3, <2>4 DEF ProducerType
<1>6. m.running = p.running \ {t} /\ m.queue = p.queue /\ SameNumbers(p, m)
  BY <1>0 DEF ProducerType, SameNumbers, SameCall
<1> PICK M : M = m OBVIOUS
<1> HIDE DEF m
<1>7. Bounded(M, max)
  <2>1. IsFiniteSet(p.running \ {t}) /\ Cardinality(p.running \ {t}) <= Cardinality(p.running)
    BY <1>0, FS_Subset DEF Bounded
  <2>2. Cardinality(p.running \ {t}) \in Nat /\ Cardinality(p.running) \in Nat
    BY <1>0, <2>1, FS_CardinalityType DEF Bounded
  <2> QED BY <2>1, <2>2, <1>0, <1>6 DEF Bounded
<1>8. Items(i, M, rs) \subseteq Items(i, p, rs) BY <1>6 DEF Items, SameNumbers
<1>9. WellFormed(q, max) /\ SameNumbers(M, q) /\ Items(i, q, rs) \subseteq Items(i, M, rs)
  BY <1>1, <1>5, <1>7, StartTasksOK DEF WellFormed
<1>10. SameNumbers(p, q) BY <1>6, <1>9 DEF SameNumbers, SameCall
<1> QED BY <1>8, <1>9, <1>10

\* rs2: rs, with what the producer q of i sends
CloseSent(i, q, r) ==
    /\ r \in RequestType /\ r.from = i /\ r.close /\ r.key = <<i, 0>> /\ r.body = <<<<i, 0>>>>
    /\ r.epoch = q.epoch /\ r.seq = q.nextSeq /\ q.closed
SentBy(i, q, rs, rs2) ==
    \A r \in rs2 : \/ \E s \in rs : r = s \/ r = [s EXCEPT !.awaited = FALSE]
                   \/ \E t \in q.running : r = BatchRequest(i, t)
                   \/ CloseSent(i, q, r)

LEMMA SentOK ==
    ASSUME NEW i \in Instances, NEW q \in ProducerType, NEW rs, rs \subseteq RequestType,
           \A r \in rs : RequestOK(r), \A t \in q.running : Len(t.batch) > 0,
           NEW rs2, SentBy(i, q, rs, rs2)
    PROVE  \A r \in rs2 : r \in RequestType /\ RequestOK(r)
<1> SUFFICES ASSUME NEW r \in rs2 PROVE r \in RequestType /\ RequestOK(r) OBVIOUS
<1>1. ASSUME NEW s \in rs, r = s \/ r = [s EXCEPT !.awaited = FALSE] PROVE r \in RequestType /\ RequestOK(r)
  <2>1. s \in RequestType /\ RequestOK(s) OBVIOUS
  <2>2. r \in RequestType BY <1>1, <2>1 DEF RequestType
  <2>3. r.close = s.close /\ r.key = s.key /\ r.from = s.from /\ r.body = s.body
    BY <1>1, <2>1 DEF RequestType
  <2> QED BY <2>1, <2>2, <2>3 DEF RequestOK
<1>2. ASSUME NEW t \in q.running, r = BatchRequest(i, t) PROVE r \in RequestType /\ RequestOK(r)
  <2>1. t \in RunningType BY DEF ProducerType
  <2>2. t.batch \in Seq(Messages) /\ t.epoch \in Nat /\ t.seq \in Nat /\ Len(t.batch) > 0 BY <2>1 DEF RunningType
  <2>3. t.batch[1] \in Messages BY <2>2
  <2>4. PICK b \in Seq(Messages) : b = t.batch BY <2>2
  <2>5. PICK k \in Messages : k = b[1] BY <2>3, <2>4
  <2>6. r = [from |-> i, key |-> k, epoch |-> t.epoch, seq |-> t.seq, body |-> b, close |-> FALSE, awaited |-> TRUE]
    BY <1>2, <2>4, <2>5 DEF BatchRequest, Key
  <2> QED BY <2>2, <2>5, <2>6 DEF RequestType, RequestOK
<1>3. ASSUME CloseSent(i, q, r) PROVE r \in RequestType /\ RequestOK(r)
  BY <1>3 DEF CloseSent, RequestOK
<1> QED BY <1>1, <1>2, <1>3 DEF SentBy

LEMMA SentItems ==
    ASSUME NEW i, NEW q, NEW rs, NEW rs2, SentBy(i, q, rs, rs2), rs \subseteq RequestType
    PROVE  /\ Items(i, q, rs2) \subseteq Items(i, q, rs)
           /\ \A j, p : j # i => Items(j, p, rs2) \subseteq Items(j, p, rs)
<1>1. ASSUME NEW j, NEW p, NEW r \in rs2, r.from = j, ~r.close, NEW x, x = Item(r.body, r.epoch, r.seq)
      PROVE  \/ x \in Items(j, p, rs)
             \/ j = i /\ \E t \in q.running : x = Item(t.batch, t.epoch, t.seq)
  <2>1. ASSUME NEW s \in rs, r = s \/ r = [s EXCEPT !.awaited = FALSE] PROVE x \in Items(j, p, rs)
    <3>1. s \in RequestType OBVIOUS
    <3>2. s.close = r.close /\ s.from = r.from /\ s.body = r.body /\ s.epoch = r.epoch /\ s.seq = r.seq
      BY <2>1, <3>1 DEF RequestType
    <3>3. s \in {u \in rs : u.from = j /\ ~u.close} /\ x = Item(s.body, s.epoch, s.seq) BY <3>2, <1>1
    <3> QED BY <3>3 DEF Items
  <2>2. ASSUME NEW t \in q.running, r = BatchRequest(i, t) PROVE j = i /\ x = Item(t.batch, t.epoch, t.seq)
    BY <2>2, <1>1 DEF BatchRequest
  <2>3. ~CloseSent(i, q, r) BY <1>1 DEF CloseSent
  <2> QED BY <2>1, <2>2, <2>3 DEF SentBy
<1>2. Items(i, q, rs2) \subseteq Items(i, q, rs)
  <2> SUFFICES ASSUME NEW x \in Items(i, q, rs2) PROVE x \in Items(i, q, rs) OBVIOUS
  <2>1. CASE \E k \in 1 .. Len(q.queue) : x = Item(q.queue[k].batch, q.epoch, q.queue[k].seq) BY <2>1 DEF Items
  <2>2. CASE \E t \in q.running : x = Item(t.batch, t.epoch, t.seq) BY <2>2 DEF Items
  <2>3. CASE \E r \in {r \in rs2 : r.from = i /\ ~r.close} : x = Item(r.body, r.epoch, r.seq)
    <3>1. PICK r \in rs2 : r.from = i /\ ~r.close /\ x = Item(r.body, r.epoch, r.seq) BY <2>3
    <3>2. x \in Items(i, q, rs) \/ \E t \in q.running : x = Item(t.batch, t.epoch, t.seq) BY <3>1, <1>1
    <3> QED BY <3>2, <2>2
  <2> QED BY <2>1, <2>2, <2>3 DEF Items
<1>3. ASSUME NEW j, NEW p, j # i PROVE Items(j, p, rs2) \subseteq Items(j, p, rs)
  <2> SUFFICES ASSUME NEW x \in Items(j, p, rs2) PROVE x \in Items(j, p, rs) OBVIOUS
  <2>1. CASE \E k \in 1 .. Len(p.queue) : x = Item(p.queue[k].batch, p.epoch, p.queue[k].seq) BY <2>1 DEF Items
  <2>2. CASE \E t \in p.running : x = Item(t.batch, t.epoch, t.seq) BY <2>2 DEF Items
  <2>3. CASE \E r \in {r \in rs2 : r.from = j /\ ~r.close} : x = Item(r.body, r.epoch, r.seq)
    <3>1. PICK r \in rs2 : r.from = j /\ ~r.close /\ x = Item(r.body, r.epoch, r.seq) BY <2>3
    <3> QED BY <3>1, <1>1, <1>3
  <2> QED BY <2>1, <2>2, <2>3 DEF Items
<1> QED BY <1>2, <1>3

\* fewer items: still ordered
LEMMA FewerItems ==
    ASSUME NEW i, NEW p, NEW X, NEW Y, Y \subseteq X, NEW lg, NEW sn, InstanceOK(i, p, X, lg, sn)
    PROVE  InstanceOK(i, p, Y, lg, sn)
BY DEF InstanceOK, NumbersOK, LaterOK

\* every batch of a running task has a message
LEMMA RunningBatches ==
    ASSUME NEW i, NEW p, NEW rs, NEW lg, NEW sn, InstanceOK(i, p, Items(i, p, rs), lg, sn)
    PROVE  \A t \in p.running : Len(t.batch) > 0 /\ Item(t.batch, t.epoch, t.seq) \in Items(i, p, rs)
<1> SUFFICES ASSUME NEW t \in p.running
             PROVE  Len(t.batch) > 0 /\ Item(t.batch, t.epoch, t.seq) \in Items(i, p, rs)
  OBVIOUS
<1>1. Item(t.batch, t.epoch, t.seq) \in Items(i, p, rs) BY DEF Items
<1>2. Item(t.batch, t.epoch, t.seq).batch = t.batch BY DEF Item
<1> QED BY <1>1, <1>2 DEF InstanceOK, NumbersOK

----------------------------------------------------------------------------
(* Steps of an instance *)

LEMMA OptionFacts ==
    ASSUME NoClaims, setup \in ProducerSetups, NEW i \in Instances
    PROVE  /\ setup[i].maxInFlight \in Nat /\ ~setup[i].autoClaim /\ ~setup[i].writable
           /\ setup[i].epoch \in Nat /\ setup[i].restarts \in Nat
<1>1. setup[i] \in ProducerOptions /\ (setup[i].writable => setup[i].autoClaim) BY ProducerOptionsTyped
<1> QED BY <1>1 DEF NoClaims, ProducerOptions

LEMMA NumberedProducer ==
    ASSUME NEW p \in ProducerType
    PROVE  Numbered(p)
BY DEF ProducerType, Numbered

\* what a step of an instance does to its batches
Move(i, p, X, q, Y) ==
    \/ QuietMove(p, X, q, Y)
    \/ LaunchMove(p, X, q, Y)
    \/ AppendMove(i, p, X, q, Y) /\ ~p.closed
    \/ \E m : /\ AppendMove(i, p, X, m, X) /\ ~p.closed
              /\ LaunchMove(m, X, q, Y)

LEMMA MoveKeeps ==
    ASSUME NEW i \in Instances, NEW p, NEW X, NEW q, NEW Y, NEW lg \in Seq(Messages), NEW sn,
           Numbered(p), Numbered(q), InstanceOK(i, p, X, lg, sn), Move(i, p, X, q, Y)
    PROVE  InstanceOK(i, q, Y, lg, sn)
<1>1. CASE QuietMove(p, X, q, Y) BY <1>1, QuietKeeps
<1>2. CASE LaunchMove(p, X, q, Y) BY <1>2, LaunchKeeps
<1>3. CASE AppendMove(i, p, X, q, Y) BY <1>3, AppendKeeps
<1>4. CASE \E m : AppendMove(i, p, X, m, X) /\ LaunchMove(m, X, q, Y)
  <2>1. PICK m : AppendMove(i, p, X, m, X) /\ LaunchMove(m, X, q, Y) BY <1>4
  <2>2. Numbered(m) BY <2>1 DEF AppendMove, Numbered
  <2>3. InstanceOK(i, m, X, lg, sn) BY <2>1, <2>2, AppendKeeps
  <2> QED BY <2>1, <2>2, <2>3, LaunchKeeps
<1> QED BY <1>1, <1>2, <1>3, <1>4 DEF Move

\* what never goes back
Onward(i, p, q, ans) ==
    /\ p.closed => q.closed
    /\ p.aborted => q.aborted
    /\ p.restarts <= q.restarts
    /\ q.closeResult => \/ p.closeResult
                        \/ \E a \in ans : a.from = i /\ a.key[2] = 0 /\ a.answer.status \in {200, 204}

\* a step of instance i after which its object is q
Moved(i, q) ==
    /\ WellFormed(q, setup[i].maxInFlight)
    /\ Move(i, producers[i], Items(i, producers[i], requests), q, Items(i, q, requests))
    /\ CallOK(setup[i], q) /\ Onward(i, producers[i], q, answers)
    /\ SentBy(i, q, requests, requests')
    /\ producers' = [producers EXCEPT ![i] = q] /\ answers' \subseteq answers
    /\ setup' = setup /\ log' = log /\ seen' = seen /\ closedBy' = closedBy

LEMMA SentCloses ==
    ASSUME NEW i, NEW q, NEW rs, NEW rs2, SentBy(i, q, rs, rs2), rs \subseteq RequestType,
           NEW r \in rs2, r.close
    PROVE  \/ CloseSent(i, q, r)
           \/ \E s \in rs : s.close /\ s.from = r.from /\ s.epoch = r.epoch /\ s.seq = r.seq
<1>1. ASSUME NEW s \in rs, r = s \/ r = [s EXCEPT !.awaited = FALSE]
      PROVE  s.close /\ s.from = r.from /\ s.epoch = r.epoch /\ s.seq = r.seq
  <2>1. s \in RequestType OBVIOUS
  <2> QED BY <2>1, <1>1 DEF RequestType
<1>2. \A t \in q.running : r # BatchRequest(i, t) BY DEF BatchRequest
<1> QED BY <1>1, <1>2 DEF SentBy

LEMMA InstanceStep ==
    ASSUME OrderInv, NEW i \in Instances, NEW q, Moved(i, q)
    PROVE  OrderInv'
<1> PICK o : o = producers[i] OBVIOUS
<1>0. q \in ProducerType /\ producers \in [Instances -> ProducerType] /\ log \in Seq(Messages) /\ o \in ProducerType
  BY DEF OrderInv, ProducerTypeOK, WellFormed, Moved
<1>a. setup' = setup /\ log' = log /\ seen' = seen /\ closedBy' = closedBy BY DEF Moved
<1>b. SentBy(i, q, requests, requests') BY DEF Moved
<1>1. producers'[i] = q /\ \A j \in Instances : j # i => producers'[j] = producers[j] BY <1>0 DEF Moved
<1>2. requests \subseteq RequestType /\ \A r \in requests : RequestOK(r) BY DEF OrderInv, ProducerTypeOK
<1>c. InstanceOK(i, q, Items(i, q, requests), log, seen)
  <2>1. InstanceOK(i, o, Items(i, o, requests), log, seen) BY DEF OrderInv
  <2>2. Numbered(o) /\ Numbered(q) BY <1>0, NumberedProducer
  <2>3. Move(i, o, Items(i, o, requests), q, Items(i, q, requests)) BY DEF Moved
  <2> QED BY <1>0, <2>1, <2>2, <2>3, MoveKeeps
<1>3. \A t \in q.running : Len(t.batch) > 0 BY <1>c, RunningBatches
<1>4. \A r \in requests' : r \in RequestType /\ RequestOK(r) BY <1>0, <1>b, <1>2, <1>3, SentOK
<1>5. ProducerTypeOK'
  <2>1. producers' \in [Instances -> ProducerType] BY <1>0 DEF Moved
  <2>2. answers' \subseteq AnswerType BY DEF Moved, OrderInv, ProducerTypeOK
  <2> QED BY <2>1, <2>2, <1>4, <1>a DEF OrderInv, ProducerTypeOK
<1>6. \A j \in Instances : Bounded(producers'[j], setup[j].maxInFlight)
  BY <1>1 DEF OrderInv, WellFormed, Moved
<1>7. Items(i, q, requests') \subseteq Items(i, q, requests) BY <1>b, <1>2, SentItems
<1>8. \A j, p : j # i => Items(j, p, requests') \subseteq Items(j, p, requests) BY <1>b, <1>2, SentItems
<1>9. \A j \in Instances : InstanceOK(j, producers'[j], Items(j, producers'[j], requests'), log, seen)
  <2> SUFFICES ASSUME NEW j \in Instances
               PROVE  InstanceOK(j, producers'[j], Items(j, producers'[j], requests'), log, seen)
    OBVIOUS
  <2>1. CASE j = i
    <3>1. InstanceOK(i, q, Items(i, q, requests'), log, seen) BY <1>c, <1>7, FewerItems
    <3> QED BY <3>1, <2>1, <1>1
  <2>2. CASE j # i
    <3>1. PICK p : p = producers[j] OBVIOUS
    <3>2. InstanceOK(j, p, Items(j, p, requests), log, seen) BY <3>1 DEF OrderInv
    <3>3. InstanceOK(j, p, Items(j, p, requests'), log, seen) BY <3>2, <2>2, <1>8, FewerItems
    <3> QED BY <3>3, <3>1, <2>2, <1>1
  <2> QED BY <2>1, <2>2
<1>10. (closedBy = Open => \A j \in 1 .. Len(log) : log[j][2] # 0) /\ LogInOrder BY DEF OrderInv
<1>11. (closedBy = Open => \A j \in 1 .. Len(log) : log[j][2] # 0)' BY <1>10, <1>a
<1>12. LogInOrder' BY <1>10, <1>a DEF LogInOrder
<1>13. \A j \in Instances : CallOK(setup[j], producers'[j]) BY <1>1 DEF OrderInv, Moved
<1>14. \A j \in Instances : producers[j].closed => producers'[j].closed BY <1>1 DEF Moved, Onward
<1>15. \A r \in requests' : r.close => producers'[r.from].closed
  <2> SUFFICES ASSUME NEW r \in requests', r.close PROVE producers'[r.from].closed OBVIOUS
  <2>1. CASE CloseSent(i, q, r) BY <2>1, <1>1 DEF CloseSent
  <2>2. CASE \E s \in requests : s.close /\ s.from = r.from
    <3>1. r.from \in Instances BY <1>4 DEF RequestType
    <3> QED BY <2>2, <3>1, <1>14 DEF OrderInv
  <2> QED BY <2>1, <2>2, <1>b, <1>2, SentCloses
<1>16. \A a \in answers' : a.key[2] = 0 => producers'[a.from].closed
  <2>1. \A a \in answers' : a \in answers /\ a.from \in Instances
    BY DEF Moved, OrderInv, ProducerTypeOK, AnswerType
  <2> QED BY <2>1, <1>14 DEF OrderInv
<1> QED BY <1>4, <1>5, <1>6, <1>9, <1>11, <1>12, <1>13, <1>15, <1>16, <1>a DEF OrderInv

LEMMA ProducerFacts ==
    ASSUME NoClaims, OrderInv, NEW i \in Instances, NEW p, p = producers[i]
    PROVE  /\ WellFormed(p, setup[i].maxInFlight) /\ p \in ProducerType /\ Numbered(p)
           /\ InstanceOK(i, p, Items(i, p, requests), log, seen)
           /\ CallOK(setup[i], p)
           /\ setup[i].maxInFlight \in Nat /\ ~setup[i].autoClaim /\ ~setup[i].writable
           /\ producers \in [Instances -> ProducerType] /\ log \in Seq(Messages)
           /\ requests \subseteq RequestType /\ answers \subseteq AnswerType
<1>1. p \in ProducerType /\ setup \in ProducerSetups BY DEF OrderInv, ProducerTypeOK
<1>2. WellFormed(p, setup[i].maxInFlight) BY <1>1 DEF OrderInv, WellFormed
<1>3. Numbered(p) BY <1>1, NumberedProducer
<1>4. setup[i].maxInFlight \in Nat /\ ~setup[i].autoClaim /\ ~setup[i].writable BY <1>1, OptionFacts
<1> QED BY <1>1, <1>2, <1>3, <1>4 DEF OrderInv, ProducerTypeOK

\* tasks that become running are sent
LEMMA BecomeSends ==
    ASSUME NEW i, NEW p, NEW q, NEW rs, NEW rs2,
           \A r \in rs2 : \/ \E s \in rs : r = s \/ r = [s EXCEPT !.awaited = FALSE]
                          \/ r \in NewRequests(i, p, q)
    PROVE  SentBy(i, q, rs, rs2)
BY DEF SentBy, NewRequests

LEMMA SameIsQuiet ==
    ASSUME NEW p, NEW X, NEW q, NEW Y, SameNumbers(p, q), Y \subseteq X
    PROVE  QuietMove(p, X, q, Y)
BY DEF SameNumbers, QuietMove

LEMMA CallKept ==
    ASSUME NEW o, NEW p, NEW q, CallOK(o, p), SameCall(p, q), q.epoch = p.epoch,
           p.closed => q.pendingBatch = <<>>
    PROVE  CallOK(o, q)
BY DEF CallOK, SameCall

LEMMA SameOnward ==
    ASSUME NEW i, NEW p \in ProducerType, NEW q, SameCall(p, q), NEW ans
    PROVE  Onward(i, p, q, ans)
<1>1. p.restarts \in Nat BY DEF ProducerType
<1> QED BY <1>1 DEF SameCall, Onward

\* Become, once the rest is known
LEMMA BecomeMoves ==
    ASSUME NEW i, NEW p, p = producers[i], NEW q, Become(i, q), WellFormed(q, setup[i].maxInFlight),
           Move(i, p, Items(i, p, requests), q, Items(i, q, requests)),
           CallOK(setup[i], q) /\ Onward(i, p, q, answers),
           answers' \subseteq answers, setup' = setup, log' = log, seen' = seen, closedBy' = closedBy
    PROVE  Moved(i, q)
<1>1. SentBy(i, q, requests, requests') BY DEF SentBy, Become, NewRequests
<1> QED BY <1>1 DEF Moved, Become

LEMMA AppendMoves ==
    ASSUME NoClaims, OrderInv, NEW i \in Instances, ProducerAppend(i)
    PROVE  \E q : Moved(i, q)
<1> PICK p : p = producers[i] OBVIOUS
<1> DEFINE max == setup[i].maxInFlight
           X == Items(i, p, requests)
<1>0. /\ WellFormed(p, max) /\ p \in ProducerType
      /\ CallOK(setup[i], p) /\ max \in Nat /\ ~setup[i].autoClaim
  BY ProducerFacts
<1>a. p.appended \in Nat /\ p.pendingBatch \in Seq(Messages) BY <1>0 DEF ProducerType
<1>b. Message(i, p.appended + 1) \in Messages BY <1>a DEF Messages, Message
<1>c. Append(p.pendingBatch, Message(i, p.appended + 1)) \in Seq(Messages) BY <1>a, <1>b
<1>1. PICK b \in Seq(Messages) : b = Append(p.pendingBatch, Message(i, p.appended + 1)) BY <1>c
<1>2. PICK a \in Nat : a = p.appended + 1 BY <1>a
<1>3. PICK m : m = [p EXCEPT !.appended = a, !.pendingBatch = b] OBVIOUS
<1>4. m \in ProducerType BY <1>0, <1>3 DEF ProducerType
<1>5. /\ m.appended = a /\ m.pendingBatch = b /\ m.epoch = p.epoch /\ m.nextSeq = p.nextSeq
      /\ m.running = p.running /\ m.queue = p.queue /\ SameCall(p, m)
  BY <1>0, <1>3 DEF ProducerType, SameCall
<1>6. WellFormed(m, max) BY <1>0, <1>4, <1>5 DEF WellFormed, Bounded
<1>7. Items(i, m, requests) = X BY <1>5 DEF Items
<1>8. AppendMove(i, p, X, m, X) BY <1>1, <1>2, <1>5 DEF AppendMove, SameCall
<1>9. /\ ~p.closed
      /\ Become(i, IF Len(m.pendingBatch) >= setup[i].maxBatch
                   THEN EnqueuePendingBatch(m, setup[i]) ELSE [m EXCEPT !.linger = TRUE])
      /\ answers' \subseteq answers /\ setup' = setup /\ log' = log /\ seen' = seen /\ closedBy' = closedBy
  BY <1>1, <1>2, <1>3 DEF ProducerAppend, serverVars
<1>10. CASE Len(m.pendingBatch) >= setup[i].maxBatch
  <2> PICK q : q = EnqueuePendingBatch(m, setup[i]) OBVIOUS
  <2>1. Become(i, q) BY <1>9, <1>10
  <2>2. /\ WellFormed(q, max) /\ SameCall(m, q) /\ q.pendingBatch = <<>>
        /\ q = m \/ LaunchMove(m, Items(i, m, requests), q, Items(i, q, requests))
    BY <1>0, <1>6, EnqueueOK
  <2>3. m.pendingBatch # <<>>
    <3>1. p.pendingBatch \in Seq(Messages) BY <1>0 DEF ProducerType
    <3>2. Len(b) = Len(p.pendingBatch) + 1 BY <3>1, <1>1
    <3>3. Len(b) # 0 BY <3>1, <3>2
    <3> QED BY <3>3, <1>5
  <2>4. LaunchMove(m, X, q, Items(i, q, requests)) BY <2>2, <2>3, <1>7
  <2>5. Move(i, p, X, q, Items(i, q, requests)) BY <2>4, <1>8, <1>9 DEF Move
  <2>6. q.epoch = p.epoch /\ SameCall(p, q) BY <2>2, <2>4, <1>5 DEF LaunchMove, SameCall
  <2>7. CallOK(setup[i], q) /\ Onward(i, p, q, answers) BY <2>6, <1>0, <1>9, CallKept, SameOnward
  <2>8. Moved(i, q) BY <2>1, <2>2, <2>5, <2>7, <1>9, BecomeMoves
  <2> QED BY <2>8
<1>11. CASE ~(Len(m.pendingBatch) >= setup[i].maxBatch)
  <2> PICK q : q = [m EXCEPT !.linger = TRUE] OBVIOUS
  <2>1. Become(i, q) BY <1>9, <1>11
  <2>2. q \in ProducerType BY <1>4 DEF ProducerType
  <2>3. /\ q.appended = a /\ q.pendingBatch = b /\ q.epoch = p.epoch /\ q.nextSeq = p.nextSeq
        /\ q.running = p.running /\ q.queue = p.queue /\ SameCall(p, q)
    BY <1>4, <1>5 DEF ProducerType, SameCall
  <2>4. WellFormed(q, max) BY <2>2, <2>3, <1>0 DEF WellFormed, Bounded
  <2>5. Items(i, q, requests) = X BY <2>3 DEF Items
  <2>6. AppendMove(i, p, X, q, Items(i, q, requests)) BY <2>3, <2>5, <1>1, <1>2 DEF AppendMove, SameCall
  <2>7. Move(i, p, X, q, Items(i, q, requests)) BY <2>6, <1>9 DEF Move
  <2>8. CallOK(setup[i], q) /\ Onward(i, p, q, answers) BY <2>3, <1>0, <1>9, CallKept, SameOnward
  <2>9. Moved(i, q) BY <2>1, <2>4, <2>7, <2>8, <1>9, BecomeMoves
  <2> QED BY <2>9
<1> QED BY <1>10, <1>11

\* the linger timer and flush(): m is p with its flags changed
LEMMA FlushMoves ==
    ASSUME NoClaims, OrderInv, NEW i \in Instances, NEW p, p = producers[i], NEW m \in ProducerType,
           m.appended = p.appended, m.pendingBatch = p.pendingBatch, m.epoch = p.epoch, m.nextSeq = p.nextSeq,
           m.running = p.running, m.queue = p.queue, m.restarts = p.restarts,
           m.aborted = p.aborted, m.closeResult = p.closeResult,
           p.closed => m.closed, m.call \in {"close", "closing"} => m.closed,
           m.call = "restart" => m.restarts < setup[i].restarts,
           Become(i, EnqueuePendingBatch(m, setup[i])),
           answers' \subseteq answers, setup' = setup, log' = log, seen' = seen, closedBy' = closedBy
    PROVE  \E q : Moved(i, q)
<1> DEFINE max == setup[i].maxInFlight
           X == Items(i, p, requests)
<1>0. /\ WellFormed(p, max) /\ p \in ProducerType
      /\ CallOK(setup[i], p) /\ max \in Nat /\ ~setup[i].autoClaim
  BY ProducerFacts
<1>1. WellFormed(m, max) BY <1>0 DEF WellFormed, Bounded
<1>2. Items(i, m, requests) = X BY DEF Items
<1> PICK q : q = EnqueuePendingBatch(m, setup[i]) OBVIOUS
<1>3. /\ WellFormed(q, max) /\ SameCall(m, q) /\ q.pendingBatch = <<>>
      /\ q = m \/ LaunchMove(m, Items(i, m, requests), q, Items(i, q, requests))
  BY <1>0, <1>1, EnqueueOK
<1>4. Move(i, p, X, q, Items(i, q, requests)) /\ q.epoch = p.epoch
  <2>1. CASE q = m BY <2>1, <1>2 DEF Move, QuietMove
  <2>2. CASE LaunchMove(m, X, q, Items(i, q, requests)) BY <2>2 DEF Move, LaunchMove
  <2> QED BY <2>1, <2>2, <1>2, <1>3
<1>a. p.restarts \in Nat BY <1>0 DEF ProducerType
<1>b. Onward(i, p, q, answers) BY <1>a, <1>3 DEF Onward, SameCall
<1>c. CallOK(setup[i], q) BY <1>0, <1>3, <1>4 DEF CallOK, SameCall
<1>5. CallOK(setup[i], q) /\ Onward(i, p, q, answers) BY <1>b, <1>c
<1>6. Moved(i, q) BY <1>3, <1>4, <1>5, BecomeMoves
<1> QED BY <1>6

LEMMA LingerMoves ==
    ASSUME NoClaims, OrderInv, NEW i \in Instances, LingerFires(i)
    PROVE  \E q : Moved(i, q)
<1> PICK p : p = producers[i] OBVIOUS
<1>0. p \in ProducerType /\ CallOK(setup[i], p) BY ProducerFacts
<1> PICK m : m = [p EXCEPT !.linger = FALSE] OBVIOUS
<1>1. m \in ProducerType BY <1>0 DEF ProducerType
<1>2. /\ m.appended = p.appended /\ m.pendingBatch = p.pendingBatch /\ m.epoch = p.epoch /\ m.nextSeq = p.nextSeq
      /\ m.running = p.running /\ m.queue = p.queue /\ SameCall(p, m)
  BY <1>0 DEF ProducerType, SameCall
<1>3. Become(i, EnqueuePendingBatch(m, setup[i])) /\ answers' \subseteq answers /\ setup' = setup
      /\ log' = log /\ seen' = seen /\ closedBy' = closedBy
  BY DEF LingerFires, serverVars
<1>4. /\ m.restarts = p.restarts /\ m.aborted = p.aborted /\ m.closeResult = p.closeResult /\ (p.closed => m.closed) /\ (m.call \in {"close", "closing"} => m.closed)
      /\ (m.call = "restart" => m.restarts < setup[i].restarts)
  BY <1>0, <1>2 DEF CallOK, SameCall
<1> QED BY <1>1, <1>2, <1>3, <1>4, FlushMoves

LEMMA CallMoves ==
    ASSUME NoClaims, OrderInv, NEW i \in Instances, NEW call \in Call, CallFlush(i, call)
    PROVE  \E q : Moved(i, q)
<1> PICK p : p = producers[i] OBVIOUS
<1>0. p \in ProducerType /\ CallOK(setup[i], p) BY ProducerFacts
<1>b. PICK m : m = [p EXCEPT !.linger = FALSE, !.call = call,
                     !.closed = @ \/ call \in {"detach", "close"}] OBVIOUS
<1>a. (p.closed \/ call \in {"detach", "close"}) \in BOOLEAN /\ call \in {"none", "closing"} \cup Call
  OBVIOUS
<1>1. m \in ProducerType BY <1>0, <1>a, <1>b DEF ProducerType
<1>2. /\ m.appended = p.appended /\ m.pendingBatch = p.pendingBatch /\ m.epoch = p.epoch /\ m.nextSeq = p.nextSeq
      /\ m.running = p.running /\ m.queue = p.queue /\ m.restarts = p.restarts
      /\ m.aborted = p.aborted /\ m.closeResult = p.closeResult
      /\ m.call = call /\ m.closed = (p.closed \/ call \in {"detach", "close"})
  BY <1>0, <1>b DEF ProducerType
<1>3. Become(i, EnqueuePendingBatch(m, setup[i])) /\ answers' \subseteq answers /\ setup' = setup
      /\ log' = log /\ seen' = seen /\ closedBy' = closedBy
  BY <1>b DEF CallFlush, serverVars
<1>4. call # "closing" /\ (call = "restart" => p.restarts < setup[i].restarts) BY DEF Call, CallFlush
<1>5. /\ (p.closed => m.closed) /\ (m.call \in {"close", "closing"} => m.closed)
      /\ (m.call = "restart" => m.restarts < setup[i].restarts)
  BY <1>2, <1>4
<1> QED BY <1>1, <1>2, <1>3, <1>5, FlushMoves

\* nothing but tasks and requests changes
LEMMA QuietMoves ==
    ASSUME NoClaims, OrderInv, NEW i \in Instances, NEW p, p = producers[i], NEW q,
           WellFormed(q, setup[i].maxInFlight), SameNumbers(p, q),
           Items(i, q, requests) \subseteq Items(i, p, requests), SentBy(i, q, requests, requests'),
           producers' = [producers EXCEPT ![i] = q],
           answers' \subseteq answers, setup' = setup, log' = log, seen' = seen, closedBy' = closedBy
    PROVE  Moved(i, q)
<1>0. CallOK(setup[i], p) BY ProducerFacts
<1>1. Move(i, p, Items(i, p, requests), q, Items(i, q, requests)) BY SameIsQuiet DEF Move
<1>2. p.closed => q.pendingBatch = <<>> BY <1>0 DEF CallOK, SameNumbers
<1>3. q.epoch = p.epoch /\ SameCall(p, q) BY DEF SameNumbers
<1>a. p \in ProducerType BY ProducerFacts
<1>4. CallOK(setup[i], q) /\ Onward(i, p, q, answers) BY <1>a, <1>0, <1>2, <1>3, CallKept, SameOnward
<1> QED BY <1>1, <1>4 DEF Moved

\* a task ends
LEMMA FinishMoves ==
    ASSUME NoClaims, OrderInv, NEW i \in Instances, NEW p, p = producers[i], NEW t \in p.running,
           NEW ok \in BOOLEAN, NEW q, q = FinishTask(p, t, ok, setup[i].maxInFlight), NEW left,
           \A r \in left : \E s \in requests : r = s \/ r = [s EXCEPT !.awaited = FALSE],
           producers' = [producers EXCEPT ![i] = q], requests' = left \cup NewRequests(i, p, q),
           answers' \subseteq answers, setup' = setup, log' = log, seen' = seen, closedBy' = closedBy
    PROVE  Moved(i, q)
<1>0. WellFormed(p, setup[i].maxInFlight) /\ setup[i].maxInFlight \in Nat BY ProducerFacts
<1>1. /\ WellFormed(q, setup[i].maxInFlight) /\ SameNumbers(p, q)
      /\ Items(i, q, requests) \subseteq Items(i, p, requests)
  BY <1>0, FinishTaskOK
<1>2. SentBy(i, q, requests, requests') BY BecomeSends
<1> QED BY <1>1, <1>2, QuietMoves

LEMMA BecomeFinishMoves ==
    ASSUME NoClaims, OrderInv, NEW i \in Instances, NEW t \in producers[i].running, NEW ok \in BOOLEAN,
           Become(i, FinishTask(producers[i], t, ok, setup[i].maxInFlight)),
           answers' \subseteq answers, setup' = setup, log' = log, seen' = seen, closedBy' = closedBy
    PROVE  \E q : Moved(i, q)
<1>1. PICK p : p = producers[i] OBVIOUS
<1>2. PICK q : q = FinishTask(p, t, ok, setup[i].maxInFlight) OBVIOUS
<1>3. PICK left : left = requests OBVIOUS
<1>4. producers' = [producers EXCEPT ![i] = q] /\ requests' = left \cup NewRequests(i, p, q)
  BY <1>1, <1>2, <1>3 DEF Become
<1>5. \A r \in left : \E s \in requests : r = s \/ r = [s EXCEPT !.awaited = FALSE] BY <1>3
<1>6. t \in p.running BY <1>1
<1>7. Moved(i, q) BY <1>1, <1>2, <1>4, <1>5, <1>6, FinishMoves
<1> QED BY <1>7

\* a task is replaced by its next attempt
LEMMA ReplaceMoves ==
    ASSUME NoClaims, OrderInv, NEW i \in Instances, NEW p, p = producers[i], NEW t \in p.running,
           NEW u \in RunningType, u.batch = t.batch, u.epoch = t.epoch, u.seq = t.seq,
           NEW q, q = [p EXCEPT !.running = (@ \ {t}) \cup {u}],
           \A r \in requests' : r \in requests \/ r = BatchRequest(i, u),
           producers' = [producers EXCEPT ![i] = q],
           answers' \subseteq answers, setup' = setup, log' = log, seen' = seen, closedBy' = closedBy
    PROVE  Moved(i, q)
<1>0. WellFormed(p, setup[i].maxInFlight) /\ setup[i].maxInFlight \in Nat BY ProducerFacts
<1>1. p \in ProducerType /\ Bounded(p, setup[i].maxInFlight) BY <1>0 DEF WellFormed
<1>2. p.running \in SUBSET RunningType BY <1>1 DEF ProducerType
<1>3. (p.running \ {t}) \cup {u} \in SUBSET RunningType BY <1>2
<1>4. q \in ProducerType BY <1>1, <1>3 DEF ProducerType
<1>5. q.running = (p.running \ {t}) \cup {u} /\ SameNumbers(p, q) /\ q.queue = p.queue
  BY <1>1 DEF ProducerType, SameNumbers, SameCall
<1>6. Bounded(q, setup[i].maxInFlight)
  <2>1. IsFiniteSet(p.running) BY <1>1 DEF Bounded
  <2>2. IsFiniteSet(p.running \ {t}) /\ Cardinality(p.running \ {t}) = Cardinality(p.running) - 1
    BY <2>1, FS_RemoveElement
  <2>3. Cardinality(p.running \ {t}) \in Nat /\ Cardinality(p.running) \in Nat BY <2>1, <2>2, FS_CardinalityType
  <2> DEFINE R == p.running \ {t}
  <2> HIDE DEF R
  <2>4. IsFiniteSet(R) /\ Cardinality(R) = Cardinality(p.running) - 1 /\ Cardinality(R) \in Nat BY <2>2, <2>3 DEF R
  <2>5. IsFiniteSet(R \cup {u}) /\ Cardinality(R \cup {u}) <= Cardinality(R) + 1
    <3>1. IsFiniteSet(R \cup {u}) BY <2>4, FS_AddElement
    <3>2. Cardinality(R \cup {u}) = IF u \in R THEN Cardinality(R) ELSE Cardinality(R) + 1 BY <2>4, FS_AddElement
    <3> QED BY <3>1, <3>2, <2>4
  <2>6. Cardinality(R \cup {u}) \in Nat BY <2>5, FS_CardinalityType
  <2>7. q.running = R \cup {u} BY <1>5 DEF R
  <2>8. Cardinality(p.running) <= setup[i].maxInFlight BY <1>1 DEF Bounded
  <2>9. Cardinality(R \cup {u}) <= setup[i].maxInFlight BY <2>3, <2>4, <2>5, <2>6, <2>8, <1>0
  <2> QED BY <2>5, <2>7, <2>9 DEF Bounded
<1>7. Items(i, q, requests) \subseteq Items(i, p, requests)
  <2>1. q.epoch = p.epoch BY <1>5 DEF SameNumbers
  <2>2. \A v \in q.running : \E w \in p.running : w.batch = v.batch /\ w.epoch = v.epoch /\ w.seq = v.seq
    BY <1>5
  <2> QED BY <2>1, <2>2, <1>5 DEF Items
<1>8. SentBy(i, q, requests, requests') BY <1>5 DEF SentBy
<1>9. WellFormed(q, setup[i].maxInFlight) BY <1>4, <1>6 DEF WellFormed
<1> QED BY <1>5, <1>7, <1>8, <1>9, QuietMoves

LEMMA DeliveredMoves ==
    ASSUME NoClaims, OrderInv, NEW i \in Instances, NEW t \in producers[i].running, NEW a \in answers,
           BatchDelivered(i, t, a) \/ BatchRefused(i, t, a)
    PROVE  \E q : Moved(i, q)
<1>1. /\ answers' \subseteq answers /\ setup' = setup /\ log' = log /\ seen' = seen /\ closedBy' = closedBy
  BY DEF BatchDelivered, BatchRefused, AnswerFor, serverVars
<1>2. CASE BatchDelivered(i, t, a) BY <1>1, <1>2, BecomeFinishMoves DEF BatchDelivered
<1>3. CASE BatchRefused(i, t, a) BY <1>1, <1>3, BecomeFinishMoves DEF BatchRefused
<1> QED BY <1>2, <1>3

LEMMA WaitMoves ==
    ASSUME NoClaims, OrderInv, NEW i \in Instances, NEW t \in producers[i].running, NEW a \in answers,
           WaitForEarlier(i, t, a)
    PROVE  \E q : Moved(i, q)
<1> PICK p : p = producers[i] OBVIOUS
<1>0. p \in ProducerType /\ producers \in [Instances -> ProducerType] BY ProducerFacts
<1>1. /\ answers' \subseteq answers /\ setup' = setup /\ log' = log /\ seen' = seen /\ closedBy' = closedBy
      /\ requests' = requests
  BY DEF WaitForEarlier, AnswerFor, serverVars
<1> PICK u : u = [t EXCEPT !.waits = a.answer.n .. (t.seq - 1)] OBVIOUS
<1>2. t \in RunningType BY <1>0 DEF ProducerType
<1>a. a \in AnswerType BY ProducerFacts
<1>b. a.answer.n \in Nat BY <1>a DEF AnswerType
<1>3. a.answer.n .. (t.seq - 1) \in SUBSET Nat BY <1>2, <1>b DEF RunningType
<1>4. u \in RunningType /\ u.batch = t.batch /\ u.epoch = t.epoch /\ u.seq = t.seq
  BY <1>2, <1>3 DEF RunningType
<1> PICK q : q = [p EXCEPT !.running = (@ \ {t}) \cup {u}] OBVIOUS
<1>5. producers' = [producers EXCEPT ![i] = q] BY <1>0 DEF WaitForEarlier
<1>6. \A r \in requests' : r \in requests \/ r = BatchRequest(i, u) BY <1>1
<1>7. Moved(i, q) BY <1>1, <1>4, <1>5, <1>6, ReplaceMoves
<1> QED BY <1>7

LEMMA EarlierMoves ==
    ASSUME NoClaims, OrderInv, NEW i \in Instances, NEW t \in producers[i].running, EarlierCompleted(i, t)
    PROVE  \E q : Moved(i, q)
<1> PICK p : p = producers[i] OBVIOUS
<1>0. p \in ProducerType /\ producers \in [Instances -> ProducerType] BY ProducerFacts
<1>1. /\ answers' \subseteq answers /\ setup' = setup /\ log' = log /\ seen' = seen /\ closedBy' = closedBy
  BY DEF EarlierCompleted, serverVars
<1>2. CASE Become(i, FinishTask(p, t, FALSE, setup[i].maxInFlight)) BY <1>1, <1>2, BecomeFinishMoves
<1>3. CASE Resend(i, p, t, [t EXCEPT !.waits = {}])
  <2> PICK u : u = [t EXCEPT !.waits = {}] OBVIOUS
  <2>1. t \in RunningType BY <1>0 DEF ProducerType
  <2>2. u \in RunningType /\ u.batch = t.batch /\ u.epoch = t.epoch /\ u.seq = t.seq
    BY <2>1 DEF RunningType
  <2> PICK q : q = [p EXCEPT !.running = (@ \ {t}) \cup {u}] OBVIOUS
  <2>3. producers' = [producers EXCEPT ![i] = q] BY <1>0, <1>3 DEF Resend
  <2>4. \A r \in requests' : r \in requests \/ r = BatchRequest(i, u) BY <1>3 DEF Resend
  <2>5. Moved(i, q) BY <1>1, <2>2, <2>3, <2>4, ReplaceMoves
  <2> QED BY <2>5
<1> QED BY <1>2, <1>3 DEF EarlierCompleted

LEMMA NothingDeferred ==
    ASSUME NoClaims, OrderInv, NEW i \in Instances
    PROVE  ~DeferredEnqueue(i) /\ \A t, a : ~ClaimEpoch(i, t, a)
<1> PICK p : p = producers[i] OBVIOUS
<1>1. p \in ProducerType /\ ~setup[i].autoClaim BY ProducerFacts
<1>2. p.deferred = <<>> BY <1>1 DEF ProducerType
<1> QED BY <1>1, <1>2 DEF DeferredEnqueue, Draining, ClaimEpoch

\* the fields of the calls change, and the numbers move on
LEMMA CallFieldsMove ==
    ASSUME NoClaims, OrderInv, NEW i \in Instances, NEW p, p = producers[i], NEW q \in ProducerType,
           q.running = p.running, q.queue = p.queue, q.appended = p.appended,
           q.pendingBatch = p.pendingBatch \/ (q.pendingBatch = <<>> /\ q.aborted),
           \/ q.epoch = p.epoch
           \/ p.queue = <<>>,
           (q.epoch = p.epoch /\ q.nextSeq = p.nextSeq) \/ Prior(p.epoch, p.nextSeq, q.epoch, q.nextSeq),
           CallOK(setup[i], q), Onward(i, p, q, answers), SentBy(i, q, requests, requests'),
           producers' = [producers EXCEPT ![i] = q],
           answers' \subseteq answers, setup' = setup, log' = log, seen' = seen, closedBy' = closedBy
    PROVE  Moved(i, q)
<1>0. WellFormed(p, setup[i].maxInFlight) /\ p \in ProducerType BY ProducerFacts
<1>1. WellFormed(q, setup[i].maxInFlight) BY <1>0 DEF WellFormed, Bounded
<1>2. Items(i, q, requests) = Items(i, p, requests)
  <2>1. CASE q.epoch = p.epoch BY <2>1 DEF Items
  <2>2. CASE p.queue = <<>>
    <3>1. Len(<<>>) = 0 /\ 1 .. 0 = {} OBVIOUS
    <3>2. 1 .. Len(p.queue) = {} /\ 1 .. Len(q.queue) = {} BY <3>1, <2>2
    <3> QED BY <3>2 DEF Items
  <2> QED BY <2>1, <2>2
<1>3. Move(i, p, Items(i, p, requests), q, Items(i, q, requests)) BY <1>2 DEF Move, QuietMove
<1> QED BY <1>1, <1>3 DEF Moved

LEMMA AbortMoves ==
    ASSUME NoClaims, OrderInv, NEW i \in Instances, SignalAborts(i)
    PROVE  \E q : Moved(i, q)
<1> PICK p : p = producers[i] OBVIOUS
<1>0. p \in ProducerType /\ producers \in [Instances -> ProducerType] /\ CallOK(setup[i], p) BY ProducerFacts
<1>b. PICK q : q = [p EXCEPT !.aborted = TRUE, !.failed = @ \/ p.pendingBatch # <<>>,
                           !.pendingBatch = <<>>, !.linger = FALSE] OBVIOUS
<1>a. (p.failed \/ p.pendingBatch # <<>>) \in BOOLEAN /\ <<>> \in Seq(Messages) OBVIOUS
<1>1. q \in ProducerType BY <1>0, <1>a, <1>b DEF ProducerType
<1>2. /\ q.appended = p.appended /\ q.pendingBatch = <<>> /\ q.epoch = p.epoch /\ q.nextSeq = p.nextSeq
      /\ q.running = p.running /\ q.queue = p.queue /\ q.aborted = TRUE
      /\ q.closed = p.closed /\ q.call = p.call /\ q.restarts = p.restarts /\ q.closeResult = p.closeResult
  BY <1>0, <1>b DEF ProducerType
<1>3. producers' = [producers EXCEPT ![i] = q] BY <1>0, <1>b DEF SignalAborts
<1>4. /\ requests' = requests /\ answers' \subseteq answers /\ setup' = setup /\ log' = log
      /\ seen' = seen /\ closedBy' = closedBy
  BY DEF SignalAborts, serverVars
<1>5. CallOK(setup[i], q) BY <1>0, <1>2 DEF CallOK
<1>6. SentBy(i, q, requests, requests') BY <1>4 DEF SentBy
<1>c. p.restarts \in Nat BY <1>0 DEF ProducerType
<1>7. Onward(i, p, q, answers) BY <1>2, <1>c DEF Onward
<1>8. Moved(i, q) BY <1>1, <1>2, <1>3, <1>4, <1>5, <1>6, <1>7, CallFieldsMove
<1> QED BY <1>8

LEMMA CloseRequestSent ==
    ASSUME NoClaims, OrderInv, NEW i \in Instances, NEW q \in ProducerType, q.closed, NEW r, r = CloseRequest(i, q)
    PROVE  CloseSent(i, q, r)
<1>1. ~setup[i].writable BY OptionFacts DEF OrderInv, ProducerTypeOK
<1>2. r = [from |-> i, key |-> <<i, 0>>, epoch |-> q.epoch, seq |-> q.nextSeq,
           body |-> <<<<i, 0>>>>, close |-> TRUE, awaited |-> TRUE]
  BY <1>1 DEF CloseRequest, Message
<1>3. <<i, 0>> \in Messages /\ q.epoch \in Nat /\ q.nextSeq \in Nat BY DEF Messages, ProducerType
<1>4. <<<<i, 0>>>> \in Seq(Messages) BY <1>3
<1>5. PICK b \in Seq(Messages) : b = <<<<i, 0>>>> BY <1>4
<1>6. PICK k \in Messages : k = <<i, 0>> BY <1>3
<1>7. r = [from |-> i, key |-> k, epoch |-> q.epoch, seq |-> q.nextSeq, body |-> b, close |-> TRUE, awaited |-> TRUE]
  BY <1>2, <1>5, <1>6
<1>8. r \in RequestType BY <1>3, <1>7 DEF RequestType
<1>9. r.key = <<i, 0>> /\ r.body = <<<<i, 0>>>> /\ r.from = i /\ r.close /\ r.epoch = q.epoch /\ r.seq = q.nextSeq
  BY <1>2
<1> QED BY <1>8, <1>9 DEF CloseSent

LEMMA IdleQueue ==
    ASSUME NEW p \in ProducerType, NEW max, Bounded(p, max), Idle(p)
    PROVE  p.queue = <<>>
<1>1. Cardinality(p.running) \in Nat BY FS_CardinalityType DEF Bounded
<1>2. p.queue \in Seq(TaskType) BY DEF ProducerType
<1>3. Len(p.queue) \in Nat BY <1>2
<1>4. Len(p.queue) = 0 BY <1>1, <1>3 DEF Idle, InFlightCount
<1> QED BY <1>2, <1>4

LEMMA ReturnMoves ==
    ASSUME NoClaims, OrderInv, NEW i \in Instances, FlushReturns(i)
    PROVE  \E q : Moved(i, q)
<1> PICK p : p = producers[i] OBVIOUS
<1>0. /\ p \in ProducerType /\ producers \in [Instances -> ProducerType] /\ CallOK(setup[i], p)
      /\ WellFormed(p, setup[i].maxInFlight)
  BY ProducerFacts
<1>1. p.queue = <<>> BY <1>0, IdleQueue DEF FlushReturns, WellFormed
<1>2. /\ answers' \subseteq answers /\ setup' = setup /\ log' = log /\ seen' = seen /\ closedBy' = closedBy
  BY DEF FlushReturns, serverVars
<1>3. CASE p.call = "restart"
  <2>0. p.epoch \in Nat /\ p.restarts \in Nat /\ p.nextSeq \in Nat BY <1>0 DEF ProducerType
  <2>q. PICK q : q = [p EXCEPT !.call = "none", !.epoch = @ + 1, !.nextSeq = 0, !.restarts = @ + 1] OBVIOUS
  <2>1. q \in ProducerType
    <3>1. PICK e \in Nat : e = p.epoch + 1 BY <2>0
    <3>2. PICK n \in Nat : n = p.restarts + 1 BY <2>0
    <3>3. PICK z \in Nat : z = 0 OBVIOUS
    <3>4. q = [p EXCEPT !.call = "none", !.epoch = e, !.nextSeq = z, !.restarts = n] BY <2>q, <3>1, <3>2, <3>3
    <3> QED BY ONLY <1>0, <3>1, <3>2, <3>3, <3>4 DEF ProducerType
  <2>2. /\ q.appended = p.appended /\ q.pendingBatch = p.pendingBatch /\ q.epoch = p.epoch + 1 /\ q.nextSeq = 0
        /\ q.running = p.running /\ q.queue = p.queue /\ q.restarts = p.restarts + 1 /\ q.call = "none"
        /\ q.closed = p.closed /\ q.aborted = p.aborted /\ (q.closeResult => p.closeResult)
    BY <1>0, <2>q DEF ProducerType
  <2>x. p.restarts \in Nat BY <1>0 DEF ProducerType
  <2>y. Onward(i, p, q, answers) BY <2>x, <2>2 DEF Onward
  <2>3. producers' = [producers EXCEPT ![i] = q] /\ requests' = requests BY <1>3, <2>q DEF FlushReturns
  <2>4. setup[i].epoch \in Nat /\ setup[i].restarts \in Nat BY OptionFacts DEF OrderInv, ProducerTypeOK
  <2>5. CallOK(setup[i], q) BY <1>0, <1>3, <2>0, <2>2, <2>4 DEF CallOK
  <2>6. SentBy(i, q, requests, requests') BY <2>3 DEF SentBy
  <2>7. Prior(p.epoch, p.nextSeq, q.epoch, q.nextSeq) BY <2>0, <2>2 DEF Prior
  <2>8. /\ q.pendingBatch = p.pendingBatch /\ q.running = p.running /\ q.queue = p.queue /\ q.appended = p.appended
        /\ producers' = [producers EXCEPT ![i] = q]
    BY <2>2, <2>3
  <2>9. Moved(i, q) BY <1>1, <1>2, <2>1, <2>5, <2>6, <2>7, <2>8, <2>y, CallFieldsMove
  <2> QED BY <2>9
<1>4. CASE p.call = "close"
  <2> PICK q : q = [p EXCEPT !.call = "closing"] OBVIOUS
  <2>1. q \in ProducerType BY <1>0 DEF ProducerType
  <2>2. /\ q.appended = p.appended /\ q.pendingBatch = p.pendingBatch /\ q.epoch = p.epoch /\ q.nextSeq = p.nextSeq
        /\ q.running = p.running /\ q.queue = p.queue /\ q.restarts = p.restarts /\ q.call = "closing"
        /\ q.closed = p.closed /\ q.aborted = p.aborted /\ (q.closeResult => p.closeResult)
    BY <1>0 DEF ProducerType
  <2>x. p.restarts \in Nat BY <1>0 DEF ProducerType
  <2>y. Onward(i, p, q, answers) BY <2>x, <2>2 DEF Onward
  <2>3. p.closed BY <1>0, <1>4 DEF CallOK
  <2>4. PICK r : r = CloseRequest(i, p) OBVIOUS
  <2>5. r = CloseRequest(i, q) BY <2>2, <2>4 DEF CloseRequest
  <2>6. producers' = [producers EXCEPT ![i] = q] /\ requests' = requests \cup {r} BY <1>4, <2>4 DEF FlushReturns
  <2>7. CloseSent(i, q, r) BY <2>1, <2>2, <2>3, <2>5, CloseRequestSent
  <2>8. SentBy(i, q, requests, requests') BY <2>6, <2>7 DEF SentBy
  <2>9. CallOK(setup[i], q) BY <1>0, <2>2, <2>3 DEF CallOK
  <2>10. Moved(i, q) BY <1>2, <2>1, <2>2, <2>6, <2>8, <2>9, <2>y, CallFieldsMove
  <2> QED BY <2>10
<1>5. CASE p.call # "restart" /\ p.call # "close"
  <2> PICK q : q = [p EXCEPT !.call = "none"] OBVIOUS
  <2>1. q \in ProducerType BY <1>0 DEF ProducerType
  <2>2. /\ q.appended = p.appended /\ q.pendingBatch = p.pendingBatch /\ q.epoch = p.epoch /\ q.nextSeq = p.nextSeq
        /\ q.running = p.running /\ q.queue = p.queue /\ q.restarts = p.restarts /\ q.call = "none"
        /\ q.closed = p.closed /\ q.aborted = p.aborted /\ (q.closeResult => p.closeResult)
    BY <1>0 DEF ProducerType
  <2>x. p.restarts \in Nat BY <1>0 DEF ProducerType
  <2>y. Onward(i, p, q, answers) BY <2>x, <2>2 DEF Onward
  <2>3. producers' = [producers EXCEPT ![i] = q] /\ requests' = requests BY <1>5 DEF FlushReturns
  <2>4. SentBy(i, q, requests, requests') BY <2>3 DEF SentBy
  <2>5. CallOK(setup[i], q) BY <1>0, <2>2 DEF CallOK
  <2>6. Moved(i, q) BY <1>2, <2>1, <2>2, <2>3, <2>4, <2>5, <2>y, CallFieldsMove
  <2> QED BY <2>6
<1> QED BY <1>3, <1>4, <1>5

LEMMA CloseAnswerMoves ==
    ASSUME NoClaims, OrderInv, NEW i \in Instances, NEW a \in answers, CloseAnswer(i, a)
    PROVE  \E q : Moved(i, q)
<1> PICK p : p = producers[i] OBVIOUS
<1>0. /\ p \in ProducerType /\ producers \in [Instances -> ProducerType] /\ CallOK(setup[i], p)
      /\ ~setup[i].autoClaim
  BY ProducerFacts
<1>1. /\ answers' \subseteq answers /\ setup' = setup /\ log' = log /\ seen' = seen /\ closedBy' = closedBy
  BY DEF CloseAnswer, serverVars
<1> DEFINE Q == CASE a.answer.status \in {200, 204} ->
                    [p EXCEPT !.call = "none", !.closeResult = TRUE, !.nextSeq = @ + 1]
               [] a.answer.status = 403 /\ setup[i].autoClaim ->
                    [p EXCEPT !.epoch = a.answer.n + 1, !.nextSeq = 0]
               [] OTHER -> [p EXCEPT !.call = "none"]
<1>a. producers' = [producers EXCEPT ![i] = Q]
  BY DEF CloseAnswer
<1>b. requests' = IF Q.call = "closing" THEN requests \cup {CloseRequest(i, Q)} ELSE requests
  BY DEF CloseAnswer
<1>2. CASE a.answer.status \in {200, 204}
  <2>0. PICK n \in Nat : n = p.nextSeq + 1
    <3>1. p.nextSeq \in Nat BY <1>0 DEF ProducerType
    <3> QED BY <3>1
  <2> PICK q : q = [p EXCEPT !.call = "none", !.closeResult = TRUE, !.nextSeq = n] OBVIOUS
  <2>1. q \in ProducerType BY <1>0 DEF ProducerType
  <2>2. /\ q.appended = p.appended /\ q.pendingBatch = p.pendingBatch /\ q.epoch = p.epoch /\ q.nextSeq = n
        /\ q.running = p.running /\ q.queue = p.queue /\ q.restarts = p.restarts /\ q.call = "none"
        /\ q.closed = p.closed /\ q.aborted = p.aborted
    BY <1>0 DEF ProducerType
  <2>x. p.restarts \in Nat BY <1>0 DEF ProducerType
  <2>z. a.from = i /\ a.key[2] = 0 BY DEF CloseAnswer, Message
  <2>y. Onward(i, p, q, answers) BY <2>x, <2>z, <2>2, <1>2 DEF Onward
  <2>a. Q = q BY <1>2, <2>0
  <2>3. producers' = [producers EXCEPT ![i] = q] /\ requests' = requests BY <1>a, <1>b, <2>a, <2>2
  <2>4. SentBy(i, q, requests, requests') BY <2>3 DEF SentBy
  <2>5. CallOK(setup[i], q) BY <1>0, <2>2 DEF CallOK
  <2>6. Prior(p.epoch, p.nextSeq, q.epoch, q.nextSeq)
    <3>1. p.nextSeq \in Nat BY <1>0 DEF ProducerType
    <3> QED BY <3>1, <2>0, <2>2 DEF Prior
  <2>7. Moved(i, q) BY <1>1, <2>1, <2>2, <2>3, <2>4, <2>5, <2>6, <2>y, CallFieldsMove
  <2> QED BY <2>7
<1>3. CASE a.answer.status \notin {200, 204}
  <2> PICK q : q = [p EXCEPT !.call = "none"] OBVIOUS
  <2>1. q \in ProducerType BY <1>0 DEF ProducerType
  <2>2. /\ q.appended = p.appended /\ q.pendingBatch = p.pendingBatch /\ q.epoch = p.epoch /\ q.nextSeq = p.nextSeq
        /\ q.running = p.running /\ q.queue = p.queue /\ q.restarts = p.restarts /\ q.call = "none"
        /\ q.closed = p.closed /\ q.aborted = p.aborted /\ (q.closeResult => p.closeResult)
    BY <1>0 DEF ProducerType
  <2>x. p.restarts \in Nat BY <1>0 DEF ProducerType
  <2>y. Onward(i, p, q, answers) BY <2>x, <2>2 DEF Onward
  <2>a. Q = q BY <1>0, <1>3
  <2>3. producers' = [producers EXCEPT ![i] = q] /\ requests' = requests BY <1>a, <1>b, <2>a, <2>2
  <2>4. SentBy(i, q, requests, requests') BY <2>3 DEF SentBy
  <2>5. CallOK(setup[i], q) BY <1>0, <2>2 DEF CallOK
  <2>6. Moved(i, q) BY <1>1, <2>1, <2>2, <2>3, <2>4, <2>5, <2>y, CallFieldsMove
  <2> QED BY <2>6
<1> QED BY <1>2, <1>3

\* a request or an answer of a close: its producer is closed
LEMMA CloseKey ==
    ASSUME NoClaims, OrderInv, NEW i \in Instances,
           \/ \E r \in requests : r.from = i /\ r.key = <<i, 0>>
           \/ \E a \in answers : a.from = i /\ a.key = <<i, 0>>
    PROVE  producers[i].closed
<1>0. <<i, 0>>[2] = 0 OBVIOUS
<1>1. ASSUME NEW r \in requests, r.from = i, r.key = <<i, 0>>, ~r.close PROVE FALSE
  <2> PICK p : p = producers[i] OBVIOUS
  <2>1. InstanceOK(i, p, Items(i, p, requests), log, seen) BY ProducerFacts
  <2>2. r.key = r.body[1] BY <1>1 DEF OrderInv, RequestOK
  <2>3. Item(r.body, r.epoch, r.seq) \in Items(i, p, requests) BY <1>1 DEF Items
  <2>4. Item(r.body, r.epoch, r.seq).batch = r.body BY DEF Item
  <2>5. OwnBatch(i, r.body, p.appended) /\ Len(r.body) > 0 BY <2>1, <2>3, <2>4 DEF InstanceOK, NumbersOK
  <2>6. r.body[1][2] \in 1 .. p.appended BY <2>5 DEF OwnBatch
  <2>7. r.body[1][2] = 0 BY <2>2, <1>1, <1>0
  <2>8. p.appended \in Nat BY ProducerFacts DEF Numbered
  <2> QED BY <2>6, <2>7, <2>8
<1>2. ASSUME NEW r \in requests, r.from = i, r.key = <<i, 0>> PROVE producers[i].closed
  <2>1. r.close BY <1>1, <1>2
  <2> QED BY <2>1, <1>2 DEF OrderInv
<1>3. ASSUME NEW a \in answers, a.from = i, a.key = <<i, 0>> PROVE producers[i].closed
  <2>1. a.key[2] = 0 BY <1>0, <1>3
  <2> QED BY <2>1, <1>3 DEF OrderInv
<1> QED BY <1>2, <1>3

LEMMA FailMoves ==
    ASSUME NoClaims, OrderInv, NEW i \in Instances, NEW key, FetchFails(i, key)
    PROVE  \E q : Moved(i, q)
<1> PICK p : p = producers[i] OBVIOUS
<1> DEFINE mine == {r \in requests : r.from = i /\ r.key = key /\ r.awaited}
           got  == {a \in answers : a.from = i /\ a.key = key}
<1>0. /\ p \in ProducerType /\ producers \in [Instances -> ProducerType] /\ CallOK(setup[i], p)
      /\ WellFormed(p, setup[i].maxInFlight)
  BY ProducerFacts
<1>1. /\ answers' \subseteq answers /\ setup' = setup /\ log' = log /\ seen' = seen /\ closedBy' = closedBy
  BY DEF FetchFails, serverVars
<1>2. key = Message(i, 0) => p.closed
  <2>1. mine # {} \/ got # {} BY DEF FetchFails
  <2> QED BY <2>1, CloseKey DEF Message
<1>3. PICK late \in SUBSET mine :
             LET left == (requests \ mine) \cup {[r EXCEPT !.awaited = FALSE] : r \in late} IN
             \/ /\ setup[i].refetch /\ ~producers[i].aborted
                /\ UNCHANGED <<producers>>
                /\ requests' = left \cup
                     {BatchRequest(i, t) : t \in {t \in producers[i].running : Key(t.batch) = key}}
                     \cup IF key = Message(i, 0) THEN {CloseRequest(i, producers[i])} ELSE {}
             \/ /\ ~setup[i].refetch \/ producers[i].aborted
                /\ \E q \in IF key = Message(i, 0) THEN {[producers[i] EXCEPT !.call = "none"]}
                            ELSE {FinishTask(producers[i], t, FALSE, setup[i].maxInFlight) :
                                     t \in {t \in producers[i].running : Key(t.batch) = key}} :
                      /\ producers' = [producers EXCEPT ![i] = q]
                      /\ requests' = left \cup NewRequests(i, producers[i], q)
  BY Zenon DEF FetchFails
<1>4. PICK left : left = (requests \ mine) \cup {[r EXCEPT !.awaited = FALSE] : r \in late} OBVIOUS
<1>5. \A r \in left : \E s \in requests : r = s \/ r = [s EXCEPT !.awaited = FALSE] BY <1>4
<1> HIDE DEF mine, got
<1>a. \/ /\ producers' = producers
         /\ requests' = left \cup
                {BatchRequest(i, t) : t \in {t \in producers[i].running : Key(t.batch) = key}}
                \cup IF key = Message(i, 0) THEN {CloseRequest(i, producers[i])} ELSE {}
      \/ \E q \in IF key = Message(i, 0) THEN {[producers[i] EXCEPT !.call = "none"]}
                   ELSE {FinishTask(producers[i], t, FALSE, setup[i].maxInFlight) :
                            t \in {t \in producers[i].running : Key(t.batch) = key}} :
            /\ producers' = [producers EXCEPT ![i] = q]
            /\ requests' = left \cup NewRequests(i, producers[i], q)
  BY ONLY <1>3, <1>4, Zenon
<1>6. CASE /\ producers' = producers
           /\ requests' = left \cup
                     {BatchRequest(i, t) : t \in {t \in p.running : Key(t.batch) = key}}
                     \cup IF key = Message(i, 0) THEN {CloseRequest(i, p)} ELSE {}
  <2>1. producers' = [producers EXCEPT ![i] = p] BY <1>0, <1>6
  <2>2. SameNumbers(p, p) /\ Items(i, p, requests) \subseteq Items(i, p, requests) BY DEF SameNumbers, SameCall
  <2>3. key = Message(i, 0) => CloseSent(i, p, CloseRequest(i, p))
    <3> PICK c : c = CloseRequest(i, p) OBVIOUS
    <3>1. key = Message(i, 0) => CloseSent(i, p, c) BY <1>0, <1>2, CloseRequestSent
    <3> QED BY <3>1
  <2>4. \A r \in requests' : \/ r \in left
                             \/ \E t \in p.running : r = BatchRequest(i, t)
                             \/ key = Message(i, 0) /\ r = CloseRequest(i, p)
    BY <1>6
  <2>5. SentBy(i, p, requests, requests') BY <2>3, <2>4, <1>5 DEF SentBy
  <2>6. Moved(i, p) BY <1>0, <1>1, <2>1, <2>2, <2>5, QuietMoves
  <2> QED BY <2>6
<1>7. ASSUME NEW q, key = Message(i, 0), q = [p EXCEPT !.call = "none"],
             producers' = [producers EXCEPT ![i] = q], requests' = left \cup NewRequests(i, p, q)
      PROVE  Moved(i, q)
  <2>1. q \in ProducerType BY <1>0, <1>7 DEF ProducerType
  <2>2. /\ q.appended = p.appended /\ q.pendingBatch = p.pendingBatch /\ q.epoch = p.epoch /\ q.nextSeq = p.nextSeq
        /\ q.running = p.running /\ q.queue = p.queue /\ q.restarts = p.restarts /\ q.call = "none"
        /\ q.closed = p.closed /\ q.aborted = p.aborted /\ q.closeResult = p.closeResult
    BY <1>0, <1>7 DEF ProducerType
  <2>x. p.restarts \in Nat BY <1>0 DEF ProducerType
  <2>y. Onward(i, p, q, answers) BY <2>x, <2>2 DEF Onward
  <2>3. SentBy(i, q, requests, requests') BY <1>5, <1>7, BecomeSends
  <2>4. CallOK(setup[i], q) BY <1>0, <2>2 DEF CallOK
  <2> QED BY <1>1, <1>7, <2>1, <2>2, <2>3, <2>4, <2>y, CallFieldsMove
<1>8. ASSUME NEW t \in p.running, NEW q, q = FinishTask(p, t, FALSE, setup[i].maxInFlight),
             producers' = [producers EXCEPT ![i] = q], requests' = left \cup NewRequests(i, p, q)
      PROVE  Moved(i, q)
  BY <1>1, <1>5, <1>8, FinishMoves
<1>9. CASE \E q \in IF key = Message(i, 0) THEN {[p EXCEPT !.call = "none"]}
                            ELSE {FinishTask(p, t, FALSE, setup[i].maxInFlight) :
                                     t \in {t \in p.running : Key(t.batch) = key}} :
                      /\ producers' = [producers EXCEPT ![i] = q]
                      /\ requests' = left \cup NewRequests(i, p, q)
  <2>1. PICK q : /\ \/ key = Message(i, 0) /\ q = [p EXCEPT !.call = "none"]
                    \/ \E t \in p.running : q = FinishTask(p, t, FALSE, setup[i].maxInFlight)
                 /\ producers' = [producers EXCEPT ![i] = q]
                 /\ requests' = left \cup NewRequests(i, p, q)
    BY <1>9
  <2>2. Moved(i, q) BY <2>1, <1>7, <1>8
  <2> QED BY <2>2
<1>10. p = producers[i] OBVIOUS
<1> QED BY <1>10, <1>a, <1>6, <1>9

----------------------------------------------------------------------------
(* The server *)

NextNumber(sn, e, s) == (sn.epoch < e /\ s = 0) \/ (sn.epoch = e /\ s = sn.lastSeq + 1)

LEMMA VerdictFacts ==
    ASSUME ProducerTypeOK, NEW r \in RequestType
    PROVE  /\ Verdict(r) \in {"accepted", "duplicate", "stale_epoch", "invalid_epoch_seq", "sequence_gap", "stream_closed"}
           /\ Verdict(r) = "accepted" => closedBy = Open /\ NextNumber(seen, r.epoch, r.seq)
           /\ Verdict(r) = "stale_epoch" => seen.epoch \in Nat
           /\ Verdict(r) = "duplicate" =>
                \/ closedBy # Open /\ closedBy = <<r.epoch, r.seq>>
                \/ closedBy = Open /\ seen.epoch = r.epoch /\ r.seq <= seen.lastSeq
<1>0. r.epoch \in Nat /\ r.seq \in Nat /\ seen.epoch \in Int /\ seen.lastSeq \in Int /\ seen.epoch >= -1
  BY DEF ProducerTypeOK, RequestType
<1> PICK v : v = ValidateProducer(seen, r.epoch, r.seq) OBVIOUS
<1>1. /\ v \in {"accepted", "duplicate", "stale_epoch", "invalid_epoch_seq", "sequence_gap"}
      /\ v = "accepted" => NextNumber(seen, r.epoch, r.seq)
      /\ v = "stale_epoch" => seen.epoch \in Nat
      /\ v = "duplicate" => seen.epoch = r.epoch /\ r.seq <= seen.lastSeq
  BY <1>0 DEF ValidateProducer, NextNumber
<1>2. CASE closedBy # Open /\ closedBy = <<r.epoch, r.seq>>
  <2>1. Verdict(r) = "duplicate" BY <1>2 DEF Verdict
  <2> QED BY <2>1, <1>2
<1>3. CASE closedBy # Open /\ closedBy # <<r.epoch, r.seq>>
  <2>1. Verdict(r) = "stream_closed" BY <1>3 DEF Verdict
  <2> QED BY <2>1
<1>4. CASE closedBy = Open
  <2>1. Verdict(r) = v BY <1>4 DEF Verdict
  <2> QED BY <2>1, <1>1, <1>4
<1> QED BY <1>2, <1>3, <1>4

StatusType == [status : {200, 204, 400, 403, 409}, n : Nat]

LEMMA AnswerTyped ==
    ASSUME ProducerTypeOK, NEW r \in RequestType
    PROVE  /\ Answer(r) \in StatusType
           /\ Answer(r).status \in {200, 204} => Verdict(r) \in {"accepted", "duplicate"}
<1> PICK v : v = Verdict(r) OBVIOUS
<1>0. /\ v \in {"accepted", "duplicate", "stale_epoch", "invalid_epoch_seq", "sequence_gap", "stream_closed"}
      /\ v = "stale_epoch" => seen.epoch \in Nat
  BY VerdictFacts
<1>1. seen.lastSeq + 1 \in Nat BY DEF ProducerTypeOK
<1>2. \A c \in {200, 204, 400, 403, 409}, n \in Nat :
          Status(c, n) \in StatusType /\ Status(c, n).status = c
  BY DEF Status, StatusType
<1>3. PICK x : x = Answer(r) OBVIOUS
<1>4. CASE v \in {"accepted", "duplicate"}
  <2>1. x = Status(200, 0) \/ x = Status(204, 0)
    BY <1>3, <1>4 DEF Answer, AppendAnswer, CloseOnlyAnswer
  <2>2. x \in StatusType BY <2>1, <1>2
  <2> QED BY <2>2, <1>3, <1>4
<1>5. CASE v = "stale_epoch"
  <2>1. x = Status(403, seen.epoch) BY <1>3, <1>5 DEF Answer, AppendAnswer, CloseOnlyAnswer
  <2>2. x \in StatusType /\ x.status = 403 BY <2>1, <1>0, <1>2, <1>5
  <2> QED BY <2>2, <1>3
<1>6. CASE v = "sequence_gap"
  <2>1. x = Status(409, seen.lastSeq + 1) BY <1>3, <1>6 DEF Answer, AppendAnswer, CloseOnlyAnswer
  <2>2. x \in StatusType /\ x.status = 409 BY <2>1, <1>1, <1>2
  <2> QED BY <2>2, <1>3
<1>7. CASE v = "invalid_epoch_seq"
  <2>1. x = Status(400, 0) BY <1>3, <1>7 DEF Answer, AppendAnswer, CloseOnlyAnswer
  <2>2. x \in StatusType /\ x.status = 400 BY <2>1, <1>2
  <2> QED BY <2>2, <1>3
<1>8. CASE v = "stream_closed"
  <2>1. x = Status(409, 0) BY <1>3, <1>8 DEF Answer, AppendAnswer, CloseOnlyAnswer
  <2>2. x \in StatusType /\ x.status = 409 BY <2>1, <1>2
  <2> QED BY <2>2, <1>3
<1> QED BY <1>0, <1>4, <1>5, <1>6, <1>7, <1>8

\* what the server does with a request
LEMMA ServerFacts ==
    ASSUME NoClaims, OrderInv, NEW r \in requests, ServerHandles(r)
    PROVE  /\ producers' = producers /\ setup' = setup /\ requests' = requests \ {r}
           /\ r \in RequestType /\ RequestOK(r)
           /\ \A a \in answers' :
                \/ a \in answers
                \/ /\ a \in AnswerType /\ a.from = r.from /\ a.key = r.key /\ a.answer = Answer(r)
           /\ \/ Verdict(r) # "accepted" /\ log' = log /\ seen' = seen /\ closedBy' = closedBy
              \/ /\ Verdict(r) = "accepted" /\ closedBy = Open /\ NextNumber(seen, r.epoch, r.seq)
                 /\ log' = log \o r.body /\ seen' = ProposedState(r.epoch, r.seq)
                 /\ closedBy' = IF r.close THEN <<r.epoch, r.seq>> ELSE closedBy
<1>1. r \in RequestType /\ RequestOK(r) /\ ProducerTypeOK BY DEF OrderInv, ProducerTypeOK
<1>2. producers' = producers /\ setup' = setup /\ requests' = requests \ {r} BY DEF ServerHandles
<1>3. Verdict(r) = "accepted" => closedBy = Open /\ NextNumber(seen, r.epoch, r.seq) BY <1>1, VerdictFacts
<1>4. \A a \in answers' :
        \/ a \in answers
        \/ /\ a \in AnswerType /\ a.from = r.from /\ a.key = r.key /\ a.answer = Answer(r)
  <2> SUFFICES ASSUME NEW a \in answers', a \notin answers
               PROVE  a \in AnswerType /\ a.from = r.from /\ a.key = r.key /\ a.answer = Answer(r)
    OBVIOUS
  <2>1. PICK x \in StatusType : x = Answer(r) BY <1>1, AnswerTyped
  <2>2. a = [from |-> r.from, key |-> r.key, answer |-> x] BY <2>1 DEF ServerHandles
  <2>3. r.from \in Instances /\ r.key \in Messages BY <1>1 DEF RequestType
  <2> QED BY <2>1, <2>2, <2>3 DEF AnswerType, StatusType
<1>5. \/ Verdict(r) # "accepted" /\ log' = log /\ seen' = seen /\ closedBy' = closedBy
      \/ /\ Verdict(r) = "accepted"
         /\ log' = log \o r.body /\ seen' = ProposedState(r.epoch, r.seq)
         /\ closedBy' = IF r.close THEN <<r.epoch, r.seq>> ELSE closedBy
  BY DEF ServerHandles, serverVars
<1> QED BY <1>1, <1>2, <1>3, <1>4, <1>5

\* the item of a request
LEMMA RequestItem ==
    ASSUME NoClaims, OrderInv, NEW r \in requests, ~r.close
    PROVE  \E x \in Items(r.from, producers[r.from], requests) :
              x.batch = r.body /\ x.epoch = r.epoch /\ x.seq = r.seq
<1> PICK x : x = Item(r.body, r.epoch, r.seq) OBVIOUS
<1>1. x \in Items(r.from, producers[r.from], requests) BY DEF Items
<1>2. x.batch = r.body /\ x.epoch = r.epoch /\ x.seq = r.seq BY DEF Item
<1> QED BY <1>1, <1>2

LEMMA FewerRequests ==
    ASSUME NEW rs, NEW rs2, rs2 \subseteq rs, NEW i, NEW p
    PROVE  Items(i, p, rs2) \subseteq Items(i, p, rs)
BY DEF Items

\* the body of an accepted request, for every instance
LEMMA AcceptedBody ==
    ASSUME NoClaims, OrderInv, NEW r \in requests, NEW i \in Instances, NEW p, p = producers[i]
    PROVE  BodyOK(i, p, Items(i, p, requests), r.body, r.epoch, r.seq)
<1>0. InstanceOK(i, p, Items(i, p, requests), log, seen) /\ Numbered(p) BY ProducerFacts
<1>1. r \in RequestType /\ RequestOK(r) BY DEF OrderInv, ProducerTypeOK
<1>2. CASE r.close
  <2>1. r.body \in {<<>>, <<<<r.from, 0>>>>} BY <1>1, <1>2 DEF RequestOK
  <2>2. \A k \in 1 .. Len(r.body) : r.body[k][2] = 0
    <3>1. CASE r.body = <<>> BY <3>1
    <3>2. CASE r.body = <<<<r.from, 0>>>>
      <4>1. Len(r.body) = 1 /\ r.body[1] = <<r.from, 0>> BY <3>2
      <4>2. r.body[1][2] = 0 BY <4>1
      <4> QED BY <4>1, <4>2
    <3> QED BY <2>1, <3>1, <3>2
  <2> QED BY <2>2, <1>0, FinalBody
<1>3. CASE ~r.close
  <2>0. PICK f : f = producers[r.from] OBVIOUS
  <2>1. PICK x \in Items(r.from, f, requests) :
              x.batch = r.body /\ x.epoch = r.epoch /\ x.seq = r.seq
    BY <1>3, <2>0, RequestItem
  <2>2. CASE i = r.from BY <2>0, <2>1, <2>2, <1>0, OwnBody
  <2>3. CASE i # r.from
    <3>1. r.from \in Instances BY <1>1 DEF RequestType
    <3>2. InstanceOK(r.from, f, Items(r.from, f, requests), log, seen) BY <2>0, <3>1, ProducerFacts
    <3>3. OwnBatch(r.from, r.body, f.appended) BY <2>1, <3>2 DEF InstanceOK, NumbersOK
    <3>4. \A k \in 1 .. Len(r.body) : r.body[k] = <<r.from, r.body[k][2]>> BY <3>3 DEF OwnBatch
    <3>5. \A k \in 1 .. Len(r.body) : r.body[k][1] = r.from BY <3>4
    <3> QED BY <3>5, <2>3 DEF BodyOK
  <2> QED BY <2>2, <2>3
<1> QED BY <1>2, <1>3

LEMMA AcceptedLog ==
    ASSUME NoClaims, OrderInv, NEW r \in requests, closedBy = Open, NextNumber(seen, r.epoch, r.seq),
           NEW L, L = log \o r.body, NEW j \in DOMAIN L, NEW k \in DOMAIN L, j < k, L[j][1] = L[k][1]
    PROVE  L[j][2] # 0 /\ (L[k][2] = 0 \/ L[j][2] < L[k][2])
<1>1. r \in RequestType /\ RequestOK(r) /\ log \in Seq(Messages) /\ seen \in ProducerState
  BY DEF OrderInv, ProducerTypeOK, ProducerState
<1>2. r.body \in Seq(Messages) /\ r.from \in Instances /\ r.epoch \in Nat /\ r.seq \in Nat BY <1>1 DEF RequestType
<1>3. \A m, n \in 1 .. Len(log) : m < n /\ log[m][1] = log[n][1] =>
               log[m][2] # 0 /\ (log[n][2] = 0 \/ log[m][2] < log[n][2])
  BY <1>1 DEF OrderInv, LogInOrder
<1>4. \A m \in 1 .. Len(log) : log[m][2] # 0 BY DEF OrderInv
<1>5. CASE r.close
  <2>1. r.body \in {<<>>, <<<<r.from, 0>>>>} BY <1>1, <1>5 DEF RequestOK
  <2>2. Len(r.body) <= 1 /\ \A m \in 1 .. Len(r.body) : r.body[m][2] = 0
    <3>1. CASE r.body = <<>> BY <3>1
    <3>2. CASE r.body = <<<<r.from, 0>>>>
      <4>1. Len(r.body) = 1 /\ r.body[1] = <<r.from, 0>> BY <3>2
      <4>2. r.body[1][2] = 0 BY <4>1
      <4> QED BY <4>1, <4>2
    <3> QED BY <2>1, <3>1, <3>2
  <2>3. \A m \in 1 .. Len(log), n \in 1 .. Len(r.body) : log[m][1] = r.body[n][1] =>
               log[m][2] # 0 /\ (r.body[n][2] = 0 \/ log[m][2] < r.body[n][2])
    BY <2>2, <1>4
  <2>4. \A m, n \in 1 .. Len(r.body) : m < n => r.body[m][2] # 0 /\ r.body[m][2] < r.body[n][2]
    BY <2>2, <1>2
  <2> QED BY <1>1, <1>2, <1>3, <2>3, <2>4, LongerLog
<1>6. CASE ~r.close
  <2>0. PICK p : p = producers[r.from] OBVIOUS
  <2>a. PICK X : X = Items(r.from, p, requests) OBVIOUS
  <2>1. PICK x \in X : x.batch = r.body /\ x.epoch = r.epoch /\ x.seq = r.seq
    BY <1>6, <2>0, <2>a, RequestItem
  <2>2. InstanceOK(r.from, p, X, log, seen) /\ Numbered(p) BY <2>0, <2>a, <1>2, ProducerFacts
  <2>3. OwnBatch(r.from, r.body, p.appended) BY <2>1, <2>2 DEF InstanceOK, NumbersOK
  <2>4. \A n \in 1 .. Len(r.body) : r.body[n] = <<r.from, r.body[n][2]>> /\ r.body[n][2] \in 1 .. p.appended
    BY <2>3 DEF OwnBatch
  <2>5. Prior(seen.epoch, seen.lastSeq, r.epoch, r.seq) BY <1>1, <1>2 DEF NextNumber, Prior, ProducerState
  <2>6. \A m \in 1 .. Len(log), n \in 1 .. Len(r.body) : log[m][1] = r.from => log[m][2] < r.body[n][2]
    BY <2>1, <2>2, <2>5 DEF InstanceOK, LaterOK
  <2>7. \A n \in 1 .. Len(r.body) : r.body[n][1] = r.from BY <2>4
  <2>8. \A m \in 1 .. Len(log), n \in 1 .. Len(r.body) : log[m][1] = r.body[n][1] =>
               log[m][2] # 0 /\ (r.body[n][2] = 0 \/ log[m][2] < r.body[n][2])
    BY <2>6, <2>7, <1>4
  <2>9. \A m, n \in 1 .. Len(r.body) : m < n => r.body[m][2] # 0 /\ r.body[m][2] < r.body[n][2]
    <3> SUFFICES ASSUME NEW m \in 1 .. Len(r.body), NEW n \in 1 .. Len(r.body), m < n
                 PROVE r.body[m][2] # 0 /\ r.body[m][2] < r.body[n][2] OBVIOUS
    <3>1. r.body[m][2] \in 1 .. p.appended BY <2>4
    <3>2. r.body[m][2] < r.body[n][2] BY <2>3 DEF OwnBatch
    <3>0. p.appended \in Nat BY <2>2 DEF Numbered
    <3>3. r.body[m][2] # 0 BY ONLY <3>0, <3>1
    <3> QED BY <3>2, <3>3
  <2> QED BY <1>1, <1>2, <1>3, <2>8, <2>9, LongerLog
<1> QED BY <1>5, <1>6

LEMMA ServerKeepsOrder ==
    ASSUME NoClaims, OrderInv, NEW r \in requests, ServerHandles(r)
    PROVE  OrderInv'
<1>1. /\ producers' = producers /\ setup' = setup /\ requests' = requests \ {r}
      /\ r \in RequestType /\ RequestOK(r)
      /\ \A a \in answers' :
            \/ a \in answers
            \/ /\ a \in AnswerType /\ a.from = r.from /\ a.key = r.key /\ a.answer = Answer(r)
      /\ \/ Verdict(r) # "accepted" /\ log' = log /\ seen' = seen /\ closedBy' = closedBy
         \/ /\ Verdict(r) = "accepted" /\ closedBy = Open /\ NextNumber(seen, r.epoch, r.seq)
            /\ log' = log \o r.body /\ seen' = ProposedState(r.epoch, r.seq)
            /\ closedBy' = IF r.close THEN <<r.epoch, r.seq>> ELSE closedBy
  BY ServerFacts
<1>2. /\ requests \subseteq RequestType /\ answers \subseteq AnswerType /\ log \in Seq(Messages)
      /\ seen \in ProducerState /\ seen.epoch >= -1 /\ seen.lastSeq >= -1 /\ closedBy \in Int \X Int
  BY DEF OrderInv, ProducerTypeOK, ProducerState
<1>3. r.body \in Seq(Messages) /\ r.from \in Instances /\ r.epoch \in Nat /\ r.seq \in Nat BY <1>1 DEF RequestType
<1>4. ProducerTypeOK'
  <2>1. answers' \subseteq AnswerType BY <1>1, <1>2
  <2>2. log' \in Seq(Messages)
    <3>1. log \o r.body \in Seq(Messages) BY <1>2, <1>3
    <3> QED BY <3>1, <1>1, <1>2
  <2>3. seen' \in ProducerState /\ seen'.epoch >= -1 /\ seen'.lastSeq >= -1
    BY <1>1, <1>2, <1>3 DEF ProposedState, ProducerState
  <2>4. closedBy' \in Int \X Int BY <1>1, <1>2, <1>3
  <2>5. requests' \subseteq RequestType /\ producers' \in [Instances -> ProducerType] /\ setup' \in ProducerSetups
    BY <1>1 DEF OrderInv, ProducerTypeOK
  <2> QED BY <2>1, <2>2, <2>3, <2>4, <2>5 DEF ProducerTypeOK, ProducerState
<1>5. (\A i \in Instances : Bounded(producers[i], setup[i].maxInFlight))'
  BY <1>1 DEF OrderInv
<1>6. (\A s \in requests : RequestOK(s))' BY <1>1 DEF OrderInv
<1>7. (\A i \in Instances : CallOK(setup[i], producers[i]))' BY <1>1 DEF OrderInv
<1>8. (\A s \in requests : s.close => producers[s.from].closed)' BY <1>1 DEF OrderInv
<1>9. (\A a \in answers : a.key[2] = 0 => producers[a.from].closed)'
  <2> SUFFICES ASSUME NEW a \in answers', a.key[2] = 0 PROVE producers[a.from].closed BY <1>1
  <2>1. CASE a \in answers BY <2>1 DEF OrderInv
  <2>2. CASE a.from = r.from /\ a.key = r.key
    <3>1. CASE r.close BY <2>2, <3>1 DEF OrderInv
    <3>2. CASE ~r.close
      <4>0. PICK p : p = producers[r.from] OBVIOUS
      <4>1. PICK x \in Items(r.from, p, requests) : x.batch = r.body
        BY <3>2, <4>0, RequestItem
      <4>2. InstanceOK(r.from, p, Items(r.from, p, requests), log, seen) /\ Numbered(p) BY <4>0, <1>3, ProducerFacts
      <4>3. OwnBatch(r.from, r.body, p.appended) /\ Len(r.body) > 0 BY <4>1, <4>2 DEF InstanceOK, NumbersOK
      <4>4. r.body[1][2] \in 1 .. p.appended BY <4>3 DEF OwnBatch
      <4>5. r.key = r.body[1] BY <3>2, <1>1 DEF RequestOK
      <4>6. r.key[2] # 0 BY <4>4, <4>5, <4>2 DEF Numbered
      <4> QED BY <4>6, <2>2
    <3> QED BY <3>1, <3>2
  <2> QED BY <2>1, <2>2, <1>1
<1>10. ASSUME NEW i \in Instances, NEW p, p = producers[i]
       PROVE  InstanceOK(i, p, Items(i, p, requests'), log', seen')
  <2>0. InstanceOK(i, p, Items(i, p, requests), log, seen) BY <1>10, ProducerFacts
  <2>1. Items(i, p, requests') \subseteq Items(i, p, requests)
    <3>1. requests' \subseteq requests BY <1>1
    <3> QED BY <3>1, FewerRequests
  <2>2. CASE log' = log /\ seen' = seen BY <2>0, <2>1, <2>2, FewerItems
  <2>3. CASE /\ NextNumber(seen, r.epoch, r.seq)
             /\ log' = log \o r.body /\ seen' = ProposedState(r.epoch, r.seq)
    <3>1. Prior(seen.epoch, seen.lastSeq, r.epoch, r.seq) BY <1>2, <1>3, <2>3 DEF NextNumber, Prior, ProducerState
    <3>2. BodyOK(i, p, Items(i, p, requests), r.body, r.epoch, r.seq) BY <1>10, AcceptedBody
    <3>3. InstanceOK(i, p, Items(i, p, requests'), log \o r.body, ProposedState(r.epoch, r.seq))
      BY <1>2, <1>3, <2>0, <2>1, <3>1, <3>2, AcceptKeeps
    <3> QED BY <3>3, <2>3
  <2> QED BY <2>2, <2>3, <1>1
<1>11. (\A i \in Instances : InstanceOK(i, producers[i], Items(i, producers[i], requests), log, seen))'
  <2> SUFFICES ASSUME NEW i \in Instances
               PROVE  InstanceOK(i, producers[i], Items(i, producers[i], requests'), log', seen')
    BY <1>1
  <2>1. PICK p : p = producers[i] OBVIOUS
  <2>2. InstanceOK(i, p, Items(i, p, requests'), log', seen') BY <2>1, <1>10
  <2> QED BY <2>1, <2>2
<1>12. (closedBy = Open => \A j \in 1 .. Len(log) : log[j][2] # 0)'
  <2>1. CASE log' = log /\ closedBy' = closedBy BY <2>1 DEF OrderInv
  <2>2. CASE r.close /\ closedBy' = <<r.epoch, r.seq>>
    <3>1. closedBy' # Open BY <2>2, <1>3 DEF Open
    <3> QED BY <3>1
  <2>3. CASE ~r.close /\ closedBy = Open /\ log' = log \o r.body
    <3>0. PICK p : p = producers[r.from] OBVIOUS
    <3>1. PICK x \in Items(r.from, p, requests) : x.batch = r.body
      BY <2>3, <3>0, RequestItem
    <3>2. InstanceOK(r.from, p, Items(r.from, p, requests), log, seen) /\ Numbered(p) BY <3>0, <1>3, ProducerFacts
    <3>3. OwnBatch(r.from, r.body, p.appended) BY <3>1, <3>2 DEF InstanceOK, NumbersOK
    <3>4. \A k \in 1 .. Len(r.body) : r.body[k][2] # 0 BY <3>2, <3>3 DEF OwnBatch, Numbered
    <3>5. \A j \in 1 .. Len(log) : log[j][2] # 0 BY <2>3 DEF OrderInv
    <3>6. \A j \in 1 .. Len(log \o r.body) : (log \o r.body)[j][2] # 0
      <4> SUFFICES ASSUME NEW j \in 1 .. Len(log \o r.body) PROVE (log \o r.body)[j][2] # 0 OBVIOUS
      <4>1. \/ j \in 1 .. Len(log) /\ (log \o r.body)[j] = log[j]
            \/ j - Len(log) \in 1 .. Len(r.body) /\ (log \o r.body)[j] = r.body[j - Len(log)]
        BY <1>2, <1>3
      <4> QED BY <4>1, <3>4, <3>5
    <3> QED BY <3>6, <2>3
  <2> QED BY <2>1, <2>2, <2>3, <1>1
<1>13. LogInOrder'
  <2>1. CASE log' = log BY <2>1 DEF OrderInv, LogInOrder
  <2>2. CASE closedBy = Open /\ NextNumber(seen, r.epoch, r.seq) /\ log' = log \o r.body
    <3> PICK L : L = log \o r.body OBVIOUS
    <3>1. \A j, k \in DOMAIN L : j < k /\ L[j][1] = L[k][1] => L[j][2] # 0 /\ (L[k][2] = 0 \/ L[j][2] < L[k][2])
      BY <2>2, AcceptedLog
    <3> QED BY <3>1, <2>2 DEF LogInOrder
  <2> QED BY <2>1, <2>2, <1>1
<1> QED BY <1>4, <1>5, <1>6, <1>7, <1>8, <1>9, <1>11, <1>12, <1>13 DEF OrderInv

----------------------------------------------------------------------------

LEMMA OrderInit ==
    ASSUME NoClaims, ProducerInit
    PROVE  OrderInv
<1>1. setup \in ProducerSetups /\ producers = [i \in Instances |-> NewProducer(setup[i])]
      /\ requests = {} /\ answers = {} /\ log = <<>> /\ seen = NoProducerState /\ closedBy = Open
  BY DEF ProducerInit
<1>2. ASSUME NEW i \in Instances, NEW p, p = producers[i]
      PROVE  /\ p \in ProducerType /\ Bounded(p, setup[i].maxInFlight) /\ CallOK(setup[i], p)
             /\ InstanceOK(i, p, Items(i, p, requests), log, seen)
  <2>0. setup[i].epoch \in Nat /\ setup[i].maxInFlight \in Nat /\ setup[i].restarts \in Nat /\ ~setup[i].autoClaim
    BY <1>1, OptionFacts
  <2>a. PICK e \in Nat : e = setup[i].epoch BY <2>0
  <2>d. <<>> \in Seq(Messages) OBVIOUS
  <2>e. <<>> \in Seq(TaskType) OBVIOUS
  <2>b. PICK none \in Seq(Messages) : none = <<>> BY <2>d
  <2>c. PICK empty \in Seq(TaskType) : empty = <<>> BY <2>e
  <2>1. p = NewProducer(setup[i]) BY <1>1, <1>2
  <2>2. p = [epoch |-> e, nextSeq |-> 0, appended |-> 0, pendingBatch |-> none, linger |-> FALSE,
             queue |-> empty, running |-> {}, deferred |-> <<>>, claimed |-> TRUE, seqState |-> {},
             closed |-> FALSE, closeResult |-> FALSE, call |-> "none", failed |-> FALSE,
             aborted |-> FALSE, restarts |-> 0]
    BY <2>0, <2>1, <2>a, <2>b, <2>c DEF NewProducer
  <2>3. p \in ProducerType BY <2>2 DEF ProducerType
  <2>4. /\ p.running = {} /\ p.queue = <<>> /\ p.pendingBatch = <<>> /\ p.epoch = setup[i].epoch
        /\ p.restarts = 0 /\ p.call = "none" /\ p.closed = FALSE /\ p.appended = 0
    BY <2>2, <2>a, <2>b, <2>c
  <2>5. Bounded(p, setup[i].maxInFlight)
    <3>1. IsFiniteSet({}) /\ Cardinality({}) = 0 BY FS_EmptySet
    <3> QED BY <3>1, <2>4, <2>0 DEF Bounded
  <2>6. CallOK(setup[i], p) BY <2>0, <2>4 DEF CallOK
  <2>7. Items(i, p, requests) = {} BY <1>1, <2>4 DEF Items
  <2>8. OwnBatch(i, p.pendingBatch, p.appended)
    <3>1. <<>> \in Seq(Messages) /\ Len(<<>>) = 0 OBVIOUS
    <3> QED BY <3>1, <2>4 DEF OwnBatch
  <2>9. NumbersOK(i, p, {}) BY <2>8 DEF NumbersOK
  <2>10. LaterOK(i, p, {}, log, seen) BY <1>1 DEF LaterOK
  <2> QED BY <2>3, <2>5, <2>6, <2>7, <2>9, <2>10 DEF InstanceOK
<1>3. \A i \in Instances : /\ producers[i] \in ProducerType /\ Bounded(producers[i], setup[i].maxInFlight)
                           /\ CallOK(setup[i], producers[i])
                           /\ InstanceOK(i, producers[i], Items(i, producers[i], requests), log, seen)
  <2> SUFFICES ASSUME NEW i \in Instances
               PROVE  /\ producers[i] \in ProducerType /\ Bounded(producers[i], setup[i].maxInFlight)
                      /\ CallOK(setup[i], producers[i])
                      /\ InstanceOK(i, producers[i], Items(i, producers[i], requests), log, seen)
    OBVIOUS
  <2>1. PICK p : p = producers[i] OBVIOUS
  <2> QED BY <2>1, <1>2
<1>4. ProducerTypeOK
  <2>1. producers \in [Instances -> ProducerType] BY <1>1, <1>3
  <2>2. <<>> \in Seq(Messages) OBVIOUS
  <2>3. seen \in [epoch : Int, lastSeq : Int] /\ seen.epoch >= -1 /\ seen.lastSeq >= -1 /\ closedBy \in Int \X Int
    BY <1>1 DEF NoProducerState, Open
  <2> QED BY <1>1, <2>1, <2>2, <2>3 DEF ProducerTypeOK
<1>5. LogInOrder BY <1>1 DEF LogInOrder
<1> QED BY <1>1, <1>3, <1>4, <1>5 DEF OrderInv

\* every step is one of an instance or the server's
LEMMA StepsMove ==
    ASSUME NoClaims, OrderInv, ProducerNext
    PROVE  \/ \E i \in Instances : \E q : Moved(i, q)
           \/ \E r \in requests : ServerHandles(r)
<1>1. ASSUME NEW i \in Instances, ProducerStep(i) PROVE \E q : Moved(i, q)
  <2>1. CASE LingerFires(i) BY <2>1, LingerMoves
  <2>2. CASE DeferredEnqueue(i) BY <2>2, NothingDeferred
  <2>3. CASE FlushReturns(i) BY <2>3, ReturnMoves
  <2>4. CASE \E a \in answers : CloseAnswer(i, a) BY <2>4, CloseAnswerMoves
  <2>5. CASE \E k \in Keys(i) : FetchFails(i, k) BY <2>5, FailMoves
  <2>6. ASSUME NEW t \in producers[i].running, EarlierCompleted(i, t) PROVE \E q : Moved(i, q)
    BY <2>6, EarlierMoves
  <2>7. ASSUME NEW t \in producers[i].running, NEW a \in answers,
               BatchDelivered(i, t, a) \/ BatchRefused(i, t, a)
        PROVE  \E q : Moved(i, q)
    BY <2>7, DeliveredMoves
  <2>8. ASSUME NEW t \in producers[i].running, NEW a \in answers, WaitForEarlier(i, t, a)
        PROVE  \E q : Moved(i, q)
    BY <2>8, WaitMoves
  <2>9. \A t, a : ~ClaimEpoch(i, t, a) BY NothingDeferred
  <2> QED BY <1>1, <2>1, <2>2, <2>3, <2>4, <2>5, <2>6, <2>7, <2>8, <2>9 DEF ProducerStep
<1>2. ASSUME NEW i \in Instances, ProducerAppend(i) PROVE \E q : Moved(i, q) BY <1>2, AppendMoves
<1>3. ASSUME NEW i \in Instances, SignalAborts(i) PROVE \E q : Moved(i, q) BY <1>3, AbortMoves
<1>4. ASSUME NEW i \in Instances, NEW call \in Call, CallFlush(i, call) PROVE \E q : Moved(i, q)
  BY <1>4, CallMoves
<1>5. ASSUME NEW i \in Instances, NEW k \in Keys(i), FetchFails(i, k) PROVE \E q : Moved(i, q)
  BY <1>5, FailMoves
<1> QED BY <1>1, <1>2, <1>3, <1>4, <1>5 DEF ProducerNext

LEMMA OrderStep ==
    ASSUME NoClaims, OrderInv, [ProducerNext]_producerVars
    PROVE  OrderInv'
<1>1. CASE ProducerNext
  <2>1. ASSUME NEW i \in Instances, NEW q, Moved(i, q) PROVE OrderInv' BY <2>1, InstanceStep
  <2>2. ASSUME NEW r \in requests, ServerHandles(r) PROVE OrderInv' BY <2>2, ServerKeepsOrder
  <2> QED BY <1>1, <2>1, <2>2, StepsMove
<1>2. CASE UNCHANGED producerVars
  BY <1>2 DEF OrderInv, producerVars, ProducerTypeOK, LogInOrder, RequestOK
<1> QED BY <1>1, <1>2

\* the options of the producers stay what they are
LEMMA SetupStays ==
    ASSUME [ProducerNext]_producerVars
    PROVE  setup' = setup
<1>1. ASSUME NEW i \in Instances, ProducerStep(i) PROVE setup' = setup
  <2>1. LingerFires(i) => setup' = setup BY DEF LingerFires
  <2>2. DeferredEnqueue(i) => setup' = setup BY DEF DeferredEnqueue
  <2>3. FlushReturns(i) => setup' = setup BY DEF FlushReturns
  <2>4. \A a : CloseAnswer(i, a) => setup' = setup BY DEF CloseAnswer
  <2>5. \A k : FetchFails(i, k) => setup' = setup BY DEF FetchFails
  <2>6. \A t : EarlierCompleted(i, t) => setup' = setup BY DEF EarlierCompleted
  <2>7. \A t, a : ClaimEpoch(i, t, a) => setup' = setup BY DEF ClaimEpoch, AnswerFor
  <2>8. \A t, a : WaitForEarlier(i, t, a) => setup' = setup BY DEF WaitForEarlier, AnswerFor
  <2>9. \A t, a : BatchRefused(i, t, a) => setup' = setup BY DEF BatchRefused, AnswerFor
  <2>10. \A t, a : BatchDelivered(i, t, a) => setup' = setup BY DEF BatchDelivered, AnswerFor
  <2> QED BY <1>1, <2>1, <2>2, <2>3, <2>4, <2>5, <2>6, <2>7, <2>8, <2>9, <2>10 DEF ProducerStep
<1>2. ASSUME NEW i \in Instances, ProducerAppend(i) \/ SignalAborts(i) PROVE setup' = setup
  BY <1>2 DEF ProducerAppend, SignalAborts
<1>3. ASSUME NEW i \in Instances, NEW call \in Call, CallFlush(i, call) PROVE setup' = setup
  BY <1>3 DEF CallFlush
<1>4. ASSUME NEW i \in Instances, NEW k \in Keys(i), FetchFails(i, k) PROVE setup' = setup
  BY <1>4 DEF FetchFails
<1>5. ASSUME NEW r \in requests, ServerHandles(r) PROVE setup' = setup BY <1>5 DEF ServerHandles
<1>6. CASE UNCHANGED producerVars BY <1>6 DEF producerVars
<1> QED BY <1>1, <1>2, <1>3, <1>4, <1>5, <1>6 DEF ProducerNext

\* Whatever the network reorders, loses or delivers late and however often the
\* batches are sent again, the messages of an instance are in the stream at
\* most once, in the order of its append() calls and its final message last,
\* when epochs are taken by the constructor and by restart() only.
THEOREM AppendsOnceInOrder == ProducerSpec => [](NoClaims => LogInOrder)
<1>1. ProducerInit => (NoClaims => OrderInv) BY OrderInit
<1>2. (NoClaims => OrderInv) /\ [ProducerNext]_producerVars => (NoClaims => OrderInv)'
  <2> SUFFICES ASSUME NoClaims => OrderInv, [ProducerNext]_producerVars, NoClaims' PROVE OrderInv' OBVIOUS
  <2>1. NoClaims BY SetupStays DEF NoClaims
  <2> QED BY <2>1, OrderStep
<1>3. (NoClaims => OrderInv) => (NoClaims => LogInOrder) BY DEF OrderInv
<1> QED BY <1>1, <1>2, <1>3, PTL DEF ProducerSpec

----------------------------------------------------------------------------
(* What is delivered is stored *)

\* what Delivered needs of the rest
DeliveryNeeds(i, o, p, X, rs, lg, sn, cb) ==
    /\ Numbered(p) /\ NumbersOK(i, p, X)
    /\ o.epoch \in Nat /\ o.restarts \in Nat /\ p.epoch \in EpochsOf(o)
    /\ sn \in ProducerState
    /\ cb \in Int \X Int
    /\ ~p.closed => \A r \in rs : ~(r.from = i /\ r.close)
    /\ ~p.closed /\ cb # Open => cb[1] \notin EpochsOf(o)

LEMMA QuietDelivers ==
    ASSUME NEW i, NEW o, NEW p, NEW X, NEW q, NEW Y, NEW rs, NEW lg, NEW sn, NEW cb, NEW ans,
           \A r \in rs : r.epoch \in Nat,
           DeliveryNeeds(i, o, p, X, rs, lg, sn, cb), Delivered(i, o, p, X, rs, lg, sn, cb, ans),
           Numbered(q), QuietMove(p, X, q, Y), p.closed => q.closed
    PROVE  Delivered(i, o, q, Y, rs, lg, sn, cb, ans)
<1>0. /\ p.epoch \in Nat /\ q.epoch \in Nat /\ p.nextSeq \in Nat /\ q.nextSeq \in Nat
      /\ sn.epoch \in Int /\ sn.lastSeq \in Int
  BY DEF DeliveryNeeds, Numbered, ProducerState
<1>1. p.epoch <= q.epoch /\ (p.epoch = q.epoch => p.nextSeq <= q.nextSeq)
  BY <1>0 DEF QuietMove, Prior
<1>2. Y \subseteq X BY DEF QuietMove
<1>3. ClosesOK(i, o, q, Y, rs) BY <1>0, <1>1, <1>2 DEF Delivered, ClosesOK
<1>4. SeenOK(o, q, sn) BY <1>0, <1>1 DEF Delivered, SeenOK
<1>5. AcceptedOK(Y, lg, sn, cb) BY <1>2 DEF Delivered, AcceptedOK
<1>6. AnsweredOK(i, q, Y, lg, ans)
  <2>1. Len(<<>>) = 0 OBVIOUS
  <2> QED BY <2>1, <1>2 DEF Delivered, AnsweredOK, QuietMove
<1> QED BY <1>3, <1>4, <1>5, <1>6 DEF Delivered

LEMMA AppendDelivers ==
    ASSUME NEW i, NEW o, NEW p, NEW X, NEW q, NEW Y, NEW rs, NEW lg, NEW sn, NEW cb, NEW ans,
           \A a \in ans : a.key[2] \in Nat,
           DeliveryNeeds(i, o, p, X, rs, lg, sn, cb), Delivered(i, o, p, X, rs, lg, sn, cb, ans),
           AppendMove(i, p, X, q, Y)
    PROVE  Delivered(i, o, q, Y, rs, lg, sn, cb, ans)
<1>2. Y \subseteq X BY DEF AppendMove
<1>3. ClosesOK(i, o, q, Y, rs) BY <1>2 DEF Delivered, ClosesOK, AppendMove
<1>4. SeenOK(o, q, sn) BY DEF Delivered, SeenOK, AppendMove
<1>5. AcceptedOK(Y, lg, sn, cb) BY <1>2 DEF Delivered, AcceptedOK
<1>6. AnsweredOK(i, q, Y, lg, ans)
  <2> SUFFICES ASSUME NEW a \in ans, a.from = i
               PROVE  /\ a.key[2] <= q.appended
                      /\ \A l \in 1 .. Len(q.pendingBatch) : a.key[2] < q.pendingBatch[l][2]
                      /\ a.answer.status \in {200, 204} =>
                            \A x \in Y : x.batch[1] = a.key => StoredIn(x.batch, lg)
    BY DEF AnsweredOK
  <2>a. PICK k \in Nat : k = a.key[2] OBVIOUS
  <2>b. PICK n \in Nat : n = p.appended BY DEF DeliveryNeeds, Numbered
  <2>c. PICK b : b = p.pendingBatch OBVIOUS
  <2>d. b \in Seq(Messages) BY <2>c DEF DeliveryNeeds, NumbersOK, OwnBatch
  <2>1. k <= n /\ \A l \in 1 .. Len(b) : k < b[l][2] BY <2>a, <2>b, <2>c DEF Delivered, AnsweredOK
  <2>2. q.appended = n + 1 /\ q.pendingBatch = Append(b, <<i, n + 1>>) BY <2>b, <2>c DEF AppendMove, Message
  <2>3. \A l \in 1 .. Len(q.pendingBatch) : k < q.pendingBatch[l][2]
    <3> SUFFICES ASSUME NEW l \in 1 .. Len(q.pendingBatch) PROVE k < q.pendingBatch[l][2] OBVIOUS
    <3>1. CASE l \in 1 .. Len(b)
      <4>1. q.pendingBatch[l] = b[l] BY <3>1, <2>2, <2>d
      <4> QED BY <4>1, <3>1, <2>1
    <3>2. CASE l = Len(b) + 1
      <4>1. q.pendingBatch[l] = <<i, n + 1>> BY <3>2, <2>2, <2>d
      <4>2. q.pendingBatch[l][2] = n + 1 BY <4>1
      <4> QED BY <4>2, <2>1
    <3>3. Len(q.pendingBatch) = Len(b) + 1 BY <2>2, <2>d
    <3> QED BY <3>1, <3>2, <3>3, <2>d
  <2>4. a.answer.status \in {200, 204} => \A x \in Y : x.batch[1] = a.key => StoredIn(x.batch, lg)
    BY <1>2 DEF Delivered, AnsweredOK
  <2> QED BY <2>1, <2>2, <2>3, <2>4, <2>a
<1> QED BY <1>3, <1>4, <1>5, <1>6 DEF Delivered

LEMMA LaunchDelivers ==
    ASSUME NEW i, NEW o, NEW p, NEW X, NEW q, NEW Y, NEW rs, NEW lg, NEW sn, NEW cb, NEW ans,
           \A a \in ans : a.key[2] \in Nat,
           DeliveryNeeds(i, o, p, X, rs, lg, sn, cb), Delivered(i, o, p, X, rs, lg, sn, cb, ans),
           LaunchMove(p, X, q, Y), ~p.closed
    PROVE  Delivered(i, o, q, Y, rs, lg, sn, cb, ans)
<1> PICK b : b = p.pendingBatch OBVIOUS
<1> PICK z : z = Item(b, p.epoch, p.nextSeq) OBVIOUS
<1>1. z.batch = b /\ z.epoch = p.epoch /\ z.seq = p.nextSeq BY DEF Item
<1>2. \A x \in Y : x \in X \/ x = z BY DEF LaunchMove
<1>3. b \in Seq(Messages) /\ b # <<>> BY DEF DeliveryNeeds, NumbersOK, OwnBatch, LaunchMove
<1>4. Len(b) > 0 BY <1>3
<1>5. /\ p.epoch \in Nat /\ p.nextSeq \in Nat /\ q.epoch = p.epoch /\ q.nextSeq = p.nextSeq + 1
      /\ sn.epoch \in Int /\ sn.lastSeq \in Int /\ p.epoch \in EpochsOf(o) /\ p.epoch >= o.epoch
  BY DEF DeliveryNeeds, Numbered, ProducerState, LaunchMove, EpochsOf
<1>6. ClosesOK(i, o, q, Y, rs)
  <2>1. \A r \in rs : ~(r.from = i /\ r.close) BY DEF DeliveryNeeds
  <2>2. \A x \in Y : x.epoch >= o.epoch BY <1>1, <1>2, <1>5 DEF Delivered, ClosesOK
  <2> QED BY <2>1, <2>2 DEF ClosesOK
<1>7. SeenOK(o, q, sn) BY <1>5 DEF Delivered, SeenOK
<1>8. AcceptedOK(Y, lg, sn, cb)
  <2> SUFFICES ASSUME NEW x \in Y
               PROVE  /\ x.epoch = sn.epoch /\ x.seq <= sn.lastSeq => StoredIn(x.batch, lg)
                      /\ cb # <<x.epoch, x.seq>>
    BY DEF AcceptedOK
  <2>1. CASE x \in X BY <2>1 DEF Delivered, AcceptedOK
  <2>2. CASE x = z
    <3>1. ~(x.epoch = sn.epoch /\ x.seq <= sn.lastSeq) BY <2>2, <1>1, <1>5 DEF Delivered, SeenOK
    <3>2. ASSUME cb = <<x.epoch, x.seq>> PROVE FALSE
      <4>1. cb[1] = p.epoch BY <3>2, <2>2, <1>1
      <4>2. cb # Open BY <4>1, <1>5 DEF Open
      <4> QED BY <4>1, <4>2, <1>5 DEF DeliveryNeeds
    <3> QED BY <3>1, <3>2
  <2> QED BY <2>1, <2>2, <1>2
<1>9. AnsweredOK(i, q, Y, lg, ans)
  <2> SUFFICES ASSUME NEW a \in ans, a.from = i
               PROVE  /\ a.key[2] <= q.appended
                      /\ \A l \in 1 .. Len(q.pendingBatch) : a.key[2] < q.pendingBatch[l][2]
                      /\ a.answer.status \in {200, 204} =>
                            \A x \in Y : x.batch[1] = a.key => StoredIn(x.batch, lg)
    BY DEF AnsweredOK
  <2>1. Len(<<>>) = 0 OBVIOUS
  <2>2. a.key[2] <= q.appended BY DEF Delivered, AnsweredOK, LaunchMove
  <2>3. \A l \in 1 .. Len(q.pendingBatch) : a.key[2] < q.pendingBatch[l][2] BY <2>1 DEF LaunchMove
  <2>4. a.key[2] < b[1][2] BY <1>4, <1>3 DEF Delivered, AnsweredOK
  <2>5. b[1] # a.key BY <2>4
  <2>6. ASSUME a.answer.status \in {200, 204}, NEW x \in Y, x.batch[1] = a.key PROVE StoredIn(x.batch, lg)
    <3>1. x # z BY <2>5, <2>6, <1>1
    <3> QED BY <3>1, <2>6, <1>2 DEF Delivered, AnsweredOK
  <2> QED BY <2>2, <2>3, <2>6
<1> QED BY <1>6, <1>7, <1>8, <1>9 DEF Delivered

LEMMA MoveDelivers ==
    ASSUME NEW i \in Instances, NEW o, NEW p, NEW X, NEW q, NEW Y, NEW rs, NEW lg \in Seq(Messages), NEW sn,
           NEW cb, NEW ans, \A a \in ans : a.key[2] \in Nat, \A r \in rs : r.epoch \in Nat,
           InstanceOK(i, p, X, lg, sn), p.closed => p.pendingBatch = <<>>,
           DeliveryNeeds(i, o, p, X, rs, lg, sn, cb), Delivered(i, o, p, X, rs, lg, sn, cb, ans),
           Numbered(q), Move(i, p, X, q, Y), p.closed => q.closed
    PROVE  Delivered(i, o, q, Y, rs, lg, sn, cb, ans)
<1>1. CASE QuietMove(p, X, q, Y) BY <1>1, QuietDelivers
<1>2. CASE LaunchMove(p, X, q, Y)
  <2>1. ~p.closed BY <1>2 DEF LaunchMove
  <2> QED BY <1>2, <2>1, LaunchDelivers
<1>3. CASE AppendMove(i, p, X, q, Y) BY <1>3, AppendDelivers
<1>4. CASE \E m : AppendMove(i, p, X, m, X) /\ ~p.closed /\ LaunchMove(m, X, q, Y)
  <2>1. PICK m : AppendMove(i, p, X, m, X) /\ ~p.closed /\ LaunchMove(m, X, q, Y) BY <1>4
  <2>2. Numbered(p) BY DEF DeliveryNeeds
  <2>3. Numbered(m) BY <2>1, <2>2 DEF AppendMove, Numbered
  <2>4. InstanceOK(i, m, X, lg, sn) BY <2>1, <2>2, <2>3, AppendKeeps
  <2>5. Delivered(i, o, m, X, rs, lg, sn, cb, ans) BY <2>1, AppendDelivers
  <2>6. ~m.closed /\ m.epoch = p.epoch BY <2>1 DEF AppendMove
  <2>7. DeliveryNeeds(i, o, m, X, rs, lg, sn, cb) BY <2>1, <2>3, <2>4, <2>6 DEF DeliveryNeeds, InstanceOK
  <2> QED BY <2>1, <2>5, <2>6, <2>7, LaunchDelivers
<1> QED BY <1>1, <1>2, <1>3, <1>4 DEF Move

\* requests are sent and answers taken
LEMMA SentDelivers ==
    ASSUME NEW i, NEW j, NEW o, NEW q, NEW p, NEW Y, NEW Z, Z \subseteq Y, NEW rs, rs \subseteq RequestType,
           NEW rs2, SentBy(i, q, rs, rs2), NEW lg, NEW sn, NEW cb, NEW ans, NEW ans2, ans2 \subseteq ans,
           Delivered(j, o, p, Y, rs, lg, sn, cb, ans), p.epoch \in EpochsOf(o), p.epoch \in Nat, o.epoch \in Nat,
           o.restarts \in Nat,
           j = i => p = q /\ NumbersOK(i, p, Y)
    PROVE  Delivered(j, o, p, Z, rs2, lg, sn, cb, ans2)
<1>1. ClosesOK(j, o, p, Z, rs2)
  <2>1. \A x \in Z : x.epoch >= o.epoch BY DEF Delivered, ClosesOK
  <2>2. ASSUME NEW r \in rs2, r.from = j, r.close
        PROVE  /\ r.epoch >= o.epoch /\ r.epoch <= p.epoch
               /\ \A x \in Z : Prior(x.epoch, x.seq, r.epoch, r.seq)
    <3>1. CASE CloseSent(i, q, r)
      <4>1. j = i /\ r.epoch = p.epoch /\ r.seq = p.nextSeq BY <3>1, <2>2 DEF CloseSent
      <4>2. \A x \in Z : Prior(x.epoch, x.seq, p.epoch, p.nextSeq) BY <4>1 DEF NumbersOK
      <4>3. p.epoch >= o.epoch BY DEF EpochsOf
      <4> QED BY <4>1, <4>2, <4>3
    <3>2. CASE \E s \in rs : s.close /\ s.from = r.from /\ s.epoch = r.epoch /\ s.seq = r.seq
      <4>1. PICK s \in rs : s.close /\ s.from = j /\ s.epoch = r.epoch /\ s.seq = r.seq BY <3>2, <2>2
      <4> QED BY <4>1 DEF Delivered, ClosesOK
    <3> QED BY <3>1, <3>2, <2>2, SentCloses
  <2> QED BY <2>1, <2>2 DEF ClosesOK
<1>2. SeenOK(o, p, sn) BY DEF Delivered
<1>3. AcceptedOK(Z, lg, sn, cb) BY DEF Delivered, AcceptedOK
<1>4. AnsweredOK(j, p, Z, lg, ans2) BY DEF Delivered, AnsweredOK
<1> QED BY <1>1, <1>2, <1>3, <1>4 DEF Delivered

\* no instance but a closed one has closed the stream under one of its epochs
LEMMA NeedsHold ==
    ASSUME NoClaims, EpochsApart, OrderInv, DeliveryInv, NEW i \in Instances, NEW p, p = producers[i]
    PROVE  DeliveryNeeds(i, setup[i], p, Items(i, p, requests), requests, log, seen, closedBy)
<1>1. /\ p \in ProducerType /\ Numbered(p) /\ CallOK(setup[i], p)
      /\ InstanceOK(i, p, Items(i, p, requests), log, seen)
  BY ProducerFacts
<1>2. /\ setup \in ProducerSetups /\ seen \in ProducerState /\ closedBy \in Int \X Int
  BY DEF OrderInv, ProducerTypeOK, ProducerState
<1>3. setup[i].epoch \in Nat /\ setup[i].restarts \in Nat BY <1>2, OptionFacts
<1>4. p.epoch \in EpochsOf(setup[i])
  <2>1. p.restarts \in Nat BY <1>1 DEF ProducerType
  <2> QED BY <2>1, <1>1, <1>3 DEF CallOK, EpochsOf
<1>5. ~p.closed => \A r \in requests : ~(r.from = i /\ r.close) BY DEF OrderInv
<1>6. ~p.closed /\ closedBy # Open => closedBy[1] \notin EpochsOf(setup[i])
  <2> SUFFICES ASSUME ~p.closed, closedBy # Open, closedBy[1] \in EpochsOf(setup[i]) PROVE FALSE OBVIOUS
  <2>1. PICK j \in Instances : producers[j].closed /\ closedBy[1] \in EpochsOf(setup[j]) BY DEF DeliveryInv
  <2>2. j # i BY <2>1
  <2>3. EpochsOf(setup[i]) \cap EpochsOf(setup[j]) = {} BY <2>2, <1>2 DEF EpochsApart
  <2> QED BY <2>1, <2>3
<1> QED BY <1>1, <1>2, <1>3, <1>4, <1>5, <1>6 DEF DeliveryNeeds, InstanceOK

LEMMA TypesForDelivery ==
    ASSUME OrderInv
    PROVE  /\ \A a \in answers : a.key[2] \in Nat
           /\ \A r \in requests : r.epoch \in Nat
           /\ requests \subseteq RequestType /\ log \in Seq(Messages)
<1>1. requests \subseteq RequestType /\ answers \subseteq AnswerType /\ log \in Seq(Messages)
  BY DEF OrderInv, ProducerTypeOK
<1>2. \A a \in answers : a.key \in Messages BY <1>1 DEF AnswerType
<1>3. \A a \in answers : a.key[2] \in Nat BY <1>2 DEF Messages
<1>4. \A r \in requests : r.epoch \in Nat BY <1>1 DEF RequestType
<1> QED BY <1>1, <1>3, <1>4

\* a step of an instance
LEMMA InstanceDelivers ==
    ASSUME NoClaims, EpochsApart, OrderInv, DeliveryInv, NEW i \in Instances, NEW q, Moved(i, q),
           NEW j \in Instances, NEW p, p = producers'[j]
    PROVE  Delivered(j, setup[j], p, Items(j, p, requests'), requests', log, seen, closedBy, answers')
<1>0. producers \in [Instances -> ProducerType] BY DEF OrderInv, ProducerTypeOK
<1>1. (j = i => p = q) /\ (j # i => p = producers[j]) BY <1>0 DEF Moved
<1>2. /\ \A a \in answers : a.key[2] \in Nat
      /\ \A r \in requests : r.epoch \in Nat
      /\ requests \subseteq RequestType /\ log \in Seq(Messages)
  BY TypesForDelivery
<1>3. SentBy(i, q, requests, requests') /\ answers' \subseteq answers BY DEF Moved
<1>4. setup[j].epoch \in Nat /\ setup[j].restarts \in Nat BY OptionFacts DEF OrderInv, ProducerTypeOK
<1>5. CASE j = i
  <2> PICK f : f = producers[i] OBVIOUS
  <2>1. /\ InstanceOK(i, f, Items(i, f, requests), log, seen) /\ CallOK(setup[i], f) /\ Numbered(f)
    BY ProducerFacts
  <2>2. DeliveryNeeds(i, setup[i], f, Items(i, f, requests), requests, log, seen, closedBy) BY NeedsHold
  <2>3. Delivered(i, setup[i], f, Items(i, f, requests), requests, log, seen, closedBy, answers)
    BY DEF DeliveryInv
  <2>4. q \in ProducerType /\ CallOK(setup[i], q) /\ (f.closed => q.closed)
        /\ Move(i, f, Items(i, f, requests), q, Items(i, q, requests))
    BY DEF Moved, WellFormed, Onward
  <2>5. Numbered(q) BY <2>4, NumberedProducer
  <2>6. f.closed => f.pendingBatch = <<>> BY <2>1 DEF CallOK
  <2>7. Delivered(i, setup[i], q, Items(i, q, requests), requests, log, seen, closedBy, answers)
    BY <1>2, <2>1, <2>2, <2>3, <2>4, <2>5, <2>6, MoveDelivers
  <2>8. InstanceOK(i, q, Items(i, q, requests), log, seen) BY <1>2, <2>1, <2>4, <2>5, MoveKeeps
  <2>9. q.epoch \in EpochsOf(setup[i]) /\ q.epoch \in Nat
    <3>1. q.restarts \in Nat BY <2>4 DEF ProducerType
    <3> QED BY <3>1, <2>4, <2>5, <1>4, <1>5 DEF CallOK, EpochsOf, Numbered
  <2>10. Items(i, q, requests') \subseteq Items(i, q, requests) BY <1>2, <1>3, SentItems
  <2>11. Delivered(i, setup[i], q, Items(i, q, requests'), requests', log, seen, closedBy, answers')
    BY <1>2, <1>3, <1>4, <1>5, <2>7, <2>8, <2>9, <2>10, SentDelivers DEF InstanceOK
  <2> QED BY <2>11, <1>1, <1>5
<1>6. CASE j # i
  <2>1. Delivered(j, setup[j], p, Items(j, p, requests), requests, log, seen, closedBy, answers)
    BY <1>1, <1>6 DEF DeliveryInv
  <2>2. DeliveryNeeds(j, setup[j], p, Items(j, p, requests), requests, log, seen, closedBy)
    BY <1>1, <1>6, NeedsHold
  <2>3. p.epoch \in EpochsOf(setup[j]) /\ p.epoch \in Nat BY <2>2 DEF DeliveryNeeds, Numbered
  <2>4. Items(j, p, requests') \subseteq Items(j, p, requests) BY <1>2, <1>3, <1>6, SentItems
  <2> QED BY <1>2, <1>3, <1>4, <1>6, <2>1, <2>3, <2>4, SentDelivers
<1> QED BY <1>5, <1>6

LEMMA StoredLonger ==
    ASSUME NEW lg \in Seq(Messages), NEW c \in Seq(Messages)
    PROVE  /\ \A b : StoredIn(b, lg) => StoredIn(b, lg \o c)
           /\ StoredIn(c, lg \o c)
<1> PICK L : L = lg \o c OBVIOUS
<1>1. Len(L) = Len(lg) + Len(c) /\ \A j \in 1 .. Len(lg) : L[j] = lg[j] /\ j \in 1 .. Len(L) OBVIOUS
<1>2. \A j \in 1 .. Len(c) : L[j + Len(lg)] = c[j] /\ j + Len(lg) \in 1 .. Len(L) OBVIOUS
<1>3. \A b : StoredIn(b, lg) => StoredIn(b, L) BY <1>1 DEF StoredIn
<1>4. StoredIn(c, L) BY <1>2 DEF StoredIn
<1> QED BY <1>3, <1>4

LEMMA ItemEpochs ==
    ASSUME NoClaims, EpochsApart, OrderInv, DeliveryInv, NEW i \in Instances,
           NEW x \in Items(i, producers[i], requests)
    PROVE  x.epoch \in EpochsOf(setup[i]) /\ x.epoch \in Nat /\ x.seq \in Nat
<1> PICK p : p = producers[i] OBVIOUS
<1>1. DeliveryNeeds(i, setup[i], p, Items(i, p, requests), requests, log, seen, closedBy) BY NeedsHold
<1>2. x.epoch \in Nat /\ x.seq \in Nat /\ Prior(x.epoch, x.seq, p.epoch, p.nextSeq)
  BY <1>1 DEF DeliveryNeeds, NumbersOK
<1>3. x.epoch >= setup[i].epoch BY DEF DeliveryInv, Delivered, ClosesOK
<1>4. p.epoch \in Nat /\ p.epoch \in EpochsOf(setup[i]) /\ setup[i].epoch \in Nat /\ setup[i].restarts \in Nat
  BY <1>1 DEF DeliveryNeeds, Numbered
<1> QED BY <1>2, <1>3, <1>4 DEF Prior, EpochsOf

LEMMA RequestEpochs ==
    ASSUME NoClaims, EpochsApart, OrderInv, DeliveryInv, NEW r \in requests
    PROVE  r.from \in Instances /\ r.epoch \in EpochsOf(setup[r.from]) /\ r.epoch \in Nat /\ r.seq \in Nat
<1>1. r \in RequestType BY DEF OrderInv, ProducerTypeOK
<1>2. r.from \in Instances /\ r.epoch \in Nat /\ r.seq \in Nat BY <1>1 DEF RequestType
<1>3. CASE ~r.close
  <2>1. PICK x \in Items(r.from, producers[r.from], requests) : x.epoch = r.epoch BY <1>3, RequestItem
  <2>2. x.epoch \in EpochsOf(setup[r.from]) BY <2>1, <1>2, ItemEpochs
  <2> QED BY <2>1, <2>2, <1>2
<1>4. CASE r.close
  <2> PICK p : p = producers[r.from] OBVIOUS
  <2>1. DeliveryNeeds(r.from, setup[r.from], p, Items(r.from, p, requests), requests, log, seen, closedBy)
    BY <1>2, NeedsHold
  <2>2. r.epoch >= setup[r.from].epoch /\ r.epoch <= p.epoch BY <1>2, <1>4 DEF DeliveryInv, Delivered, ClosesOK
  <2>3. p.epoch \in Nat /\ p.epoch \in EpochsOf(setup[r.from]) /\ setup[r.from].epoch \in Nat
        /\ setup[r.from].restarts \in Nat
    BY <2>1 DEF DeliveryNeeds, Numbered
  <2> QED BY <1>2, <2>2, <2>3 DEF EpochsOf
<1> QED BY <1>3, <1>4

LEMMA OthersEpochs ==
    ASSUME NoClaims, EpochsApart, OrderInv, DeliveryInv, NEW r \in requests, NEW j \in Instances, j # r.from
    PROVE  /\ r.epoch \notin EpochsOf(setup[j])
           /\ \A x \in Items(j, producers[j], requests) : x.epoch # r.epoch
<1>1. r.from \in Instances /\ r.epoch \in EpochsOf(setup[r.from]) BY RequestEpochs
<1>2. setup \in ProducerSetups BY DEF OrderInv, ProducerTypeOK
<1>3. EpochsOf(setup[r.from]) \cap EpochsOf(setup[j]) = {} BY <1>1, <1>2 DEF EpochsApart
<1>4. r.epoch \notin EpochsOf(setup[j]) BY <1>1, <1>3
<1>5. \A x \in Items(j, producers[j], requests) : x.epoch \in EpochsOf(setup[j]) BY ItemEpochs
<1> QED BY <1>4, <1>5

\* the server's state after an accepted request
LEMMA SeenAfter ==
    ASSUME NoClaims, EpochsApart, OrderInv, DeliveryInv, NEW r \in requests, NEW j \in Instances
    PROVE  SeenOK(setup[j], producers[j], ProposedState(r.epoch, r.seq))
<1>1. r.from \in Instances /\ r.epoch \in Nat /\ r.seq \in Nat BY RequestEpochs
<1>2. ProposedState(r.epoch, r.seq).epoch = r.epoch /\ ProposedState(r.epoch, r.seq).lastSeq = r.seq
  BY DEF ProposedState
<1>3. CASE j # r.from
  <2>1. r.epoch \notin EpochsOf(setup[j]) BY <1>3, OthersEpochs
  <2> QED BY <2>1, <1>2 DEF SeenOK
<1>4. CASE j = r.from
  <2> PICK p : p = producers[j] OBVIOUS
  <2>1. DeliveryNeeds(j, setup[j], p, Items(j, p, requests), requests, log, seen, closedBy) BY NeedsHold
  <2>2. p.epoch \in Nat /\ p.nextSeq \in Nat BY <2>1 DEF DeliveryNeeds, Numbered
  <2>3. r.epoch <= p.epoch /\ (r.epoch = p.epoch /\ ~p.closed => r.seq < p.nextSeq)
    <3>1. CASE r.close
      <4>1. r.epoch <= p.epoch BY <1>4, <3>1 DEF DeliveryInv, Delivered, ClosesOK
      <4>2. p.closed BY <1>4, <3>1 DEF OrderInv
      <4> QED BY <4>1, <4>2
    <3>2. CASE ~r.close
      <4>1. PICK x \in Items(j, p, requests) : x.epoch = r.epoch /\ x.seq = r.seq
        BY <3>2, <1>4, RequestItem
      <4>2. Prior(r.epoch, r.seq, p.epoch, p.nextSeq) BY <4>1, <2>1 DEF DeliveryNeeds, NumbersOK
      <4> QED BY <4>2, <2>2, <1>1 DEF Prior
    <3> QED BY <3>1, <3>2
  <2> QED BY <2>3, <1>2 DEF SeenOK
<1> QED BY <1>3, <1>4

\* what is stored after an accepted request
LEMMA AcceptedAfter ==
    ASSUME NoClaims, EpochsApart, OrderInv, DeliveryInv, NEW r \in requests, NEW j \in Instances,
           closedBy = Open, NextNumber(seen, r.epoch, r.seq), NEW cb,
           cb = IF r.close THEN <<r.epoch, r.seq>> ELSE closedBy
    PROVE  AcceptedOK(Items(j, producers[j], requests), log \o r.body, ProposedState(r.epoch, r.seq), cb)
<1> PICK p : p = producers[j] OBVIOUS
<1> PICK X : X = Items(j, p, requests) OBVIOUS
<1>1. r.from \in Instances /\ r.epoch \in Nat /\ r.seq \in Nat BY RequestEpochs
<1>2. ProposedState(r.epoch, r.seq).epoch = r.epoch /\ ProposedState(r.epoch, r.seq).lastSeq = r.seq
  BY DEF ProposedState
<1>3. log \in Seq(Messages) /\ r.body \in Seq(Messages) /\ seen \in ProducerState
  BY DEF OrderInv, ProducerTypeOK, RequestType, ProducerState
<1>4. \A b : StoredIn(b, log) => StoredIn(b, log \o r.body) BY <1>3, StoredLonger
<1>5. StoredIn(r.body, log \o r.body) BY <1>3, StoredLonger
<1>6. AcceptedOK(X, log, seen, closedBy) BY DEF DeliveryInv, Delivered
<1>7. SUFFICES ASSUME NEW x \in X
               PROVE  /\ x.epoch = r.epoch /\ x.seq <= r.seq => StoredIn(x.batch, log \o r.body)
                      /\ cb # <<x.epoch, x.seq>>
  BY <1>2 DEF AcceptedOK
<1>8. x.epoch \in Nat /\ x.seq \in Nat BY ItemEpochs
<1>9. CASE j # r.from
  <2>1. x.epoch # r.epoch BY <1>9, OthersEpochs
  <2>2. cb # <<x.epoch, x.seq>> BY <2>1, <1>8 DEF Open
  <2> QED BY <2>1, <2>2
<1>10. CASE j = r.from
  <2>0. seen.epoch \in Int /\ seen.lastSeq \in Int BY <1>3 DEF ProducerState
  <2>1. ASSUME x.epoch = r.epoch, x.seq < r.seq PROVE StoredIn(x.batch, log \o r.body)
    <3>1. seen.epoch = x.epoch /\ x.seq <= seen.lastSeq BY <2>0, <2>1, <1>1, <1>8 DEF NextNumber
    <3>2. StoredIn(x.batch, log) BY <3>1, <1>6 DEF AcceptedOK
    <3> QED BY <3>2, <1>4
  <2>2. CASE r.close
    <3>1. Prior(x.epoch, x.seq, r.epoch, r.seq) BY <1>10, <2>2 DEF DeliveryInv, Delivered, ClosesOK
    <3>2. ~(x.epoch = r.epoch /\ x.seq = r.seq) BY <3>1, <1>1, <1>8 DEF Prior
    <3>3. cb # <<x.epoch, x.seq>> BY <3>2, <2>2
    <3>4. x.epoch = r.epoch /\ x.seq <= r.seq => x.seq < r.seq BY <3>2, <1>1, <1>8
    <3> QED BY <3>3, <3>4, <2>1
  <2>3. CASE ~r.close
    <3>1. PICK y \in X : y.batch = r.body /\ y.epoch = r.epoch /\ y.seq = r.seq BY <1>10, <2>3, RequestItem
    <3>2. DeliveryNeeds(j, setup[j], p, X, requests, log, seen, closedBy) BY NeedsHold
    <3>3. x.epoch = r.epoch /\ x.seq = r.seq => x.batch = r.body BY <3>1, <3>2 DEF DeliveryNeeds, NumbersOK
    <3>4. x.epoch = r.epoch /\ x.seq <= r.seq => StoredIn(x.batch, log \o r.body)
      BY <3>3, <2>1, <1>5, <1>1, <1>8
    <3>5. cb # <<x.epoch, x.seq>> BY <2>3, <1>8 DEF Open
    <3> QED BY <3>4, <3>5
  <2> QED BY <2>2, <2>3
<1> QED BY <1>9, <1>10

\* batches that begin with the same message are the same
LEMMA SameFirst ==
    ASSUME NEW i, NEW p, NEW X, NumbersOK(i, p, X), NEW x \in X, NEW y \in X, x.batch[1] = y.batch[1],
           p.appended \in Nat
    PROVE  x.batch = y.batch
<1>1. /\ x.epoch \in Nat /\ x.seq \in Nat /\ y.epoch \in Nat /\ y.seq \in Nat
      /\ Len(x.batch) > 0 /\ Len(y.batch) > 0 /\ OwnBatch(i, x.batch, p.appended) /\ OwnBatch(i, y.batch, p.appended)
  BY DEF NumbersOK
<1>2. 1 \in 1 .. Len(x.batch) /\ 1 \in 1 .. Len(y.batch) BY <1>1 DEF OwnBatch
<1>3. PICK n \in Nat : n = x.batch[1][2] BY <1>1, <1>2 DEF OwnBatch
<1>4. ~Precedes(x.batch, y.batch) /\ ~Precedes(y.batch, x.batch) BY <1>2, <1>3 DEF Precedes
<1>5. ~Prior(x.epoch, x.seq, y.epoch, y.seq) /\ ~Prior(y.epoch, y.seq, x.epoch, x.seq) BY <1>4 DEF NumbersOK
<1>6. x.epoch = y.epoch /\ x.seq = y.seq BY <1>1, <1>5 DEF Prior
<1> QED BY <1>6 DEF NumbersOK

LEMMA NewAnswer ==
    ASSUME NoClaims, EpochsApart, OrderInv, DeliveryInv, NEW r \in requests, ServerHandles(r),
           NEW p, p = producers[r.from], NEW X, X = Items(r.from, p, requests)
    PROVE  /\ r.key[2] <= p.appended
           /\ \A l \in 1 .. Len(p.pendingBatch) : r.key[2] < p.pendingBatch[l][2]
           /\ Answer(r).status \in {200, 204} =>
                 \A x \in X : x.batch[1] = r.key => StoredIn(x.batch, log')
<1>1. r.from \in Instances /\ r.epoch \in Nat /\ r.seq \in Nat BY RequestEpochs
<1>2. r \in RequestType /\ RequestOK(r) /\ ProducerTypeOK /\ log \in Seq(Messages)
  BY DEF OrderInv, ProducerTypeOK
<1>3. DeliveryNeeds(r.from, setup[r.from], p, X, requests, log, seen, closedBy) BY <1>1, NeedsHold
<1>4. NumbersOK(r.from, p, X) /\ p.appended \in Nat BY <1>3 DEF DeliveryNeeds, Numbered
<1>5. \A l \in 1 .. Len(p.pendingBatch) : p.pendingBatch[l][2] \in 1 .. p.appended
  BY <1>4 DEF NumbersOK, OwnBatch
<1>6. CASE r.close
  <2>1. r.key = <<r.from, 0>> BY <1>2, <1>6 DEF RequestOK
  <2>2. r.key[2] = 0 BY <2>1
  <2>3. \A x \in X : x.batch[1] # r.key
    <3> SUFFICES ASSUME NEW x \in X PROVE x.batch[1] # r.key OBVIOUS
    <3>1. OwnBatch(r.from, x.batch, p.appended) /\ Len(x.batch) > 0 BY <1>4 DEF NumbersOK
    <3>2. x.batch[1][2] \in 1 .. p.appended BY <3>1 DEF OwnBatch
    <3>3. x.batch[1][2] # 0 BY <3>2, <1>4
    <3> QED BY <3>3, <2>2
  <2> QED BY <2>2, <2>3, <1>4, <1>5
<1>7. CASE ~r.close
  <2>1. PICK y \in X : y.batch = r.body /\ y.epoch = r.epoch /\ y.seq = r.seq BY <1>7, RequestItem
  <2>2. r.key = y.batch[1] BY <1>2, <1>7, <2>1 DEF RequestOK
  <2>3. OwnBatch(r.from, y.batch, p.appended) /\ Len(y.batch) > 0 /\ Precedes(y.batch, p.pendingBatch)
    BY <1>4 DEF NumbersOK
  <2>4. 1 \in 1 .. Len(y.batch) BY <2>3 DEF OwnBatch
  <2>5. r.key[2] \in 1 .. p.appended BY <2>2, <2>3, <2>4 DEF OwnBatch
  <2>6. r.key[2] <= p.appended BY <2>5, <1>4
  <2>7. \A l \in 1 .. Len(p.pendingBatch) : r.key[2] < p.pendingBatch[l][2]
    BY <2>2, <2>3, <2>4 DEF Precedes
  <2>8. ASSUME Answer(r).status \in {200, 204}, NEW x \in X, x.batch[1] = r.key
        PROVE  StoredIn(x.batch, log')
    <3>1. x.batch = y.batch BY <2>2, <2>8, <1>4, SameFirst
    <3>2. Verdict(r) \in {"accepted", "duplicate"} BY <2>8, <1>2, AnswerTyped
    <3>3. CASE Verdict(r) = "accepted"
      <4>1. log' = log \o r.body BY <3>3 DEF ServerHandles
      <4>2. r.body \in Seq(Messages) BY <1>2 DEF RequestType
      <4>3. StoredIn(r.body, log \o r.body) BY <4>2, <1>2, StoredLonger
      <4> QED BY <4>1, <4>3, <3>1, <2>1
    <3>4. CASE Verdict(r) = "duplicate"
      <4>1. log' = log BY <3>4 DEF ServerHandles, serverVars
      <4>2. AcceptedOK(X, log, seen, closedBy) BY <1>1 DEF DeliveryInv, Delivered
      <4>3. closedBy # <<r.epoch, r.seq>> BY <4>2, <2>1 DEF AcceptedOK
      <4>4. seen.epoch = r.epoch /\ r.seq <= seen.lastSeq BY <3>4, <4>3, <1>2, VerdictFacts
      <4>5. StoredIn(y.batch, log) BY <4>2, <4>4, <2>1 DEF AcceptedOK
      <4> QED BY <4>1, <4>5, <3>1
    <3> QED BY <3>2, <3>3, <3>4
  <2> QED BY <2>6, <2>7, <2>8
<1> QED BY <1>6, <1>7

LEMMA ServerDelivers ==
    ASSUME NoClaims, EpochsApart, OrderInv, DeliveryInv, NEW r \in requests, ServerHandles(r),
           NEW j \in Instances, NEW p, p = producers[j]
    PROVE  Delivered(j, setup[j], p, Items(j, p, requests'), requests', log', seen', closedBy', answers')
<1>1. /\ producers' = producers /\ setup' = setup /\ requests' = requests \ {r}
      /\ r \in RequestType /\ RequestOK(r)
      /\ \A a \in answers' :
            \/ a \in answers
            \/ /\ a \in AnswerType /\ a.from = r.from /\ a.key = r.key /\ a.answer = Answer(r)
      /\ \/ Verdict(r) # "accepted" /\ log' = log /\ seen' = seen /\ closedBy' = closedBy
         \/ /\ Verdict(r) = "accepted" /\ closedBy = Open /\ NextNumber(seen, r.epoch, r.seq)
            /\ log' = log \o r.body /\ seen' = ProposedState(r.epoch, r.seq)
            /\ closedBy' = IF r.close THEN <<r.epoch, r.seq>> ELSE closedBy
  BY ServerFacts
<1> PICK X : X = Items(j, p, requests) OBVIOUS
<1> PICK Z : Z = Items(j, p, requests') OBVIOUS
<1>2. Z \subseteq X
  <2>1. requests' \subseteq requests BY <1>1
  <2> QED BY <2>1, FewerRequests
<1>3. Delivered(j, setup[j], p, X, requests, log, seen, closedBy, answers) BY DEF DeliveryInv
<1>4. ClosesOK(j, setup[j], p, Z, requests') BY <1>1, <1>2, <1>3 DEF Delivered, ClosesOK
<1>5. SeenOK(setup[j], p, seen')
  <2>1. CASE seen' = seen BY <2>1, <1>3 DEF Delivered
  <2>2. CASE seen' = ProposedState(r.epoch, r.seq) BY <2>2, SeenAfter
  <2> QED BY <2>1, <2>2, <1>1
<1>6. AcceptedOK(X, log', seen', closedBy')
  <2>1. CASE log' = log /\ seen' = seen /\ closedBy' = closedBy BY <2>1, <1>3 DEF Delivered
  <2>2. CASE /\ closedBy = Open /\ NextNumber(seen, r.epoch, r.seq)
             /\ log' = log \o r.body /\ seen' = ProposedState(r.epoch, r.seq)
             /\ closedBy' = IF r.close THEN <<r.epoch, r.seq>> ELSE closedBy
    <3>1. PICK cb : cb = IF r.close THEN <<r.epoch, r.seq>> ELSE closedBy OBVIOUS
    <3>2. AcceptedOK(X, log \o r.body, ProposedState(r.epoch, r.seq), cb) BY <2>2, <3>1, AcceptedAfter
    <3> QED BY <3>1, <3>2, <2>2
  <2> QED BY <2>1, <2>2, <1>1
<1>7. AcceptedOK(Z, log', seen', closedBy') BY <1>2, <1>6 DEF AcceptedOK
<1>8. \A b : StoredIn(b, log) => StoredIn(b, log')
  <2>1. log \in Seq(Messages) /\ r.body \in Seq(Messages) BY <1>1 DEF OrderInv, ProducerTypeOK, RequestType
  <2>2. \A b : StoredIn(b, log) => StoredIn(b, log \o r.body) BY <2>1, StoredLonger
  <2> QED BY <2>2, <1>1
<1>9. AnsweredOK(j, p, Z, log', answers')
  <2> SUFFICES ASSUME NEW a \in answers', a.from = j
               PROVE  /\ a.key[2] <= p.appended
                      /\ \A l \in 1 .. Len(p.pendingBatch) : a.key[2] < p.pendingBatch[l][2]
                      /\ a.answer.status \in {200, 204} =>
                            \A x \in Z : x.batch[1] = a.key => StoredIn(x.batch, log')
    BY DEF AnsweredOK
  <2>1. CASE a \in answers BY <2>1, <1>2, <1>3, <1>8 DEF Delivered, AnsweredOK
  <2>2. CASE a.from = r.from /\ a.key = r.key /\ a.answer = Answer(r)
    <3>1. /\ r.key[2] <= p.appended
          /\ \A l \in 1 .. Len(p.pendingBatch) : r.key[2] < p.pendingBatch[l][2]
          /\ Answer(r).status \in {200, 204} =>
                 \A x \in X : x.batch[1] = r.key => StoredIn(x.batch, log')
      BY <2>2, NewAnswer
    <3> QED BY <3>1, <2>2, <1>2
  <2> QED BY <2>1, <2>2, <1>1
<1> QED BY <1>4, <1>5, <1>7, <1>9 DEF Delivered

LEMMA SentOkSteps ==
    ASSUME ProducerNext
    PROVE  \/ sentOk' = sentOk
           \/ \E i \in Instances : \E t \in producers[i].running, a \in answers : BatchDelivered(i, t, a)
<1>1. ASSUME NEW i \in Instances, ProducerStep(i),
             ~\E t \in producers[i].running, a \in answers : BatchDelivered(i, t, a)
      PROVE  sentOk' = sentOk
  <2>1. LingerFires(i) => sentOk' = sentOk BY DEF LingerFires
  <2>2. DeferredEnqueue(i) => sentOk' = sentOk BY DEF DeferredEnqueue
  <2>3. FlushReturns(i) => sentOk' = sentOk BY DEF FlushReturns
  <2>4. \A a : CloseAnswer(i, a) => sentOk' = sentOk BY DEF CloseAnswer
  <2>5. \A k : FetchFails(i, k) => sentOk' = sentOk BY DEF FetchFails
  <2>6. \A t : EarlierCompleted(i, t) => sentOk' = sentOk BY DEF EarlierCompleted
  <2>7. \A t, a : ClaimEpoch(i, t, a) => sentOk' = sentOk BY DEF ClaimEpoch
  <2>8. \A t, a : WaitForEarlier(i, t, a) => sentOk' = sentOk BY DEF WaitForEarlier
  <2>9. \A t, a : BatchRefused(i, t, a) => sentOk' = sentOk BY DEF BatchRefused
  <2> QED BY <1>1, <2>1, <2>2, <2>3, <2>4, <2>5, <2>6, <2>7, <2>8, <2>9 DEF ProducerStep
<1>2. ASSUME NEW i \in Instances, ProducerAppend(i) \/ SignalAborts(i) PROVE sentOk' = sentOk
  BY <1>2 DEF ProducerAppend, SignalAborts
<1>3. ASSUME NEW i \in Instances, NEW call \in Call, CallFlush(i, call) PROVE sentOk' = sentOk
  BY <1>3 DEF CallFlush
<1>4. ASSUME NEW i \in Instances, NEW k \in Keys(i), FetchFails(i, k) PROVE sentOk' = sentOk
  BY <1>4 DEF FetchFails
<1>5. ASSUME NEW r \in requests, ServerHandles(r) PROVE sentOk' = sentOk BY <1>5 DEF ServerHandles
<1> QED BY <1>1, <1>2, <1>3, <1>4, <1>5 DEF ProducerNext

LEMMA DeliveredBatch ==
    ASSUME NoClaims, OrderInv, DeliveryInv, NEW i \in Instances,
           NEW t \in producers[i].running, NEW a \in answers, BatchDelivered(i, t, a)
    PROVE  sentOk' \subseteq ToSet(log) /\ log' = log
<1> PICK p : p = producers[i] OBVIOUS
<1> PICK x : x = Item(t.batch, t.epoch, t.seq) OBVIOUS
<1>1. x \in Items(i, p, requests) /\ x.batch = t.batch BY DEF Items, Item
<1>2. AnsweredOK(i, p, Items(i, p, requests), log, answers) BY DEF DeliveryInv, Delivered
<1>3. /\ a.from = i /\ a.key = t.batch[1] /\ a.answer.status \in {200, 204} /\ log' = log
      /\ sentOk' = sentOk \cup ToSet(t.batch)
  BY DEF BatchDelivered, AnswerFor, Key, serverVars
<1>4. StoredIn(t.batch, log) BY <1>1, <1>2, <1>3 DEF AnsweredOK
<1>5. t.batch \in Seq(Messages) /\ log \in Seq(Messages)
  <2>1. p \in ProducerType /\ log \in Seq(Messages) BY ProducerFacts
  <2>2. t \in RunningType BY <2>1 DEF ProducerType
  <2> QED BY <2>1, <2>2 DEF RunningType
<1>6. ToSet(t.batch) \subseteq ToSet(log)
  <2>1. DOMAIN t.batch = 1 .. Len(t.batch) /\ DOMAIN log = 1 .. Len(log) BY <1>5
  <2> SUFFICES ASSUME NEW k \in 1 .. Len(t.batch) PROVE t.batch[k] \in ToSet(log) BY <2>1 DEF ToSet
  <2>2. PICK j \in 1 .. Len(log) : log[j] = t.batch[k] BY ONLY <1>4, k \in 1 .. Len(t.batch) DEF StoredIn
  <2> QED BY <2>1, <2>2 DEF ToSet
<1> QED BY <1>3, <1>6 DEF DeliveryInv, DeliveredMeansStored

\* the last two parts of DeliveryInv
LEMMA MovedCloser ==
    ASSUME OrderInv, DeliveryInv, NEW i \in Instances, NEW q, Moved(i, q)
    PROVE  (closedBy # Open => \E j \in Instances : producers[j].closed /\ closedBy[1] \in EpochsOf(setup[j]))'
<1>0. producers \in [Instances -> ProducerType] BY DEF OrderInv, ProducerTypeOK
<1>1. \A j \in Instances : producers[j].closed => producers'[j].closed BY <1>0 DEF Moved, Onward
<1>2. setup' = setup /\ closedBy' = closedBy BY DEF Moved
<1> QED BY <1>1, <1>2 DEF DeliveryInv

LEMMA ServerCloser ==
    ASSUME NoClaims, EpochsApart, OrderInv, DeliveryInv, NEW r \in requests, ServerHandles(r)
    PROVE  (closedBy # Open => \E j \in Instances : producers[j].closed /\ closedBy[1] \in EpochsOf(setup[j]))'
<1>1. producers' = producers /\ setup' = setup
      /\ (closedBy' = closedBy \/ (r.close /\ closedBy' = <<r.epoch, r.seq>>))
  BY DEF ServerHandles, serverVars
<1>2. CASE closedBy' = closedBy BY <1>1, <1>2 DEF DeliveryInv
<1>3. CASE r.close /\ closedBy' = <<r.epoch, r.seq>>
  <2>1. r.from \in Instances /\ r.epoch \in EpochsOf(setup[r.from]) BY RequestEpochs
  <2>2. producers[r.from].closed BY <1>3 DEF OrderInv
  <2>3. closedBy'[1] = r.epoch BY <1>3
  <2> QED BY <1>1, <2>1, <2>2, <2>3
<1> QED BY <1>1, <1>2, <1>3

LEMMA LogGrows ==
    ASSUME NoClaims, OrderInv, NEW r \in requests, ServerHandles(r)
    PROVE  ToSet(log) \subseteq ToSet(log')
<1>1. log \in Seq(Messages) /\ r \in RequestType BY DEF OrderInv, ProducerTypeOK
<1>2. r.body \in Seq(Messages) BY <1>1 DEF RequestType
<1>3. log' = log \/ log' = log \o r.body BY DEF ServerHandles, serverVars
<1>4. \A k \in DOMAIN log : k \in DOMAIN (log \o r.body) /\ (log \o r.body)[k] = log[k] BY <1>1, <1>2
<1>5. ToSet(log) \subseteq ToSet(log \o r.body) BY <1>4 DEF ToSet
<1> QED BY <1>3, <1>5

LEMMA DeliveryInit ==
    ASSUME NoClaims, ProducerInit
    PROVE  DeliveryInv
<1>1. setup \in ProducerSetups /\ producers = [i \in Instances |-> NewProducer(setup[i])]
      /\ requests = {} /\ answers = {} /\ log = <<>> /\ seen = NoProducerState /\ closedBy = Open /\ sentOk = {}
  BY DEF ProducerInit
<1>2. ASSUME NEW i \in Instances, NEW p, p = producers[i]
      PROVE  Delivered(i, setup[i], p, Items(i, p, requests), requests, log, seen, closedBy, answers)
  <2>1. p = NewProducer(setup[i]) BY <1>1, <1>2
  <2>2. p.running = {} /\ p.queue = <<>> BY <2>1 DEF NewProducer
  <2>3. Items(i, p, requests) = {} BY <1>1, <2>2 DEF Items
  <2>4. seen.epoch = -1 BY <1>1 DEF NoProducerState
  <2>5. setup[i].epoch \in Nat /\ setup[i].restarts \in Nat BY <1>1, OptionFacts
  <2>6. SeenOK(setup[i], p, seen) BY <2>4, <2>5 DEF SeenOK, EpochsOf
  <2> QED BY <1>1, <2>3, <2>6 DEF Delivered, ClosesOK, AcceptedOK, AnsweredOK
<1>3. \A i \in Instances : Delivered(i, setup[i], producers[i], Items(i, producers[i], requests), requests,
                                     log, seen, closedBy, answers)
  <2> SUFFICES ASSUME NEW i \in Instances
               PROVE  Delivered(i, setup[i], producers[i], Items(i, producers[i], requests), requests,
                                log, seen, closedBy, answers)
    OBVIOUS
  <2>1. PICK p : p = producers[i] OBVIOUS
  <2> QED BY <2>1, <1>2
<1>4. DeliveredMeansStored BY <1>1 DEF DeliveredMeansStored
<1> QED BY <1>1, <1>3, <1>4 DEF DeliveryInv

LEMMA DeliveryStep ==
    ASSUME NoClaims, EpochsApart, OrderInv, DeliveryInv, ProducerNext
    PROVE  DeliveryInv'
<1>1. DeliveredMeansStored'
  <2>1. ASSUME sentOk' = sentOk, NEW i \in Instances, NEW q, Moved(i, q) PROVE DeliveredMeansStored'
    BY <2>1 DEF Moved, DeliveryInv, DeliveredMeansStored
  <2>2. ASSUME sentOk' = sentOk, NEW r \in requests, ServerHandles(r) PROVE DeliveredMeansStored'
    <3>1. ToSet(log) \subseteq ToSet(log') BY <2>2, LogGrows
    <3> QED BY <3>1, <2>2 DEF DeliveryInv, DeliveredMeansStored
  <2>3. ASSUME NEW i \in Instances, NEW t \in producers[i].running, NEW a \in answers, BatchDelivered(i, t, a)
        PROVE  DeliveredMeansStored'
    <3>1. sentOk' \subseteq ToSet(log) /\ log' = log BY <2>3, DeliveredBatch
    <3> QED BY <3>1 DEF DeliveredMeansStored
  <2> QED BY <2>1, <2>2, <2>3, SentOkSteps, StepsMove
<1>2. ASSUME NEW i \in Instances, NEW q, Moved(i, q)
      PROVE  (\A j \in Instances : Delivered(j, setup[j], producers[j], Items(j, producers[j], requests), requests,
                                             log, seen, closedBy, answers))'
  <2>1. setup' = setup /\ log' = log /\ seen' = seen /\ closedBy' = closedBy BY <1>2 DEF Moved
  <2> SUFFICES ASSUME NEW j \in Instances
               PROVE  Delivered(j, setup[j], producers'[j], Items(j, producers'[j], requests'), requests',
                                log, seen, closedBy, answers')
    BY <2>1
  <2>2. PICK p : p = producers'[j] OBVIOUS
  <2>3. Delivered(j, setup[j], p, Items(j, p, requests'), requests', log, seen, closedBy, answers')
    BY <1>2, <2>2, InstanceDelivers
  <2> QED BY <2>2, <2>3
<1>3. ASSUME NEW r \in requests, ServerHandles(r)
      PROVE  (\A j \in Instances : Delivered(j, setup[j], producers[j], Items(j, producers[j], requests), requests,
                                             log, seen, closedBy, answers))'
  <2>1. setup' = setup /\ producers' = producers BY <1>3 DEF ServerHandles
  <2> SUFFICES ASSUME NEW j \in Instances
               PROVE  Delivered(j, setup[j], producers[j], Items(j, producers[j], requests'), requests',
                                log', seen', closedBy', answers')
    BY <2>1
  <2>2. PICK p : p = producers[j] OBVIOUS
  <2>3. Delivered(j, setup[j], p, Items(j, p, requests'), requests', log', seen', closedBy', answers')
    BY <1>3, <2>2, ServerDelivers
  <2> QED BY <2>2, <2>3
<1>4. ASSUME NEW i \in Instances, NEW q, Moved(i, q) PROVE DeliveryInv'
  <2>1. (closedBy # Open => \E j \in Instances : producers[j].closed /\ closedBy[1] \in EpochsOf(setup[j]))'
    BY <1>4, MovedCloser
  <2> QED BY <1>1, <1>2, <1>4, <2>1 DEF DeliveryInv
<1>5. ASSUME NEW r \in requests, ServerHandles(r) PROVE DeliveryInv'
  <2>1. (closedBy # Open => \E j \in Instances : producers[j].closed /\ closedBy[1] \in EpochsOf(setup[j]))'
    BY <1>5, ServerCloser
  <2> QED BY <1>1, <1>3, <1>5, <2>1 DEF DeliveryInv
<1> QED BY <1>4, <1>5, StepsMove

----------------------------------------------------------------------------
(* close() covers everything *)

LEMMA QuietCovers ==
    ASSUME NEW i, NEW o, NEW p, NEW X, NEW q, NEW Y, NEW rs, NEW lg, NEW sn, Numbered(p), Numbered(q),
           QuietMove(p, X, q, Y), q.epoch = p.epoch, ~q.aborted, Covers(i, o, p, X, rs, lg, sn)
    PROVE  Covers(i, o, q, Y, rs, lg, sn)
<1>1. p.nextSeq \in Nat /\ q.nextSeq \in Nat /\ p.nextSeq <= q.nextSeq BY DEF Numbered, QuietMove, Prior
<1>2. q.appended = p.appended /\ q.pendingBatch = p.pendingBatch /\ Y \subseteq X BY DEF QuietMove
<1> SUFFICES ASSUME NEW n \in 1 .. p.appended, ~HasMessage(p.pendingBatch, i, n)
             PROVE  \E s \in 0 .. (q.nextSeq - 1) : NumberedBy(i, o, Y, rs, lg, sn, n, s)
  BY <1>2 DEF Covers
<1>3. PICK s \in 0 .. (p.nextSeq - 1) : NumberedBy(i, o, X, rs, lg, sn, n, s) BY DEF Covers
<1>4. NumberedBy(i, o, Y, rs, lg, sn, n, s) BY <1>2, <1>3 DEF NumberedBy
<1>5. s \in 0 .. (q.nextSeq - 1) BY <1>1, <1>3
<1> QED BY <1>4, <1>5

LEMMA AppendCovers ==
    ASSUME NEW i \in Instances, NEW o, NEW p, NEW X, NEW q, NEW Y, NEW rs, NEW lg, NEW sn,
           p.appended \in Nat, p.pendingBatch \in Seq(Messages),
           AppendMove(i, p, X, q, Y), Covers(i, o, p, X, rs, lg, sn)
    PROVE  Covers(i, o, q, Y, rs, lg, sn)
<1>a. PICK k \in Nat : k = p.appended OBVIOUS
<1>b. PICK b \in Seq(Messages) : b = p.pendingBatch OBVIOUS
<1>1. q.nextSeq = p.nextSeq /\ q.appended = k + 1 /\ Y \subseteq X BY <1>a DEF AppendMove
<1>2. q.pendingBatch = Append(b, <<i, k + 1>>) BY <1>a, <1>b DEF AppendMove, Message
<1>m. <<i, k + 1>> \in Messages BY DEF Messages
<1>3. /\ Len(q.pendingBatch) = Len(b) + 1 /\ q.pendingBatch[Len(b) + 1] = <<i, k + 1>>
      /\ \A l \in 1 .. Len(b) : q.pendingBatch[l] = b[l]
  BY <1>2, <1>m
<1>4. Len(b) \in Nat OBVIOUS
<1> SUFFICES ASSUME NEW n \in 1 .. (k + 1)
             PROVE  \/ HasMessage(q.pendingBatch, i, n)
                    \/ \E s \in 0 .. (q.nextSeq - 1) : NumberedBy(i, o, Y, rs, lg, sn, n, s)
  BY <1>1 DEF Covers
<1>5. CASE n = k + 1
  <2>1. Len(b) + 1 \in 1 .. Len(q.pendingBatch) BY <1>3, <1>4
  <2> QED BY <2>1, <1>3, <1>5 DEF HasMessage
<1>6. CASE n \in 1 .. k
  <2>1. CASE HasMessage(b, i, n)
    <3>1. \A l \in 1 .. Len(b) : l \in 1 .. Len(q.pendingBatch) BY <1>3, <1>4
    <3> QED BY <3>1, <2>1, <1>3 DEF HasMessage
  <2>2. CASE \E s \in 0 .. (p.nextSeq - 1) : NumberedBy(i, o, X, rs, lg, sn, n, s)
    <3>1. PICK s \in 0 .. (p.nextSeq - 1) : NumberedBy(i, o, X, rs, lg, sn, n, s) BY <2>2
    <3>2. NumberedBy(i, o, Y, rs, lg, sn, n, s) BY <1>1, <3>1 DEF NumberedBy
    <3> QED BY <3>2, <1>1
  <2> QED BY <2>1, <2>2, <1>6, <1>a, <1>b DEF Covers
<1> QED BY <1>5, <1>6

LEMMA LaunchCovers ==
    ASSUME NEW i, NEW o, NEW p, NEW X, NEW q, NEW Y, NEW rs, NEW lg, NEW sn, NEW cb,
           DeliveryNeeds(i, o, p, X, rs, lg, sn, cb), SeenOK(o, p, sn), p.epoch = o.epoch,
           LaunchMove(p, X, q, Y), ~p.closed, Covers(i, o, p, X, rs, lg, sn)
    PROVE  Covers(i, o, q, Y, rs, lg, sn)
<1>a. PICK b : b = p.pendingBatch OBVIOUS
<1>b. PICK z : z = Item(b, p.epoch, p.nextSeq) OBVIOUS
<1>1. z.batch = b /\ z.epoch = p.epoch /\ z.seq = p.nextSeq BY <1>b DEF Item
<1>2. \A x \in Y : x \in X \/ x = z BY <1>a, <1>b DEF LaunchMove
<1>3. /\ p.epoch \in Nat /\ p.nextSeq \in Nat /\ q.nextSeq = p.nextSeq + 1 /\ q.appended = p.appended
      /\ sn.epoch \in Int /\ sn.lastSeq \in Int /\ p.epoch \in EpochsOf(o)
  BY DEF DeliveryNeeds, Numbered, ProducerState, LaunchMove
<1>4. \A r \in rs : ~(r.from = i /\ r.close) BY DEF DeliveryNeeds
<1> SUFFICES ASSUME NEW n \in 1 .. p.appended
             PROVE  \E s \in 0 .. (q.nextSeq - 1) : NumberedBy(i, o, Y, rs, lg, sn, n, s)
  BY <1>3 DEF Covers
<1>5. CASE HasMessage(b, i, n)
  <2>1. ASSUME NEW x \in Y, x.epoch = o.epoch, x.seq = p.nextSeq PROVE HasMessage(x.batch, i, n)
    <3>1. x \notin X
      <4> SUFFICES ASSUME x \in X PROVE FALSE OBVIOUS
      <4>1. x.epoch \in Nat /\ x.seq \in Nat /\ Prior(x.epoch, x.seq, p.epoch, p.nextSeq) BY DEF DeliveryNeeds, NumbersOK
      <4> QED BY <4>1, <2>1, <1>3 DEF Prior
    <3> QED BY <3>1, <1>1, <1>2, <1>5
  <2>2. ~(sn.epoch = o.epoch /\ p.nextSeq <= sn.lastSeq) BY <1>3 DEF SeenOK
  <2>3. NumberedBy(i, o, Y, rs, lg, sn, n, p.nextSeq) BY <2>1, <2>2, <1>4 DEF NumberedBy
  <2>4. p.nextSeq \in 0 .. (q.nextSeq - 1) BY <1>3
  <2> QED BY <2>3, <2>4
<1>6. CASE \E s \in 0 .. (p.nextSeq - 1) : NumberedBy(i, o, X, rs, lg, sn, n, s)
  <2>1. PICK s \in 0 .. (p.nextSeq - 1) : NumberedBy(i, o, X, rs, lg, sn, n, s) BY <1>6
  <2>2. s # p.nextSeq BY <1>3
  <2>3. \A x \in Y : x.epoch = o.epoch /\ x.seq = s => HasMessage(x.batch, i, n)
    BY <2>1, <2>2, <1>1, <1>2 DEF NumberedBy
  <2>4. NumberedBy(i, o, Y, rs, lg, sn, n, s) BY <2>1, <2>3 DEF NumberedBy
  <2>5. s \in 0 .. (q.nextSeq - 1) BY <1>3
  <2> QED BY <2>4, <2>5
<1> QED BY <1>5, <1>6, <1>a DEF Covers

\* numbers go on, and a closed producer appends nothing
LEMMA MoveNumbers ==
    ASSUME NEW i, NEW p, NEW X, NEW q, NEW Y, Numbered(p), Numbered(q), Move(i, p, X, q, Y),
           p.closed => p.pendingBatch = <<>>
    PROVE  /\ p.epoch <= q.epoch /\ (q.epoch = p.epoch => p.nextSeq <= q.nextSeq)
           /\ p.closed => q.appended = p.appended
<1>0. p.epoch \in Nat /\ q.epoch \in Nat /\ p.nextSeq \in Nat /\ q.nextSeq \in Nat BY DEF Numbered
<1>1. CASE QuietMove(p, X, q, Y) BY <1>0, <1>1 DEF QuietMove, Prior
<1>2. CASE LaunchMove(p, X, q, Y) BY <1>0, <1>2 DEF LaunchMove
<1>3. CASE AppendMove(i, p, X, q, Y) /\ ~p.closed BY <1>0, <1>3 DEF AppendMove
<1>4. CASE \E m : AppendMove(i, p, X, m, X) /\ ~p.closed /\ LaunchMove(m, X, q, Y)
  <2>1. PICK m : AppendMove(i, p, X, m, X) /\ ~p.closed /\ LaunchMove(m, X, q, Y) BY <1>4
  <2>2. q.epoch = p.epoch /\ q.nextSeq = p.nextSeq + 1 BY <2>1 DEF AppendMove, LaunchMove
  <2> QED BY <2>1, <2>2, <1>0
<1> QED BY <1>1, <1>2, <1>3, <1>4 DEF Move

LEMMA MoveCovers ==
    ASSUME NEW i \in Instances, NEW o, NEW p, NEW X, NEW q, NEW Y, NEW rs, NEW lg \in Seq(Messages), NEW sn, NEW cb,
           InstanceOK(i, p, X, lg, sn), p.closed => p.pendingBatch = <<>>,
           DeliveryNeeds(i, o, p, X, rs, lg, sn, cb), SeenOK(o, p, sn), p.epoch = o.epoch, q.epoch = p.epoch,
           ~q.aborted, Numbered(q), Move(i, p, X, q, Y), Covers(i, o, p, X, rs, lg, sn)
    PROVE  Covers(i, o, q, Y, rs, lg, sn)
<1>0. Numbered(p) BY DEF DeliveryNeeds
<1>b. p.appended \in Nat /\ p.pendingBatch \in Seq(Messages) BY DEF DeliveryNeeds, Numbered, NumbersOK, OwnBatch
<1>1. CASE QuietMove(p, X, q, Y) BY <1>0, <1>1, QuietCovers
<1>2. CASE LaunchMove(p, X, q, Y)
  <2>1. ~p.closed BY <1>2 DEF LaunchMove
  <2> QED BY <1>2, <2>1, LaunchCovers
<1>3. CASE AppendMove(i, p, X, q, Y) BY <1>3, <1>b, AppendCovers
<1>4. CASE \E m : AppendMove(i, p, X, m, X) /\ ~p.closed /\ LaunchMove(m, X, q, Y)
  <2>1. PICK m : AppendMove(i, p, X, m, X) /\ ~p.closed /\ LaunchMove(m, X, q, Y) BY <1>4
  <2>3. Numbered(m) BY <2>1, <1>0 DEF AppendMove, Numbered
  <2>4. InstanceOK(i, m, X, lg, sn) BY <2>1, <1>0, <2>3, AppendKeeps
  <2>5. Covers(i, o, m, X, rs, lg, sn) BY <2>1, <1>b, AppendCovers
  <2>6. ~m.closed /\ m.epoch = p.epoch /\ m.nextSeq = p.nextSeq BY <2>1 DEF AppendMove
  <2>7. DeliveryNeeds(i, o, m, X, rs, lg, sn, cb) BY <2>1, <2>3, <2>4, <2>6 DEF DeliveryNeeds, InstanceOK
  <2>8. SeenOK(o, m, sn) BY <2>1, <2>6 DEF SeenOK
  <2>9. m.epoch = o.epoch BY <2>6
  <2> QED BY <2>1, <2>5, <2>6, <2>7, <2>8, <2>9, LaunchCovers
<1> QED BY <1>1, <1>2, <1>3, <1>4 DEF Move

\* what is finished stays so
LEMMA FinishedStays ==
    ASSUME NEW i, NEW p, NEW q, NEW lg, NEW cb, NEW ans, Onward(i, p, q, ans), p.restarts \in Nat, q.restarts \in Nat,
           p.closed => q.appended = p.appended, Finished(i, p, lg, cb)
    PROVE  Finished(i, q, lg, cb)
<1>1. q.restarts = 0 /\ ~q.aborted => p.restarts = 0 /\ ~p.aborted BY DEF Onward
<1> QED BY <1>1 DEF Onward, Finished

LEMMA MoveSettles ==
    ASSUME NEW i \in Instances, NEW o, NEW p, NEW X, NEW q, NEW Y, NEW rs, NEW lg \in Seq(Messages), NEW sn,
           NEW cb, NEW ans, InstanceOK(i, p, X, lg, sn), CallOK(o, p), CallOK(o, q), p.restarts \in Nat, q.restarts \in Nat,
           DeliveryNeeds(i, o, p, X, rs, lg, sn, cb), SeenOK(o, p, sn), Settled(i, o, p, X, rs, lg, sn, cb, ans),
           Numbered(q), Move(i, p, X, q, Y), Onward(i, p, q, ans)
    PROVE  Settled(i, o, q, Y, rs, lg, sn, cb, ans)
<1>0. Numbered(p) /\ o.epoch \in Nat /\ o.restarts \in Nat /\ sn.epoch \in Int /\ sn.lastSeq \in Int
  BY DEF DeliveryNeeds, ProducerState
<1>1. p.closed => p.pendingBatch = <<>> BY DEF CallOK
<1>2. /\ p.epoch <= q.epoch /\ (q.epoch = p.epoch => p.nextSeq <= q.nextSeq)
      /\ p.closed => q.appended = p.appended
  BY <1>0, <1>1, MoveNumbers
<1>3. p.epoch = o.epoch + p.restarts /\ q.epoch = o.epoch + q.restarts /\ q.restarts <= o.restarts /\ p.restarts <= q.restarts
      /\ (p.aborted => q.aborted)
  BY DEF CallOK, Onward
<1>4. CoveredOK(i, o, q, Y, rs, lg, sn)
  <2> SUFFICES ASSUME q.restarts = 0, ~q.aborted PROVE Covers(i, o, q, Y, rs, lg, sn) BY DEF CoveredOK
  <2>1. p.restarts = 0 /\ ~p.aborted BY <1>3
  <2>2. p.epoch = o.epoch /\ q.epoch = p.epoch BY <1>0, <1>3, <2>1
  <2>3. Covers(i, o, p, X, rs, lg, sn) BY <2>1 DEF Settled, CoveredOK
  <2> QED BY <1>1, <2>2, <2>3, MoveCovers
<1>5. Unsent(i, q, rs, sn, cb)
  <2> SUFFICES ASSUME cb = Open, sn.epoch = q.epoch PROVE sn.lastSeq < q.nextSeq BY DEF Settled, Unsent
  <2>1. sn.epoch \in EpochsOf(o) BY <1>0, <1>3 DEF EpochsOf
  <2>2. sn.epoch <= p.epoch BY <2>1 DEF SeenOK
  <2>3. p.epoch \in Nat /\ q.epoch \in Nat /\ p.nextSeq \in Nat /\ q.nextSeq \in Nat BY <1>0 DEF Numbered
  <2>4. sn.epoch = p.epoch BY <2>2, <2>3, <1>2
  <2>5. sn.lastSeq < p.nextSeq BY <2>4 DEF Settled, Unsent
  <2> QED BY <2>3, <2>4, <2>5, <1>0, <1>2
<1>6. Finished(i, p, lg, cb) => Finished(i, q, lg, cb) BY <1>2, FinishedStays
<1>7. q.closeResult => Finished(i, q, lg, cb)
  <2> SUFFICES ASSUME q.closeResult PROVE Finished(i, p, lg, cb) BY <1>6
  <2>1. CASE p.closeResult BY <2>1 DEF Settled
  <2>2. CASE \E a \in ans : a.from = i /\ a.key[2] = 0 /\ a.answer.status \in {200, 204} BY <2>2 DEF Settled
  <2> QED BY <2>1, <2>2 DEF Onward
<1> QED BY <1>4, <1>5, <1>6, <1>7 DEF Settled

\* requests are sent and answers taken
LEMMA SentSettles ==
    ASSUME NEW i, NEW j, NEW o, NEW q, NEW p, NEW Y, NEW Z, Z \subseteq Y, NEW rs, rs \subseteq RequestType,
           NEW rs2, SentBy(i, q, rs, rs2), NEW lg, NEW sn, NEW cb, NEW ans, NEW ans2, ans2 \subseteq ans,
           Settled(j, o, p, Y, rs, lg, sn, cb, ans), p.nextSeq \in Nat, j = i => p = q
    PROVE  Settled(j, o, p, Z, rs2, lg, sn, cb, ans2)
<1>1. ASSUME NEW r \in rs2, r.from = j, r.close
      PROVE  \/ r.epoch = p.epoch /\ r.seq = p.nextSeq
             \/ \E s \in rs : s.from = j /\ s.close /\ s.epoch = r.epoch /\ s.seq = r.seq
  <2>1. CASE CloseSent(i, q, r) BY <2>1, <1>1 DEF CloseSent
  <2>2. CASE \E s \in rs : s.close /\ s.from = r.from /\ s.epoch = r.epoch /\ s.seq = r.seq BY <2>2, <1>1
  <2> QED BY <2>1, <2>2, <1>1, SentCloses
<1>2. CoveredOK(j, o, p, Z, rs2, lg, sn)
  <2> SUFFICES ASSUME Covers(j, o, p, Y, rs, lg, sn) PROVE Covers(j, o, p, Z, rs2, lg, sn)
    BY DEF Settled, CoveredOK
  <2> SUFFICES ASSUME NEW n \in 1 .. p.appended, ~HasMessage(p.pendingBatch, j, n)
               PROVE  \E s \in 0 .. (p.nextSeq - 1) : NumberedBy(j, o, Z, rs2, lg, sn, n, s)
    BY DEF Covers
  <2>1. PICK s \in 0 .. (p.nextSeq - 1) : NumberedBy(j, o, Y, rs, lg, sn, n, s) BY DEF Covers
  <2>2. s < p.nextSeq OBVIOUS
  <2>3. \A r \in rs2 : r.from = j /\ r.close => s < r.seq BY <2>1, <2>2, <1>1 DEF NumberedBy
  <2>4. NumberedBy(j, o, Z, rs2, lg, sn, n, s) BY <2>1, <2>3 DEF NumberedBy
  <2> QED BY <2>4
<1>3. Unsent(j, p, rs2, sn, cb) BY <1>1 DEF Settled, Unsent
<1> QED BY <1>2, <1>3 DEF Settled

\* a step of an instance
LEMMA InstanceSettles ==
    ASSUME NoClaims, EpochsApart, OrderInv, DeliveryInv, CloseInv, NEW i \in Instances, NEW q, Moved(i, q),
           NEW j \in Instances, NEW p, p = producers'[j]
    PROVE  Settled(j, setup[j], p, Items(j, p, requests'), requests', log, seen, closedBy, answers')
<1>0. producers \in [Instances -> ProducerType] BY DEF OrderInv, ProducerTypeOK
<1>1. (j = i => p = q) /\ (j # i => p = producers[j]) BY <1>0 DEF Moved
<1>2. requests \subseteq RequestType /\ log \in Seq(Messages) BY TypesForDelivery
<1>3. SentBy(i, q, requests, requests') /\ answers' \subseteq answers BY DEF Moved
<1>5. CASE j = i
  <2> PICK f : f = producers[i] OBVIOUS
  <2>1. /\ InstanceOK(i, f, Items(i, f, requests), log, seen) /\ CallOK(setup[i], f) /\ f \in ProducerType
    BY ProducerFacts
  <2>2. DeliveryNeeds(i, setup[i], f, Items(i, f, requests), requests, log, seen, closedBy) BY NeedsHold
  <2>3. Settled(i, setup[i], f, Items(i, f, requests), requests, log, seen, closedBy, answers)
    BY DEF CloseInv
  <2>4. q \in ProducerType /\ CallOK(setup[i], q) /\ Onward(i, f, q, answers)
        /\ Move(i, f, Items(i, f, requests), q, Items(i, q, requests))
    BY DEF Moved, WellFormed
  <2>5. Numbered(q) BY <2>4, NumberedProducer
  <2>6. f.restarts \in Nat /\ q.restarts \in Nat /\ q.nextSeq \in Nat BY <2>1, <2>4 DEF ProducerType
  <2>7. SeenOK(setup[i], f, seen) BY DEF DeliveryInv, Delivered
  <2>8. Settled(i, setup[i], q, Items(i, q, requests), requests, log, seen, closedBy, answers)
    BY <1>2, <2>1, <2>2, <2>3, <2>4, <2>5, <2>6, <2>7, MoveSettles
  <2>9. Items(i, q, requests') \subseteq Items(i, q, requests) BY <1>2, <1>3, SentItems
  <2>10. Settled(i, setup[i], q, Items(i, q, requests'), requests', log, seen, closedBy, answers')
    BY <1>2, <1>3, <2>6, <2>8, <2>9, SentSettles
  <2> QED BY <2>10, <1>1, <1>5
<1>6. CASE j # i
  <2>1. Settled(j, setup[j], p, Items(j, p, requests), requests, log, seen, closedBy, answers)
    BY <1>1, <1>6 DEF CloseInv
  <2>2. p.nextSeq \in Nat BY <1>0, <1>1, <1>6 DEF ProducerType
  <2>3. Items(j, p, requests') \subseteq Items(j, p, requests) BY <1>2, <1>3, <1>6, SentItems
  <2> QED BY <1>2, <1>3, <1>6, <2>1, <2>2, <2>3, SentSettles
<1> QED BY <1>5, <1>6

LEMMA HasLonger ==
    ASSUME NEW lg \in Seq(Messages), NEW c \in Seq(Messages), NEW i, NEW n, HasMessage(lg, i, n) \/ HasMessage(c, i, n)
    PROVE  HasMessage(lg \o c, i, n)
<1> PICK L : L = lg \o c OBVIOUS
<1>1. Len(L) = Len(lg) + Len(c) /\ \A j \in 1 .. Len(lg) : L[j] = lg[j] /\ j \in 1 .. Len(L) OBVIOUS
<1>2. \A j \in 1 .. Len(c) : L[j + Len(lg)] = c[j] /\ j + Len(lg) \in 1 .. Len(L) OBVIOUS
<1> QED BY <1>1, <1>2 DEF HasMessage

\* an accepted request: what it makes of the messages numbered
LEMMA CoversAfter ==
    ASSUME NoClaims, EpochsApart, OrderInv, DeliveryInv, NEW r \in requests, NEW j \in Instances, NEW p, p = producers[j],
           NextNumber(seen, r.epoch, r.seq), NEW Z, NEW rs2, Z \subseteq Items(j, p, requests), rs2 \subseteq requests,
           NEW n, NEW s \in Nat, NumberedBy(j, setup[j], Items(j, p, requests), requests, log, seen, n, s)
    PROVE  NumberedBy(j, setup[j], Z, rs2, log \o r.body, ProposedState(r.epoch, r.seq), n, s)
<1>1. r.from \in Instances /\ r.epoch \in Nat /\ r.seq \in Nat BY RequestEpochs
<1>2. ProposedState(r.epoch, r.seq).epoch = r.epoch /\ ProposedState(r.epoch, r.seq).lastSeq = r.seq
  BY DEF ProposedState
<1>3. log \in Seq(Messages) /\ r.body \in Seq(Messages) /\ seen.epoch \in Int /\ seen.lastSeq \in Int
  BY DEF OrderInv, ProducerTypeOK, RequestType
<1>4. \A x \in Z : x.epoch = setup[j].epoch /\ x.seq = s => HasMessage(x.batch, j, n) BY DEF NumberedBy
<1>5. \A c \in rs2 : c.from = j /\ c.close => s < c.seq BY DEF NumberedBy
<1>6. ASSUME r.epoch = setup[j].epoch, s <= r.seq PROVE HasMessage(log \o r.body, j, n)
  <2>0. setup[j].epoch \in Nat /\ setup[j].restarts \in Nat BY OptionFacts DEF OrderInv, ProducerTypeOK
  <2>1. r.epoch \in EpochsOf(setup[j]) BY <2>0, <1>6 DEF EpochsOf
  <2>2. j = r.from BY <2>1, OthersEpochs
  <2>3. CASE s < r.seq
    <3>1. seen.epoch = setup[j].epoch /\ s <= seen.lastSeq BY <2>3, <1>1, <1>3, <1>6 DEF NextNumber
    <3>2. HasMessage(log, j, n) BY <3>1 DEF NumberedBy
    <3> QED BY <3>2, <1>3, HasLonger
  <2>4. CASE s = r.seq
    <3>1. ~r.close BY <2>2, <2>4, <1>1 DEF NumberedBy
    <3>2. PICK x \in Items(j, p, requests) : x.batch = r.body /\ x.epoch = r.epoch /\ x.seq = r.seq
      BY <3>1, <2>2, RequestItem
    <3>3. HasMessage(r.body, j, n) BY <3>2, <2>4, <1>6 DEF NumberedBy
    <3> QED BY <3>3, <1>3, HasLonger
  <2> QED BY <2>3, <2>4, <1>1, <1>6
<1> QED BY <1>2, <1>4, <1>5, <1>6 DEF NumberedBy

LEMMA UnsentAfter ==
    ASSUME NoClaims, EpochsApart, OrderInv, DeliveryInv, NEW r \in requests, NEW j \in Instances, NEW p, p = producers[j],
           NEW rs2, rs2 \subseteq requests, NEW cb, cb = Open => ~r.close
    PROVE  Unsent(j, p, rs2, ProposedState(r.epoch, r.seq), cb)
<1>1. r.from \in Instances /\ r.epoch \in Nat /\ r.seq \in Nat BY RequestEpochs
<1>2. ProposedState(r.epoch, r.seq).epoch = r.epoch /\ ProposedState(r.epoch, r.seq).lastSeq = r.seq
  BY DEF ProposedState
<1> SUFFICES ASSUME ~r.close
             PROVE  /\ \A c \in rs2 : c.from = j /\ c.close /\ r.epoch = c.epoch => r.seq < c.seq
                    /\ r.epoch = p.epoch => r.seq < p.nextSeq
  BY <1>2 DEF Unsent
<1>3. DeliveryNeeds(j, setup[j], p, Items(j, p, requests), requests, log, seen, closedBy) BY NeedsHold
<1>4. ASSUME NEW c \in rs2, c.from = j, c.close, r.epoch = c.epoch PROVE r.seq < c.seq
  <2>1. c \in requests OBVIOUS
  <2>2. c.epoch \in EpochsOf(setup[j]) /\ c.epoch \in Nat /\ c.seq \in Nat BY <2>1, <1>4, RequestEpochs
  <2>3. j = r.from BY <2>2, <1>4, OthersEpochs
  <2>4. PICK x \in Items(j, p, requests) : x.epoch = r.epoch /\ x.seq = r.seq BY <2>3, RequestItem
  <2>5. Prior(x.epoch, x.seq, c.epoch, c.seq) BY <2>1, <1>4 DEF DeliveryInv, Delivered, ClosesOK
  <2> QED BY <2>2, <2>4, <2>5, <1>1, <1>4 DEF Prior
<1>5. ASSUME r.epoch = p.epoch PROVE r.seq < p.nextSeq
  <2>1. p.epoch \in EpochsOf(setup[j]) /\ p.epoch \in Nat /\ p.nextSeq \in Nat BY <1>3 DEF DeliveryNeeds, Numbered
  <2>2. j = r.from BY <2>1, <1>5, OthersEpochs
  <2>3. PICK x \in Items(j, p, requests) : x.epoch = r.epoch /\ x.seq = r.seq BY <2>2, RequestItem
  <2>4. Prior(x.epoch, x.seq, p.epoch, p.nextSeq) BY <1>3 DEF DeliveryNeeds, NumbersOK
  <2> QED BY <2>1, <2>3, <2>4, <1>1, <1>5 DEF Prior
<1> QED BY <1>4, <1>5

\* the key of a batch is no close's
LEMMA ZeroKey ==
    ASSUME NoClaims, OrderInv, NEW r \in requests, r.key[2] = 0
    PROVE  r.close
<1> SUFFICES ASSUME ~r.close PROVE FALSE OBVIOUS
<1>0. r \in RequestType /\ RequestOK(r) BY DEF OrderInv, ProducerTypeOK
<1>1. r.from \in Instances BY <1>0 DEF RequestType
<1> PICK p : p = producers[r.from] OBVIOUS
<1>2. InstanceOK(r.from, p, Items(r.from, p, requests), log, seen) /\ p.appended \in Nat
  BY <1>1, ProducerFacts DEF Numbered
<1>3. PICK x \in Items(r.from, p, requests) : x.batch = r.body BY RequestItem
<1>4. OwnBatch(r.from, x.batch, p.appended) /\ Len(x.batch) > 0 BY <1>2 DEF InstanceOK, NumbersOK
<1>5. 1 \in 1 .. Len(x.batch) BY <1>4 DEF OwnBatch
<1>6. x.batch[1][2] \in 1 .. p.appended BY <1>4, <1>5 DEF OwnBatch
<1>7. r.key = x.batch[1] BY <1>0, <1>3 DEF RequestOK
<1> QED BY <1>2, <1>6, <1>7

\* an accepted close finishes its instance
LEMMA CloseFinishes ==
    ASSUME NoClaims, EpochsApart, OrderInv, DeliveryInv, CloseInv, NEW r \in requests, r.close,
           NextNumber(seen, r.epoch, r.seq), NEW p, p = producers[r.from]
    PROVE  Finished(r.from, p, log \o r.body, <<r.epoch, r.seq>>)
<1>1. r.from \in Instances /\ r.epoch \in Nat /\ r.seq \in Nat BY RequestEpochs
<1> PICK j \in Instances : j = r.from BY <1>1
<1>2. r.body = <<<<j, 0>>>> /\ log \in Seq(Messages) /\ r.body \in Seq(Messages)
  BY DEF OrderInv, ProducerTypeOK, RequestOK, RequestType
<1>3. p.closed BY DEF OrderInv
<1>4. <<r.epoch, r.seq>> # Open BY <1>1 DEF Open
<1> PICK L : L = log \o r.body OBVIOUS
<1>5. Len(r.body) = 1 /\ r.body[1] = <<j, 0>> BY <1>2
<1>6. Len(L) = Len(log) + 1 /\ L[Len(log) + 1] = <<j, 0>> /\ L \in Seq(Messages) BY <1>2, <1>5
<1>7. Len(log) \in Nat BY <1>2
<1>8. L # <<>>
  <2>1. Len(<<>>) = 0 OBVIOUS
  <2> QED BY <2>1, <1>6, <1>7
<1>9. ASSUME p.restarts = 0, ~p.aborted, NEW n \in 1 .. p.appended PROVE HasMessage(L, j, n)
  <2>1. CallOK(setup[j], p) /\ setup[j].epoch \in Nat BY OptionFacts DEF OrderInv, ProducerTypeOK
  <2>2. p.pendingBatch = <<>> /\ p.epoch = setup[j].epoch BY <2>1, <1>3, <1>9 DEF CallOK
  <2>3. Len(<<>>) = 0 OBVIOUS
  <2>4. ~HasMessage(p.pendingBatch, j, n) BY <2>2, <2>3 DEF HasMessage
  <2>5. Covers(j, setup[j], p, Items(j, p, requests), requests, log, seen)
    BY <1>9 DEF CloseInv, Settled, CoveredOK
  <2>6. PICK s \in 0 .. (p.nextSeq - 1) :
          NumberedBy(j, setup[j], Items(j, p, requests), requests, log, seen, n, s)
    BY <2>4, <2>5, <1>9 DEF Covers
  <2>7. s \in Nat OBVIOUS
  <2>8. s < r.seq BY <2>6 DEF NumberedBy
  <2>9. r.epoch = setup[j].epoch
    <3>1. r.epoch >= setup[j].epoch /\ r.epoch <= p.epoch BY DEF DeliveryInv, Delivered, ClosesOK
    <3> QED BY <3>1, <2>1, <2>2, <1>1
  <2>10. NumberedBy(j, setup[j], Items(j, p, requests), requests, L, ProposedState(r.epoch, r.seq), n, s)
    BY <2>6, <2>7, CoversAfter
  <2>11. ProposedState(r.epoch, r.seq).epoch = r.epoch /\ ProposedState(r.epoch, r.seq).lastSeq = r.seq
    BY DEF ProposedState
  <2> QED BY <2>7, <2>8, <2>9, <2>10, <2>11, <1>1 DEF NumberedBy
<1> QED BY <1>3, <1>4, <1>6, <1>8, <1>9 DEF Finished

\* the server accepts a request
LEMMA AcceptSettles ==
    ASSUME NoClaims, EpochsApart, OrderInv, DeliveryInv, CloseInv, NEW r \in requests, closedBy = Open,
           NextNumber(seen, r.epoch, r.seq), NEW cb, cb = (IF r.close THEN <<r.epoch, r.seq>> ELSE closedBy),
           NEW rs2, rs2 \subseteq requests, NEW ans2,
           \A a \in ans2 : a \in answers \/ (a.from = r.from /\ a.key = r.key),
           NEW j \in Instances, NEW p, p = producers[j]
    PROVE  Settled(j, setup[j], p, Items(j, p, rs2), rs2, log \o r.body, ProposedState(r.epoch, r.seq), cb, ans2)
<1>1. Settled(j, setup[j], p, Items(j, p, requests), requests, log, seen, closedBy, answers) BY DEF CloseInv
<1>2. r.from \in Instances /\ r.epoch \in Nat /\ r.seq \in Nat /\ r.epoch \in EpochsOf(setup[r.from]) BY RequestEpochs
<1>3. <<r.epoch, r.seq>> # Open /\ <<r.epoch, r.seq>>[1] = r.epoch BY <1>2 DEF Open
<1>4. Items(j, p, rs2) \subseteq Items(j, p, requests) BY FewerRequests
<1>5. ~Finished(j, p, log, closedBy) BY DEF Finished
<1>6. CoveredOK(j, setup[j], p, Items(j, p, rs2), rs2, log \o r.body, ProposedState(r.epoch, r.seq))
  <2> SUFFICES ASSUME Covers(j, setup[j], p, Items(j, p, requests), requests, log, seen)
               PROVE  Covers(j, setup[j], p, Items(j, p, rs2), rs2, log \o r.body, ProposedState(r.epoch, r.seq))
    BY <1>1 DEF Settled, CoveredOK
  <2> SUFFICES ASSUME NEW n \in 1 .. p.appended, ~HasMessage(p.pendingBatch, j, n)
               PROVE  \E s \in 0 .. (p.nextSeq - 1) :
                         NumberedBy(j, setup[j], Items(j, p, rs2), rs2, log \o r.body, ProposedState(r.epoch, r.seq), n, s)
    BY DEF Covers
  <2>1. PICK s \in 0 .. (p.nextSeq - 1) :
          NumberedBy(j, setup[j], Items(j, p, requests), requests, log, seen, n, s)
    BY DEF Covers
  <2>2. s \in Nat OBVIOUS
  <2>3. NumberedBy(j, setup[j], Items(j, p, rs2), rs2, log \o r.body, ProposedState(r.epoch, r.seq), n, s)
    BY <2>1, <2>2, <1>4, CoversAfter
  <2> QED BY <2>3
<1>7. Unsent(j, p, rs2, ProposedState(r.epoch, r.seq), cb)
  <2>1. cb = Open => ~r.close BY <1>3
  <2> QED BY <2>1, UnsentAfter
<1>8. ASSUME r.close, j = r.from PROVE Finished(j, p, log \o r.body, cb)
  <2>1. cb = <<r.epoch, r.seq>> BY <1>8
  <2> QED BY <2>1, <1>8, CloseFinishes
<1>9. cb # Open /\ cb[1] \in EpochsOf(setup[j]) => Finished(j, p, log \o r.body, cb)
  <2> SUFFICES ASSUME cb # Open, cb[1] \in EpochsOf(setup[j]) PROVE Finished(j, p, log \o r.body, cb) OBVIOUS
  <2>1. r.close /\ cb[1] = r.epoch BY <1>3
  <2>2. j = r.from BY <2>1, OthersEpochs
  <2> QED BY <2>1, <2>2, <1>8
<1>10. ASSUME NEW a \in ans2, a.from = j, a.key[2] = 0, a.answer.status \in {200, 204}
       PROVE  Finished(j, p, log \o r.body, cb)
  <2>1. a \notin answers BY <1>10, <1>1, <1>5 DEF Settled
  <2>2. a.from = r.from /\ a.key = r.key BY <2>1
  <2>3. r.close BY <2>2, <1>10, ZeroKey
  <2> QED BY <2>2, <2>3, <1>8, <1>10
<1>11. ~p.closeResult BY <1>1, <1>5 DEF Settled
<1> QED BY <1>6, <1>7, <1>9, <1>10, <1>11 DEF Settled

\* the server answers without accepting
LEMMA RefuseSettles ==
    ASSUME NoClaims, EpochsApart, OrderInv, DeliveryInv, CloseInv, NEW r \in requests, Verdict(r) # "accepted",
           NEW rs2, rs2 \subseteq requests, NEW ans2,
           \A a \in ans2 : a \in answers \/ (a.from = r.from /\ a.key = r.key /\ a.answer = Answer(r)),
           NEW j \in Instances, NEW p, p = producers[j]
    PROVE  Settled(j, setup[j], p, Items(j, p, rs2), rs2, log, seen, closedBy, ans2)
<1>1. Settled(j, setup[j], p, Items(j, p, requests), requests, log, seen, closedBy, answers) BY DEF CloseInv
<1>2. r.from \in Instances /\ r.epoch \in Nat /\ r.seq \in Nat /\ r.epoch \in EpochsOf(setup[r.from]) BY RequestEpochs
<1>3. r \in RequestType /\ ProducerTypeOK BY DEF OrderInv, ProducerTypeOK
<1>4. Items(j, p, rs2) \subseteq Items(j, p, requests) BY FewerRequests
<1>5. CoveredOK(j, setup[j], p, Items(j, p, rs2), rs2, log, seen)
  <2> SUFFICES ASSUME Covers(j, setup[j], p, Items(j, p, requests), requests, log, seen)
               PROVE  Covers(j, setup[j], p, Items(j, p, rs2), rs2, log, seen)
    BY <1>1 DEF Settled, CoveredOK
  <2>1. \A n, s : NumberedBy(j, setup[j], Items(j, p, requests), requests, log, seen, n, s)
                    => NumberedBy(j, setup[j], Items(j, p, rs2), rs2, log, seen, n, s)
    BY <1>4 DEF NumberedBy
  <2> QED BY <2>1 DEF Covers
<1>6. Unsent(j, p, rs2, seen, closedBy) BY <1>1 DEF Settled, Unsent
<1>7. ASSUME NEW a \in ans2, a.from = j, a.key[2] = 0, a.answer.status \in {200, 204}
      PROVE  Finished(j, p, log, closedBy)
  <2>1. CASE a \in answers BY <2>1, <1>7, <1>1 DEF Settled
  <2>2. CASE a.from = r.from /\ a.key = r.key /\ a.answer = Answer(r)
    <3>1. r.close BY <2>2, <1>7, ZeroKey
    <3>2. Verdict(r) \in {"accepted", "duplicate"} BY <2>2, <1>3, <1>7, AnswerTyped
    <3>3. Verdict(r) = "duplicate" BY <3>2
    <3>4. ~(closedBy = Open /\ seen.epoch = r.epoch /\ r.seq <= seen.lastSeq)
      <4>1. closedBy = Open /\ seen.epoch = r.epoch => seen.lastSeq < r.seq
        BY <1>1, <2>2, <3>1, <1>7 DEF Settled, Unsent
      <4>2. seen.lastSeq \in Int BY <1>3 DEF ProducerTypeOK
      <4> QED BY <4>1, <4>2, <1>2
    <3>5. closedBy # Open /\ closedBy = <<r.epoch, r.seq>> BY <1>3, <3>3, <3>4, VerdictFacts
    <3>6. closedBy[1] = r.epoch BY <3>5
    <3> QED BY <3>5, <3>6, <2>2, <1>2, <1>1, <1>7 DEF Settled
  <2> QED BY <2>1, <2>2
<1> QED BY <1>1, <1>5, <1>6, <1>7 DEF Settled

LEMMA ServerSettles ==
    ASSUME NoClaims, EpochsApart, OrderInv, DeliveryInv, CloseInv, NEW r \in requests, ServerHandles(r),
           NEW j \in Instances, NEW p, p = producers[j]
    PROVE  Settled(j, setup[j], p, Items(j, p, requests'), requests', log', seen', closedBy', answers')
<1>1. /\ requests' = requests \ {r}
      /\ \A a \in answers' :
            \/ a \in answers
            \/ /\ a \in AnswerType /\ a.from = r.from /\ a.key = r.key /\ a.answer = Answer(r)
      /\ \/ Verdict(r) # "accepted" /\ log' = log /\ seen' = seen /\ closedBy' = closedBy
         \/ /\ Verdict(r) = "accepted" /\ closedBy = Open /\ NextNumber(seen, r.epoch, r.seq)
            /\ log' = log \o r.body /\ seen' = ProposedState(r.epoch, r.seq)
            /\ closedBy' = IF r.close THEN <<r.epoch, r.seq>> ELSE closedBy
  BY ServerFacts
<1>2. PICK rs2 : rs2 = requests' OBVIOUS
<1>3. PICK ans2 : ans2 = answers' OBVIOUS
<1>4. /\ rs2 \subseteq requests
      /\ \A a \in ans2 : a \in answers \/ (a.from = r.from /\ a.key = r.key /\ a.answer = Answer(r))
  BY <1>1, <1>2, <1>3
<1>5. CASE Verdict(r) # "accepted" /\ log' = log /\ seen' = seen /\ closedBy' = closedBy
  <2>1. Settled(j, setup[j], p, Items(j, p, rs2), rs2, log, seen, closedBy, ans2) BY <1>4, <1>5, RefuseSettles
  <2> QED BY <2>1, <1>2, <1>3, <1>5
<1>6. CASE /\ closedBy = Open /\ NextNumber(seen, r.epoch, r.seq)
           /\ log' = log \o r.body /\ seen' = ProposedState(r.epoch, r.seq)
           /\ closedBy' = IF r.close THEN <<r.epoch, r.seq>> ELSE closedBy
  <2>1. PICK cb : cb = IF r.close THEN <<r.epoch, r.seq>> ELSE closedBy OBVIOUS
  <2>2. Settled(j, setup[j], p, Items(j, p, rs2), rs2, log \o r.body, ProposedState(r.epoch, r.seq), cb, ans2)
    BY <1>4, <1>6, <2>1, AcceptSettles
  <2> QED BY <2>1, <2>2, <1>2, <1>3, <1>6
<1> QED BY <1>1, <1>5, <1>6

LEMMA CloseInit ==
    ASSUME NoClaims, ProducerInit
    PROVE  CloseInv
<1>1. setup \in ProducerSetups /\ producers = [i \in Instances |-> NewProducer(setup[i])]
      /\ requests = {} /\ answers = {} /\ seen = NoProducerState /\ closedBy = Open
  BY DEF ProducerInit
<1> SUFFICES ASSUME NEW i \in Instances, NEW p, p = producers[i]
             PROVE  Settled(i, setup[i], p, Items(i, p, requests), requests, log, seen, closedBy, answers)
  BY DEF CloseInv
<1>2. p = NewProducer(setup[i]) BY <1>1
<1>3. p.appended = 0 /\ ~p.closeResult /\ p.epoch = setup[i].epoch BY <1>2 DEF NewProducer
<1>4. setup[i].epoch \in Nat BY <1>1, OptionFacts
<1>5. seen.epoch = -1 BY <1>1 DEF NoProducerState
<1>6. Covers(i, setup[i], p, Items(i, p, requests), requests, log, seen) BY <1>3 DEF Covers
<1>7. Unsent(i, p, requests, seen, closedBy) BY <1>1, <1>3, <1>4, <1>5 DEF Unsent
<1> QED BY <1>1, <1>3, <1>6, <1>7 DEF Settled, CoveredOK

LEMMA CloseStep ==
    ASSUME NoClaims, EpochsApart, OrderInv, DeliveryInv, CloseInv, ProducerNext
    PROVE  CloseInv'
<1>1. ASSUME NEW i \in Instances, NEW q, Moved(i, q) PROVE CloseInv'
  <2>1. setup' = setup /\ log' = log /\ seen' = seen /\ closedBy' = closedBy BY <1>1 DEF Moved
  <2> SUFFICES ASSUME NEW j \in Instances
               PROVE  Settled(j, setup[j], producers'[j], Items(j, producers'[j], requests'), requests',
                              log, seen, closedBy, answers')
    BY <2>1 DEF CloseInv
  <2>2. PICK p : p = producers'[j] OBVIOUS
  <2>3. Settled(j, setup[j], p, Items(j, p, requests'), requests', log, seen, closedBy, answers')
    BY <1>1, <2>2, InstanceSettles
  <2> QED BY <2>2, <2>3
<1>2. ASSUME NEW r \in requests, ServerHandles(r) PROVE CloseInv'
  <2>1. setup' = setup /\ producers' = producers BY <1>2 DEF ServerHandles
  <2> SUFFICES ASSUME NEW j \in Instances
               PROVE  Settled(j, setup[j], producers[j], Items(j, producers[j], requests'), requests',
                              log', seen', closedBy', answers')
    BY <2>1 DEF CloseInv
  <2>2. PICK p : p = producers[j] OBVIOUS
  <2>3. Settled(j, setup[j], p, Items(j, p, requests'), requests', log', seen', closedBy', answers')
    BY <1>2, <2>2, ServerSettles
  <2> QED BY <2>2, <2>3
<1> QED BY <1>1, <1>2, StepsMove

\* CloseInv says what CloseCoversAll says
LEMMA CloseInvCovers ==
    ASSUME NoClaims, OrderInv, CloseInv
    PROVE  CloseCoversAll
<1> SUFFICES ASSUME NEW i \in Instances, producers[i].closeResult
             PROVE  /\ closedBy # Open
                    /\ log # <<>> /\ Last(log) = Message(i, 0)
                    /\ producers[i].restarts = 0 =>
                         \A n \in 1 .. producers[i].appended :
                            Message(i, n) \in ToSet(log) \/ producers[i].aborted
  BY DEF CloseCoversAll
<1>0. log \in Seq(Messages) BY DEF OrderInv, ProducerTypeOK
<1>1. Finished(i, producers[i], log, closedBy) BY DEF CloseInv, Settled
<1>2. closedBy # Open /\ log # <<>> /\ log[Len(log)] = <<i, 0>> BY <1>1 DEF Finished
<1>3. Last(log) = Message(i, 0) BY <1>2 DEF Last, Message
<1>4. ASSUME producers[i].restarts = 0, NEW n \in 1 .. producers[i].appended, ~producers[i].aborted
      PROVE  Message(i, n) \in ToSet(log)
  <2>1. HasMessage(log, i, n) BY <1>1, <1>4 DEF Finished
  <2>2. PICK k \in 1 .. Len(log) : log[k] = <<i, n>> BY <2>1 DEF HasMessage
  <2>3. k \in DOMAIN log BY <2>2, <1>0
  <2> QED BY <2>2, <2>3 DEF ToSet, Message
<1> QED BY <1>2, <1>3, <1>4

\* The options do not change, so that the hypotheses are of the whole run.
TruthInv == NoClaims /\ EpochsApart => OrderInv /\ DeliveryInv /\ CloseInv

\* What a producer tells its user is so when epochs are not claimed and no two
\* instances use the same one: messages are stored once and in order, a batch
\* that #doSendBatch reports as sent (by 200, or as a duplicate by 204) is in
\* the stream, and close() resolves only when the stream ends with its final
\* message and, unless the producer was restarted or aborted, has everything
\* that was appended before, no failed batch covered up.
THEOREM ProducersTellTheTruth == ProducerSpec => [](NoClaims /\ EpochsApart => ProducerIsTruthful)
<1>1. ProducerInit => TruthInv BY OrderInit, DeliveryInit, CloseInit DEF TruthInv
<1>2. TruthInv /\ [ProducerNext]_producerVars => TruthInv'
  <2> SUFFICES ASSUME TruthInv, [ProducerNext]_producerVars, NoClaims', EpochsApart'
               PROVE  OrderInv' /\ DeliveryInv' /\ CloseInv'
    BY DEF TruthInv
  <2>0. NoClaims /\ EpochsApart BY SetupStays DEF NoClaims, EpochsApart
  <2>a. OrderInv /\ DeliveryInv /\ CloseInv BY <2>0 DEF TruthInv
  <2>1. CASE ProducerNext BY <2>0, <2>a, <2>1, OrderStep, DeliveryStep, CloseStep
  <2>2. CASE UNCHANGED producerVars
    <3>1. OrderInv' BY <2>0, <2>a, <2>2, OrderStep
    <3>2. DeliveryInv' BY <2>a, <2>2 DEF DeliveryInv, producerVars, DeliveredMeansStored
    <3>3. CloseInv' BY <2>a, <2>2 DEF CloseInv, producerVars
    <3> QED BY <3>1, <3>2, <3>3
  <2> QED BY <2>1, <2>2
<1>3. TruthInv => (NoClaims /\ EpochsApart => ProducerIsTruthful)
  BY CloseInvCovers DEF TruthInv, OrderInv, DeliveryInv, ProducerIsTruthful
<1> QED BY <1>1, <1>2, <1>3, PTL DEF ProducerSpec
=============================================================================
