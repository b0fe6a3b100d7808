---------------------------- MODULE ClientProofs ----------------------------
(***************************************************************************)
(* A read session hands over what is in the stream and ends where it       *)
(* should, for any setup, any number of messages, pauses and broken        *)
(* connections.  The invariant follows the messages from the server to the *)
(* consumer: what the consumer has, then the queued responses, then what   *)
(* is buffered of the connection, lead without a gap to the offset of the  *)
(* session and on to the position of the connection.                       *)
(*                                                                         *)
(* A write handle keeps its appends in order, for any options, any number  *)
(* of calls and of POSTs without an answer.  The invariant is about the    *)
(* POSTs that are on their way, awaited or given up: their batches lie one *)
(* before the other, and what is before a message in the order of the      *)
(* calls is settled or in front of it in its own batch.                    *)
(***************************************************************************)
EXTENDS StreamReader, StreamHandle, TLAPS

ChunkType == [from : Nat, to : Nat, upToDate : BOOLEAN]
DataEvent == [type : {"data"}, from : Nat, to : Nat]
ControlEvent == [type : {"control"}, next : Nat, closed : BOOLEAN, upToDate : BOOLEAN]
SyncType == [offset : Nat, upToDate : BOOLEAN, streamClosed : BOOLEAN, sse : BOOLEAN, short : Nat]
ConnType == [st : {"none", "open", "eof"}, pos : Nat, out : Seq(DataEvent \cup ControlEvent),
             started : BOOLEAN]

Fetching == {"fetch", "resumed-fetch", "wait-fetch"}
Connecting == {"start-sse", "wait-start"}
OnConnection == {"events", "wait-events", "resumed-sse", "reconnect", "reconnect-data"}
PullType == {"first", "none", "begin"} \cup Fetching \cup Connecting \cup OnConnection

ReaderTypeOK ==
  /\ opts \in ReaderSetup /\ tail \in Nat /\ shut \in BOOLEAN
  /\ sync \in SyncType /\ pull \in PullType /\ chunks \in Seq(ChunkType)
  /\ reading \in {"read", "callback", "done"} /\ wasUpToDate \in BOOLEAN
  /\ conn \in ConnType /\ buffered \in ChunkType
  /\ ended \in {"no", "closed", "error", "cancelled"}
  /\ got \in Seq(Nat) /\ startedAt \in Nat /\ torn \in BOOLEAN /\ cutShort \in BOOLEAN

\* x is the start, one of the messages g, or in one of the first n responses of q
Reaches(s, g, q, n, x) ==
  \/ x = s
  \/ \E k \in 1 .. Len(g) : g[k] = x
  \/ \E k \in 1 .. n : q[k].from < x /\ x <= q[k].to

\* nothing between the start and o is missing
Arrived(s, g, q, n, o) == \A x \in s .. o : Reaches(s, g, q, n, x)

\* every queued response goes on from what comes before it
Chain(s, g, q) ==
  \A i \in 1 .. Len(q) :
    s <= q[i].from /\ q[i].from <= q[i].to /\ Arrived(s, g, q, i - 1, q[i].from)

\* every message of g follows one that came before it, or the start
NoneSkipped(s, g) ==
  \A j \in 1 .. Len(g) : g[j] - 1 = s \/ \E k \in 1 .. j - 1 : g[k] = g[j] - 1

\* nothing comes twice
Straight(s, g, q) ==
  /\ \A j \in 1 .. Len(g) : g[j] = s + j
  /\ \A i \in 1 .. Len(q) : q[i].from = IF i = 1 THEN s + Len(g) ELSE q[i - 1].to
StraightTo(s, g, q, o) == o = IF Len(q) = 0 THEN s + Len(g) ELSE q[Len(q)].to

\* where pull() is: the connection is there when it is read, and of use to this consumer
PullPlaced(p, c, o, s) ==
  /\ p \in Fetching \cup Connecting \cup {"first"} => c.st = "none"
  /\ p \in Fetching => o.live # "false" /\ (o.consumer = "accumulate" => ~s.upToDate)
  /\ p \in Connecting \cup OnConnection \/ c.st # "none" =>
       o.live = "sse" /\ o.consumer # "accumulate"
  /\ c.st = "none" => c.out = <<>>

\* the first pull() has the first response to hand over
AtFirst(p, e, g, q, w, r) ==
  p = "first" => e = "no" /\ Len(g) = 0 /\ Len(q) = 0 /\ ~w /\ r # "done"

\* the connection goes on from the offset, or from what is buffered beyond it
Buffering(b, p, o, t) ==
  /\ b.to > 0 => p \in {"events", "reconnect-data"} /\ b.from = o /\ b.from <= b.to
  /\ p = "reconnect-data" => b.to > 0 /\ t
EventsFit(c, b, o, t) ==
  /\ Len(c.out) <= 2
  /\ \A i \in 1 .. Len(c.out) :
       /\ c.out[i].type = "data" =>
            i = 1 /\ b.to = 0 /\ c.out[1].from = o /\ o < c.out[1].to /\ c.out[1].to <= t
       /\ c.out[i].type = "control" =>
            /\ i = Len(c.out) /\ c.out[i].next <= t
            /\ i = 1 => c.out[1].next = IF b.to > 0 THEN b.to ELSE o
            /\ i = 2 => c.out[1].type = "data" /\ c.out[2].next = c.out[1].to
ConnectionFits(c, b, o, t) ==
  /\ c.st = "open" => IF Len(c.out) = 0 THEN b.to = 0 /\ c.pos = o
                      ELSE c.out[Len(c.out)].type = "control" /\ c.pos = c.out[Len(c.out)].next
  /\ EventsFit(c, b, o, t)

\* a connection whose request was aborted gives nothing any more
Silenced(a, c) == a => c.st # "open" /\ c.out = <<>>

\* what accumulates stops at the first response that is up to date, the last one
Accumulated(o, q, s, r, e) ==
  /\ o.consumer = "accumulate" =>
       \A i \in 1 .. Len(q) : q[i].upToDate => i = Len(q) /\ s.upToDate
  /\ r = "done" /\ e = "no" => o.consumer = "accumulate" /\ s.upToDate

\* a consumer that is through, or waits, has left nothing
LeavesNothing(r, e, q, x) ==
  /\ r = "read" => Len(q) = 0
  /\ r = "done" /\ e \in {"no", "closed"} => Len(q) = 0 \/ x

Orderly == ended \in {"no", "closed"} /\ pull # "first"

\* what the consumer has and what is queued lead from the start s to the offset o
Flow(s, g, q, o, orderly, t) ==
  /\ NoneSkipped(s, g) /\ Chain(s, g, q)
  /\ orderly => Arrived(s, g, q, Len(q), o)
  /\ ~t => Straight(s, g, q)
  /\ ~t /\ orderly => StraightTo(s, g, q, o)

ReaderInv ==
  /\ ReaderTypeOK
  /\ startedAt <= sync.offset /\ sync.offset <= tail
  /\ Ended => pull = "none"
  /\ PullPlaced(pull, conn, opts, sync)
  /\ AtFirst(pull, ended, got, chunks, wasUpToDate, reading)
  /\ Flow(startedAt, got, chunks, sync.offset, Orderly, torn)
  /\ ~Ended => /\ Buffering(buffered, pull, sync.offset, torn)
               /\ ConnectionFits(conn, buffered, sync.offset, tail)
               /\ Silenced(aborting, conn)
  /\ Accumulated(opts, chunks, sync, reading, ended)
  /\ LeavesNothing(reading, ended, chunks, cutShort)
  /\ opts.live = "false" /\ ~opts.capped => sync.upToDate
  /\ EndsAsExpected

-----------------------------------------------------------------------------
(* Responses that are queued and taken *)

\* the messages of a response
MessagesOf(c) == [k \in 1 .. (c.to - c.from) |-> c.from + k]

LEMMA MessagesAdded ==
  ASSUME NEW g \in Seq(Nat), NEW c \in ChunkType, c.from <= c.to
  PROVE  LET h == g \o MessagesOf(c)
         IN /\ h \in Seq(Nat) /\ Len(h) = Len(g) + (c.to - c.from)
            /\ \A i \in 1 .. Len(g) : h[i] = g[i]
            /\ \A i \in 1 .. c.to - c.from : h[Len(g) + i] = c.from + i
<1>1. c.from \in Nat /\ c.to \in Nat
  BY DEF ChunkType
<1> DEFINE m == MessagesOf(c)
<1>2. m \in Seq(Nat) /\ Len(m) = c.to - c.from /\ \A i \in 1 .. c.to - c.from : m[i] = c.from + i
  <2>1. PICK n \in Nat : n = c.to - c.from
    BY <1>1
  <2>2. PICK f \in Nat : f = c.from
    BY <1>1
  <2>3. m = [k \in 1 .. n |-> f + k]
    BY <2>1, <2>2 DEF MessagesOf
  <2>4. m \in [1 .. n -> Nat]
    BY <2>3
  <2>5. m \in Seq(Nat)
    BY <2>4
  <2>6. Len(m) = n
    BY <2>4, <2>5
  <2> QED BY <2>1, <2>2, <2>3, <2>5, <2>6
<1> HIDE DEF m
<1>3. g \o m \in Seq(Nat) /\ Len(g \o m) = Len(g) + Len(m)
  <2>1. m \in Seq(Nat)
    BY <1>2
  <2>2. g \o m \in Seq(Nat)
    BY <2>1
  <2>3. Len(g \o m) = Len(g) + Len(m)
    BY <2>1
  <2> QED BY <2>2, <2>3
<1>4. \A i \in 1 .. Len(g) : (g \o m)[i] = g[i]
  BY <1>2
<1>5. ASSUME NEW i \in 1 .. c.to - c.from
      PROVE  (g \o m)[Len(g) + i] = c.from + i
  <2>1. Len(g) + i \in 1 .. Len(g) + Len(m) /\ Len(g) + i > Len(g) /\ Len(g) + i - Len(g) = i
    BY <1>1, <1>2
  <2>2. (g \o m)[Len(g) + i] = m[Len(g) + i - Len(g)]
    BY <1>2, <2>1
  <2> QED BY <1>2, <2>1, <2>2
<1> QED BY <1>2, <1>3, <1>4, <1>5 DEF m

LEMMA TailFacts ==
  ASSUME NEW q \in Seq(ChunkType), Len(q) > 0
  PROVE  /\ Tail(q) \in Seq(ChunkType) /\ Len(Tail(q)) = Len(q) - 1
         /\ \A i \in 1 .. Len(q) - 1 : Tail(q)[i] = q[i + 1]
         /\ q[1] \in ChunkType
<1>1. q # <<>> /\ 1 \in 1 .. Len(q)
  OBVIOUS
<1> QED BY <1>1

LEMMA AppendFacts ==
  ASSUME NEW q \in Seq(ChunkType), NEW c \in ChunkType
  PROVE  /\ Append(q, c) \in Seq(ChunkType) /\ Len(Append(q, c)) = Len(q) + 1
         /\ \A i \in 1 .. Len(q) : Append(q, c)[i] = q[i]
         /\ Append(q, c)[Len(q) + 1] = c
OBVIOUS

\* Nothing taken and nothing queued: the start is where the session is.
LEMMA FlowStarts ==
  ASSUME NEW s \in Nat, NEW g \in Seq(Nat), NEW q \in Seq(ChunkType), NEW t \in BOOLEAN,
         Len(g) = 0, Len(q) = 0
  PROVE  Flow(s, g, q, s, TRUE, t)
<1>1. NoneSkipped(s, g) /\ Chain(s, g, q)
  BY DEF NoneSkipped, Chain
<1>2. Arrived(s, g, q, Len(q), s)
  BY DEF Arrived, Reaches
<1>3. Straight(s, g, q) /\ StraightTo(s, g, q, s)
  BY DEF Straight, StraightTo
<1> QED BY <1>1, <1>2, <1>3 DEF Flow

\* What arrives with q arrives with more.
LEMMA ReachesMore ==
  ASSUME NEW s \in Nat, NEW g \in Seq(Nat), NEW q \in Seq(ChunkType), NEW c \in ChunkType,
         NEW n \in 0 .. Len(q), NEW x \in Nat, Reaches(s, g, q, n, x)
  PROVE  \A m \in n .. Len(q) + 1 : Reaches(s, g, Append(q, c), m, x)
<1> DEFINE r == Append(q, c)
<1>1. \A k \in 1 .. n : r[k] = q[k]
  BY AppendFacts
<1> HIDE DEF r
<1>2. ASSUME NEW m \in n .. Len(q) + 1 PROVE Reaches(s, g, r, m, x)
  <2>1. CASE x = s \/ \E k \in 1 .. Len(g) : g[k] = x
    BY <2>1 DEF Reaches
  <2>2. CASE \E k \in 1 .. n : q[k].from < x /\ x <= q[k].to
    <3>1. PICK k \in 1 .. n : q[k].from < x /\ x <= q[k].to
      BY <2>2
    <3>2. k \in 1 .. m /\ r[k] = q[k]
      BY <1>1
    <3> QED BY <3>1, <3>2 DEF Reaches
  <2> QED BY <2>1, <2>2 DEF Reaches
<1> QED BY <1>2 DEF r

\* A response from the offset on is queued.  The session is then at its end, or,
\* when it came without a control event, still where it was.
LEMMA FlowAppends ==
  ASSUME NEW s \in Nat, NEW g \in Seq(Nat), NEW q \in Seq(ChunkType), NEW c \in ChunkType,
         NEW t \in BOOLEAN, NEW o \in Nat, s <= c.from, c.from <= c.to,
         Flow(s, g, q, c.from, TRUE, t), o = c.to \/ (o = c.from /\ t)
  PROVE  Flow(s, g, Append(q, c), o, TRUE, t)
<1>1. c.from \in Nat /\ c.to \in Nat
  BY DEF ChunkType
<1> DEFINE r == Append(q, c)
<1>2. /\ r \in Seq(ChunkType) /\ Len(r) = Len(q) + 1
      /\ \A i \in 1 .. Len(q) : r[i] = q[i]
      /\ r[Len(q) + 1] = c
  BY AppendFacts
<1>3. ASSUME NEW n \in 0 .. Len(q), NEW x \in Nat, Reaches(s, g, q, n, x)
      PROVE  \A m \in n .. Len(q) + 1 : Reaches(s, g, r, m, x)
  BY <1>3, ReachesMore
<1> HIDE DEF r
<1>4. NoneSkipped(s, g) /\ Chain(s, g, q) /\ Arrived(s, g, q, Len(q), c.from)
  BY DEF Flow
<1>5. Chain(s, g, r)
  <2> SUFFICES ASSUME NEW i \in 1 .. Len(r)
               PROVE  s <= r[i].from /\ r[i].from <= r[i].to /\ Arrived(s, g, r, i - 1, r[i].from)
    BY DEF Chain
  <2>1. CASE i <= Len(q)
    <3>1. i \in 1 .. Len(q) /\ r[i] = q[i] /\ i - 1 \in 0 .. Len(q) /\ q[i] \in ChunkType
      BY <1>2, <2>1
    <3>2. /\ s <= q[i].from /\ q[i].from <= q[i].to /\ q[i].from \in Nat
          /\ Arrived(s, g, q, i - 1, q[i].from)
      BY <1>4, <3>1 DEF Chain, ChunkType
    <3>3. ASSUME NEW x \in s .. q[i].from PROVE Reaches(s, g, r, i - 1, x)
      <4>1. Reaches(s, g, q, i - 1, x) /\ x \in Nat
        BY <3>2 DEF Arrived
      <4> QED BY <1>3, <3>1, <4>1
    <3> QED BY <3>1, <3>2, <3>3 DEF Arrived
  <2>2. CASE i = Len(q) + 1
    <3>1. r[i] = c /\ i - 1 = Len(q)
      BY <1>2, <2>2
    <3>2. ASSUME NEW x \in s .. c.from PROVE Reaches(s, g, r, Len(q), x)
      <4>1. Reaches(s, g, q, Len(q), x) /\ x \in Nat
        BY <1>1, <1>4 DEF Arrived
      <4> QED BY <1>3, <4>1
    <3> QED BY <3>1, <3>2 DEF Arrived
  <2> QED BY <1>2, <2>1, <2>2
<1>6. Arrived(s, g, r, Len(r), o)
  <2> SUFFICES ASSUME NEW x \in s .. o PROVE Reaches(s, g, r, Len(q) + 1, x)
    BY <1>2 DEF Arrived
  <2>1. CASE x <= c.from
    <3>1. Reaches(s, g, q, Len(q), x) /\ x \in Nat
      BY <1>1, <1>4, <2>1 DEF Arrived
    <3>2. Len(q) \in 0 .. Len(q) /\ Len(q) + 1 \in Len(q) .. Len(q) + 1
      OBVIOUS
    <3> QED BY <1>3, <3>1, <3>2
  <2>2. CASE c.from < x
    <3>1. r[Len(q) + 1].from < x /\ x <= r[Len(q) + 1].to
      BY <1>1, <1>2, <2>2
    <3> QED BY <3>1 DEF Reaches
  <2> QED BY <1>1, <2>1, <2>2
<1>7. ASSUME ~t PROVE Straight(s, g, r) /\ StraightTo(s, g, r, o)
  <2>1. Straight(s, g, q) /\ StraightTo(s, g, q, c.from) /\ o = c.to
    BY <1>7 DEF Flow
  <2>2. ASSUME NEW i \in 1 .. Len(r)
        PROVE  r[i].from = IF i = 1 THEN s + Len(g) ELSE r[i - 1].to
    <3>1. CASE i <= Len(q)
      <4>1. i \in 1 .. Len(q) /\ (i # 1 => i - 1 \in 1 .. Len(q))
        BY <1>2, <3>1
      <4>2. r[i] = q[i] /\ (i # 1 => r[i - 1] = q[i - 1])
        BY <1>2, <4>1
      <4> QED BY <2>1, <4>1, <4>2 DEF Straight
    <3>2. CASE i = Len(q) + 1
      <4>1. r[i] = c /\ (i # 1 => Len(q) # 0 /\ i - 1 = Len(q) /\ r[Len(q)] = q[Len(q)])
        BY <1>2, <3>2
      <4>2. i = 1 => Len(q) = 0
        BY <3>2
      <4> QED BY <2>1, <4>1, <4>2 DEF StraightTo
    <3> QED BY <1>2, <3>1, <3>2
  <2>3. \A j \in 1 .. Len(g) : g[j] = s + j
    BY <2>1 DEF Straight
  <2>4. Straight(s, g, r)
    BY <2>2, <2>3 DEF Straight
  <2> QED BY <1>2, <2>1, <2>4 DEF StraightTo
<1> QED BY <1>4, <1>5, <1>6, <1>7 DEF Flow, r

\* The first response is handed over.
LEMMA FlowTakes ==
  ASSUME NEW s \in Nat, NEW g \in Seq(Nat), NEW q \in Seq(ChunkType), NEW o \in Nat,
         NEW d \in BOOLEAN, NEW t \in BOOLEAN, Len(q) > 0, Flow(s, g, q, o, d, t)
  PROVE  Flow(s, g \o MessagesOf(q[1]), Tail(q), o, d, t)
<1> DEFINE h == g \o MessagesOf(q[1])
           r == Tail(q)
<1>1. /\ r \in Seq(ChunkType) /\ Len(r) = Len(q) - 1 /\ Len(q) \in Nat /\ Len(r) \in Nat
      /\ \A i \in 1 .. Len(q) - 1 : r[i] = q[i + 1]
      /\ q[1] \in ChunkType
  BY TailFacts
<1>2. PICK a \in Nat : a = q[1].from
  BY <1>1 DEF ChunkType
<1>3. PICK b \in Nat : b = q[1].to
  BY <1>1 DEF ChunkType
<1>4. Chain(s, g, q) /\ NoneSkipped(s, g)
  BY DEF Flow
<1>5. s <= a /\ a <= b /\ Arrived(s, g, q, 0, a)
  BY <1>2, <1>3, <1>4 DEF Chain
<1>6. /\ h \in Seq(Nat) /\ Len(h) = Len(g) + (b - a)
      /\ \A i \in 1 .. Len(g) : h[i] = g[i]
      /\ \A i \in 1 .. b - a : h[Len(g) + i] = a + i
  BY <1>1, <1>2, <1>3, <1>5, MessagesAdded
<1> HIDE DEF h, r
<1>7. ASSUME NEW n \in 1 .. Len(q), NEW x \in Nat, Reaches(s, g, q, n, x)
      PROVE  Reaches(s, h, r, n - 1, x)
  <2>1. CASE x = s
    BY <2>1 DEF Reaches
  <2>2. CASE \E k \in 1 .. Len(g) : g[k] = x
    <3>1. PICK k \in 1 .. Len(g) : g[k] = x
      BY <2>2
    <3>2. k \in 1 .. Len(h) /\ h[k] = x
      <4>1. PICK u \in Nat : u = Len(g) OBVIOUS
      <4>2. Len(h) = u + (b - a) /\ k \in 1 .. u /\ a <= b BY <1>5, <1>6, <3>1, <4>1
      <4>3. k \in 1 .. Len(h) BY ONLY <4>1, <4>2, a \in Nat, b \in Nat
      <4>4. h[k] = x BY ONLY <1>6, <3>1
      <4> QED BY ONLY <4>3, <4>4
    <3> QED BY <3>2 DEF Reaches
  <2>3. CASE \E k \in 1 .. n : q[k].from < x /\ x <= q[k].to
    <3>1. PICK k \in 1 .. n : q[k].from < x /\ x <= q[k].to
      BY <2>3
    <3>2. CASE k = 1
      <4>1. a < x /\ x <= b
        BY <1>2, <1>3, <3>1, <3>2
      <4>2. PICK i \in 1 .. b - a : a + i = x
        <5>1. x - a \in 1 .. b - a /\ a + (x - a) = x
          BY <4>1
        <5> QED BY <5>1
      <4>3. h[Len(g) + i] = x
        BY <1>6, <4>2
      <4>4. Len(g) + i \in 1 .. Len(h)
        BY <1>6
      <4> QED BY <4>3, <4>4 DEF Reaches
    <3>3. CASE k > 1
      <4>1. k - 1 \in 1 .. n - 1 /\ k - 1 \in 1 .. Len(q) - 1 /\ k - 1 + 1 = k
        BY <3>3
      <4>2. r[k - 1] = q[k]
        BY <1>1, <4>1
      <4> QED BY <3>1, <4>1, <4>2 DEF Reaches
    <3> QED BY <3>2, <3>3
  <2> QED BY <1>7, <2>1, <2>2, <2>3 DEF Reaches
<1>8. NoneSkipped(s, h)
  <2> SUFFICES ASSUME NEW j \in 1 .. Len(h)
               PROVE  h[j] - 1 = s \/ \E k \in 1 .. j - 1 : h[k] = h[j] - 1
    BY DEF NoneSkipped
  <2>1. CASE j <= Len(g)
    <3>1. j \in 1 .. Len(g) /\ h[j] = g[j] /\ \A k \in 1 .. j - 1 : h[k] = g[k]
      BY <1>6, <2>1
    <3> QED BY <1>4, <3>1 DEF NoneSkipped
  <2>2. CASE j > Len(g)
    <3>1. PICK i \in 1 .. b - a : j = Len(g) + i
      <4>1. j - Len(g) \in 1 .. b - a /\ j = Len(g) + (j - Len(g))
        BY <1>5, <1>6, <2>2
      <4> QED BY <4>1
    <3>2. h[j] = a + i
      BY <1>6, <3>1
    <3>3. CASE i = 1
      <4>1. Reaches(s, g, q, 0, a)
        BY <1>5 DEF Arrived
      <4>2. a = s \/ \E k \in 1 .. Len(g) : g[k] = a
        BY <4>1 DEF Reaches
      <4>3. \A k \in 1 .. Len(g) : k \in 1 .. j - 1 /\ h[k] = g[k]
        <5>1. PICK u \in Nat : u = Len(g) OBVIOUS
        <5>2. j = u + i /\ i = 1 BY ONLY <3>1, <3>3, <5>1
        <5>3. \A k \in 1 .. u : k \in 1 .. j - 1 BY ONLY <5>1, <5>2
        <5> QED BY ONLY <1>6, <5>1, <5>3
      <4>4. h[j] - 1 = a BY ONLY <3>2, <3>3, a \in Nat
      <4>5. CASE a = s BY ONLY <4>4, <4>5
      <4>6. CASE \E k \in 1 .. Len(g) : g[k] = a BY ONLY <4>3, <4>4, <4>6
      <4> QED BY ONLY <4>2, <4>5, <4>6
    <3>4. CASE i > 1
      <4>1. i - 1 \in 1 .. b - a /\ j - 1 = Len(g) + (i - 1) /\ j - 1 \in 1 .. j - 1
        BY <3>1, <3>4
      <4>2. h[j - 1] = a + (i - 1)
        BY <1>6, <4>1
      <4>3. h[j - 1] = h[j] - 1
        BY <3>2, <4>2
      <4> QED BY <4>1, <4>3
    <3> QED BY <3>3, <3>4
  <2> QED BY <1>6, <2>1, <2>2
<1>9. Chain(s, h, r)
  <2> SUFFICES ASSUME NEW i \in 1 .. Len(r)
               PROVE  s <= r[i].from /\ r[i].from <= r[i].to /\ Arrived(s, h, r, i - 1, r[i].from)
    BY DEF Chain
  <2>1. r[i] = q[i + 1] /\ i + 1 \in 1 .. Len(q) /\ i \in 1 .. Len(q) /\ i + 1 - 1 = i /\ q[i + 1] \in ChunkType
    BY <1>1
  <2>2. /\ s <= q[i + 1].from /\ q[i + 1].from <= q[i + 1].to /\ q[i + 1].from \in Nat
        /\ Arrived(s, g, q, i, q[i + 1].from)
    BY <1>4, <2>1 DEF Chain, ChunkType
  <2>3. ASSUME NEW x \in s .. q[i + 1].from PROVE Reaches(s, h, r, i - 1, x)
    <3>1. Reaches(s, g, q, i, x) /\ x \in Nat
      BY <2>2 DEF Arrived
    <3> QED BY <1>7, <2>1, <3>1
  <2> QED BY <2>1, <2>2, <2>3 DEF Arrived
<1>10. ASSUME d PROVE Arrived(s, h, r, Len(r), o)
  <2>1. Arrived(s, g, q, Len(q), o)
    BY <1>10 DEF Flow
  <2>2. ASSUME NEW x \in s .. o PROVE Reaches(s, h, r, Len(r), x)
    <3>1. Reaches(s, g, q, Len(q), x) /\ x \in Nat /\ Len(q) \in 1 .. Len(q)
      BY <1>1, <2>1 DEF Arrived
    <3>2. Reaches(s, h, r, Len(q) - 1, x)
      BY <1>7, <3>1
    <3> QED BY <1>1, <3>2
  <2> QED BY <2>2 DEF Arrived
<1>11. ASSUME ~t PROVE Straight(s, h, r)
  <2>1. Straight(s, g, q)
    BY <1>11 DEF Flow
  <2>2. a = s + Len(g)
    BY <1>1, <1>2, <2>1 DEF Straight
  <2>3. ASSUME NEW j \in 1 .. Len(h) PROVE h[j] = s + j
    <3>1. CASE j <= Len(g)
      <4>1. j \in 1 .. Len(g)
        BY <3>1
      <4> QED BY <1>6, <2>1, <4>1 DEF Straight
    <3>2. CASE j > Len(g)
      <4>1. j - Len(g) \in 1 .. b - a /\ j = Len(g) + (j - Len(g))
        BY <1>5, <1>6, <3>2
      <4>2. h[j] = a + (j - Len(g))
        BY <1>6, <4>1
      <4> QED BY <1>6, <2>2, <4>2
    <3> QED BY <1>6, <3>1, <3>2
  <2>4. ASSUME NEW i \in 1 .. Len(r)
        PROVE  r[i].from = IF i = 1 THEN s + Len(h) ELSE r[i - 1].to
    <3>1. r[i] = q[i + 1] /\ i + 1 \in 1 .. Len(q) /\ i + 1 # 1 /\ i + 1 - 1 = i
      BY <1>1
    <3>2. q[i + 1].from = q[i].to
      BY <2>1, <3>1 DEF Straight
    <3>3. CASE i = 1
      <4>1. q[i].to = b /\ s + Len(h) = b
        BY <1>3, <1>5, <1>6, <2>2, <3>3
      <4> QED BY <3>1, <3>2, <3>3, <4>1
    <3>4. CASE i # 1
      <4>1. i - 1 \in 1 .. Len(q) - 1 /\ i - 1 + 1 = i
        BY <1>1, <3>4
      <4>2. r[i - 1] = q[i]
        BY <1>1, <4>1
      <4> QED BY <3>1, <3>2, <3>4, <4>2
    <3> QED BY <3>3, <3>4
  <2> QED BY <2>3, <2>4 DEF Straight
<1>12. ASSUME ~t, d PROVE StraightTo(s, h, r, o)
  <2>1. Straight(s, g, q) /\ StraightTo(s, g, q, o)
    BY <1>12 DEF Flow
  <2>2. a = s + Len(g) /\ o = q[Len(q)].to
    BY <1>1, <1>2, <2>1 DEF Straight, StraightTo
  <2>3. CASE Len(q) = 1
    <3>1. Len(r) = 0 /\ o = b BY <1>1, <1>3, <2>2, <2>3
    <3>2. PICK u \in Nat : u = Len(g) OBVIOUS
    <3>3. a = s + u /\ Len(h) = u + (b - a) BY <1>6, <2>2, <3>2
    <3>4. b = s + Len(h) BY ONLY <3>2, <3>3, a \in Nat, b \in Nat, s \in Nat
    <3> QED BY ONLY <3>1, <3>4 DEF StraightTo
  <2>4. CASE Len(q) > 1
    <3>1. Len(r) # 0 /\ Len(r) \in 1 .. Len(q) - 1 /\ Len(r) + 1 = Len(q)
      BY <1>1, <2>4
    <3>2. r[Len(r)] = q[Len(q)]
      BY <1>1, <3>1
    <3> QED BY <2>2, <3>1, <3>2 DEF StraightTo
  <2> QED BY <1>1, <2>3, <2>4
<1> QED BY <1>8, <1>9, <1>10, <1>11, <1>12 DEF Flow, h, r

\* Queueing, with the pending read that takes the first response.
LEMMA Enqueued ==
  ASSUME ReaderTypeOK, opts' = opts, sync' \in SyncType,
         NEW q \in Seq(ChunkType), NEW o \in Nat, NEW d \in BOOLEAN, NEW t \in BOOLEAN,
         Flow(startedAt, got, q, o, d, t), Enqueues(q),
         reading # "done", reading = "read" => Len(q) <= 1,
         opts.consumer = "accumulate" =>
           \A i \in 1 .. Len(q) : q[i].upToDate => i = Len(q) /\ sync'.upToDate
  PROVE  /\ got' \in Seq(Nat) /\ chunks' \in Seq(ChunkType)
         /\ reading' \in {"read", "callback", "done"} /\ wasUpToDate' \in BOOLEAN
         /\ cutShort' = cutShort
         /\ Flow(startedAt, got', chunks', o, d, t)
         /\ \A e \in {"no", "closed"} :
              Accumulated(opts', chunks', sync', reading', e) /\ LeavesNothing(reading', e, chunks', cutShort)
<1>1. /\ got \in Seq(Nat) /\ startedAt \in Nat /\ reading \in {"read", "callback", "done"}
      /\ wasUpToDate \in BOOLEAN
  BY DEF ReaderTypeOK
<1>2. cutShort' = cutShort /\ (sync').upToDate \in BOOLEAN
  BY DEF Enqueues, SyncType
<1>3. CASE ~Handed(q)
  <2>1. /\ chunks' = q /\ got' = got /\ reading' = reading /\ wasUpToDate' = wasUpToDate
    BY <1>3 DEF Enqueues, LeftOf
  <2>2. reading = "read" => Len(q) = 0
    BY <1>3 DEF Handed
  <2> QED BY <1>1, <1>2, <2>1, <2>2 DEF Accumulated, LeavesNothing
<1>4. CASE Handed(q)
  <2>1. reading = "read" /\ q # <<>> /\ Len(q) <= 1
    BY <1>4 DEF Handed
  <2>2. Len(q) = 1 /\ Len(q) > 0
    <3>1. Len(q) \in Nat /\ Len(q) # 0
      BY <2>1
    <3>2. PICK n \in Nat : n = Len(q)
      BY <3>1
    <3>3. n # 0 /\ n <= 1
      BY <2>1, <3>1, <3>2
    <3>4. n = 1
      BY <3>3
    <3> QED BY <3>2, <3>4
  <2>3. /\ chunks' = Tail(q) /\ got' = got \o MessagesOf(q[1]) /\ wasUpToDate' = sync'.upToDate
    BY <1>4 DEF Enqueues, LeftOf, MessagesOf
  <2>4. reading' = IF opts.consumer = "accumulate" /\ q[1].upToDate THEN "done" ELSE "callback"
    BY <1>4 DEF Enqueues, Accumulates
  <2>5. Flow(startedAt, got', chunks', o, d, t)
    <3>1. Flow(startedAt, got \o MessagesOf(q[1]), Tail(q), o, d, t)
      BY <1>1, <2>2, FlowTakes
    <3> QED BY <2>3, <3>1
  <2>6. chunks' \in Seq(ChunkType) /\ Len(chunks') = 0 /\ q[1] \in ChunkType
    <3>1. Tail(q) \in Seq(ChunkType) /\ Len(Tail(q)) = Len(q) - 1 /\ q[1] \in ChunkType
      BY <2>2, TailFacts
    <3> QED BY <2>2, <2>3, <3>1
  <2>7. q[1].from <= q[1].to
    BY <2>2 DEF Flow, Chain
  <2>8. got' \in Seq(Nat)
    BY <1>1, <2>3, <2>6, <2>7, MessagesAdded
  <2>9. reading' = "done" => opts.consumer = "accumulate" /\ sync'.upToDate
    BY <2>2, <2>4
  <2>10. reading' \in {"callback", "done"}
    BY <2>4
  <2> QED BY <1>2, <2>3, <2>5, <2>6, <2>8, <2>9, <2>10 DEF Accumulated, LeavesNothing
<1> QED BY <1>3, <1>4

-----------------------------------------------------------------------------
(* What the steps have in common *)

LEMMA FlowKept ==
  ASSUME NEW s, NEW g, NEW q, NEW o, NEW d \in BOOLEAN, NEW e \in BOOLEAN, NEW t \in BOOLEAN,
         NEW u \in BOOLEAN, Flow(s, g, q, o, d, t), e => d, t => u
  PROVE  Flow(s, g, q, o, e, u)
BY DEF Flow

\* While pull() waits for the stream the consumer is not through.
LEMMA NotThrough ==
  ASSUME ReaderInv, ended = "no", pull \in Fetching \cup Connecting \cup OnConnection \cup {"first"}
  PROVE  reading # "done"
<1>1. pull \in Fetching => (opts.consumer = "accumulate" => ~sync.upToDate)
  BY DEF ReaderInv, PullPlaced
<1>2. pull \in Connecting \cup OnConnection => opts.consumer # "accumulate"
  BY DEF ReaderInv, PullPlaced
<1>3. pull = "first" => reading # "done"
  BY DEF ReaderInv, AtFirst
<1>4. reading = "done" => opts.consumer = "accumulate" /\ sync.upToDate
  BY DEF ReaderInv, Accumulated
<1> QED BY <1>1, <1>2, <1>3, <1>4

\* A response is queued behind the others: none of them is up to date when the
\* consumer accumulates and this one is, and a pending read finds it alone.
LEMMA QueuedLast ==
  ASSUME ReaderInv, ended = "no", pull \in Fetching \cup Connecting \cup OnConnection \cup {"first"},
         NEW c \in ChunkType, NEW u \in BOOLEAN,
         opts.consumer = "accumulate" /\ c.upToDate => u
  PROVE  /\ Append(chunks, c) \in Seq(ChunkType)
         /\ reading = "read" => Len(Append(chunks, c)) <= 1
         /\ opts.consumer = "accumulate" =>
              \A i \in 1 .. Len(Append(chunks, c)) :
                Append(chunks, c)[i].upToDate => i = Len(Append(chunks, c)) /\ u
<1>1. chunks \in Seq(ChunkType) /\ Len(chunks) \in Nat
  BY DEF ReaderInv, ReaderTypeOK
<1> DEFINE q == Append(chunks, c)
<1>2. /\ q \in Seq(ChunkType) /\ Len(q) = Len(chunks) + 1
      /\ \A i \in 1 .. Len(chunks) : q[i] = chunks[i]
      /\ q[Len(chunks) + 1] = c
  BY <1>1, AppendFacts
<1> HIDE DEF q
<1>3. reading = "read" => Len(chunks) = 0
  BY DEF ReaderInv, LeavesNothing
<1>4. ASSUME opts.consumer = "accumulate", NEW i \in 1 .. Len(q), q[i].upToDate
      PROVE  i = Len(q) /\ u
  <2>1. CASE i = Len(chunks) + 1
    BY <1>2, <1>4, <2>1
  <2>2. CASE i \in 1 .. Len(chunks)
    <3>1. chunks[i].upToDate
      BY <1>2, <1>4, <2>2
    <3>2. sync.upToDate
      BY <1>4, <2>2, <3>1 DEF ReaderInv, Accumulated
    <3>3. pull \notin Fetching \cup Connecting \cup OnConnection
      BY <1>4, <3>2 DEF ReaderInv, PullPlaced
    <3>4. pull = "first" /\ Len(chunks) = 0
      BY <3>3 DEF ReaderInv, AtFirst
    <3> QED BY <2>2, <3>4
  <2> QED BY <1>1, <1>2, <2>1, <2>2
<1> QED BY <1>1, <1>2, <1>3, <1>4 DEF q

\* the responses q lead to the offset of the session, and suit its consumer
QueueSuits(q) ==
  /\ q \in Seq(ChunkType)
  /\ reading = "read" => Len(q) <= 1
  /\ opts.consumer = "accumulate" =>
       \A i \in 1 .. Len(q) : q[i].upToDate => i = Len(q) /\ sync'.upToDate
  /\ Flow(startedAt, got, q, sync'.offset, TRUE, torn')

\* the session goes on: nothing of the connection is left behind
GoesOn ==
  /\ ended = "no" /\ ended' = "no"
  /\ opts' = opts /\ tail' = tail /\ shut' = shut /\ startedAt' = startedAt
  /\ pull \in Fetching \cup Connecting \cup OnConnection \cup {"first"}
  /\ sync' \in SyncType /\ sync.offset <= sync'.offset /\ sync'.offset <= tail
  /\ opts.live = "false" /\ ~opts.capped => sync'.upToDate
  /\ torn' \in BOOLEAN /\ conn' \in ConnType /\ buffered' \in ChunkType /\ buffered'.to = 0
  /\ conn'.st # "none" => conn.st # "none" \/ pull \in Connecting \cup OnConnection
  /\ conn'.st = "none" => conn'.out = <<>>
  /\ ConnectionFits(conn', buffered', sync'.offset, tail) /\ Silenced(aborting', conn')

\* pull() returns and the session goes on.
LEMMA PullReturned ==
  ASSUME ReaderInv, NEW q, PullReturns(q), QueueSuits(q), GoesOn
  PROVE  ReaderInv'
<1>1. /\ ReaderTypeOK /\ startedAt \in Nat /\ tail \in Nat /\ sync \in SyncType
      /\ startedAt <= sync.offset /\ reading # "done"
  BY NotThrough DEF ReaderInv, ReaderTypeOK, GoesOn
<1>2. sync.offset \in Nat /\ sync'.offset \in Nat
  BY <1>1 DEF SyncType, GoesOn
<1>3. Enqueues(q) /\ pull' \in {"begin", "none"}
  BY DEF PullReturns
<1>4. /\ got' \in Seq(Nat) /\ chunks' \in Seq(ChunkType)
      /\ reading' \in {"read", "callback", "done"} /\ wasUpToDate' \in BOOLEAN
      /\ cutShort' = cutShort
      /\ Flow(startedAt, got', chunks', sync'.offset, TRUE, torn')
      /\ \A e \in {"no", "closed"} :
           Accumulated(opts', chunks', sync', reading', e) /\ LeavesNothing(reading', e, chunks', cutShort)
  <2>1. /\ opts' = opts /\ sync' \in SyncType /\ q \in Seq(ChunkType) /\ torn' \in BOOLEAN
        /\ Flow(startedAt, got, q, sync'.offset, TRUE, torn') /\ (reading = "read" => Len(q) <= 1)
        /\ opts.consumer = "accumulate" =>
             \A i \in 1 .. Len(q) : q[i].upToDate => i = Len(q) /\ sync'.upToDate
    BY DEF QueueSuits, GoesOn
  <2> QED BY <1>1, <1>2, <1>3, <2>1, Enqueued
<1>5. ReaderTypeOK'
  BY <1>1, <1>3, <1>4 DEF ReaderTypeOK, PullType, GoesOn
<1>6. startedAt' <= sync'.offset /\ sync'.offset <= tail' /\ (Ended => pull = "none")'
  BY <1>1, <1>2 DEF Ended, GoesOn
<1>7. PullPlaced(pull', conn', opts', sync')
  BY <1>3 DEF PullPlaced, Fetching, Connecting, OnConnection, ReaderInv, GoesOn
<1>8. AtFirst(pull', ended', got', chunks', wasUpToDate', reading')
  BY <1>3 DEF AtFirst
<1>9. Flow(startedAt, got, chunks, sync.offset, Orderly, torn)'
  <2>1. Orderly' = TRUE
    BY <1>3 DEF Orderly, GoesOn
  <2> QED BY <1>4, <2>1 DEF GoesOn
<1>10. /\ Buffering(buffered', pull', sync'.offset, torn') /\ ConnectionFits(conn', buffered', sync'.offset, tail')
       /\ Silenced(aborting', conn')
  BY <1>3 DEF Buffering, ChunkType, GoesOn
<1>11. Accumulated(opts', chunks', sync', reading', ended') /\ LeavesNothing(reading', ended', chunks', cutShort')
  BY <1>4 DEF GoesOn
<1>12. EndsAsExpected'
  BY DEF EndsAsExpected, GoesOn
<1>13. (opts.live = "false" /\ ~opts.capped => sync.upToDate)'
  BY DEF GoesOn
<1> QED BY <1>5, <1>6, <1>7, <1>8, <1>9, <1>10, <1>11, <1>12, <1>13 DEF ReaderInv

LEMMA NoneFits ==
  ASSUME NEW c \in ConnType, NEW b, NEW o, NEW t, c.st = "none", c.out = <<>>
  PROVE  ConnectionFits(c, b, o, t)
BY DEF ConnectionFits, EventsFit, ConnType

LEMMA EndsRange ==
  ASSUME NEW o \in Nat, tail \in Nat, o <= tail, NEW to \in Ends(o)
  PROVE  to \in Nat /\ o <= to /\ to <= tail
BY DEF Ends

\* A session that is not reading a connection has nothing buffered.
LEMMA NothingBuffered ==
  ASSUME ReaderInv, ended = "no", pull \notin {"events", "reconnect-data"}
  PROVE  buffered.to = 0 /\ buffered \in ChunkType
<1>1. buffered \in ChunkType /\ buffered.to \in Nat
  BY DEF ReaderInv, ReaderTypeOK, ChunkType
<1>2. ~(buffered.to > 0)
  BY DEF ReaderInv, Ended, Buffering
<1> QED BY <1>1, <1>2

\* Steps that hand nothing over and queue nothing.
Quiet ==
  /\ opts' = opts /\ startedAt' = startedAt /\ got' = got /\ reading' = reading
  /\ wasUpToDate' = wasUpToDate /\ cutShort' = cutShort
  /\ chunks' = chunks \/ (chunks' = <<>> /\ ended' = "error")
  /\ tail' \in Nat /\ tail <= tail' /\ shut' \in BOOLEAN
  /\ sync' \in SyncType /\ sync'.offset = sync.offset /\ (sync.upToDate => sync'.upToDate)
  /\ torn' \in BOOLEAN /\ (torn => torn')
  /\ conn' \in ConnType /\ buffered' \in ChunkType
  /\ ended' = ended \/ (ended = "no" /\ ended' \in {"closed", "error", "cancelled"})
  /\ pull' \in PullType /\ (ended' # "no" => pull' = "none")
  /\ pull' = "first" => pull = "first"
  /\ pull = "first" => pull' = "first" \/ ended' \notin {"no", "closed"}

LEMMA QuietStep ==
  ASSUME ReaderInv, Quiet, PullPlaced(pull', conn', opts', sync'), EndsAsExpected',
         ended' = "no" => /\ Buffering(buffered', pull', sync'.offset, torn')
                          /\ ConnectionFits(conn', buffered', sync'.offset, tail')
                          /\ Silenced(aborting', conn')
  PROVE  ReaderInv'
<1>1. /\ ReaderTypeOK /\ startedAt \in Nat /\ tail \in Nat /\ sync \in SyncType /\ got \in Seq(Nat)
      /\ chunks \in Seq(ChunkType) /\ torn \in BOOLEAN /\ ended \in {"no", "closed", "error", "cancelled"}
  BY DEF ReaderInv, ReaderTypeOK
<1>2. sync.offset \in Nat /\ startedAt <= sync.offset /\ sync.offset <= tail
  BY <1>1 DEF SyncType, ReaderInv
<1>3. chunks' \in Seq(ChunkType) /\ (chunks' # chunks => Len(chunks') = 0)
  <2>1. <<>> \in Seq(ChunkType) /\ Len(<<>>) = 0
    OBVIOUS
  <2> QED BY <1>1, <2>1 DEF Quiet
<1>4. ended' \in {"no", "closed", "error", "cancelled"}
  BY <1>1 DEF Quiet
<1>5. ReaderTypeOK'
  BY <1>1, <1>3, <1>4 DEF ReaderTypeOK, Quiet
<1>6. (startedAt <= sync.offset /\ sync.offset <= tail)' /\ (Ended => pull = "none")'
  BY <1>1, <1>2 DEF Quiet, Ended
<1>7. AtFirst(pull', ended', got', chunks', wasUpToDate', reading')
  BY <1>3 DEF Quiet, AtFirst, ReaderInv
<1>8. Flow(startedAt, got, chunks, sync.offset, Orderly, torn)'
  <2>1. PICK d \in BOOLEAN : d = Orderly
    BY DEF Orderly
  <2>2. PICK e \in BOOLEAN : e = Orderly'
    BY DEF Orderly
  <2>3. e => d
    BY <1>1, <2>1, <2>2 DEF Orderly, Quiet
  <2>4. Flow(startedAt, got, chunks, sync.offset, d, torn)
    BY <2>1 DEF ReaderInv
  <2>5. CASE chunks' = chunks
    <3>1. Flow(startedAt, got, chunks, sync.offset, e, torn')
      BY <1>1, <2>3, <2>4, FlowKept DEF Quiet
    <3> QED BY <2>2, <2>5, <3>1 DEF Quiet
  <2>6. CASE chunks' # chunks
    <3>1. Len(chunks') = 0 /\ e = FALSE
      BY <1>3, <2>2, <2>6 DEF Quiet, Orderly
    <3>2. NoneSkipped(startedAt, got) /\ (~torn => \A j \in 1 .. Len(got) : got[j] = startedAt + j)
      BY <2>4 DEF Flow, Straight
    <3>3. Chain(startedAt, got, chunks') /\ (~torn => Straight(startedAt, got, chunks'))
      BY <1>3, <3>1, <3>2 DEF Chain, Straight
    <3>4. Flow(startedAt, got, chunks', sync.offset, FALSE, torn')
      BY <3>2, <3>3 DEF Flow, Quiet
    <3> QED BY <2>2, <3>1, <3>4 DEF Quiet
  <2> QED BY <2>5, <2>6
<1>9. Accumulated(opts', chunks', sync', reading', ended')
  <2>1. ASSUME opts.consumer = "accumulate", NEW i \in 1 .. Len(chunks'), chunks'[i].upToDate
        PROVE  i = Len(chunks') /\ sync'.upToDate
    <3>1. chunks' = chunks
      BY <1>3, <2>1
    <3> QED BY <2>1, <3>1 DEF ReaderInv, Accumulated, Quiet
  <2>2. reading' = "done" /\ ended' = "no" => opts.consumer = "accumulate" /\ sync'.upToDate
    BY DEF ReaderInv, Accumulated, Quiet
  <2> QED BY <2>1, <2>2 DEF Accumulated, Quiet
<1>10. LeavesNothing(reading', ended', chunks', cutShort')
  BY <1>3 DEF LeavesNothing, Quiet, ReaderInv
<1>11. (opts.live = "false" /\ ~opts.capped => sync.upToDate)'
  BY DEF Quiet, ReaderInv
<1>12. (~Ended => /\ Buffering(buffered, pull, sync.offset, torn)
                  /\ ConnectionFits(conn, buffered, sync.offset, tail)
                  /\ Silenced(aborting, conn))'
  BY DEF Ended
<1> QED BY <1>5, <1>6, <1>7, <1>8, <1>9, <1>10, <1>11, <1>12 DEF ReaderInv

-----------------------------------------------------------------------------
(* The steps of pull() *)

LEMMA YieldFirstStep ==
  ASSUME ReaderInv, YieldFirst
  PROVE  ReaderInv'
<1>1. /\ pull = "first" /\ UNCHANGED <<opts, tail, shut, startedAt, sync, conn, buffered, torn>>
  BY DEF YieldFirst, Elsewhere, streamVars
<1>2. /\ ReaderTypeOK /\ startedAt \in Nat /\ tail \in Nat /\ sync \in SyncType /\ got \in Seq(Nat)
      /\ chunks \in Seq(ChunkType) /\ conn \in ConnType /\ torn \in BOOLEAN /\ opts \in ReaderSetup
      /\ shut \in BOOLEAN /\ cutShort \in BOOLEAN /\ buffered \in ChunkType
  BY DEF ReaderInv, ReaderTypeOK
<1>3. sync.offset \in Nat /\ sync.upToDate \in BOOLEAN /\ startedAt <= sync.offset /\ sync.offset <= tail
  BY <1>2 DEF SyncType, ReaderInv
<1>4. ended = "no" /\ Len(got) = 0 /\ Len(chunks) = 0 /\ reading # "done" /\ conn.st = "none" /\ conn.out = <<>>
  BY <1>1 DEF ReaderInv, AtFirst, PullPlaced
<1>5. PICK c \in ChunkType : c = Chunk(startedAt, sync.offset, sync.upToDate)
  BY <1>2, <1>3 DEF Chunk, ChunkType
<1>6. c.from = startedAt /\ c.to = sync.offset /\ c.upToDate = sync.upToDate
  BY <1>5 DEF Chunk
<1>7. PICK q : q = Append(chunks, c)
  OBVIOUS
<1>8. /\ q \in Seq(ChunkType) /\ (reading = "read" => Len(q) <= 1)
      /\ opts.consumer = "accumulate" => \A i \in 1 .. Len(q) : q[i].upToDate => i = Len(q) /\ sync.upToDate
  BY <1>1, <1>3, <1>4, <1>6, <1>7, QueuedLast
<1>9. Flow(startedAt, got, q, sync.offset, TRUE, torn)
  <2>1. Flow(startedAt, got, chunks, c.from, TRUE, torn)
    BY <1>2, <1>4, <1>6, FlowStarts
  <2>2. Flow(startedAt, got, Append(chunks, c), sync.offset, TRUE, torn)
    <3>1. startedAt <= c.from /\ c.from <= c.to /\ sync.offset = c.to
      BY <1>2, <1>3, <1>6
    <3> QED BY <1>2, <1>3, <2>1, <3>1, FlowAppends
  <2> QED BY <1>7, <2>2
<1>10. ConnectionFits(conn, buffered, sync.offset, tail) /\ buffered.to = 0
  BY <1>1, <1>2, <1>4, NoneFits, NothingBuffered
<1>11. CASE sync.upToDate /\ ~ShouldContinueLive(sync)
  <2>1. ended' = "closed" /\ pull' = "none" /\ Enqueues(q)
    BY <1>5, <1>7, <1>11 DEF YieldFirst
  <2>2. /\ got' \in Seq(Nat) /\ chunks' \in Seq(ChunkType)
        /\ reading' \in {"read", "callback", "done"} /\ wasUpToDate' \in BOOLEAN
        /\ cutShort' = cutShort
        /\ Flow(startedAt, got', chunks', sync.offset, TRUE, torn)
        /\ \A e \in {"no", "closed"} :
             Accumulated(opts', chunks', sync', reading', e) /\ LeavesNothing(reading', e, chunks', cutShort)
    <3>1. /\ opts' = opts /\ sync' \in SyncType /\ sync' = sync
      BY <1>1, <1>2
    <3> QED BY <1>2, <1>3, <1>4, <1>8, <1>9, <2>1, <3>1, Enqueued
  <2>3. ReaderTypeOK'
    BY <1>1, <1>2, <2>1, <2>2 DEF ReaderTypeOK, PullType
  <2>4. PullPlaced(pull', conn', opts', sync')
    BY <1>1, <1>4, <2>1 DEF PullPlaced, Fetching, Connecting, OnConnection
  <2>5. AtFirst(pull', ended', got', chunks', wasUpToDate', reading')
    BY <2>1 DEF AtFirst
  <2>6. Flow(startedAt, got, chunks, sync.offset, Orderly, torn)'
    <3>1. Orderly' = TRUE
      BY <2>1 DEF Orderly
    <3> QED BY <1>1, <2>2, <3>1
  <2>7. EndsAsExpected'
    BY <1>1, <1>11 DEF EndsAsExpected, Done, ShouldContinueLive, Accumulates
  <2>8. (opts.live = "false" /\ ~opts.capped => sync.upToDate)'
    BY <1>1, <1>11
  <2>9. (startedAt <= sync.offset /\ sync.offset <= tail)' /\ (Ended => pull = "none")'
    BY <1>1, <1>3, <2>1
  <2>10. (~Ended => /\ Buffering(buffered, pull, sync.offset, torn)
                    /\ ConnectionFits(conn, buffered, sync.offset, tail)
                    /\ Silenced(aborting, conn))'
    BY <2>1 DEF Ended
  <2>11. Accumulated(opts', chunks', sync', reading', ended') /\ LeavesNothing(reading', ended', chunks', cutShort')
    BY <2>1, <2>2
  <2> QED BY <2>3, <2>4, <2>5, <2>6, <2>7, <2>8, <2>9, <2>10, <2>11 DEF ReaderInv
<1>12. CASE ~(sync.upToDate /\ ~ShouldContinueLive(sync))
  <2>1. PullReturns(q) /\ ended' = "no"
    BY <1>4, <1>5, <1>7, <1>12 DEF YieldFirst
  <2>2. opts.live = "false" /\ ~opts.capped => sync.upToDate
    BY DEF ReaderInv
  <2>3. QueueSuits(q)
    BY <1>1, <1>8, <1>9 DEF QueueSuits
  <2>4. GoesOn
    BY <1>1, <1>2, <1>3, <1>4, <1>10, <2>1, <2>2 DEF GoesOn, Silenced
  <2> QED BY <2>1, <2>3, <2>4, PullReturned
<1> QED BY <1>11, <1>12

LEMMA FetchAnsweredStep ==
  ASSUME ReaderInv, FetchAnswered
  PROVE  ReaderInv'
<1>1. /\ pull \in {"fetch", "resumed-fetch"} /\ ended = "no" /\ ended' = ended
      /\ UNCHANGED <<opts, tail, shut, startedAt, conn, buffered, torn>>
  BY DEF FetchAnswered, Elsewhere, streamVars, Ended
<1>2. /\ ReaderTypeOK /\ startedAt \in Nat /\ tail \in Nat /\ sync \in SyncType /\ got \in Seq(Nat)
      /\ chunks \in Seq(ChunkType) /\ conn \in ConnType /\ torn \in BOOLEAN /\ shut \in BOOLEAN
  BY DEF ReaderInv, ReaderTypeOK
<1>3. sync.offset \in Nat /\ startedAt <= sync.offset /\ sync.offset <= tail
  BY <1>2 DEF SyncType, ReaderInv
<1>4. PICK to \in Ends(sync.offset) :
        /\ sync' = WithResponse(sync, ReadAnswer(sync.offset, to))
        /\ PullReturns(Append(chunks, Chunk(sync.offset, to, to = tail)))
  BY DEF FetchAnswered, UpdateStateFromResponse, ReadAnswer
<1>5. to \in Nat /\ sync.offset <= to /\ to <= tail
  BY <1>2, <1>3, EndsRange
<1>6. PICK u \in BOOLEAN : u = (to = tail)
  OBVIOUS
<1>7. PICK v \in BOOLEAN : v = (sync.streamClosed \/ (shut /\ to = tail))
  OBVIOUS
<1>8. sync' = [sync EXCEPT !.offset = to, !.upToDate = u, !.streamClosed = v]
  BY <1>4, <1>6, <1>7 DEF WithResponse, ReadAnswer
<1>9. sync' \in SyncType /\ sync'.offset = to /\ sync'.upToDate = u
  BY <1>2, <1>5, <1>8 DEF SyncType
<1>10. PICK c \in ChunkType : c = Chunk(sync.offset, to, u)
  BY <1>3, <1>5 DEF Chunk, ChunkType
<1>11. c.from = sync.offset /\ c.to = to /\ c.upToDate = u
  BY <1>10 DEF Chunk
<1>12. PICK q : q = Append(chunks, c)
  OBVIOUS
<1>13. PullReturns(q)
  BY <1>4, <1>6, <1>10, <1>12
<1>14. pull \in Fetching
  BY <1>1 DEF Fetching
<1>15. /\ q \in Seq(ChunkType) /\ (reading = "read" => Len(q) <= 1)
       /\ opts.consumer = "accumulate" => \A i \in 1 .. Len(q) : q[i].upToDate => i = Len(q) /\ sync'.upToDate
  BY <1>1, <1>9, <1>11, <1>12, <1>14, QueuedLast
<1>16. Flow(startedAt, got, q, sync'.offset, TRUE, torn)
  <2>1. Orderly = TRUE
    BY <1>1 DEF Orderly
  <2>2. Flow(startedAt, got, chunks, c.from, TRUE, torn)
    BY <1>11, <2>1 DEF ReaderInv
  <2>3. Flow(startedAt, got, Append(chunks, c), to, TRUE, torn)
    BY <1>2, <1>3, <1>5, <1>11, <2>2, FlowAppends
  <2> QED BY <1>9, <1>12, <2>3
<1>17. conn.st = "none" /\ conn.out = <<>> /\ opts.live # "false"
  BY <1>14 DEF ReaderInv, PullPlaced
<1>18. ConnectionFits(conn', buffered', sync'.offset, tail) /\ buffered'.to = 0 /\ buffered' \in ChunkType
  BY <1>1, <1>2, <1>17, NoneFits, NothingBuffered
<1>19. QueueSuits(q)
  BY <1>1, <1>15, <1>16 DEF QueueSuits
<1>20. GoesOn
  BY <1>1, <1>2, <1>3, <1>5, <1>9, <1>14, <1>17, <1>18 DEF GoesOn, Silenced
<1> QED BY <1>13, <1>19, <1>20, PullReturned

LEMMA EventFacts ==
  ASSUME NEW e \in DataEvent \cup ControlEvent
  PROVE  /\ e.type \in {"data", "control"}
         /\ e.type = "data" => e.from \in Nat /\ e.to \in Nat
         /\ e.type = "control" => e.next \in Nat /\ e.closed \in BOOLEAN /\ e.upToDate \in BOOLEAN
BY DEF DataEvent, ControlEvent

LEMMA SSEStartedStep ==
  ASSUME ReaderInv, SSEStarted
  PROVE  ReaderInv'
<1>1. /\ pull \in {"start-sse", "resumed-sse", "reconnect", "reconnect-data"}
      /\ ended = "no" /\ ended' = ended /\ conn' = NewConn(sync.offset)
      /\ UNCHANGED <<opts, tail, shut, startedAt, sync, torn>> /\ ~aborting'
  BY DEF SSEStarted, Elsewhere, streamVars, Ended, Abortable
<1>2. /\ ReaderTypeOK /\ startedAt \in Nat /\ tail \in Nat /\ sync \in SyncType /\ got \in Seq(Nat)
      /\ chunks \in Seq(ChunkType) /\ conn \in ConnType /\ torn \in BOOLEAN /\ shut \in BOOLEAN
      /\ buffered \in ChunkType
  BY DEF ReaderInv, ReaderTypeOK
<1>3. sync.offset \in Nat /\ startedAt <= sync.offset /\ sync.offset <= tail
  BY <1>2 DEF SyncType, ReaderInv
<1>4. /\ conn' \in ConnType /\ conn'.st = "open" /\ conn'.pos = sync.offset /\ conn'.out = <<>>
  <2>1. <<>> \in Seq(DataEvent \cup ControlEvent)
    OBVIOUS
  <2> QED BY <1>1, <1>3, <2>1 DEF NewConn, ConnType
<1>5. \A b \in ChunkType : b.to = 0 => ConnectionFits(conn', b, sync.offset, tail)
  BY <1>4 DEF ConnectionFits, EventsFit
<1>6. opts.live = "sse" /\ opts.consumer # "accumulate" /\ pull \in Connecting \cup OnConnection
  BY <1>1 DEF ReaderInv, PullPlaced, Connecting, OnConnection
<1>7. CASE pull = "reconnect-data"
  <2>1. buffered' = Chunk(0, 0, FALSE) /\ PullReturns(Append(chunks, buffered))
    BY <1>7 DEF SSEStarted
  <2>2. buffered' \in ChunkType /\ buffered'.to = 0
    BY <2>1 DEF Chunk, ChunkType
  <2>3. torn /\ buffered.from = sync.offset /\ buffered.from <= buffered.to
    BY <1>1, <1>7 DEF ReaderInv, Ended, Buffering
  <2>4. Flow(startedAt, got, Append(chunks, buffered), sync.offset, TRUE, torn)
    <3>1. Orderly = TRUE
      BY <1>1, <1>7 DEF Orderly
    <3>2. Flow(startedAt, got, chunks, buffered.from, TRUE, torn)
      BY <2>3, <3>1 DEF ReaderInv
    <3>3. startedAt <= buffered.from
      BY <1>3, <2>3
    <3> QED BY <1>2, <1>3, <2>3, <3>2, <3>3, FlowAppends
  <2>5. /\ Append(chunks, buffered) \in Seq(ChunkType)
        /\ (reading = "read" => Len(Append(chunks, buffered)) <= 1)
    BY <1>1, <1>2, <1>6, QueuedLast
  <2>6. QueueSuits(Append(chunks, buffered))
    BY <1>1, <1>6, <2>4, <2>5 DEF QueueSuits
  <2>7. GoesOn
    BY <1>1, <1>2, <1>3, <1>4, <1>5, <1>6, <2>2 DEF GoesOn, Silenced
  <2> QED BY <2>1, <2>6, <2>7, PullReturned
<1>8. CASE pull # "reconnect-data"
  <2>1. pull' = "events" /\ UNCHANGED <<chunks, got, reading, wasUpToDate, cutShort, buffered>>
    BY <1>8 DEF SSEStarted, consumerVars
  <2>2. buffered.to = 0
    BY <1>1, <1>8, NothingBuffered
  <2>3. Quiet
    BY <1>1, <1>2, <1>4, <2>1 DEF Quiet, PullType, OnConnection
  <2>4. PullPlaced(pull', conn', opts', sync')
    BY <1>1, <1>4, <1>6, <2>1 DEF PullPlaced, Fetching, Connecting
  <2>5. Buffering(buffered', pull', sync'.offset, torn') /\ ConnectionFits(conn', buffered', sync'.offset, tail')
    BY <1>1, <1>2, <1>5, <2>1, <2>2 DEF Buffering
  <2>6. EndsAsExpected'
    BY <1>1 DEF EndsAsExpected
  <2>7. Silenced(aborting', conn')
    BY <1>1 DEF Silenced
  <2> QED BY <2>3, <2>4, <2>5, <2>6, <2>7, QuietStep
<1> QED BY <1>7, <1>8

\* Where the session is when it reads its connection.
LEMMA Events ==
  ASSUME ReaderInv, pull = "events", ended = "no"
  PROVE  /\ opts.live = "sse" /\ opts.consumer # "accumulate" /\ pull \in OnConnection
         /\ Orderly = TRUE /\ Flow(startedAt, got, chunks, sync.offset, TRUE, torn)
         /\ Buffering(buffered, pull, sync.offset, torn) /\ ConnectionFits(conn, buffered, sync.offset, tail)
<1>1. pull \in OnConnection /\ Orderly = TRUE
  BY DEF OnConnection, Orderly
<1> QED BY <1>1 DEF ReaderInv, PullPlaced, Ended

LEMMA SSEDataStep ==
  ASSUME ReaderInv, SSEEvent, conn.out[1].type = "data"
  PROVE  ReaderInv'
<1>1. /\ pull = "events" /\ ended = "no" /\ ended' = ended /\ conn.out # <<>>
      /\ UNCHANGED <<opts, tail, shut, startedAt, torn>> /\ ~aborting'
  BY DEF SSEEvent, Elsewhere, streamVars, Ended
<1>2. /\ ReaderTypeOK /\ startedAt \in Nat /\ tail \in Nat /\ sync \in SyncType
      /\ conn \in ConnType /\ torn \in BOOLEAN /\ shut \in BOOLEAN /\ buffered \in ChunkType
  BY DEF ReaderInv, ReaderTypeOK
<1>3. PICK w \in Seq(DataEvent \cup ControlEvent) : w = conn.out
  BY <1>2 DEF ConnType
<1>4. PICK n \in Nat : n = Len(w) /\ n # 0
  BY <1>1, <1>3
<1>5. Tail(w) \in Seq(DataEvent \cup ControlEvent) /\ Len(Tail(w)) = n - 1 /\ \A i \in 1 .. n - 1 : Tail(w)[i] = w[i + 1]
  BY <1>1, <1>3, <1>4
<1>6. conn' = [conn EXCEPT !.out = Tail(w)] /\ Head(conn.out) = w[1]
  BY <1>1, <1>3 DEF SSEEvent
<1>7. conn' \in ConnType /\ conn'.out = Tail(w) /\ conn'.st = conn.st /\ conn'.pos = conn.pos
  BY <1>2, <1>5, <1>6 DEF ConnType
<1>8. ConnectionFits(conn, buffered, sync.offset, tail) /\ EventsFit(conn, buffered, sync.offset, tail)
  BY <1>1, Events DEF ConnectionFits
<1>9. n <= 2 /\ \A i \in 1 .. n :
        /\ w[i].type = "data" => i = 1 /\ buffered.to = 0 /\ w[1].from = sync.offset /\ sync.offset < w[1].to /\ w[1].to <= tail
        /\ w[i].type = "control" =>
             /\ i = n /\ w[i].next <= tail
             /\ i = 2 => w[1].type = "data" /\ w[2].next = w[1].to
  BY <1>3, <1>4, <1>8 DEF EventsFit
<1>10. w[1].type = "data" /\ w[1] \in DataEvent \cup ControlEvent /\ w[1].from \in Nat /\ w[1].to \in Nat
  BY <1>3, <1>4, EventFacts
<1>11. 1 \in 1 .. n /\ buffered.to = 0 /\ w[1].from = sync.offset /\ sync.offset < w[1].to /\ w[1].to <= tail
  BY <1>4, <1>9, <1>10
<1>12. /\ buffered' = Chunk(w[1].from, w[1].to, FALSE)
       /\ UNCHANGED <<sync, pull, chunks, got, reading, wasUpToDate, cutShort>>
  BY <1>3, <1>6, <1>10, <1>11 DEF SSEEvent, consumerVars
<1>13. buffered' \in ChunkType /\ buffered'.from = sync.offset /\ buffered'.to = w[1].to /\ buffered'.to > 0
       /\ buffered'.from <= buffered'.to
  <2>1. sync.offset \in Nat
    BY <1>2 DEF SyncType
  <2> QED BY <1>10, <1>11, <1>12, <2>1 DEF Chunk, ChunkType
<1>14. Buffering(buffered', pull', sync'.offset, torn')
  BY <1>1, <1>12, <1>13 DEF Buffering
<1>15. n = 2 => w[2].type = "control" /\ w[2].next = w[1].to /\ w[2].next <= tail /\ Tail(w)[1] = w[2]
  <2>1. ASSUME n = 2 PROVE w[2].type = "control" /\ w[2].next = w[1].to /\ w[2].next <= tail /\ Tail(w)[1] = w[2]
    <3>1. 2 \in 1 .. n /\ 1 \in 1 .. n - 1
      BY <2>1
    <3>2. w[2] \in DataEvent \cup ControlEvent
      BY <1>3, <1>4, <3>1
    <3>3. w[2].type \in {"data", "control"}
      BY <3>2, EventFacts
    <3> QED BY <1>5, <1>9, <3>1, <3>3
  <2> QED BY <2>1
<1>16. Len(conn'.out) = n - 1 /\ (n = 1 => conn'.st # "open")
  <2>1. ASSUME n = 1, conn.st = "open" PROVE FALSE
    <3>1. w[1].type = "control"
      BY <1>3, <1>4, <1>8, <2>1 DEF ConnectionFits
    <3> QED BY <1>10, <3>1
  <2> QED BY <1>5, <1>7, <2>1
<1>17. conn'.st = "open" => conn'.pos = w[2].next /\ n = 2
  <2>1. ASSUME conn.st = "open" PROVE conn.pos = w[n].next
    BY <1>3, <1>4, <1>8, <2>1 DEF ConnectionFits
  <2> QED BY <1>4, <1>7, <1>9, <1>16, <2>1
<1>18. EventsFit(conn', buffered', sync'.offset, tail')
  <2>1. ASSUME NEW i \in 1 .. Len(conn'.out)
        PROVE  i = 1 /\ n = 2 /\ conn'.out[1] = w[2] /\ Len(conn'.out) = 1
    BY <1>4, <1>7, <1>9, <1>15, <1>16
  <2>2. Len(conn'.out) <= 2
    BY <1>4, <1>9, <1>16
  <2> QED BY <1>1, <1>13, <1>15, <2>1, <2>2 DEF EventsFit
<1>19. ConnectionFits(conn', buffered', sync'.offset, tail')
  <2>1. ASSUME conn'.st = "open"
        PROVE  /\ Len(conn'.out) = 1 /\ conn'.out[1].type = "control" /\ conn'.pos = conn'.out[1].next
    BY <1>7, <1>15, <1>16, <1>17, <2>1
  <2> QED BY <1>18, <2>1 DEF ConnectionFits
<1>20. Quiet
  <2>1. conn' \in ConnType /\ buffered' \in ChunkType /\ sync' = sync /\ pull' = "events" /\ tail' = tail
    BY <1>1, <1>7, <1>12, <1>13
  <2>2. chunks' = chunks /\ got' = got /\ reading' = reading /\ wasUpToDate' = wasUpToDate /\ cutShort' = cutShort
    BY <1>12
  <2>3. tail' \in Nat /\ tail <= tail' /\ torn' = torn /\ shut' \in BOOLEAN /\ opts' = opts /\ startedAt' = startedAt
    BY <1>1, <1>2
  <2>4. sync' \in SyncType /\ ended = "no" /\ ended' = ended /\ pull = "events" /\ torn \in BOOLEAN
    BY <1>1, <1>2, <2>1
  <2> QED BY <2>1, <2>2, <2>3, <2>4 DEF Quiet, PullType, OnConnection
<1>21. PullPlaced(pull', conn', opts', sync')
  <2>1. opts.live = "sse" /\ opts.consumer # "accumulate" /\ conn.st # "none"
    BY <1>1, Events DEF ReaderInv, PullPlaced
  <2> QED BY <1>1, <1>7, <1>12, <2>1 DEF PullPlaced, Fetching, Connecting
<1>22. EndsAsExpected'
  BY <1>1 DEF EndsAsExpected
<1>23. Silenced(aborting', conn')
  BY <1>1 DEF Silenced
<1> QED BY <1>14, <1>19, <1>20, <1>21, <1>22, <1>23, QuietStep

LEMMA SSEControlStep ==
  ASSUME ReaderInv, SSEEvent, conn.out[1].type = "control"
  PROVE  ReaderInv'
<1>1. /\ pull = "events" /\ ended = "no" /\ ended' = ended /\ conn.out # <<>>
      /\ UNCHANGED <<opts, tail, shut, startedAt, torn>> /\ ~aborting'
  BY DEF SSEEvent, Elsewhere, streamVars, Ended
<1>2. /\ ReaderTypeOK /\ startedAt \in Nat /\ tail \in Nat /\ sync \in SyncType /\ got \in Seq(Nat)
      /\ chunks \in Seq(ChunkType) /\ conn \in ConnType /\ torn \in BOOLEAN /\ shut \in BOOLEAN
      /\ buffered \in ChunkType
  BY DEF ReaderInv, ReaderTypeOK
<1>3. /\ sync.offset \in Nat /\ startedAt <= sync.offset /\ sync.offset <= tail
      /\ sync.upToDate \in BOOLEAN /\ sync.streamClosed \in BOOLEAN
  BY <1>2 DEF SyncType, ReaderInv
<1>4. PICK w \in Seq(DataEvent \cup ControlEvent) : w = conn.out
  BY <1>2 DEF ConnType
<1>5. PICK n \in Nat : n = Len(w) /\ n # 0
  BY <1>1, <1>4
<1>6. PICK e \in DataEvent \cup ControlEvent : e = w[1]
  BY <1>4, <1>5
<1>7. e.type = "control" /\ e.next \in Nat /\ e.closed \in BOOLEAN /\ e.upToDate \in BOOLEAN
  BY <1>4, <1>6, EventFacts
<1>8. ConnectionFits(conn, buffered, sync.offset, tail) /\ EventsFit(conn, buffered, sync.offset, tail)
  BY <1>1, Events DEF ConnectionFits
<1>9. n = 1 /\ e.next <= tail /\ e.next = IF buffered.to > 0 THEN buffered.to ELSE sync.offset
  <2>1. 1 \in 1 .. Len(conn.out) /\ conn.out[1] = e
    BY <1>4, <1>5, <1>6
  <2>2. 1 = Len(conn.out) /\ e.next <= tail
    BY <1>7, <1>8, <2>1 DEF EventsFit
  <2>3. e.next = IF buffered.to > 0 THEN buffered.to ELSE sync.offset
    BY <1>7, <1>8, <2>1 DEF EventsFit
  <2> QED BY <1>4, <1>5, <2>2, <2>3
<1>10. conn.st = "open" => conn.pos = e.next
  BY <1>4, <1>5, <1>6, <1>8, <1>9 DEF ConnectionFits
<1>11. Tail(w) \in Seq(DataEvent \cup ControlEvent) /\ Len(Tail(w)) = 0 /\ Head(w) = e
  <2>1. w # <<>> /\ Len(w) = 1
    BY <1>1, <1>4, <1>5, <1>9
  <2>2. Tail(w) \in Seq(DataEvent \cup ControlEvent)
    BY <2>1
  <2>3. Len(Tail(w)) = 0
    BY <2>1
  <2>4. Head(w) = e
    BY <1>6, <2>1
  <2> QED BY <2>2, <2>3, <2>4
<1>12. conn' = [conn EXCEPT !.out = Tail(w)] /\ sync' = WithControl(sync, e) /\ buffered' = Chunk(0, 0, FALSE)
  BY <1>4, <1>7, <1>11 DEF SSEEvent
<1>13. conn' \in ConnType /\ conn'.out = Tail(w) /\ conn'.st = conn.st /\ conn'.pos = conn.pos
  BY <1>2, <1>11, <1>12 DEF ConnType
<1>14. buffered' \in ChunkType /\ buffered'.to = 0
  BY <1>12 DEF Chunk, ChunkType
<1>15. PICK u \in BOOLEAN : u = (e.closed \/ e.upToDate \/ sync.upToDate)
  OBVIOUS
<1>16. PICK v \in BOOLEAN : v = (sync.streamClosed \/ e.closed)
  OBVIOUS
<1>17. sync' = [sync EXCEPT !.offset = e.next, !.streamClosed = v, !.upToDate = u]
  BY <1>12, <1>15, <1>16 DEF WithControl
<1>18. sync' \in SyncType /\ sync'.offset = e.next /\ sync'.upToDate = u
  BY <1>2, <1>7, <1>17 DEF SyncType
<1>19. ConnectionFits(conn', buffered', sync'.offset, tail)
  <2>1. Len(conn'.out) = 0 /\ (conn'.st = "open" => conn'.pos = sync'.offset)
    BY <1>10, <1>11, <1>13, <1>18
  <2> QED BY <1>14, <2>1 DEF ConnectionFits, EventsFit
<1>20. /\ opts.live = "sse" /\ opts.consumer # "accumulate" /\ pull \in OnConnection
       /\ Flow(startedAt, got, chunks, sync.offset, TRUE, torn)
       /\ Buffering(buffered, pull, sync.offset, torn)
  BY <1>1, Events
<1>21. buffered.from \in Nat /\ buffered.to \in Nat
  BY <1>2 DEF ChunkType
<1>22. buffered.to > 0 => buffered.from = sync.offset /\ buffered.from <= buffered.to
  BY <1>20 DEF Buffering
<1>23. conn.st # "none"
  BY <1>1, <1>4 DEF ReaderInv, PullPlaced
<1>24. sync.offset <= sync'.offset
  BY <1>3, <1>9, <1>18, <1>21, <1>22
<1>25. GoesOn
  BY <1>1, <1>2, <1>9, <1>13, <1>14, <1>18, <1>19, <1>20, <1>23, <1>24 DEF GoesOn, Silenced
<1>26. ASSUME NEW c \in ChunkType, c.from = sync.offset, c.to = e.next, PullReturns(Append(chunks, c))
       PROVE  ReaderInv'
  <2>1. Flow(startedAt, got, Append(chunks, c), e.next, TRUE, torn)
    <3>1. Flow(startedAt, got, chunks, c.from, TRUE, torn)
      BY <1>20, <1>26
    <3>2. startedAt <= c.from /\ c.from <= c.to /\ e.next = c.to
      BY <1>3, <1>18, <1>24, <1>26
    <3> QED BY <1>2, <1>7, <3>1, <3>2, FlowAppends
  <2>2. /\ Append(chunks, c) \in Seq(ChunkType)
        /\ (reading = "read" => Len(Append(chunks, c)) <= 1)
    BY <1>1, <1>20, QueuedLast
  <2>3. QueueSuits(Append(chunks, c))
    BY <1>1, <1>18, <1>20, <2>1, <2>2 DEF QueueSuits
  <2> QED BY <1>25, <1>26, <2>3, PullReturned
<1>27. CASE buffered.to > 0
  <2>1. PICK c \in ChunkType : c = [buffered EXCEPT !.upToDate = e.upToDate]
    BY <1>2, <1>7 DEF ChunkType
  <2>2. c.from = sync.offset /\ c.to = e.next
    BY <1>2, <1>9, <1>22, <1>27, <2>1 DEF ChunkType
  <2>3. PullReturns(Append(chunks, c))
    BY <1>4, <1>7, <1>11, <1>27, <2>1 DEF SSEEvent
  <2> QED BY <1>26, <2>2, <2>3
<1>28. CASE ~(buffered.to > 0) /\ e.upToDate
  <2>1. PICK c \in ChunkType : c = Chunk(e.next, e.next, TRUE)
    BY <1>7 DEF Chunk, ChunkType
  <2>2. c.from = sync.offset /\ c.to = e.next
    BY <1>9, <1>28, <2>1 DEF Chunk
  <2>3. PullReturns(Append(chunks, c))
    BY <1>4, <1>7, <1>11, <1>28, <2>1 DEF SSEEvent
  <2> QED BY <1>26, <2>2, <2>3
<1>29. CASE ~(buffered.to > 0) /\ ~e.upToDate
  <2>1. UNCHANGED <<pull, chunks, got, reading, wasUpToDate, cutShort>>
    BY <1>4, <1>7, <1>11, <1>29 DEF SSEEvent, consumerVars
  <2>2. sync'.offset = sync.offset /\ (sync.upToDate => sync'.upToDate)
    BY <1>9, <1>15, <1>18, <1>29
  <2>3. tail' \in Nat /\ tail <= tail' /\ torn' = torn /\ shut' \in BOOLEAN /\ opts' = opts /\ startedAt' = startedAt
    BY <1>1, <1>2
  <2>4. pull' = "events" /\ ended = "no" /\ ended' = "no"
    BY <1>1, <2>1
  <2>5. Quiet
    BY <1>2, <1>13, <1>14, <1>18, <2>1, <2>2, <2>3, <2>4 DEF Quiet, PullType, OnConnection
  <2>6. PullPlaced(pull', conn', opts', sync')
    BY <1>13, <1>20, <1>23, <2>3, <2>4 DEF PullPlaced, Fetching, Connecting
  <2>7. Buffering(buffered', pull', sync'.offset, torn')
    BY <1>14, <2>4 DEF Buffering
  <2>8. EndsAsExpected'
    BY <2>4 DEF EndsAsExpected
  <2>9. ConnectionFits(conn', buffered', sync'.offset, tail')
    BY <1>1, <1>19
  <2>10. Silenced(aborting', conn')
    BY <1>1 DEF Silenced
  <2> QED BY <2>5, <2>6, <2>7, <2>8, <2>9, <2>10, QuietStep
<1> QED BY <1>27, <1>28, <1>29

LEMMA SSEEventStep ==
  ASSUME ReaderInv, SSEEvent
  PROVE  ReaderInv'
<1>1. conn.out # <<>> /\ conn.out \in Seq(DataEvent \cup ControlEvent)
  BY DEF SSEEvent, ReaderInv, ReaderTypeOK, ConnType
<1>2. conn.out[1] \in DataEvent \cup ControlEvent
  BY <1>1
<1>3. conn.out[1].type \in {"data", "control"}
  BY <1>2, EventFacts
<1> QED BY <1>3, SSEDataStep, SSEControlStep

\* What #trySSEReconnect leaves of the state.
LEMMA Reconnecting ==
  ASSUME ReaderTypeOK, NEW r \in TrySSEReconnect
  PROVE  /\ r.state \in SyncType /\ r.state.offset = sync.offset /\ r.state.upToDate = sync.upToDate
         /\ r.state.streamClosed = sync.streamClosed
         /\ r.again = FALSE => ~r.state.sse \/ ~ShouldContinueLive(sync)
         /\ r.again \in BOOLEAN
<1>1. sync \in SyncType /\ sync.sse \in BOOLEAN
  BY DEF ReaderTypeOK, SyncType
<1>2. CASE ~sync.sse \/ ~ShouldContinueLive(sync)
  <2>1. r.state = sync /\ r.again = FALSE
    BY <1>2 DEF TrySSEReconnect
  <2> QED BY <1>1, <1>2, <2>1
<1>3. CASE ~(~sync.sse \/ ~ShouldContinueLive(sync))
  <2>1. PICK short \in BOOLEAN : r.state = Reconnects(sync, short) /\ r.again = Reconnects(sync, short).sse
    BY <1>3 DEF TrySSEReconnect
  <2>2. PICK s : s = Reconnects(sync, short)
    OBVIOUS
  <2>3. /\ s \in SyncType /\ s.offset = sync.offset /\ s.upToDate = sync.upToDate
        /\ s.streamClosed = sync.streamClosed
    <3>1. CASE ~short
      BY <1>1, <2>2, <3>1 DEF Reconnects, SyncType
    <3>2. CASE short /\ sync.short + 1 >= MaxShortConnections
      BY <1>1, <2>2, <3>2 DEF Reconnects, SyncType
    <3>3. CASE short /\ ~(sync.short + 1 >= MaxShortConnections)
      BY <1>1, <2>2, <3>3 DEF Reconnects, SyncType
    <3> QED BY <3>1, <3>2, <3>3
  <2>4. s.sse \in BOOLEAN
    BY <2>3 DEF SyncType
  <2> QED BY <2>1, <2>2, <2>3, <2>4
<1> QED BY <1>2, <1>3

\* The session ends with its connection, for want of anything to continue.
LEMMA EndsWithConnection ==
  ASSUME ReaderInv, opts.live = "sse", opts.consumer # "accumulate", NEW r \in TrySSEReconnect,
         r.again = FALSE, sync' = r.state, opts' = opts
  PROVE  EndsAsExpected'
<1>1. /\ sync'.streamClosed = sync.streamClosed
      /\ ~sync'.sse \/ ~ShouldContinueLive(sync)
  BY Reconnecting DEF ReaderInv
<1>2. CASE ~sync'.sse
  BY <1>2 DEF EndsAsExpected
<1>3. CASE ~ShouldContinueLive(sync)
  <2>1. sync.streamClosed
    BY <1>3 DEF ShouldContinueLive, Accumulates
  <2> QED BY <1>1, <2>1 DEF EndsAsExpected, Done
<1> QED BY <1>1, <1>2, <1>3

LEMMA SSEEndStep ==
  ASSUME ReaderInv, SSEEnd
  PROVE  ReaderInv'
<1>1. /\ pull = "events" /\ ended = "no" /\ conn.out = <<>> /\ conn.st = "eof"
      /\ UNCHANGED <<opts, tail, shut, startedAt, conn>> /\ ~aborting'
      /\ torn' = (torn \/ buffered.to > 0)
  BY DEF SSEEnd, streamVars, Ended
<1>2. /\ ReaderTypeOK /\ startedAt \in Nat /\ tail \in Nat /\ sync \in SyncType /\ got \in Seq(Nat)
      /\ chunks \in Seq(ChunkType) /\ conn \in ConnType /\ torn \in BOOLEAN /\ shut \in BOOLEAN
      /\ buffered \in ChunkType
  BY DEF ReaderInv, ReaderTypeOK
<1>3. sync.offset \in Nat /\ startedAt <= sync.offset /\ sync.offset <= tail /\ buffered.to \in Nat
  BY <1>2 DEF SyncType, ReaderInv, ChunkType
<1>4. /\ opts.live = "sse" /\ opts.consumer # "accumulate" /\ pull \in OnConnection
      /\ Flow(startedAt, got, chunks, sync.offset, TRUE, torn)
      /\ Buffering(buffered, pull, sync.offset, torn) /\ ConnectionFits(conn, buffered, sync.offset, tail)
  BY <1>1, Events
<1>5. torn' \in BOOLEAN /\ (torn => torn')
  BY <1>1, <1>2
<1>6. PICK r \in TrySSEReconnect :
        /\ sync' = r.state
        /\ CASE r.again /\ buffered.to = 0 ->
                  pull' = "reconnect" /\ UNCHANGED <<chunks, got, consumerVars, ended, buffered>>
             [] r.again /\ buffered.to > 0 ->
                  pull' = "reconnect-data" /\ UNCHANGED <<chunks, got, consumerVars, ended, buffered>>
             [] ~r.again /\ buffered.to = 0 -> Finish("closed") /\ UNCHANGED buffered
             [] OTHER -> /\ PullReturns(Append(chunks, buffered))
                         /\ buffered' = Chunk(0, 0, FALSE) /\ UNCHANGED ended
  BY DEF SSEEnd
<1>7. /\ sync' \in SyncType /\ sync'.offset = sync.offset /\ sync'.upToDate = sync.upToDate
      /\ r.again \in BOOLEAN
  BY <1>2, <1>6, Reconnecting
<1>8. tail' \in Nat /\ tail <= tail' /\ shut' \in BOOLEAN /\ opts' = opts /\ startedAt' = startedAt
      /\ conn' \in ConnType
  BY <1>1, <1>2
<1>9. CASE r.again
  <2>1. /\ pull' = IF buffered.to = 0 THEN "reconnect" ELSE "reconnect-data"
        /\ UNCHANGED <<chunks, got, reading, wasUpToDate, cutShort, ended, buffered>>
    <3>1. CASE buffered.to = 0
      BY <1>6, <1>9, <3>1 DEF consumerVars
    <3>2. CASE buffered.to > 0
      <4>1. buffered.to # 0
        BY <3>2
      <4> QED BY <1>6, <1>9, <3>2, <4>1 DEF consumerVars
    <3> QED BY <1>3, <3>1, <3>2
  <2>2. pull' \in {"reconnect", "reconnect-data"} /\ ended' = "no"
    BY <1>1, <2>1
  <2>3. Quiet
    BY <1>1, <1>2, <1>5, <1>7, <1>8, <2>1, <2>2 DEF Quiet, PullType, OnConnection
  <2>4. PullPlaced(pull', conn', opts', sync')
    BY <1>1, <1>4, <1>8, <2>2 DEF PullPlaced, Fetching, Connecting
  <2>5. Buffering(buffered', pull', sync'.offset, torn')
    <3>1. buffered' = buffered /\ sync'.offset = sync.offset /\ (buffered.to > 0 => torn')
      BY <1>1, <1>7, <2>1
    <3>2. buffered.to > 0 => pull' = "reconnect-data" /\ buffered.from = sync.offset /\ buffered.from <= buffered.to
      BY <1>3, <1>4, <2>1 DEF Buffering
    <3>3. pull' = "reconnect-data" => buffered.to > 0
      BY <1>3, <2>1
    <3> QED BY <3>1, <3>2, <3>3 DEF Buffering
  <2>6. EndsAsExpected'
    BY <2>2 DEF EndsAsExpected
  <2>7. ConnectionFits(conn', buffered', sync'.offset, tail')
    BY <1>1, <1>4, <1>7, <2>1
  <2>8. Silenced(aborting', conn')
    BY <1>1 DEF Silenced
  <2> QED BY <2>2, <2>3, <2>4, <2>5, <2>6, <2>7, <2>8, QuietStep
<1>10. CASE ~r.again /\ buffered.to = 0
  <2>1. /\ pull' = "none" /\ ended' = "closed"
        /\ UNCHANGED <<chunks, got, reading, wasUpToDate, cutShort, buffered>>
    BY <1>6, <1>10 DEF consumerVars, Finish
  <2>2. Quiet
    BY <1>1, <1>2, <1>5, <1>7, <1>8, <2>1 DEF Quiet, PullType
  <2>3. PullPlaced(pull', conn', opts', sync')
    BY <1>1, <1>4, <1>8, <2>1 DEF PullPlaced, Fetching, Connecting, OnConnection
  <2>4. EndsAsExpected'
    BY <1>4, <1>6, <1>7, <1>8, <1>10, EndsWithConnection
  <2> QED BY <2>1, <2>2, <2>3, <2>4, QuietStep
<1>11. CASE ~r.again /\ buffered.to # 0
  <2>1. PullReturns(Append(chunks, buffered)) /\ buffered' = Chunk(0, 0, FALSE) /\ ended' = "no" /\ buffered.to > 0
    BY <1>1, <1>3, <1>6, <1>11
  <2>2. buffered' \in ChunkType /\ buffered'.to = 0 /\ torn' = TRUE
    BY <1>1, <2>1 DEF Chunk, ChunkType
  <2>3. buffered.from = sync.offset /\ buffered.from <= buffered.to
    BY <1>4, <2>1 DEF Buffering
  <2>4. Flow(startedAt, got, Append(chunks, buffered), sync.offset, TRUE, TRUE)
    <3>1. Flow(startedAt, got, chunks, buffered.from, TRUE, TRUE)
      BY <1>2, <1>4, <2>3, FlowKept
    <3>2. startedAt <= buffered.from
      BY <1>3, <2>3
    <3> QED BY <1>2, <1>3, <2>3, <3>1, <3>2, FlowAppends
  <2>5. /\ Append(chunks, buffered) \in Seq(ChunkType)
        /\ (reading = "read" => Len(Append(chunks, buffered)) <= 1)
    BY <1>1, <1>2, <1>4, QueuedLast
  <2>6. QueueSuits(Append(chunks, buffered))
    BY <1>4, <1>7, <2>2, <2>4, <2>5 DEF QueueSuits
  <2>7. ConnectionFits(conn', buffered', sync'.offset, tail)
    BY <1>1, <2>2 DEF ConnectionFits, EventsFit
  <2>8. sync.offset <= sync'.offset /\ sync'.offset <= tail
    BY <1>3, <1>7
  <2>9. GoesOn
    BY <1>1, <1>4, <1>5, <1>7, <1>8, <2>1, <2>2, <2>7, <2>8 DEF GoesOn, Silenced
  <2> QED BY <2>1, <2>6, <2>9, PullReturned
<1> QED BY <1>7, <1>9, <1>10, <1>11

LEMMA AbortLandsStep ==
  ASSUME ReaderInv, AbortLands
  PROVE  ReaderInv'
<1>1. /\ pull \in Abortable /\ ended = "no" /\ buffered' = Chunk(0, 0, FALSE)
      /\ UNCHANGED <<opts, tail, shut, startedAt, sync, conn, torn>>
  BY DEF AbortLands, streamVars, Ended
<1>2. /\ ReaderTypeOK /\ startedAt \in Nat /\ tail \in Nat /\ sync \in SyncType
      /\ chunks \in Seq(ChunkType) /\ conn \in ConnType /\ torn \in BOOLEAN /\ shut \in BOOLEAN
  BY DEF ReaderInv, ReaderTypeOK
<1>3. sync.offset \in Nat /\ startedAt <= sync.offset /\ sync.offset <= tail
  BY <1>2 DEF SyncType, ReaderInv
<1>4. buffered' \in ChunkType /\ buffered'.to = 0
  BY <1>1 DEF Chunk, ChunkType
<1>5. tail' \in Nat /\ tail <= tail' /\ shut' \in BOOLEAN /\ opts' = opts /\ startedAt' = startedAt
      /\ conn' = conn /\ sync' = sync /\ torn' = torn
  BY <1>1, <1>2
<1>6. CASE pull \in {"reconnect", "reconnect-data"}
  <2>1. /\ pull' = "none" /\ ended' = "error" /\ chunks' = <<>>
        /\ UNCHANGED <<got, reading, wasUpToDate, cutShort>>
    BY <1>6 DEF AbortLands, Finish, consumerVars
  <2>2. Quiet
    <3>1. conn' \in ConnType /\ pull # "first" /\ pull' \in PullType /\ pull' # "first"
      BY <1>2, <1>5, <1>6, <2>1 DEF PullType
    <3>2. got' = got /\ reading' = reading /\ wasUpToDate' = wasUpToDate /\ cutShort' = cutShort
      BY <2>1
    <3>3. torn' \in BOOLEAN /\ (torn => torn')
      BY <1>2, <1>5
    <3>4. sync' \in SyncType /\ sync'.offset = sync.offset /\ (sync.upToDate => sync'.upToDate)
      <4>1. sync' = sync
        BY <1>5
      <4> QED BY <1>2, <4>1
    <3>5. /\ ended = "no" /\ ended' = "error" /\ pull' = "none" /\ chunks' = <<>>
          /\ buffered' \in ChunkType
      BY <1>1, <1>4, <2>1
    <3>6. tail' \in Nat /\ tail <= tail' /\ shut' \in BOOLEAN /\ opts' = opts /\ startedAt' = startedAt
      BY <1>5
    <3> QED BY <3>1, <3>2, <3>3, <3>4, <3>5, <3>6 DEF Quiet
  <2>3. PullPlaced(pull', conn', opts', sync')
    BY <1>5, <2>1 DEF PullPlaced, Fetching, Connecting, OnConnection, ReaderInv
  <2>4. EndsAsExpected'
    BY <2>1 DEF EndsAsExpected
  <2> QED BY <2>1, <2>2, <2>3, <2>4, QuietStep
<1>7. CASE pull \notin {"reconnect", "reconnect-data"}
  <2>1. PullReturns(chunks) /\ ended' = "no"
    BY <1>1, <1>7 DEF AbortLands
  <2>2. pull \in Fetching \cup Connecting \cup OnConnection
    BY <1>1 DEF Abortable, Fetching, Connecting, OnConnection
  <2>3. Flow(startedAt, got, chunks, sync.offset, TRUE, torn)
    <3>1. Orderly = TRUE
      BY <1>1 DEF Orderly, Abortable
    <3> QED BY <3>1 DEF ReaderInv
  <2>4. QueueSuits(chunks)
    <3>1. reading = "read" => Len(chunks) = 0
      BY DEF ReaderInv, LeavesNothing
    <3>2. opts.consumer = "accumulate" =>
            \A i \in 1 .. Len(chunks) : chunks[i].upToDate => i = Len(chunks) /\ sync.upToDate
      BY DEF ReaderInv, Accumulated
    <3>3. sync' = sync /\ torn' = torn
      BY <1>5
    <3>4. Flow(startedAt, got, chunks, sync'.offset, TRUE, torn')
      BY <2>3, <3>3
    <3>5. chunks \in Seq(ChunkType)
      BY <1>2
    <3>6. opts.consumer = "accumulate" =>
            \A i \in 1 .. Len(chunks) : chunks[i].upToDate => i = Len(chunks) /\ sync'.upToDate
      BY <3>2, <3>3
    <3>7. reading = "read" => Len(chunks) <= 1
      BY <3>1
    <3> QED BY <3>4, <3>5, <3>6, <3>7 DEF QueueSuits
  <2>5. Silenced(aborting, conn) /\ conn.st # "open" /\ conn.out = <<>> /\ ~aborting'
    BY <1>1 DEF AbortLands, ReaderInv, Ended, Silenced
  <2>6. ConnectionFits(conn', buffered', sync'.offset, tail)
    BY <1>4, <1>5, <2>5 DEF ConnectionFits, EventsFit
  <2>7. opts.live = "false" /\ ~opts.capped => sync.upToDate
    BY DEF ReaderInv
  <2>8. tail' = tail /\ shut' = shut
    BY <1>1
  <2>9. /\ sync' \in SyncType /\ sync.offset <= sync'.offset /\ sync'.offset <= tail
        /\ opts.live = "false" /\ ~opts.capped => sync'.upToDate
    <3>1. sync' = sync
      BY <1>5
    <3> QED BY <1>2, <1>3, <2>7, <3>1
  <2>10. torn' \in BOOLEAN /\ opts' = opts /\ startedAt' = startedAt
    BY <1>2, <1>5
  <2>11. /\ conn' \in ConnType /\ (conn'.st # "none" => conn.st # "none")
         /\ (conn'.st = "none" => conn'.out = <<>>)
    BY <1>2, <1>5, <2>5
  <2>12. Silenced(aborting', conn')
    BY <2>5 DEF Silenced
  <2>13. ended = "no"
    BY <1>1
  <2>14. GoesOn
    BY <1>4, <2>1, <2>2, <2>6, <2>8, <2>9, <2>10, <2>11, <2>12, <2>13 DEF GoesOn
  <2> QED BY <2>1, <2>4, <2>14, PullReturned
<1> QED BY <1>6, <1>7

-----------------------------------------------------------------------------
(* The steps that leave the state of the session alone *)

Resting ==
  /\ opts' = opts /\ startedAt' = startedAt /\ got' = got /\ reading' = reading
  /\ wasUpToDate' = wasUpToDate /\ cutShort' = cutShort /\ sync' = sync /\ torn' = torn
  /\ buffered' = buffered

LEMMA RestingQuiet ==
  ASSUME ReaderInv, Resting, tail' \in Nat, tail <= tail', shut' \in BOOLEAN, conn' \in ConnType,
         chunks' = chunks \/ (chunks' = <<>> /\ ended' = "error"),
         ended' = ended \/ (ended = "no" /\ ended' \in {"closed", "error", "cancelled"}),
         pull' \in PullType, ended' # "no" => pull' = "none",
         pull' = "first" => pull = "first",
         pull = "first" => pull' = "first" \/ ended' \notin {"no", "closed"}
  PROVE  Quiet
<1>1. sync \in SyncType /\ torn \in BOOLEAN /\ buffered \in ChunkType
  BY DEF ReaderInv, ReaderTypeOK
<1>2. sync' \in SyncType /\ sync'.offset = sync.offset /\ (sync.upToDate => sync'.upToDate)
  BY <1>1 DEF Resting
<1>3. torn' \in BOOLEAN /\ (torn => torn') /\ buffered' \in ChunkType
  BY <1>1 DEF Resting
<1> QED BY <1>2, <1>3 DEF Resting, Quiet

\* the session neither starts nor ends, and pull() stays where it is
Unmoved ==
  /\ Resting /\ chunks' = chunks /\ ended' = ended /\ pull' = pull
  /\ tail' \in Nat /\ tail <= tail' /\ shut' \in BOOLEAN /\ conn' \in ConnType

LEMMA UnmovedStep ==
  ASSUME ReaderInv, Unmoved, PullPlaced(pull, conn', opts, sync),
         ended = "no" => ConnectionFits(conn', buffered, sync.offset, tail') /\ Silenced(aborting', conn')
  PROVE  ReaderInv'
<1>1. pull \in PullType /\ (ended # "no" => pull = "none")
  BY DEF ReaderInv, ReaderTypeOK, Ended
<1>2. pull = "first" => ended = "no"
  BY DEF ReaderInv, AtFirst
<1>3. Quiet
  BY <1>1, <1>2, RestingQuiet DEF Unmoved
<1>4. pull' = pull /\ opts' = opts /\ sync' = sync /\ torn' = torn /\ buffered' = buffered /\ ended' = ended
  BY DEF Unmoved, Resting
<1>5. PullPlaced(pull', conn', opts', sync')
  BY <1>4
<1>6. EndsAsExpected'
  <2>1. EndsAsExpected
    BY DEF ReaderInv
  <2> QED BY <1>4, <2>1 DEF EndsAsExpected, Done, Accumulates
<1>7. ASSUME ended' = "no"
      PROVE  /\ Buffering(buffered', pull', sync'.offset, torn')
             /\ ConnectionFits(conn', buffered', sync'.offset, tail')
             /\ Silenced(aborting', conn')
  <2>1. Buffering(buffered, pull, sync.offset, torn)
    BY <1>4, <1>7 DEF ReaderInv, Ended
  <2>2. Buffering(buffered', pull', sync'.offset, torn')
    BY <1>4, <2>1
  <2>3. ConnectionFits(conn', buffered', sync'.offset, tail') /\ Silenced(aborting', conn')
    BY <1>4, <1>7
  <2> QED BY <2>2, <2>3
<1> QED BY <1>3, <1>5, <1>6, <1>7, QuietStep

\* A connection that fits still does when the stream has grown.
LEMMA FitsMore ==
  ASSUME NEW c \in ConnType, NEW b, NEW o, NEW t \in Nat, NEW u \in Nat, t <= u,
         ConnectionFits(c, b, o, t)
  PROVE  ConnectionFits(c, b, o, u)
<1>1. PICK w \in Seq(DataEvent \cup ControlEvent) : w = c.out
  BY DEF ConnType
<1>2. \A i \in 1 .. Len(w) : w[i] \in DataEvent \cup ControlEvent
  OBVIOUS
<1>3. EventsFit(c, b, o, t)
  BY DEF ConnectionFits
<1>4. ASSUME NEW i \in 1 .. Len(w), w[i].type = "data"
      PROVE  i = 1 /\ b.to = 0 /\ w[1].from = o /\ o < w[1].to /\ w[1].to <= u
  <2>1. i = 1 /\ b.to = 0 /\ w[1].from = o /\ o < w[1].to /\ w[1].to <= t
    BY <1>1, <1>3, <1>4 DEF EventsFit
  <2>2. w[i].to \in Nat
    BY <1>2, <1>4, EventFacts
  <2> QED BY <2>1, <2>2
<1>5. ASSUME NEW i \in 1 .. Len(w), w[i].type = "control"
      PROVE  /\ i = Len(w) /\ w[i].next <= u
             /\ i = 1 => w[1].next = IF b.to > 0 THEN b.to ELSE o
             /\ i = 2 => w[1].type = "data" /\ w[2].next = w[1].to
  <2>1. /\ i = Len(w) /\ w[i].next <= t
        /\ i = 1 => w[1].next = IF b.to > 0 THEN b.to ELSE o
        /\ i = 2 => w[1].type = "data" /\ w[2].next = w[1].to
    BY <1>1, <1>3, <1>5 DEF EventsFit
  <2>2. w[i].next \in Nat
    BY <1>2, <1>5, EventFacts
  <2>3. w[i].next <= u
    <3>1. PICK m \in Nat : m = w[i].next
      BY <2>2
    <3>2. m <= t
      BY <2>1, <3>1
    <3> QED BY <3>1, <3>2
  <2> QED BY <2>1, <2>3
<1>6. Len(w) <= 2
  BY <1>1, <1>3 DEF EventsFit
<1>7. EventsFit(c, b, o, u)
  BY <1>1, <1>4, <1>5, <1>6 DEF EventsFit
<1> QED BY <1>7 DEF ConnectionFits

LEMMA WriterStep ==
  ASSUME ReaderInv, WriterAppends \/ WriterCloses
  PROVE  ReaderInv'
<1>1. /\ tail \in Nat /\ shut \in BOOLEAN /\ conn \in ConnType
  BY DEF ReaderInv, ReaderTypeOK
<1>2. tail' \in Nat /\ tail <= tail' /\ shut' \in BOOLEAN
  <2>1. CASE WriterAppends
    <3>1. tail' = tail + 1 /\ shut' = shut
      BY <2>1 DEF WriterAppends
    <3> QED BY <1>1, <3>1
  <2>2. CASE WriterCloses
    <3>1. tail' = tail /\ shut' = TRUE
      BY <2>2 DEF WriterCloses
    <3> QED BY <1>1, <3>1
  <2> QED BY <2>1, <2>2
<1>3. /\ UNCHANGED <<opts, startedAt, got, reading, wasUpToDate, cutShort, sync, torn, buffered>>
      /\ UNCHANGED <<chunks, ended, pull, conn, aborting>>
  BY DEF WriterAppends, WriterCloses, consumerVars, pageVars
<1>4. Unmoved
  BY <1>1, <1>2, <1>3 DEF Unmoved, Resting
<1>5. PullPlaced(pull, conn', opts, sync)
  BY <1>3 DEF ReaderInv
<1>6. ended = "no" => ConnectionFits(conn, buffered, sync.offset, tail) /\ Silenced(aborting, conn)
  BY DEF ReaderInv, Ended
<1>7. ended = "no" => ConnectionFits(conn', buffered, sync.offset, tail') /\ Silenced(aborting', conn')
  <2>1. ended = "no" => ConnectionFits(conn, buffered, sync.offset, tail')
    BY <1>1, <1>2, <1>6, FitsMore
  <2> QED BY <1>3, <1>6, <2>1
<1> QED BY <1>4, <1>5, <1>7, UnmovedStep

LEMMA PageShowsStep ==
  ASSUME ReaderInv, PageShows
  PROVE  ReaderInv'
<1>1. tail \in Nat /\ shut \in BOOLEAN /\ conn \in ConnType
  BY DEF ReaderInv, ReaderTypeOK
<1>2. /\ UNCHANGED <<opts, startedAt, got, reading, wasUpToDate, cutShort, sync, torn, buffered>>
      /\ UNCHANGED <<chunks, ended, pull, conn, aborting, tail, shut>>
  BY DEF PageShows, consumerVars, streamVars
<1>3. Unmoved
  BY <1>1, <1>2 DEF Unmoved, Resting
<1>4. PullPlaced(pull, conn', opts, sync)
  BY <1>2 DEF ReaderInv
<1>5. ended = "no" => ConnectionFits(conn, buffered, sync.offset, tail) /\ Silenced(aborting, conn)
  BY DEF ReaderInv, Ended
<1>6. ended = "no" => ConnectionFits(conn', buffered, sync.offset, tail') /\ Silenced(aborting', conn')
  BY <1>2, <1>5
<1> QED BY <1>3, <1>4, <1>6, UnmovedStep

LEMMA PageHidesStep ==
  ASSUME ReaderInv, PageHides
  PROVE  ReaderInv'
<1>1. tail \in Nat /\ shut \in BOOLEAN /\ conn \in ConnType
  BY DEF ReaderInv, ReaderTypeOK
<1>2. /\ UNCHANGED <<opts, startedAt, got, reading, wasUpToDate, cutShort, sync, torn, buffered>>
      /\ UNCHANGED <<chunks, ended, pull, tail, shut>>
      /\ conn' = IF conn.st = "none" THEN conn ELSE [conn EXCEPT !.st = "eof", !.out = <<>>]
  BY DEF PageHides, consumerVars
<1>3. PullPlaced(pull, conn, opts, sync)
  BY DEF ReaderInv
<1>4. /\ conn' \in ConnType /\ conn'.st # "open" /\ conn'.out = <<>>
      /\ conn'.st = "none" <=> conn.st = "none"
  <2>1. CASE conn.st = "none"
    BY <1>1, <1>2, <1>3, <2>1 DEF PullPlaced
  <2>2. CASE conn.st # "none"
    <3>1. <<>> \in Seq(DataEvent \cup ControlEvent)
      OBVIOUS
    <3> QED BY <1>1, <1>2, <2>2, <3>1 DEF ConnType
  <2> QED BY <2>1, <2>2
<1>5. Unmoved
  BY <1>1, <1>2, <1>4 DEF Unmoved, Resting
<1>6. PullPlaced(pull, conn', opts, sync)
  BY <1>3, <1>4 DEF PullPlaced
<1>7. ConnectionFits(conn', buffered, sync.offset, tail') /\ Silenced(aborting', conn')
  BY <1>4 DEF ConnectionFits, EventsFit, Silenced
<1> QED BY <1>5, <1>6, <1>7, UnmovedStep

LEMMA SSEServerTurnStep ==
  ASSUME ReaderInv, SSEServerTurn
  PROVE  ReaderInv'
<1>1. tail \in Nat /\ shut \in BOOLEAN /\ conn \in ConnType /\ sync \in SyncType
  BY DEF ReaderInv, ReaderTypeOK
<1>2. conn.pos \in Nat /\ sync.offset \in Nat /\ sync.offset <= tail
  BY <1>1 DEF ConnType, SyncType, ReaderInv
<1>3. /\ UNCHANGED <<opts, startedAt, got, reading, wasUpToDate, cutShort, sync, torn, buffered>>
      /\ UNCHANGED <<chunks, ended, pull, tail, shut, aborting>>
      /\ conn.st = "open" /\ conn.out = <<>>
  BY DEF SSEServerTurn, consumerVars, streamVars
<1>4. PICK to \in Ends(conn.pos) :
        LET data == IF to > conn.pos
                    THEN <<[type |-> "data", from |-> conn.pos, to |-> to]>> ELSE <<>>
            control == [type |-> "control", next |-> to, closed |-> shut /\ to = tail,
                        upToDate |-> ~shut /\ to = tail]
        IN conn' = [st |-> IF shut /\ to = tail THEN "eof" ELSE "open", pos |-> to,
                    out |-> data \o <<control>>, started |-> TRUE]
  BY DEF SSEServerTurn
<1>5. to \in Nat
  BY <1>1, <1>2 DEF Ends
<1>6. PICK k \in ControlEvent : k = [type |-> "control", next |-> to, closed |-> shut /\ to = tail,
                                     upToDate |-> ~shut /\ to = tail]
  <2>1. PICK a \in BOOLEAN : a = (shut /\ to = tail)
    OBVIOUS
  <2>2. PICK u \in BOOLEAN : u = (~shut /\ to = tail)
    OBVIOUS
  <2>3. [type |-> "control", next |-> to, closed |-> a, upToDate |-> u] \in ControlEvent
    BY <1>5 DEF ControlEvent
  <2> QED BY <2>1, <2>2, <2>3
<1>7. PICK d \in DataEvent : d = [type |-> "data", from |-> conn.pos, to |-> to]
  BY <1>2, <1>5 DEF DataEvent
<1>8. PICK w : w = IF to > conn.pos THEN <<d>> \o <<k>> ELSE <<>> \o <<k>>
  OBVIOUS
<1>9. /\ w \in Seq(DataEvent \cup ControlEvent)
      /\ to > conn.pos => Len(w) = 2 /\ w[1] = d /\ w[2] = k
      /\ ~(to > conn.pos) => Len(w) = 1 /\ w[1] = k
  <2>1. /\ <<d>> \in Seq(DataEvent \cup ControlEvent) /\ <<k>> \in Seq(DataEvent \cup ControlEvent)
        /\ <<>> \in Seq(DataEvent \cup ControlEvent)
    OBVIOUS
  <2>2. CASE to > conn.pos
    BY <1>8, <2>1, <2>2
  <2>3. CASE ~(to > conn.pos)
    <3>1. PICK z \in Seq(DataEvent \cup ControlEvent) : z = <<>> /\ Len(z) = 0
      BY <2>1
    <3>2. PICK y \in Seq(DataEvent \cup ControlEvent) : y = <<k>> /\ Len(y) = 1 /\ y[1] = k
      BY <2>1
    <3>3. w = z \o y
      BY <1>8, <2>3, <3>1, <3>2
    <3>4. w \in Seq(DataEvent \cup ControlEvent) /\ Len(w) = 1
      BY <3>1, <3>2, <3>3
    <3>5. w[1] = y[1]
      BY <3>1, <3>2, <3>3
    <3> QED BY <2>3, <3>2, <3>4, <3>5
  <2> QED BY <2>2, <2>3
<1>10. conn' = [st |-> IF shut /\ to = tail THEN "eof" ELSE "open", pos |-> to, out |-> w, started |-> TRUE]
  <2>1. CASE to > conn.pos
    BY <1>4, <1>6, <1>7, <1>8, <2>1
  <2>2. CASE ~(to > conn.pos)
    BY <1>4, <1>6, <1>8, <2>2
  <2> QED BY <2>1, <2>2
<1>11. conn'.st \in {"eof", "open"} /\ conn'.pos = to /\ conn'.out = w /\ conn' \in ConnType
  BY <1>5, <1>9, <1>10 DEF ConnType
<1>12. Unmoved
  BY <1>1, <1>3, <1>11 DEF Unmoved, Resting
<1>13. PullPlaced(pull, conn', opts, sync)
  BY <1>3, <1>11 DEF PullPlaced, ReaderInv
<1>14. ASSUME ended = "no"
       PROVE  ConnectionFits(conn', buffered, sync.offset, tail') /\ Silenced(aborting', conn')
  <2>1. ConnectionFits(conn, buffered, sync.offset, tail) /\ Silenced(aborting, conn)
    BY <1>14 DEF ReaderInv, Ended
  <2>2. buffered.to = 0 /\ conn.pos = sync.offset
    BY <1>3, <2>1 DEF ConnectionFits
  <2>3. ~aborting'
    BY <1>3, <2>1 DEF Silenced
  <2>4. sync.offset <= to /\ to <= tail
    BY <1>1, <1>2, <2>2, EndsRange
  <2>5. k.type = "control" /\ k.next = to /\ d.type = "data" /\ d.from = sync.offset /\ d.to = to
    BY <1>6, <1>7, <2>2
  <2>6. ASSUME NEW b, NEW o, b.to = 0, o = sync.offset, NEW c, c.out = w, c.pos = to
        PROVE  ConnectionFits(c, b, o, tail)
    <3>1. CASE to > conn.pos
      <4>1. Len(w) = 2 /\ w[1] = d /\ w[2] = k
        BY <1>9, <3>1
      <4>2. o < to
        BY <1>2, <1>5, <2>2, <2>6, <3>1
      <4>3. EventsFit(c, b, o, tail)
        BY <2>4, <2>5, <2>6, <4>1, <4>2 DEF EventsFit
      <4> QED BY <2>5, <2>6, <4>1, <4>3 DEF ConnectionFits
    <3>2. CASE ~(to > conn.pos)
      <4>1. Len(w) = 1 /\ w[1] = k
        BY <1>9, <3>2
      <4>2. o = to
        BY <1>2, <1>5, <2>2, <2>4, <2>6, <3>2
      <4>3. EventsFit(c, b, o, tail)
        BY <2>4, <2>5, <2>6, <4>1, <4>2 DEF EventsFit
      <4> QED BY <2>5, <2>6, <4>1, <4>3 DEF ConnectionFits
    <3> QED BY <3>1, <3>2
  <2>7. ConnectionFits(conn', buffered, sync.offset, tail)
    BY <1>11, <2>2, <2>6
  <2> QED BY <1>3, <2>3, <2>7 DEF Silenced
<1> QED BY <1>12, <1>13, <1>14, UnmovedStep

LEMMA SSEConnectionEndsStep ==
  ASSUME ReaderInv, SSEConnectionEnds
  PROVE  ReaderInv'
<1>1. tail \in Nat /\ shut \in BOOLEAN /\ conn \in ConnType
  BY DEF ReaderInv, ReaderTypeOK
<1>2. /\ UNCHANGED <<opts, startedAt, got, reading, wasUpToDate, cutShort, sync, torn, buffered>>
      /\ UNCHANGED <<chunks, ended, pull, tail, shut, aborting>>
      /\ conn.st = "open"
  BY DEF SSEConnectionEnds, consumerVars, streamVars
<1>3. PICK n \in 0 .. Len(conn.out) : conn' = [conn EXCEPT !.st = "eof", !.out = SubSeq(@, 1, n)]
  BY DEF SSEConnectionEnds
<1>4. PICK w \in Seq(DataEvent \cup ControlEvent) : w = conn.out
  BY <1>1 DEF ConnType
<1>5. PICK v : v = SubSeq(w, 1, n)
  OBVIOUS
<1>6. v \in Seq(DataEvent \cup ControlEvent) /\ Len(v) = n /\ \A i \in 1 .. n : v[i] = w[i]
  BY <1>3, <1>4, <1>5
<1>7. conn' \in ConnType /\ conn'.st = "eof" /\ conn'.out = v
  BY <1>1, <1>3, <1>4, <1>5, <1>6 DEF ConnType
<1>8. Unmoved
  BY <1>1, <1>2, <1>7 DEF Unmoved, Resting
<1>9. PullPlaced(pull, conn', opts, sync)
  BY <1>2, <1>7 DEF PullPlaced, ReaderInv
<1>10. ASSUME ended = "no"
       PROVE  ConnectionFits(conn', buffered, sync.offset, tail') /\ Silenced(aborting', conn')
  <2>1. ConnectionFits(conn, buffered, sync.offset, tail) /\ Silenced(aborting, conn)
    BY <1>10 DEF ReaderInv, Ended
  <2>2. ~aborting'
    BY <1>2, <2>1 DEF Silenced
  <2>3. /\ Len(w) <= 2 /\ n <= Len(w) /\ n \in Nat
        /\ \A i \in 1 .. Len(w) :
             /\ w[i].type = "data" =>
                  i = 1 /\ buffered.to = 0 /\ w[1].from = sync.offset /\ sync.offset < w[1].to /\ w[1].to <= tail
             /\ w[i].type = "control" =>
                  /\ i = Len(w) /\ w[i].next <= tail
                  /\ i = 1 => w[1].next = IF buffered.to > 0 THEN buffered.to ELSE sync.offset
                  /\ i = 2 => w[1].type = "data" /\ w[2].next = w[1].to
    BY <1>3, <1>4, <2>1 DEF ConnectionFits, EventsFit
  <2>4. ASSUME NEW i \in 1 .. n
        PROVE  /\ v[i].type = "data" =>
                    i = 1 /\ buffered.to = 0 /\ v[1].from = sync.offset /\ sync.offset < v[1].to /\ v[1].to <= tail
               /\ v[i].type = "control" =>
                    /\ i = n /\ v[i].next <= tail
                    /\ i = 1 => v[1].next = IF buffered.to > 0 THEN buffered.to ELSE sync.offset
                    /\ i = 2 => v[1].type = "data" /\ v[2].next = v[1].to
    <3>1. i \in 1 .. Len(w) /\ 1 \in 1 .. n
      BY <2>3
    <3>2. v[i] = w[i] /\ v[1] = w[1]
      BY <1>6, <3>1
    <3>3. i = Len(w) => i = n
      BY <2>3
    <3> QED BY <2>3, <3>1, <3>2, <3>3
  <2>5. EventsFit(conn', buffered, sync.offset, tail)
    BY <1>6, <1>7, <2>3, <2>4 DEF EventsFit
  <2>6. ConnectionFits(conn', buffered, sync.offset, tail)
    BY <1>7, <2>5 DEF ConnectionFits
  <2> QED BY <1>2, <2>2, <2>6 DEF Silenced
<1> QED BY <1>8, <1>9, <1>10, UnmovedStep

\* The session ends and what was queued stays, or goes with an error.
LEMMA EndingStep ==
  ASSUME ReaderInv, Resting, ended = "no", ended' \in {"closed", "error", "cancelled"}, pull' = "none",
         chunks' = chunks \/ (chunks' = <<>> /\ ended' = "error"),
         tail' = tail, shut' = shut, conn' = conn, pull = "first" => ended' # "closed", EndsAsExpected'
  PROVE  ReaderInv'
<1>1. tail \in Nat /\ shut \in BOOLEAN /\ conn \in ConnType
  BY DEF ReaderInv, ReaderTypeOK
<1>2. tail' \in Nat /\ tail <= tail' /\ shut' \in BOOLEAN /\ conn' \in ConnType /\ pull' \in PullType
  BY <1>1 DEF PullType
<1>3. Quiet
  BY <1>2, RestingQuiet
<1>4. PullPlaced(pull', conn', opts', sync')
  BY DEF PullPlaced, Fetching, Connecting, OnConnection, ReaderInv, Resting
<1> QED BY <1>3, <1>4, QuietStep

LEMMA ConsumerStopsStep ==
  ASSUME ReaderInv, ConsumerStops
  PROVE  ReaderInv'
<1>1. /\ Resting /\ ended = "no" /\ ended' = "closed" /\ pull' = "none" /\ chunks' = chunks
      /\ tail' = tail /\ shut' = shut /\ conn' = conn /\ reading = "done" /\ opts.consumer = "accumulate"
  BY DEF ConsumerStops, Finish, Resting, streamVars, consumerVars, Ended, Accumulates
<1>2. sync.upToDate /\ pull # "first"
  BY <1>1 DEF ReaderInv, Accumulated, AtFirst
<1>3. EndsAsExpected'
  BY <1>1, <1>2 DEF EndsAsExpected, Done, Accumulates, Resting
<1> QED BY <1>1, <1>2, <1>3, EndingStep

LEMMA RequestFailsStep ==
  ASSUME ReaderInv, RequestFails
  PROVE  ReaderInv'
<1>1. /\ Resting /\ ended = "no" /\ ended' = "error" /\ pull' = "none" /\ chunks' = <<>>
      /\ tail' = tail /\ shut' = shut /\ conn' = conn
  BY DEF RequestFails, Finish, Resting, streamVars, consumerVars, Ended
<1>2. EndsAsExpected'
  BY <1>1 DEF EndsAsExpected
<1> QED BY <1>1, <1>2, EndingStep

LEMMA CancelStep ==
  ASSUME ReaderInv, Cancel
  PROVE  ReaderInv'
<1>1. /\ Resting /\ ended = "no" /\ ended' = "cancelled" /\ pull' = "none" /\ chunks' = chunks
      /\ tail' = tail /\ shut' = shut /\ conn' = conn
  BY DEF Cancel, Resting, streamVars, consumerVars, Ended
<1>2. EndsAsExpected'
  BY <1>1 DEF EndsAsExpected
<1> QED BY <1>1, <1>2, EndingStep

LEMMA PullBeginsStep ==
  ASSUME ReaderInv, PullBegins
  PROVE  ReaderInv'
<1>1. /\ pull = "begin" /\ ended = "no" /\ tail' = tail /\ shut' = shut /\ conn' = conn
      /\ chunks' = chunks /\ aborting' = aborting /\ Resting
  BY DEF PullBegins, streamVars, consumerVars, Ended, Resting
<1>2. /\ tail \in Nat /\ shut \in BOOLEAN /\ conn \in ConnType /\ sync \in SyncType
      /\ opts \in ReaderSetup
  BY DEF ReaderInv, ReaderTypeOK
<1>3. /\ PullPlaced(pull, conn, opts, sync)
      /\ opts.live = "false" /\ ~opts.capped => sync.upToDate
      /\ ConnectionFits(conn, buffered, sync.offset, tail) /\ Silenced(aborting, conn)
  BY <1>1 DEF ReaderInv, Ended
<1>4. buffered.to = 0
  BY <1>1, NothingBuffered
<1>5. ASSUME ended' = "no", pull' \in Fetching \cup Connecting \cup {"events", "wait-events"},
             PullPlaced(pull', conn, opts, sync)
      PROVE  ReaderInv'
  <2>1. /\ tail' \in Nat /\ tail <= tail' /\ shut' \in BOOLEAN /\ conn' \in ConnType
        /\ pull' \in PullType /\ pull' # "first" /\ pull' # "reconnect-data"
    BY <1>1, <1>2, <1>5 DEF PullType, Fetching, Connecting, OnConnection
  <2>2. Quiet
    BY <1>1, <1>5, <2>1, RestingQuiet
  <2>3. PullPlaced(pull', conn', opts', sync')
    BY <1>1, <1>5 DEF Resting
  <2>4. Buffering(buffered', pull', sync'.offset, torn')
    BY <1>1, <1>4, <2>1 DEF Buffering, Resting
  <2>5. ConnectionFits(conn', buffered', sync'.offset, tail') /\ Silenced(aborting', conn')
    BY <1>1, <1>3 DEF Resting
  <2>6. EndsAsExpected'
    BY <1>5 DEF EndsAsExpected
  <2> QED BY <2>2, <2>3, <2>4, <2>5, <2>6, QuietStep
<1>6. CASE conn.st = "none" /\ sync.upToDate /\ opts.live = "sse" /\ ShouldContinueLive(sync)
  <2>1. ended' = "no" /\ pull' \in Connecting
    BY <1>1, <1>6 DEF PullBegins, Connecting
  <2>2. opts.consumer # "accumulate"
    BY <1>6 DEF ShouldContinueLive, Accumulates
  <2>3. PullPlaced(pull', conn, opts, sync)
    BY <1>3, <1>6, <2>1, <2>2 DEF PullPlaced, Connecting, Fetching, OnConnection
  <2> QED BY <1>5, <2>1, <2>3
<1>7. CASE conn.st # "none"
  <2>1. ended' = "no" /\ pull' \in {"events", "wait-events"}
    BY <1>1, <1>7 DEF PullBegins
  <2>2. PullPlaced(pull', conn, opts, sync)
    BY <1>3, <1>7, <2>1 DEF PullPlaced, Connecting, Fetching, OnConnection
  <2> QED BY <1>5, <2>1, <2>2
<1>8. CASE conn.st = "none" /\ ~(sync.upToDate /\ opts.live = "sse") /\ ShouldContinueLive(sync)
  <2>1. ended' = "no" /\ pull' \in Fetching
    BY <1>1, <1>8 DEF PullBegins, Fetching
  <2>2. opts.live # "false" /\ (opts.consumer = "accumulate" => ~sync.upToDate)
    BY <1>8 DEF ShouldContinueLive, Accumulates
  <2>3. PullPlaced(pull', conn, opts, sync)
    BY <1>3, <1>8, <2>1, <2>2 DEF PullPlaced, Connecting, Fetching, OnConnection
  <2> QED BY <1>5, <2>1, <2>3
<1>9. CASE conn.st = "none" /\ ~ShouldContinueLive(sync)
  <2>1. ended' = "closed" /\ pull' = "none"
    BY <1>9 DEF PullBegins
  <2>2. Done(sync) \/ (opts.live = "false" /\ opts.capped)
    BY <1>3, <1>9 DEF ShouldContinueLive, Done, Accumulates
  <2>3. EndsAsExpected'
    BY <1>1, <2>2 DEF EndsAsExpected, Resting, Done, Accumulates
  <2> QED BY <1>1, <2>1, <2>3, EndingStep
<1> QED BY <1>6, <1>7, <1>8, <1>9

LEMMA PullResumesStep ==
  ASSUME ReaderInv, PullResumes
  PROVE  ReaderInv'
<1>1. /\ pull \in {"wait-fetch", "wait-start", "wait-events"} /\ ended = "no"
      /\ UNCHANGED <<opts, tail, shut, startedAt, aborting, conn, buffered, torn>>
  BY DEF PullResumes, streamVars, Ended
<1>2. /\ ReaderTypeOK /\ tail \in Nat /\ shut \in BOOLEAN /\ conn \in ConnType /\ sync \in SyncType
      /\ torn \in BOOLEAN /\ buffered \in ChunkType
  BY DEF ReaderInv, ReaderTypeOK
<1>3. /\ PullPlaced(pull, conn, opts, sync)
      /\ ConnectionFits(conn, buffered, sync.offset, tail) /\ Silenced(aborting, conn)
  BY <1>1 DEF ReaderInv, Ended
<1>4. buffered.to = 0
  BY <1>1, NothingBuffered
<1>5. /\ UNCHANGED <<chunks, got, reading, wasUpToDate, cutShort>>
      /\ sync' \in SyncType /\ sync'.offset = sync.offset /\ sync'.upToDate = sync.upToDate
      /\ \/ ended' = "no" /\ pull' \in {"resumed-sse", "resumed-fetch", "start-sse"}
         \/ ended' = "closed" /\ pull' = "none" /\ EndsAsExpected'
      /\ PullPlaced(pull', conn, opts, sync')
  <2>1. CASE pull = "wait-events"
    <3>1. PICK r \in TrySSEReconnect :
            /\ sync' = r.state
            /\ IF r.again THEN pull' = "resumed-sse" /\ UNCHANGED <<chunks, got, consumerVars, ended>>
               ELSE Finish("closed")
      BY <2>1 DEF PullResumes
    <3>2. /\ sync' \in SyncType /\ sync'.offset = sync.offset /\ sync'.upToDate = sync.upToDate
          /\ r.again \in BOOLEAN
      BY <1>2, <3>1, Reconnecting
    <3>3. opts.live = "sse" /\ opts.consumer # "accumulate"
      BY <1>3, <2>1 DEF PullPlaced, OnConnection
    <3>4. UNCHANGED <<chunks, got, reading, wasUpToDate, cutShort>>
      <4>1. CASE r.again
        BY <3>1, <4>1 DEF consumerVars
      <4>2. CASE ~r.again
        BY <3>1, <4>2 DEF consumerVars, Finish
      <4> QED BY <4>1, <4>2
    <3>5. CASE r.again
      <4>1. ended' = "no" /\ pull' = "resumed-sse"
        BY <1>1, <3>1, <3>5
      <4>2. PullPlaced(pull', conn, opts, sync')
        BY <1>3, <3>3, <4>1 DEF PullPlaced, Fetching, Connecting, OnConnection
      <4> QED BY <3>2, <3>4, <4>1, <4>2
    <3>6. CASE ~r.again
      <4>1. ended' = "closed" /\ pull' = "none"
        BY <3>1, <3>6 DEF Finish
      <4>2. PullPlaced(pull', conn, opts, sync')
        BY <1>3, <3>3, <4>1 DEF PullPlaced, Fetching, Connecting, OnConnection
      <4>3. r.again = FALSE /\ opts' = opts
        BY <1>1, <3>2, <3>6
      <4>4. EndsAsExpected'
        BY <3>1, <3>3, <4>3, EndsWithConnection
      <4> QED BY <3>2, <3>4, <4>1, <4>2, <4>4
    <3> QED BY <3>5, <3>6
  <2>2. CASE pull # "wait-events"
    <3>1. /\ pull' = IF pull = "wait-fetch" THEN "resumed-fetch" ELSE "start-sse"
          /\ UNCHANGED <<sync, chunks, got, reading, wasUpToDate, cutShort, ended>>
      BY <2>2 DEF PullResumes, consumerVars
    <3>2. PullPlaced(pull', conn, opts, sync)
      BY <1>1, <1>3, <2>2, <3>1 DEF PullPlaced, Fetching, Connecting, OnConnection
    <3>3. pull' \in {"resumed-fetch", "start-sse"} /\ ended' = "no" /\ sync' = sync
      BY <1>1, <3>1
    <3> QED BY <1>2, <3>1, <3>2, <3>3
  <2> QED BY <2>1, <2>2
<1>6. /\ tail' \in Nat /\ tail <= tail' /\ shut' \in BOOLEAN /\ conn' \in ConnType /\ torn' \in BOOLEAN
      /\ (torn => torn') /\ buffered' \in ChunkType /\ opts' = opts /\ startedAt' = startedAt /\ pull # "first"
  BY <1>1, <1>2
<1>7. /\ pull' \in {"resumed-sse", "resumed-fetch", "start-sse", "none"} /\ pull' \in PullType
      /\ ended' \in {"no", "closed"} /\ (ended' # "no" => pull' = "none")
  <2>1. pull' \in {"resumed-sse", "resumed-fetch", "start-sse", "none"}
    BY <1>5
  <2>2. ended' \in {"no", "closed"} /\ (ended' # "no" => pull' = "none")
    BY <1>5
  <2> QED BY <2>1, <2>2 DEF PullType, Fetching, Connecting, OnConnection
<1>8. Quiet
  <2>1. /\ got' = got /\ reading' = reading /\ wasUpToDate' = wasUpToDate /\ cutShort' = cutShort
        /\ chunks' = chunks
        /\ sync' \in SyncType /\ sync'.offset = sync.offset /\ (sync.upToDate => sync'.upToDate)
    BY <1>5
  <2>2. ended = "no"
    BY <1>1
  <2> QED BY <1>6, <1>7, <2>1, <2>2 DEF Quiet
<1>9. PullPlaced(pull', conn', opts', sync')
  BY <1>1, <1>5
<1>10. Buffering(buffered', pull', sync'.offset, torn')
  BY <1>1, <1>4, <1>7 DEF Buffering
<1>11. ConnectionFits(conn', buffered', sync'.offset, tail') /\ Silenced(aborting', conn')
  BY <1>1, <1>3, <1>5
<1>12. EndsAsExpected'
  <2>1. ended' = "no" \/ EndsAsExpected'
    BY <1>5
  <2> QED BY <2>1 DEF EndsAsExpected
<1> QED BY <1>8, <1>9, <1>10, <1>11, <1>12, QuietStep

-----------------------------------------------------------------------------
(* The consumer *)

\* What a step of the consumer leaves alone.
LEMMA ConsumerKeeps ==
  ASSUME ReaderInv,
         UNCHANGED <<opts, tail, shut, startedAt, sync, aborting, conn, buffered, torn>>
  PROVE  /\ (startedAt <= sync.offset /\ sync.offset <= tail)'
         /\ (opts.live = "false" /\ ~opts.capped => sync.upToDate)'
         /\ ended = "no" => /\ ConnectionFits(conn', buffered', sync'.offset, tail')
                            /\ Silenced(aborting', conn')
         /\ opts' \in ReaderSetup /\ tail' \in Nat /\ shut' \in BOOLEAN /\ sync' \in SyncType
         /\ conn' \in ConnType /\ buffered' \in ChunkType /\ startedAt' \in Nat /\ torn' \in BOOLEAN
<1>1. /\ opts \in ReaderSetup /\ tail \in Nat /\ shut \in BOOLEAN /\ sync \in SyncType
      /\ conn \in ConnType /\ buffered \in ChunkType /\ startedAt \in Nat /\ torn \in BOOLEAN
  BY DEF ReaderInv, ReaderTypeOK
<1>2. ended = "no" => ConnectionFits(conn, buffered, sync.offset, tail) /\ Silenced(aborting, conn)
  BY DEF ReaderInv, Ended
<1>3. startedAt <= sync.offset /\ sync.offset <= tail /\ (opts.live = "false" /\ ~opts.capped => sync.upToDate)
  BY DEF ReaderInv
<1> QED BY <1>1, <1>2, <1>3

LEMMA ConsumerReadsStep ==
  ASSUME ReaderInv, ConsumerReads
  PROVE  ReaderInv'
<1>1. /\ UNCHANGED <<opts, tail, shut, startedAt, sync, aborting, conn, buffered, torn>>
      /\ UNCHANGED <<ended, cutShort>> /\ reading = "callback"
  BY DEF ConsumerReads, streamVars
<1>2. /\ startedAt \in Nat /\ sync \in SyncType /\ got \in Seq(Nat) /\ chunks \in Seq(ChunkType)
      /\ torn \in BOOLEAN /\ wasUpToDate \in BOOLEAN /\ cutShort \in BOOLEAN
      /\ ended \in {"no", "closed", "error", "cancelled"} /\ pull \in PullType
  BY DEF ReaderInv, ReaderTypeOK
<1>3. sync.offset \in Nat /\ sync.upToDate \in BOOLEAN
  BY <1>2 DEF SyncType
<1>4. /\ pull' = IF ended = "no" /\ pull = "none" THEN "begin" ELSE pull
      /\ ended # "no" => pull = "none"
  BY DEF ConsumerReads, Ended, ReaderInv
<1>5. pull' \in PullType /\ (pull' = "first" <=> pull = "first") /\ (ended # "no" => pull' = "none")
  BY <1>2, <1>4 DEF PullType
<1>6. PICK d \in BOOLEAN : d = Orderly /\ d = Orderly'
  <2>1. PICK d \in BOOLEAN : d = Orderly
    BY DEF Orderly
  <2>2. Orderly' = Orderly
    BY <1>1, <1>5 DEF Orderly
  <2> QED BY <2>1, <2>2
<1>7. Flow(startedAt, got, chunks, sync.offset, d, torn)
  BY <1>6 DEF ReaderInv
<1>8. PullPlaced(pull', conn', opts', sync')
  BY <1>1, <1>4 DEF PullPlaced, Fetching, Connecting, OnConnection, ReaderInv
<1>9. ended' = "no" => Buffering(buffered', pull', sync'.offset, torn')
  <2>1. ended = "no" => Buffering(buffered, pull, sync.offset, torn)
    BY DEF ReaderInv, Ended
  <2>2. ended = "no" => Buffering(buffered, pull', sync.offset, torn)
    BY <1>4, <2>1 DEF Buffering
  <2> QED BY <1>1, <2>2
<1>10. EndsAsExpected'
  BY <1>1 DEF EndsAsExpected, Done, Accumulates, ReaderInv
<1>11. /\ chunks' \in Seq(ChunkType) /\ got' \in Seq(Nat) /\ reading' \in {"read", "callback", "done"}
       /\ wasUpToDate' \in BOOLEAN
       /\ Flow(startedAt, got', chunks', sync.offset, d, torn)
       /\ AtFirst(pull', ended', got', chunks', wasUpToDate', reading')
       /\ Accumulated(opts, chunks', sync, reading', ended)
       /\ LeavesNothing(reading', ended, chunks', cutShort)
  <2>1. CASE chunks # <<>>
    <3>1. /\ chunks' = Tail(chunks) /\ got' = got \o MessagesOf(chunks[1])
          /\ reading' = IF opts.consumer = "accumulate" /\ chunks[1].upToDate THEN "done" ELSE "callback"
          /\ wasUpToDate' = sync.upToDate
      BY <2>1 DEF ConsumerReads, MessagesOf, Accumulates
    <3>2. Len(chunks) > 0 /\ Len(chunks) \in Nat
      <4>1. Len(chunks) \in Nat /\ Len(chunks) # 0
        BY <1>2, <2>1
      <4> QED BY <4>1
    <3>3. /\ Tail(chunks) \in Seq(ChunkType) /\ Len(Tail(chunks)) = Len(chunks) - 1 /\ chunks[1] \in ChunkType
          /\ \A i \in 1 .. Len(chunks) - 1 : Tail(chunks)[i] = chunks[i + 1]
      BY <1>2, <3>2, TailFacts
    <3>4. Flow(startedAt, got', chunks', sync.offset, d, torn)
      <4>1. Flow(startedAt, got \o MessagesOf(chunks[1]), Tail(chunks), sync.offset, d, torn)
        BY <1>2, <1>3, <1>7, <3>2, FlowTakes
      <4> QED BY <3>1, <4>1
    <3>5. chunks[1].from <= chunks[1].to
      BY <1>7, <3>2 DEF Flow, Chain
    <3>6. got' \in Seq(Nat)
      BY <1>2, <3>1, <3>3, <3>5, MessagesAdded
    <3>7. pull' # "first"
      BY <1>5, <3>2 DEF ReaderInv, AtFirst
    <3>8. opts.consumer = "accumulate" =>
            \A i \in 1 .. Len(chunks) : chunks[i].upToDate => i = Len(chunks) /\ sync.upToDate
      BY DEF ReaderInv, Accumulated
    <3>9. reading' \in {"callback", "done"} /\ (reading' = "done" => opts.consumer = "accumulate" /\ chunks[1].upToDate)
      BY <3>1
    <3>10. reading' = "done" => opts.consumer = "accumulate" /\ sync.upToDate /\ Len(chunks) = 1
      <4>1. 1 \in 1 .. Len(chunks)
        BY <3>2
      <4>2. ASSUME reading' = "done"
            PROVE  opts.consumer = "accumulate" /\ sync.upToDate /\ 1 = Len(chunks)
        BY <3>8, <3>9, <4>1, <4>2
      <4> QED BY <4>2
    <3>11. ASSUME opts.consumer = "accumulate", NEW i \in 1 .. Len(chunks'), chunks'[i].upToDate
           PROVE  i = Len(chunks') /\ sync.upToDate
      <4>1. i \in 1 .. Len(chunks) - 1 /\ i + 1 \in 1 .. Len(chunks) /\ chunks[i + 1].upToDate
        BY <3>1, <3>2, <3>3, <3>11
      <4>2. i + 1 = Len(chunks) /\ sync.upToDate
        BY <3>8, <3>11, <4>1
      <4>3. Len(chunks') = Len(chunks) - 1
        BY <3>1, <3>3
      <4>4. i = Len(chunks) - 1
        <5>1. PICK n \in Nat : n = Len(chunks)
          BY <3>2
        <5>2. i \in Int /\ i + 1 = n
          BY <4>2, <5>1
        <5> QED BY <5>1, <5>2
      <4> QED BY <4>2, <4>3, <4>4
    <3>12. Accumulated(opts, chunks', sync, reading', ended)
      BY <3>10, <3>11 DEF Accumulated
    <3>13. LeavesNothing(reading', ended, chunks', cutShort)
      BY <3>1, <3>3, <3>9, <3>10 DEF LeavesNothing
    <3> QED BY <1>3, <3>1, <3>3, <3>4, <3>6, <3>7, <3>9, <3>12, <3>13 DEF AtFirst
  <2>2. CASE chunks = <<>>
    <3>1. /\ reading' = (IF Ended THEN "done" ELSE "read")
          /\ chunks' = chunks /\ got' = got /\ wasUpToDate' = wasUpToDate
      BY <2>2 DEF ConsumerReads
    <3>2. Len(chunks) = 0
      BY <2>2
    <3>3. reading' \in {"read", "done"} /\ (reading' = "done" => ended # "no")
      BY <3>1 DEF Ended
    <3>4. AtFirst(pull', ended', got', chunks', wasUpToDate', reading')
      <4>1. AtFirst(pull, ended, got, chunks, wasUpToDate, reading)
        BY DEF ReaderInv
      <4> QED BY <1>1, <1>5, <3>1, <3>3, <4>1 DEF AtFirst
    <3>5. Flow(startedAt, got', chunks', sync.offset, d, torn)
      BY <1>7, <3>1
    <3>6. Accumulated(opts, chunks', sync, reading', ended) /\ LeavesNothing(reading', ended, chunks', cutShort)
      BY <3>1, <3>2, <3>3 DEF Accumulated, LeavesNothing
    <3> QED BY <1>2, <3>1, <3>3, <3>4, <3>5, <3>6
  <2> QED BY <2>1, <2>2
<1>12. /\ (startedAt <= sync.offset /\ sync.offset <= tail)'
       /\ (opts.live = "false" /\ ~opts.capped => sync.upToDate)'
       /\ ended = "no" => /\ ConnectionFits(conn', buffered', sync'.offset, tail')
                          /\ Silenced(aborting', conn')
       /\ opts' \in ReaderSetup /\ tail' \in Nat /\ shut' \in BOOLEAN /\ sync' \in SyncType
       /\ conn' \in ConnType /\ buffered' \in ChunkType /\ startedAt' \in Nat /\ torn' \in BOOLEAN
  BY <1>1, ConsumerKeeps
<1>13. cutShort' \in BOOLEAN /\ ended' \in {"no", "closed", "error", "cancelled"}
  BY <1>1, <1>2
<1>14. ReaderTypeOK'
  BY <1>5, <1>11, <1>12, <1>13 DEF ReaderTypeOK
<1>15. Flow(startedAt, got, chunks, sync.offset, Orderly, torn)'
  BY <1>1, <1>6, <1>11
<1>16. /\ Accumulated(opts', chunks', sync', reading', ended')
       /\ LeavesNothing(reading', ended', chunks', cutShort')
  BY <1>1, <1>11
<1>17. (Ended => pull = "none")'
  BY <1>1, <1>5 DEF Ended
<1>18. (~Ended => /\ Buffering(buffered, pull, sync.offset, torn)
                  /\ ConnectionFits(conn, buffered, sync.offset, tail)
                  /\ Silenced(aborting, conn))'
  BY <1>1, <1>9, <1>12 DEF Ended
<1> QED BY <1>8, <1>10, <1>11, <1>12, <1>14, <1>15, <1>16, <1>17, <1>18 DEF ReaderInv

\* The consumer is through, and the session with it.
LEMMA ThroughStep ==
  ASSUME ReaderInv,
         UNCHANGED <<opts, tail, shut, startedAt, sync, aborting, conn, buffered, torn>>,
         UNCHANGED <<chunks, got, wasUpToDate>>, reading' = "done", pull' = "none",
         cutShort' \in BOOLEAN, ended' \in {"closed", "error"}, opts.consumer # "accumulate",
         ended' = "closed" => Orderly /\ (Len(chunks) = 0 \/ cutShort'), EndsAsExpected'
  PROVE  ReaderInv'
<1>1. /\ startedAt \in Nat /\ sync \in SyncType /\ got \in Seq(Nat) /\ chunks \in Seq(ChunkType)
      /\ torn \in BOOLEAN /\ wasUpToDate \in BOOLEAN
  BY DEF ReaderInv, ReaderTypeOK
<1>2. /\ (startedAt <= sync.offset /\ sync.offset <= tail)'
      /\ (opts.live = "false" /\ ~opts.capped => sync.upToDate)'
      /\ opts' \in ReaderSetup /\ tail' \in Nat /\ shut' \in BOOLEAN /\ sync' \in SyncType
      /\ conn' \in ConnType /\ buffered' \in ChunkType /\ startedAt' \in Nat /\ torn' \in BOOLEAN
  BY ConsumerKeeps
<1>3. ReaderTypeOK'
  BY <1>1, <1>2 DEF ReaderTypeOK, PullType
<1>4. (Ended => pull = "none")' /\ Ended'
  BY DEF Ended
<1>5. PullPlaced(pull', conn', opts', sync')
  BY DEF PullPlaced, Fetching, Connecting, OnConnection, ReaderInv
<1>6. AtFirst(pull', ended', got', chunks', wasUpToDate', reading')
  BY DEF AtFirst
<1>7. Flow(startedAt, got, chunks, sync.offset, Orderly, torn)'
  <2>1. PICK d \in BOOLEAN : d = Orderly
    BY DEF Orderly
  <2>2. PICK e \in BOOLEAN : e = Orderly'
    BY DEF Orderly
  <2>3. e => d
    BY <2>1, <2>2 DEF Orderly
  <2>4. Flow(startedAt, got, chunks, sync.offset, d, torn)
    BY <2>1 DEF ReaderInv
  <2>5. Flow(startedAt, got, chunks, sync.offset, e, torn)
    BY <1>1, <2>3, <2>4, FlowKept
  <2> QED BY <2>2, <2>5
<1>8. Accumulated(opts', chunks', sync', reading', ended')
  BY DEF Accumulated
<1>9. LeavesNothing(reading', ended', chunks', cutShort')
  BY DEF LeavesNothing
<1> QED BY <1>2, <1>3, <1>4, <1>5, <1>6, <1>7, <1>8, <1>9 DEF ReaderInv

LEMMA PipeStopsStep ==
  ASSUME ReaderInv, PipeStops
  PROVE  ReaderInv'
<1>1. /\ UNCHANGED <<opts, tail, shut, startedAt, sync, aborting, conn, buffered, torn>>
      /\ UNCHANGED <<chunks, got, wasUpToDate>> /\ reading' = "done" /\ pull' = "none"
      /\ cutShort' = (chunks # <<>>) /\ ended' = "closed" /\ ended \in {"no", "closed"}
      /\ opts.consumer = "pipe" /\ wasUpToDate /\ ~ShouldContinueLive(sync)
  BY DEF PipeStops, PipeBreaks, streamVars
<1>2. pull # "first"
  BY <1>1 DEF ReaderInv, AtFirst
<1>3. Orderly
  BY <1>1, <1>2 DEF Orderly
<1>4. cutShort' \in BOOLEAN /\ (Len(chunks) = 0 \/ cutShort')
  <2>1. PICK b \in BOOLEAN : b = (chunks # <<>>)
    OBVIOUS
  <2>2. cutShort' = b
    BY <1>1, <2>1
  <2>3. chunks = <<>> => Len(chunks) = 0
    OBVIOUS
  <2>4. chunks # <<>> => b = TRUE
    BY <2>1
  <2> QED BY <2>2, <2>3, <2>4
<1>5. opts.live = "false" /\ ~opts.capped => sync.upToDate
  BY DEF ReaderInv
<1>6. Done(sync) \/ (opts.live = "false" /\ opts.capped)
  BY <1>1, <1>5 DEF ShouldContinueLive, Done, Accumulates
<1>7. EndsAsExpected'
  BY <1>1, <1>6 DEF EndsAsExpected, Done, Accumulates
<1>8. opts.consumer # "accumulate"
  BY <1>1
<1> QED BY <1>1, <1>3, <1>4, <1>7, <1>8, ThroughStep

LEMMA ConsumerFailsStep ==
  ASSUME ReaderInv, ConsumerFails
  PROVE  ReaderInv'
<1>1. /\ UNCHANGED <<opts, tail, shut, startedAt, sync, aborting, conn, buffered, torn>>
      /\ UNCHANGED <<chunks, got, wasUpToDate>> /\ reading' = "done" /\ pull' = "none"
      /\ cutShort' = cutShort /\ ended' = "error" /\ opts.consumer # "accumulate"
  BY DEF ConsumerFails, streamVars, Accumulates
<1>2. cutShort' \in BOOLEAN
  BY <1>1 DEF ReaderInv, ReaderTypeOK
<1>3. EndsAsExpected'
  BY <1>1 DEF EndsAsExpected
<1> QED BY <1>1, <1>2, <1>3, ThroughStep

-----------------------------------------------------------------------------
(* The theorem *)

LEMMA ReaderInitInv ==
  ASSUME ReaderInit
  PROVE  ReaderInv
<1>1. /\ opts \in ReaderSetup /\ tail \in Nat /\ shut \in BOOLEAN
  BY ReaderBounds DEF ReaderInit
<1>2. PICK o \in Nat : o = (IF opts.now THEN tail ELSE 0) /\ o <= tail
  BY <1>1
<1>3. PICK to \in Ends(o) : NewSession(ReadAnswer(o, to))
  BY <1>2 DEF ReaderInit
<1>4. to \in Nat /\ o <= to /\ to <= tail
  BY <1>1, <1>2, EndsRange
<1>5. PICK u \in BOOLEAN : u = (to = tail)
  OBVIOUS
<1>6. PICK c \in BOOLEAN : c = (shut /\ to = tail)
  OBVIOUS
<1>7. PICK e \in BOOLEAN : e = (opts.live = "sse")
  OBVIOUS
<1>8. /\ sync = [offset |-> to, upToDate |-> u, streamClosed |-> c, sse |-> e, short |-> 0]
      /\ startedAt = o
  BY <1>3, <1>5, <1>6, <1>7 DEF NewSession, ReadAnswer
<1>9. /\ pull = "first" /\ chunks = <<>> /\ reading \in {"callback", "read"} /\ wasUpToDate = FALSE
      /\ aborting = FALSE /\ conn = NoConn /\ buffered = Chunk(0, 0, FALSE)
      /\ ended = "no" /\ got = <<>> /\ torn = FALSE /\ cutShort = FALSE
  BY <1>3 DEF NewSession
<1>10. sync \in SyncType /\ sync.offset = to /\ sync.upToDate = u
  BY <1>4, <1>8 DEF SyncType
<1>11. conn \in ConnType /\ conn.st = "none" /\ conn.out = <<>>
  <2>1. <<>> \in Seq(DataEvent \cup ControlEvent)
    OBVIOUS
  <2> QED BY <1>9, <2>1 DEF NoConn, ConnType
<1>12. buffered \in ChunkType /\ buffered.to = 0
  BY <1>9 DEF Chunk, ChunkType
<1>13. chunks \in Seq(ChunkType) /\ got \in Seq(Nat) /\ Len(chunks) = 0 /\ Len(got) = 0
  BY <1>9
<1>14. ReaderTypeOK
  <2>1. startedAt \in Nat /\ torn \in BOOLEAN /\ cutShort \in BOOLEAN /\ wasUpToDate \in BOOLEAN
    BY <1>8, <1>9
  <2>2. pull \in PullType /\ reading \in {"read", "callback", "done"} /\ ended \in {"no", "closed", "error", "cancelled"}
    BY <1>9 DEF PullType
  <2> QED BY <1>1, <1>10, <1>11, <1>12, <1>13, <2>1, <2>2 DEF ReaderTypeOK
<1>15. startedAt <= sync.offset /\ sync.offset <= tail
  BY <1>4, <1>8, <1>10
<1>16. Ended = FALSE /\ Orderly = FALSE
  BY <1>9 DEF Ended, Orderly
<1>17. PullPlaced(pull, conn, opts, sync)
  BY <1>9, <1>11 DEF PullPlaced, Fetching, Connecting, OnConnection
<1>18. AtFirst(pull, ended, got, chunks, wasUpToDate, reading)
  BY <1>9, <1>13 DEF AtFirst
<1>19. Flow(startedAt, got, chunks, sync.offset, Orderly, torn)
  <2>1. Flow(startedAt, got, chunks, startedAt, TRUE, FALSE)
    BY <1>2, <1>8, <1>13, FlowStarts
  <2>2. NoneSkipped(startedAt, got) /\ Chain(startedAt, got, chunks) /\ Straight(startedAt, got, chunks)
    BY <2>1 DEF Flow
  <2> QED BY <1>16, <2>2 DEF Flow
<1>20. Buffering(buffered, pull, sync.offset, torn)
  <2>1. pull = "first" /\ buffered.to = 0
    BY <1>9, <1>12
  <2> QED BY <2>1 DEF Buffering
<1>21. ConnectionFits(conn, buffered, sync.offset, tail) /\ Silenced(aborting, conn)
  BY <1>9, <1>11, NoneFits DEF Silenced
<1>22. /\ Accumulated(opts, chunks, sync, reading, ended) /\ LeavesNothing(reading, ended, chunks, cutShort)
  BY <1>9, <1>13 DEF Accumulated, LeavesNothing
<1>23. ~opts.capped => sync.upToDate
  <2>1. ~opts.capped => to = tail
    BY DEF Ends
  <2> QED BY <1>5, <1>10, <2>1
<1>24. EndsAsExpected
  BY <1>9 DEF EndsAsExpected
<1> QED BY <1>14, <1>15, <1>16, <1>17, <1>18, <1>19, <1>20, <1>21, <1>22, <1>23, <1>24 DEF ReaderInv

LEMMA ReaderStutters ==
  ASSUME ReaderInv, UNCHANGED readerVars
  PROVE  ReaderInv'
<1>1. tail \in Nat /\ shut \in BOOLEAN /\ conn \in ConnType
  BY DEF ReaderInv, ReaderTypeOK
<1>2. /\ UNCHANGED <<opts, startedAt, got, reading, wasUpToDate, cutShort, sync, torn, buffered>>
      /\ UNCHANGED <<chunks, ended, pull, conn, aborting, tail, shut>>
  BY DEF readerVars
<1>3. Unmoved
  BY <1>1, <1>2 DEF Unmoved, Resting
<1>4. PullPlaced(pull, conn', opts, sync)
  BY <1>2 DEF ReaderInv
<1>5. ended = "no" => ConnectionFits(conn, buffered, sync.offset, tail) /\ Silenced(aborting, conn)
  BY DEF ReaderInv, Ended
<1>6. ended = "no" => ConnectionFits(conn', buffered, sync.offset, tail') /\ Silenced(aborting', conn')
  BY <1>2, <1>5
<1> QED BY <1>3, <1>4, <1>6, UnmovedStep

LEMMA ReaderNextInv ==
  ASSUME ReaderInv, [ReaderNext]_readerVars
  PROVE  ReaderInv'
<1>1. CASE ReaderStep
  BY <1>1, YieldFirstStep, PullBeginsStep, PullResumesStep, AbortLandsStep, FetchAnsweredStep,
     SSEStartedStep, SSEEventStep, SSEEndStep DEF ReaderStep
<1>2. CASE WriterAppends \/ WriterCloses \/ SSEServerTurn \/ SSEConnectionEnds
  BY <1>2, WriterStep, SSEServerTurnStep, SSEConnectionEndsStep
<1>3. CASE RequestFails \/ ConsumerReads \/ ConsumerStops \/ PipeStops \/ ConsumerFails \/ Cancel
  BY <1>3, RequestFailsStep, ConsumerReadsStep, ConsumerStopsStep, PipeStopsStep, ConsumerFailsStep,
     CancelStep
<1>4. CASE PageHides \/ PageShows
  BY <1>4, PageHidesStep, PageShowsStep
<1>5. CASE UNCHANGED readerVars
  BY <1>5, ReaderStutters
<1> QED BY <1>1, <1>2, <1>3, <1>4, <1>5 DEF ReaderNext

LEMMA InvReads ==
  ASSUME ReaderInv
  PROVE  ReadsWhatIsThere
<1>1. /\ startedAt \in Nat /\ sync \in SyncType /\ got \in Seq(Nat) /\ chunks \in Seq(ChunkType)
      /\ torn \in BOOLEAN /\ reading \in {"read", "callback", "done"}
  BY DEF ReaderInv, ReaderTypeOK
<1>2. sync.offset \in Nat /\ DOMAIN got = 1 .. Len(got) /\ Len(got) \in Nat
  BY <1>1 DEF SyncType
<1>3. /\ NoneSkipped(startedAt, got)
      /\ ~torn => \A j \in 1 .. Len(got) : got[j] = startedAt + j
  BY DEF ReaderInv, Flow, Straight
<1>4. ReadsInOrder
  <2>1. SUFFICES ASSUME NEW j \in 1 .. Len(got)
                 PROVE  /\ got[j] - 1 \in {startedAt} \cup {got[k] : k \in 1 .. (j - 1)}
                        /\ torn \/ got[j] = (IF j = 1 THEN startedAt ELSE got[j - 1]) + 1
    BY <1>2 DEF ReadsInOrder
  <2>2. got[j] - 1 \in {startedAt} \cup {got[k] : k \in 1 .. (j - 1)}
    BY <1>3 DEF NoneSkipped
  <2>3. torn \/ got[j] = (IF j = 1 THEN startedAt ELSE got[j - 1]) + 1
    <3>1. CASE j = 1
      BY <1>1, <1>3, <3>1
    <3>2. CASE j # 1
      <4>1. j - 1 \in 1 .. Len(got) /\ j \in Nat
        BY <1>2, <3>2
      <4>2. ~torn => got[j] = startedAt + j /\ got[j - 1] = startedAt + (j - 1)
        BY <1>3, <4>1
      <4> QED BY <1>1, <3>2, <4>1, <4>2
    <3> QED BY <3>1, <3>2
  <2> QED BY <2>2, <2>3
<1>5. HandsOverAll
  <2>1. SUFFICES ASSUME ended = "closed", reading # "callback", ~cutShort,
                        NEW x \in (startedAt + 1) .. sync.offset
                 PROVE  x \in ToSet(got)
    BY DEF HandsOverAll
  <2>2. Len(chunks) = 0
    BY <1>1, <2>1 DEF ReaderInv, LeavesNothing
  <2>3. pull = "none"
    BY <2>1 DEF ReaderInv, Ended
  <2>4. Orderly = TRUE
    BY <2>1, <2>3 DEF Orderly
  <2>5. Arrived(startedAt, got, chunks, Len(chunks), sync.offset)
    BY <2>4 DEF ReaderInv, Flow
  <2>6. x \in startedAt .. sync.offset /\ x # startedAt
    BY <1>1, <1>2
  <2>7. \E k \in 1 .. Len(got) : got[k] = x
    BY <2>2, <2>5, <2>6 DEF Arrived, Reaches
  <2> QED BY <2>7 DEF ToSet
<1>6. EndsAsExpected
  BY DEF ReaderInv
<1> QED BY <1>4, <1>5, <1>6 DEF ReadsWhatIsThere

\* A read session hands over the messages of the stream from where it started,
\* in order and without a gap, comes to the end it was opened for, and has then
\* handed over everything its offset stands for: for every setup of the session,
\* whatever is appended, answered in parts, hidden, broken or reconnected.
THEOREM SessionsReadWhatIsThere == ReaderSpec => []ReadsWhatIsThere
<1>1. ReaderInit => ReaderInv
  BY ReaderInitInv
<1>2. ReaderInv /\ [ReaderNext]_readerVars => ReaderInv'
  BY ReaderNextInv
<1>3. ReaderInv => ReadsWhatIsThere
  BY InvReads
<1> QED BY <1>1, <1>2, <1>3, PTL DEF ReaderSpec

----------------------------------------------------------------------------
(* The write handle *)

Numbers == 1 .. MaxAppends
Final == MaxAppends + 1
PostRecord == [batch : Seq(1 .. Final), close : BOOLEAN, attempt : Nat]
AppendState == {"none", "pending", "resolved", "rejected"}
Options == [batching : BOOLEAN, withSeq : BOOLEAN, maxRetries : Nat,
            signals : BOOLEAN, closeBody : BOOLEAN]

HandleTypeOK ==
    /\ handleOpts \in Options
    /\ appends \in [Numbers -> AppendState] /\ buffer \in Seq(Numbers)
    /\ inFlight \subseteq PostRecord /\ arriving \subseteq PostRecord
    /\ replies \subseteq [post : PostRecord, status : {204, 409}]
    /\ queueState \in {"idle", "running", "finishing"}
    /\ stored \in Seq(1 .. Final) /\ lastSeq \in Nat /\ streamShut \in BOOLEAN
    /\ closeCall \in {"none", "pending", "resolved", "rejected"} /\ netFaults \in Nat

Increasing(b) == \A i, j \in 1 .. Len(b) : i < j => b[i] < b[j]
In(x, b) == \E i \in 1 .. Len(b) : b[i] = x
Before(b, c) == \A i \in 1 .. Len(b) : \A j \in 1 .. Len(c) : b[i] < c[j]

\* appends are called one after the other
CallsInTurn(ap) == \A k, m \in Numbers : k < m /\ ap[m] # "none" => ap[k] # "none"

\* a batch of called appends, in order
GoodBatch(b, ap) ==
    /\ b \in Seq(Numbers) /\ Increasing(b)
    /\ \A i \in 1 .. Len(b) : ap[b[i]] # "none"

\* the POSTs: the final message is that of close(), batches do not overlap
PostsOK(posts, ap, buf) ==
    /\ GoodBatch(buf, ap)
    /\ \A q \in posts : IF q.close THEN q.batch \in {<<>>, <<Final>>}
                        ELSE Len(q.batch) > 0 /\ GoodBatch(q.batch, ap) /\ Before(q.batch, buf)
    /\ \A p, q \in posts : ~p.close /\ ~q.close =>
          p.batch = q.batch \/ Before(p.batch, q.batch) \/ Before(q.batch, p.batch)

\* before the n-th append is sent, the earlier ones are settled or go before it
Follows(q, ap) ==
    \A j \in 1 .. Len(q.batch) : \A m \in Numbers : m < q.batch[j] =>
      ap[m] \in {"resolved", "rejected"} \/ \E i \in 1 .. (j - 1) : q.batch[i] = m

\* the worker: one POST at a time, and nothing is pending elsewhere
WorkerOK(posts, flying, ap, buf, state) ==
    /\ \A p, q \in flying : ~p.close /\ ~q.close => p = q
    /\ state # "running" => \A p \in flying : p.close
    /\ \A m \in Numbers : ap[m] = "pending" =>
          In(m, buf) \/ \E p \in flying : ~p.close /\ In(m, p.batch)
    /\ \A q \in posts : ~q.close => Follows(q, ap)

\* attempts: the one that is awaited is the last; it has one answer or none
AttemptsOK(flying, coming, answers, closing) ==
    /\ \A q \in flying \cup coming : \A p \in flying :
          q.close = p.close /\ q.batch = p.batch => q.attempt <= p.attempt
    /\ \A a \in answers : a.post \in flying /\ a.post \notin coming
    /\ \A a, b \in answers : a.post = b.post => a = b
    /\ \A p, q \in flying : p.close /\ q.close => p = q
    /\ closing = "none" => \A q \in flying \cup coming : ~q.close

\* what resolved, or is about to, is stored
LogOK(log, ap, answers) ==
    /\ \A m \in Numbers : ap[m] = "resolved" => In(m, log)
    /\ \A a \in answers : a.status = 204 /\ ~a.post.close =>
          \A i \in 1 .. Len(a.post.batch) : In(a.post.batch[i], log)

\* before a message the log has all earlier ones but those that were rejected
LogOrder(log, ap) ==
    \A j \in 1 .. Len(log) : log[j] # Final =>
      \A m \in Numbers : m < log[j] => ap[m] = "rejected" \/ \E i \in 1 .. (j - 1) : log[i] = m

\* Stream-Seq
SeqOK(posts, log, ap, buf, last) ==
    /\ \A i, j \in 1 .. Len(log) : i # j => log[i] # log[j]
    /\ \A i \in 1 .. Len(log) : log[i] = Final \/ log[i] <= last
    /\ last = 0 \/ (last \in Numbers /\ ap[last] # "none")
    /\ \A j \in 1 .. Len(buf) : last < buf[j]
    /\ \A q \in posts : ~q.close =>
          q.batch[Len(q.batch)] <= last \/ \A i \in 1 .. Len(q.batch) : last < q.batch[i]

HandleInv ==
    /\ HandleTypeOK /\ CallsInTurn(appends)
    /\ PostsOK(inFlight \cup arriving, appends, buffer)
    /\ ~handleOpts.batching => buffer = <<>>
    /\ handleOpts.batching => WorkerOK(inFlight \cup arriving, inFlight, appends, buffer, queueState)
    /\ AttemptsOK(inFlight, arriving, replies, closeCall)
    /\ LogOK(stored, appends, replies)
    /\ handleOpts.batching => LogOrder(stored, appends)
    /\ In(Final, stored) => streamShut
    /\ handleOpts.withSeq => SeqOK(inFlight \cup arriving, stored, appends, buffer, lastSeq)

----------------------------------------------------------------------------

Promises == [Numbers -> AppendState]

\* promises settle, and nothing else happens to them
SettledFrom(ap, ap2) ==
    \A m \in Numbers : ap2[m] = ap[m] \/ (ap[m] = "pending" /\ ap2[m] \in {"resolved", "rejected"})

LEMMA NumbersFacts ==
    /\ MaxAppends \in Nat /\ MaxNetFaults \in Nat
    /\ Final \in Nat /\ Final \notin Numbers /\ Numbers \subseteq Nat /\ Numbers \subseteq 1 .. Final
    /\ \A m \in Numbers : m < Final /\ m > 0
    /\ HandleSetups \subseteq Options
BY HandleConstants DEF Numbers, Final, Options

LEMMA CallsSettle ==
  ASSUME NEW ap \in Promises, NEW ap2 \in Promises, CallsInTurn(ap), SettledFrom(ap, ap2)
  PROVE  CallsInTurn(ap2)
BY DEF CallsInTurn, SettledFrom, Promises, AppendState

LEMMA CallsNext ==
  ASSUME NEW ap \in Promises, NEW m \in Numbers, CallsInTurn(ap),
         \A k \in 1 .. (m - 1) : ap[k] # "none"
  PROVE  CallsInTurn([ap EXCEPT ![m] = "pending"])
<1>1. \A k \in Numbers : k < m => ap[k] # "none"
  BY DEF Numbers
<1> QED BY <1>1, NumbersFacts DEF CallsInTurn, Promises

(* Batches *)

LEMMA BatchSettle ==
  ASSUME NEW ap \in Promises, NEW ap2 \in Promises, SettledFrom(ap, ap2), NEW b, GoodBatch(b, ap)
  PROVE  GoodBatch(b, ap2)
<1>1. \A i \in 1 .. Len(b) : b[i] \in Numbers /\ ap[b[i]] # "none"
  BY DEF GoodBatch
<1>2. \A i \in 1 .. Len(b) : ap2[b[i]] # "none"
  BY <1>1 DEF SettledFrom
<1> QED BY <1>2 DEF GoodBatch

LEMMA BatchCall ==
  ASSUME NEW ap \in Promises, NEW m \in Numbers, NEW b, GoodBatch(b, ap)
  PROVE  GoodBatch(b, [ap EXCEPT ![m] = "pending"])
<1>1. \A i \in 1 .. Len(b) : b[i] \in Numbers /\ ap[b[i]] # "none"
  BY DEF GoodBatch
<1>2. \A i \in 1 .. Len(b) : [ap EXCEPT ![m] = "pending"][b[i]] # "none"
  BY <1>1 DEF Promises
<1> QED BY <1>2 DEF GoodBatch

LEMMA EmptyBatch ==
  ASSUME NEW ap
  PROVE  GoodBatch(<<>>, ap)
BY DEF GoodBatch, Increasing

LEMMA BatchAppend ==
  ASSUME NEW ap \in Promises, NEW m \in Numbers, CallsInTurn(ap), ap[m] = "none",
         NEW b, GoodBatch(b, ap)
  PROVE  /\ GoodBatch(Append(b, m), [ap EXCEPT ![m] = "pending"])
         /\ \A i \in 1 .. Len(b) : b[i] < m
<1>1. \A i \in 1 .. Len(b) : b[i] \in Numbers /\ ap[b[i]] # "none"
  BY DEF GoodBatch
<1>2. \A i \in 1 .. Len(b) : b[i] < m
  <2> SUFFICES ASSUME NEW i \in 1 .. Len(b) PROVE b[i] < m
    OBVIOUS
  <2>1. PICK n \in Numbers : n = b[i] /\ ap[n] # "none"
    BY <1>1
  <2>2. n \in Nat /\ m \in Nat /\ n # m
    BY <2>1, NumbersFacts
  <2>3. ~(m < n)
    BY <2>1 DEF CallsInTurn
  <2> QED BY <2>1, <2>2, <2>3
<1>3. b \in Seq(Numbers)
  BY DEF GoodBatch
<1>4. Append(b, m) \in Seq(Numbers) /\ Len(Append(b, m)) = Len(b) + 1 /\ Len(b) \in Nat
  BY <1>3
<1>5. \A i \in 1 .. Len(b) : Append(b, m)[i] = b[i]
  BY <1>3
<1>6. Append(b, m)[Len(b) + 1] = m
  BY <1>3
<1>7. \A i \in 1 .. Len(Append(b, m)) : i \in 1 .. Len(b) \/ i = Len(b) + 1
  BY <1>4
<1>8. Increasing(Append(b, m))
  <2> SUFFICES ASSUME NEW i \in 1 .. Len(Append(b, m)), NEW j \in 1 .. Len(Append(b, m)), i < j
               PROVE  Append(b, m)[i] < Append(b, m)[j]
    BY DEF Increasing
  <2>1. i \in 1 .. Len(b)
    BY <1>4
  <2>2. CASE j \in 1 .. Len(b)
    <3>1. b[i] < b[j]
      BY <2>1, <2>2 DEF GoodBatch, Increasing
    <3> QED BY <3>1, <2>1, <2>2, <1>5
  <2>3. CASE j = Len(b) + 1
    BY <2>1, <2>3, <1>2, <1>5, <1>6
  <2> QED BY <2>2, <2>3, <1>7
<1>9. \A i \in 1 .. Len(Append(b, m)) : [ap EXCEPT ![m] = "pending"][Append(b, m)[i]] # "none"
  <2> SUFFICES ASSUME NEW i \in 1 .. Len(Append(b, m))
               PROVE  [ap EXCEPT ![m] = "pending"][Append(b, m)[i]] # "none"
    OBVIOUS
  <2>1. CASE i \in 1 .. Len(b)
    BY <2>1, <1>1, <1>5 DEF Promises
  <2>2. CASE i = Len(b) + 1
    BY <2>2, <1>6 DEF Promises
  <2> QED BY <2>1, <2>2, <1>7
<1> QED BY <1>2, <1>4, <1>8, <1>9 DEF GoodBatch

(* The POSTs *)

PostOK(q, ap, buf) ==
    IF q.close THEN q.batch \in {<<>>, <<Final>>}
    ELSE Len(q.batch) > 0 /\ GoodBatch(q.batch, ap) /\ Before(q.batch, buf)

LEMMA PostsAre ==
  ASSUME NEW posts, NEW ap, NEW buf, PostsOK(posts, ap, buf)
  PROVE  /\ GoodBatch(buf, ap)
         /\ \A q \in posts : PostOK(q, ap, buf)
         /\ \A p, q \in posts : ~p.close /\ ~q.close =>
               p.batch = q.batch \/ Before(p.batch, q.batch) \/ Before(q.batch, p.batch)
BY DEF PostsOK, PostOK

LEMMA BeforeEmpty ==
  ASSUME NEW b
  PROVE  Before(b, <<>>)
BY DEF Before

LEMMA NotBeforeItself ==
  ASSUME NEW b, NEW ap, GoodBatch(b, ap), Len(b) > 0
  PROVE  ~Before(b, b)
<1>0. b \in Seq(Numbers)
  BY DEF GoodBatch
<1>1. 1 \in 1 .. Len(b)
  BY <1>0
<1>2. b[1] \in Numbers
  BY <1>0, <1>1
<1>3. b[1] \in Nat
  BY <1>2, NumbersFacts
<1>4. ~(b[1] < b[1])
  BY <1>3
<1> QED BY <1>1, <1>4 DEF Before

\* fewer POSTs, settled promises
LEMMA PostsSettle ==
  ASSUME NEW posts, NEW posts2, NEW buf, NEW buf2, NEW ap \in Promises, NEW ap2 \in Promises,
         PostsOK(posts, ap, buf), SettledFrom(ap, ap2),
         \A q \in posts2 : q \in posts, buf2 = buf \/ buf2 = <<>>
  PROVE  PostsOK(posts2, ap2, buf2)
<1>1. GoodBatch(buf2, ap2)
  BY PostsAre, BatchSettle, EmptyBatch
<1>2. \A q \in posts2 : PostOK(q, ap2, buf2)
  <2> SUFFICES ASSUME NEW q \in posts2 PROVE PostOK(q, ap2, buf2)
    OBVIOUS
  <2>1. PostOK(q, ap, buf)
    BY PostsAre
  <2>2. CASE q.close
    BY <2>1, <2>2 DEF PostOK
  <2>3. CASE ~q.close
    <3>1. Len(q.batch) > 0 /\ GoodBatch(q.batch, ap) /\ Before(q.batch, buf)
      BY <2>1, <2>3 DEF PostOK
    <3>2. Before(q.batch, buf2)
      BY <3>1, BeforeEmpty
    <3>3. GoodBatch(q.batch, ap2)
      BY <3>1, BatchSettle
    <3> QED BY <3>1, <3>2, <3>3, <2>3 DEF PostOK
  <2> QED BY <2>2, <2>3
<1>3. \A p, q \in posts2 : ~p.close /\ ~q.close =>
               p.batch = q.batch \/ Before(p.batch, q.batch) \/ Before(q.batch, p.batch)
  BY PostsAre
<1> QED BY <1>1, <1>2, <1>3 DEF PostsOK, PostOK

\* the buffer becomes a POST
LEMMA PostsLaunch ==
  ASSUME NEW posts, NEW posts2, NEW buf, NEW ap \in Promises,
         PostsOK(posts, ap, buf), Len(buf) > 0,
         \A q \in posts2 : q \in posts \/ q = Post(buf)
  PROVE  PostsOK(posts2, ap, <<>>)
<1>0. Post(buf).batch = buf /\ ~Post(buf).close
  BY DEF Post
<1>1. GoodBatch(<<>>, ap)
  BY EmptyBatch
<1>2. \A q \in posts2 : PostOK(q, ap, <<>>)
  <2> SUFFICES ASSUME NEW q \in posts2 PROVE PostOK(q, ap, <<>>)
    OBVIOUS
  <2>1. CASE q = Post(buf)
    <3>1. GoodBatch(q.batch, ap) /\ Before(q.batch, <<>>) /\ Len(q.batch) > 0 /\ ~q.close
      BY <2>1, <1>0, PostsAre, BeforeEmpty
    <3> QED BY <3>1 DEF PostOK
  <2>2. CASE q \in posts
    <3>1. PostOK(q, ap, buf)
      BY <2>2, PostsAre
    <3> QED BY <3>1, BeforeEmpty DEF PostOK
  <2> QED BY <2>1, <2>2
<1>3. \A p, q \in posts2 : ~p.close /\ ~q.close =>
               p.batch = q.batch \/ Before(p.batch, q.batch) \/ Before(q.batch, p.batch)
  <2> SUFFICES ASSUME NEW p \in posts2, NEW q \in posts2, ~p.close, ~q.close
               PROVE  p.batch = q.batch \/ Before(p.batch, q.batch) \/ Before(q.batch, p.batch)
    OBVIOUS
  <2>1. CASE p \in posts /\ q \in posts
    BY <2>1, PostsAre
  <2>2. CASE p \in posts /\ q = Post(buf)
    <3>1. PostOK(p, ap, buf)
      BY <2>2, PostsAre
    <3> QED BY <3>1, <2>2, <1>0 DEF PostOK
  <2>3. CASE p = Post(buf) /\ q \in posts
    <3>1. PostOK(q, ap, buf)
      BY <2>3, PostsAre
    <3> QED BY <3>1, <2>3, <1>0 DEF PostOK
  <2>4. CASE p = Post(buf) /\ q = Post(buf)
    BY <2>4
  <2> QED BY <2>1, <2>2, <2>3, <2>4
<1> QED BY <1>1, <1>2, <1>3 DEF PostsOK, PostOK

\* an append() joins the buffer
LEMMA PostsEnqueue ==
  ASSUME NEW posts, NEW buf, NEW ap \in Promises, NEW m \in Numbers,
         PostsOK(posts, ap, buf), CallsInTurn(ap), ap[m] = "none"
  PROVE  PostsOK(posts, [ap EXCEPT ![m] = "pending"], Append(buf, m))
<1> DEFINE ap2 == [ap EXCEPT ![m] = "pending"]
           buf2 == Append(buf, m)
<1>0. GoodBatch(buf, ap)
  BY PostsAre
<1>1. GoodBatch(buf2, ap2)
  BY <1>0, BatchAppend
<1>2. \A q \in posts : PostOK(q, ap2, buf2)
  <2> SUFFICES ASSUME NEW q \in posts PROVE PostOK(q, ap2, buf2)
    OBVIOUS
  <2>1. PostOK(q, ap, buf)
    BY PostsAre
  <2>2. CASE q.close
    BY <2>1, <2>2 DEF PostOK
  <2>3. CASE ~q.close
    <3>1. Len(q.batch) > 0 /\ GoodBatch(q.batch, ap) /\ Before(q.batch, buf)
      BY <2>1, <2>3 DEF PostOK
    <3>2. \A i \in 1 .. Len(q.batch) : q.batch[i] < m
      BY <3>1, BatchAppend
    <3>3. buf \in Seq(Numbers)
      BY <1>0 DEF GoodBatch
    <3>4. \A j \in 1 .. Len(buf2) : (j \in 1 .. Len(buf) /\ buf2[j] = buf[j]) \/ buf2[j] = m
      BY <3>3
    <3>5. Before(q.batch, buf2)
      BY <3>1, <3>2, <3>4 DEF Before
    <3>6. GoodBatch(q.batch, ap2)
      BY <3>1, BatchCall
    <3> QED BY <3>1, <3>5, <3>6, <2>3 DEF PostOK
  <2> QED BY <2>2, <2>3
<1>3. \A p, q \in posts : ~p.close /\ ~q.close =>
               p.batch = q.batch \/ Before(p.batch, q.batch) \/ Before(q.batch, p.batch)
  BY PostsAre
<1> QED BY <1>1, <1>2, <1>3 DEF PostsOK, PostOK

\* another attempt of a POST, or the POST of close()
SameRequest(p, q) == p.close = q.close /\ p.batch = q.batch
LEMMA PostsAgain ==
  ASSUME NEW posts, NEW posts2, NEW buf, NEW ap, PostsOK(posts, ap, buf),
         \A q \in posts2 : (\E p \in posts : SameRequest(p, q))
                           \/ (q.close = TRUE /\ q.batch \in {<<>>, <<Final>>})
  PROVE  PostsOK(posts2, ap, buf)
<1>1. GoodBatch(buf, ap)
  BY PostsAre
<1>2. \A q \in posts2 : PostOK(q, ap, buf)
  <2> SUFFICES ASSUME NEW q \in posts2 PROVE PostOK(q, ap, buf)
    OBVIOUS
  <2>1. CASE q.close = TRUE /\ q.batch \in {<<>>, <<Final>>}
    BY <2>1 DEF PostOK
  <2>2. CASE \E p \in posts : SameRequest(p, q)
    <3>1. PICK p \in posts : SameRequest(p, q)
      BY <2>2
    <3>2. PostOK(p, ap, buf)
      BY PostsAre
    <3> QED BY <3>1, <3>2 DEF PostOK, SameRequest
  <2> QED BY <2>1, <2>2
<1>3. \A p, q \in posts2 : ~p.close /\ ~q.close =>
               p.batch = q.batch \/ Before(p.batch, q.batch) \/ Before(q.batch, p.batch)
  <2> SUFFICES ASSUME NEW p \in posts2, NEW q \in posts2, ~p.close, ~q.close
               PROVE  p.batch = q.batch \/ Before(p.batch, q.batch) \/ Before(q.batch, p.batch)
    OBVIOUS
  <2>1. PICK p1 \in posts : SameRequest(p1, p)
    OBVIOUS
  <2>2. PICK q1 \in posts : SameRequest(q1, q)
    OBVIOUS
  <2>3. p1.batch = q1.batch \/ Before(p1.batch, q1.batch) \/ Before(q1.batch, p1.batch)
    BY <2>1, <2>2, PostsAre DEF SameRequest
  <2> QED BY <2>1, <2>2, <2>3 DEF SameRequest
<1> QED BY <1>1, <1>2, <1>3 DEF PostsOK, PostOK

(* The worker *)

LEMMA FollowsSettle ==
  ASSUME NEW q, NEW ap, NEW ap2, SettledFrom(ap, ap2), Follows(q, ap)
  PROVE  Follows(q, ap2)
<1> SUFFICES ASSUME NEW j \in 1 .. Len(q.batch), NEW m \in Numbers, m < q.batch[j]
             PROVE  ap2[m] \in {"resolved", "rejected"} \/ \E i \in 1 .. (j - 1) : q.batch[i] = m
  BY DEF Follows
<1>1. ap[m] \in {"resolved", "rejected"} \/ \E i \in 1 .. (j - 1) : q.batch[i] = m
  BY DEF Follows
<1> QED BY <1>1 DEF SettledFrom

LEMMA WorkerEnds ==
  ASSUME NEW posts, NEW posts2, NEW flying, NEW flying2, NEW ap, NEW ap2, NEW buf, NEW buf2,
         NEW state, NEW state2, WorkerOK(posts, flying, ap, buf, state), SettledFrom(ap, ap2),
         NEW p \in flying, ~p.close, \A q \in flying2 : q \in flying /\ q # p,
         \A q \in posts2 : q \in posts,
         \A m \in Numbers : ap2[m] = "pending" => ~In(m, p.batch) /\ (buf2 = buf \/ ~In(m, buf))
  PROVE  /\ WorkerOK(posts2, flying2, ap2, buf2, state2)
         /\ \A q \in flying2 : q.close
<1>1. \A q \in flying : ~q.close => q = p
  BY DEF WorkerOK
<1>2. \A q \in flying2 : q.close
  BY <1>1
<1>3. \A q \in posts2 : ~q.close => Follows(q, ap2)
  <2> SUFFICES ASSUME NEW q \in posts2, ~q.close PROVE Follows(q, ap2)
    OBVIOUS
  <2>1. Follows(q, ap)
    BY DEF WorkerOK
  <2> QED BY <2>1, FollowsSettle
<1>4. \A m \in Numbers : ap2[m] = "pending" => In(m, buf2)
  <2> SUFFICES ASSUME NEW m \in Numbers, ap2[m] = "pending" PROVE In(m, buf2)
    OBVIOUS
  <2>1. ap[m] = "pending"
    BY DEF SettledFrom
  <2>2. In(m, buf) \/ \E q \in flying : ~q.close /\ In(m, q.batch)
    BY <2>1 DEF WorkerOK
  <2> QED BY <2>2, <1>1
<1> QED BY <1>2, <1>3, <1>4 DEF WorkerOK

LEMMA WorkerLaunch ==
  ASSUME NEW posts, NEW posts2, NEW flying, NEW flying2, NEW ap \in Promises, NEW buf, NEW state,
         WorkerOK(posts, flying, ap, buf, state), \A q \in flying : q.close,
         CallsInTurn(ap), GoodBatch(buf, ap),
         \A q \in flying2 : q \in flying \/ q = Post(buf), Post(buf) \in flying2,
         \A q \in posts2 : q \in posts \/ q = Post(buf)
  PROVE  WorkerOK(posts2, flying2, ap, <<>>, "running")
<1>0. Post(buf).batch = buf /\ ~Post(buf).close
  BY DEF Post
<1>1. \A q \in flying2 : ~q.close => q = Post(buf)
  OBVIOUS
<1>2. \A m \in Numbers : ap[m] = "pending" => In(m, buf)
  BY DEF WorkerOK
<1>3. \A m \in Numbers : ap[m] = "pending" => \E p \in flying2 : ~p.close /\ In(m, p.batch)
  BY <1>0, <1>2
<1>4. Follows(Post(buf), ap)
  <2> SUFFICES ASSUME NEW j \in 1 .. Len(buf), NEW m \in Numbers, m < buf[j]
               PROVE  ap[m] \in {"resolved", "rejected"} \/ \E i \in 1 .. (j - 1) : buf[i] = m
    BY <1>0 DEF Follows
  <2>1. buf \in Seq(Numbers) /\ buf[j] \in Numbers /\ ap[buf[j]] # "none"
    BY DEF GoodBatch
  <2>2. ap[m] # "none"
    BY <2>1 DEF CallsInTurn
  <2>3. CASE ap[m] = "pending"
    <3>1. PICK i \in 1 .. Len(buf) : buf[i] = m
      BY <2>3, <1>2 DEF In
    <3>2. ~(j < i)
      <4> SUFFICES ASSUME j < i PROVE FALSE
        OBVIOUS
      <4>1. buf[j] < buf[i]
        BY DEF GoodBatch, Increasing
      <4>2. buf[j] \in Nat /\ m \in Nat
        BY <2>1, NumbersFacts
      <4> QED BY <4>1, <4>2, <3>1
    <3>3. i # j
      <4>2. buf[j] \in Nat /\ m \in Nat
        BY <2>1, NumbersFacts
      <4> QED BY <4>2, <3>1
    <3>4. i \in 1 .. (j - 1)
      BY <3>2, <3>3, <2>1
    <3> QED BY <3>1, <3>4
  <2> QED BY <2>2, <2>3 DEF Promises, AppendState
<1>5. \A q \in posts2 : ~q.close => Follows(q, ap)
  BY <1>4 DEF WorkerOK
<1> QED BY <1>1, <1>3, <1>5 DEF WorkerOK

LEMMA FollowsCall ==
  ASSUME NEW q, NEW ap \in Promises, NEW m \in Numbers, ap[m] = "none", Follows(q, ap)
  PROVE  Follows(q, [ap EXCEPT ![m] = "pending"])
<1> DEFINE ap2 == [ap EXCEPT ![m] = "pending"]
<1> SUFFICES ASSUME NEW j \in 1 .. Len(q.batch), NEW k \in Numbers, k < q.batch[j]
             PROVE  ap2[k] \in {"resolved", "rejected"} \/ \E i \in 1 .. (j - 1) : q.batch[i] = k
  BY DEF Follows
<1>1. ap[k] \in {"resolved", "rejected"} \/ \E i \in 1 .. (j - 1) : q.batch[i] = k
  BY DEF Follows
<1>2. ap[k] \in {"resolved", "rejected"} => ap2[k] = ap[k]
  BY DEF Promises
<1> QED BY <1>1, <1>2

LEMMA InAppend ==
  ASSUME NEW b \in Seq(Numbers), NEW m \in Numbers
  PROVE  In(m, Append(b, m)) /\ \A k : In(k, b) => In(k, Append(b, m))
<1>1. Len(Append(b, m)) = Len(b) + 1 /\ Len(b) \in Nat
  OBVIOUS
<1>2. Append(b, m)[Len(b) + 1] = m /\ \A i \in 1 .. Len(b) : Append(b, m)[i] = b[i]
  OBVIOUS
<1>3. In(m, Append(b, m))
  BY <1>1, <1>2 DEF In
<1>4. \A k : In(k, b) => In(k, Append(b, m))
  BY <1>1, <1>2 DEF In
<1> QED BY <1>3, <1>4

LEMMA WorkerEnqueue ==
  ASSUME NEW posts, NEW flying, NEW ap \in Promises, NEW buf \in Seq(Numbers), NEW state,
         NEW m \in Numbers, ap[m] = "none", WorkerOK(posts, flying, ap, buf, state)
  PROVE  WorkerOK(posts, flying, [ap EXCEPT ![m] = "pending"], Append(buf, m), state)
<1> DEFINE ap2 == [ap EXCEPT ![m] = "pending"]
           buf2 == Append(buf, m)
<1>1. \A k \in Numbers : ap2[k] = "pending" => k = m \/ ap[k] = "pending"
  BY DEF Promises
<1>2. In(m, buf2) /\ \A k : In(k, buf) => In(k, buf2)
  BY InAppend
<1>3. \A k \in Numbers : ap2[k] = "pending" =>
          In(k, buf2) \/ \E p \in flying : ~p.close /\ In(k, p.batch)
  <2> SUFFICES ASSUME NEW k \in Numbers, ap2[k] = "pending"
               PROVE  In(k, buf2) \/ \E p \in flying : ~p.close /\ In(k, p.batch)
    OBVIOUS
  <2>1. CASE k = m
    BY <2>1, <1>2
  <2>2. CASE ap[k] = "pending"
    <3>1. In(k, buf) \/ \E p \in flying : ~p.close /\ In(k, p.batch)
      BY <2>2 DEF WorkerOK
    <3> QED BY <3>1, <1>2
  <2> QED BY <2>1, <2>2, <1>1
<1>4. \A q \in posts : ~q.close => Follows(q, ap2)
  BY FollowsCall DEF WorkerOK
<1> HIDE DEF ap2, buf2
<1>5. WorkerOK(posts, flying, ap2, buf2, state)
  BY <1>3, <1>4 DEF WorkerOK
<1> QED BY <1>5 DEF ap2, buf2

\* POSTs of close() come and go, requests arrive, the queue is released
LEMMA WorkerOther ==
  ASSUME NEW posts, NEW posts2, NEW flying, NEW flying2, NEW ap, NEW buf, NEW state, NEW state2,
         WorkerOK(posts, flying, ap, buf, state),
         \A q \in posts2 : q \in posts \/ q.close,
         \A q \in flying2 : q \in flying \/ q.close,
         \A q \in flying : q \in flying2 \/ q.close,
         state2 # "running" => state # "running"
  PROVE  WorkerOK(posts2, flying2, ap, buf, state2)
<1>1. \A p, q \in flying2 : ~p.close /\ ~q.close => p = q
  BY DEF WorkerOK
<1>2. state2 # "running" => \A p \in flying2 : p.close
  BY DEF WorkerOK
<1>3. \A m \in Numbers : ap[m] = "pending" =>
          In(m, buf) \/ \E p \in flying2 : ~p.close /\ In(m, p.batch)
  BY DEF WorkerOK
<1>4. \A q \in posts2 : ~q.close => Follows(q, ap)
  BY DEF WorkerOK
<1> QED BY <1>1, <1>2, <1>3, <1>4 DEF WorkerOK

\* another attempt of the POST p
LEMMA WorkerAgain ==
  ASSUME NEW posts, NEW posts2, NEW flying, NEW flying2, NEW ap, NEW buf, NEW state,
         WorkerOK(posts, flying, ap, buf, state),
         NEW p \in flying, p \in posts, NEW again, SameRequest(p, again),
         \A q \in posts2 : q \in posts \/ q = again,
         \A q \in flying2 : (q \in flying /\ q # p) \/ q = again,
         \A q \in flying : q \in flying2 \/ q = p, again \in flying2
  PROVE  WorkerOK(posts2, flying2, ap, buf, state)
<1>0. again.close = p.close /\ again.batch = p.batch
  BY DEF SameRequest
<1>1. \A r, q \in flying2 : ~r.close /\ ~q.close => r = q
  <2> SUFFICES ASSUME NEW r \in flying2, NEW q \in flying2, ~r.close, ~q.close PROVE r = q
    OBVIOUS
  <2>1. \A x, y \in flying : ~x.close /\ ~y.close => x = y
    BY DEF WorkerOK
  <2> QED BY <2>1, <1>0
<1>2. state # "running" => \A q \in flying2 : q.close
  BY <1>0 DEF WorkerOK
<1>3. \A m \in Numbers : ap[m] = "pending" =>
          In(m, buf) \/ \E q \in flying2 : ~q.close /\ In(m, q.batch)
  <2> SUFFICES ASSUME NEW m \in Numbers, ap[m] = "pending", ~In(m, buf)
               PROVE  \E q \in flying2 : ~q.close /\ In(m, q.batch)
    OBVIOUS
  <2>1. PICK x \in flying : ~x.close /\ In(m, x.batch)
    BY DEF WorkerOK
  <2> QED BY <2>1, <1>0
<1>4. \A q \in posts2 : ~q.close => Follows(q, ap)
  <2> SUFFICES ASSUME NEW q \in posts2, ~q.close PROVE Follows(q, ap)
    OBVIOUS
  <2>1. CASE q \in posts
    BY <2>1 DEF WorkerOK
  <2>2. CASE q = again
    <3>1. Follows(p, ap)
      BY <2>2, <1>0 DEF WorkerOK
    <3> QED BY <3>1, <2>2, <1>0 DEF Follows
  <2> QED BY <2>1, <2>2
<1> QED BY <1>1, <1>2, <1>3, <1>4 DEF WorkerOK

(* Attempts and answers *)

LEMMA AttemptsFewer ==
  ASSUME NEW flying, NEW flying2, NEW coming, NEW coming2, NEW answers, NEW answers2,
         NEW closing, NEW closing2, AttemptsOK(flying, coming, answers, closing),
         \A q \in flying2 : q \in flying, \A q \in coming2 : q \in coming,
         \A a \in answers2 : a \in answers /\ a.post \in flying2,
         closing2 = "none" => closing = "none"
  PROVE  AttemptsOK(flying2, coming2, answers2, closing2)
<1>1. \A q \in flying2 \cup coming2 : \A p \in flying2 :
          q.close = p.close /\ q.batch = p.batch => q.attempt <= p.attempt
  BY DEF AttemptsOK
<1>2. \A a \in answers2 : a.post \in flying2 /\ a.post \notin coming2
  BY DEF AttemptsOK
<1>3. \A a, b \in answers2 : a.post = b.post => a = b
  BY DEF AttemptsOK
<1>4. \A p, q \in flying2 : p.close /\ q.close => p = q
  BY DEF AttemptsOK
<1>5. closing2 = "none" => \A q \in flying2 \cup coming2 : ~q.close
  BY DEF AttemptsOK
<1> QED BY <1>1, <1>2, <1>3, <1>4, <1>5 DEF AttemptsOK

LEMMA AttemptsFresh ==
  ASSUME NEW flying, NEW flying2, NEW coming, NEW coming2, NEW answers,
         NEW closing, NEW closing2, AttemptsOK(flying, coming, answers, closing),
         NEW c, c.attempt = 0, \A q \in flying \cup coming : ~SameRequest(q, c),
         \A q \in flying2 : q \in flying \/ q = c, \A q \in flying : q \in flying2,
         \A q \in coming2 : q \in coming \/ q = c,
         c.close => closing = "none" /\ closing2 # "none", ~c.close => closing2 = closing
  PROVE  AttemptsOK(flying2, coming2, answers, closing2)
<1>1. \A q \in flying2 \cup coming2 : \A p \in flying2 :
          q.close = p.close /\ q.batch = p.batch => q.attempt <= p.attempt
  <2> SUFFICES ASSUME NEW q \in flying2 \cup coming2, NEW p \in flying2,
                      q.close = p.close, q.batch = p.batch
               PROVE  q.attempt <= p.attempt
    OBVIOUS
  <2>1. CASE q \in flying \cup coming /\ p \in flying
    BY <2>1 DEF AttemptsOK
  <2>2. CASE q = c /\ p = c
    BY <2>2
  <2>3. CASE q = c /\ p \in flying
    BY <2>3 DEF SameRequest
  <2>4. CASE q \in flying \cup coming /\ p = c
    BY <2>4 DEF SameRequest
  <2> QED BY <2>1, <2>2, <2>3, <2>4
<1>2. \A a \in answers : a.post \in flying2 /\ a.post \notin coming2
  <2> SUFFICES ASSUME NEW a \in answers PROVE a.post \in flying2 /\ a.post \notin coming2
    OBVIOUS
  <2>1. a.post \in flying /\ a.post \notin coming
    BY DEF AttemptsOK
  <2>2. a.post # c
    BY <2>1 DEF SameRequest
  <2> QED BY <2>1, <2>2
<1>3. \A a, b \in answers : a.post = b.post => a = b
  BY DEF AttemptsOK
<1>4. \A p, q \in flying2 : p.close /\ q.close => p = q
  <2>1. CASE c.close
    <3>1. \A q \in flying : ~q.close
      BY <2>1 DEF AttemptsOK
    <3> QED BY <3>1
  <2>2. CASE ~c.close
    BY <2>2 DEF AttemptsOK
  <2> QED BY <2>1, <2>2
<1>5. closing2 = "none" => \A q \in flying2 \cup coming2 : ~q.close
  BY DEF AttemptsOK
<1> QED BY <1>1, <1>2, <1>3, <1>4, <1>5 DEF AttemptsOK

\* the server answers
LEMMA AttemptsAnswer ==
  ASSUME NEW flying, NEW coming, NEW coming2, NEW answers, NEW answers2, NEW closing,
         AttemptsOK(flying, coming, answers, closing), NEW p \in coming, NEW r, r.post = p,
         \A q \in coming2 : q \in coming /\ q # p,
         \A a \in answers2 : a \in answers \/ (a = r /\ p \in flying)
  PROVE  AttemptsOK(flying, coming2, answers2, closing)
<1>1. \A q \in flying \cup coming2 : \A x \in flying :
          q.close = x.close /\ q.batch = x.batch => q.attempt <= x.attempt
  BY DEF AttemptsOK
<1>2. \A a \in answers2 : a.post \in flying /\ a.post \notin coming2
  BY DEF AttemptsOK
<1>3. \A a, b \in answers2 : a.post = b.post => a = b
  <2>1. \A a \in answers : a.post # p
    BY DEF AttemptsOK
  <2>2. \A a, b \in answers : a.post = b.post => a = b
    BY DEF AttemptsOK
  <2> QED BY <2>1, <2>2
<1>4. \A x, q \in flying : x.close /\ q.close => x = q
  BY DEF AttemptsOK
<1>5. closing = "none" => \A q \in flying \cup coming2 : ~q.close
  BY DEF AttemptsOK
<1> QED BY <1>1, <1>2, <1>3, <1>4, <1>5 DEF AttemptsOK

LEMMA SamePost ==
  ASSUME NEW p \in PostRecord, NEW q \in PostRecord, SameRequest(p, q), p.attempt = q.attempt
  PROVE  p = q
BY DEF PostRecord, SameRequest

\* a POST is sent again
LEMMA AttemptsAgain ==
  ASSUME NEW flying, NEW flying2, NEW coming, NEW coming2, NEW answers, NEW answers2, NEW closing,
         AttemptsOK(flying, coming, answers, closing),
         flying \subseteq PostRecord, coming \subseteq PostRecord,
         NEW p \in flying, NEW again, SameRequest(p, again), again.attempt = p.attempt + 1,
         \A q \in flying2 : (q \in flying /\ q # p) \/ q = again,
         \A q \in flying : q \in flying2 \/ q = p,
         \A q \in coming2 : q \in coming \/ q = again,
         \A a \in answers2 : a \in answers /\ a.post # p
  PROVE  AttemptsOK(flying2, coming2, answers2, closing)
<1>0. again.close = p.close /\ again.batch = p.batch
  BY DEF SameRequest
<1>a. p.attempt \in Nat /\ again.attempt \in Nat
  BY DEF PostRecord
<1>b. \A q \in flying \cup coming : q.attempt \in Nat /\ q \in PostRecord
  BY DEF PostRecord
<1>c. \A q \in flying \cup coming : q.close = p.close /\ q.batch = p.batch => q.attempt <= p.attempt
  BY DEF AttemptsOK
<1>d. \A q \in flying : q # p => ~SameRequest(p, q)
  <2> SUFFICES ASSUME NEW q \in flying, SameRequest(p, q) PROVE q = p
    OBVIOUS
  <2>1. q.attempt <= p.attempt /\ p.attempt <= q.attempt
    BY DEF AttemptsOK, SameRequest
  <2>2. q.attempt = p.attempt
    BY <2>1, <1>a, <1>b
  <2> QED BY <2>2, SamePost
<1>e. again \notin flying \cup coming
  BY <1>0, <1>a, <1>c
<1>1. \A q \in flying2 \cup coming2 : \A x \in flying2 :
          q.close = x.close /\ q.batch = x.batch => q.attempt <= x.attempt
  <2> SUFFICES ASSUME NEW q \in flying2 \cup coming2, NEW x \in flying2,
                      q.close = x.close, q.batch = x.batch
               PROVE  q.attempt <= x.attempt
    OBVIOUS
  <2>1. CASE q \in flying \cup coming /\ x \in flying
    BY <2>1 DEF AttemptsOK
  <2>2. CASE q = again /\ x = again
    BY <2>2, <1>a
  <2>3. CASE q = again /\ x \in flying /\ x # p
    BY <2>3, <1>d, <1>0 DEF SameRequest
  <2>4. CASE q \in flying \cup coming /\ x = again
    BY <2>4, <1>a, <1>b, <1>c, <1>0
  <2> QED BY <2>1, <2>2, <2>3, <2>4
<1>2. \A a \in answers2 : a.post \in flying2 /\ a.post \notin coming2
  <2> SUFFICES ASSUME NEW a \in answers2 PROVE a.post \in flying2 /\ a.post \notin coming2
    OBVIOUS
  <2>1. a.post \in flying /\ a.post \notin coming
    BY DEF AttemptsOK
  <2> QED BY <2>1, <1>e
<1>3. \A a, b \in answers2 : a.post = b.post => a = b
  BY DEF AttemptsOK
<1>4. \A x, q \in flying2 : x.close /\ q.close => x = q
  BY <1>0 DEF AttemptsOK
<1>5. closing = "none" => \A q \in flying2 \cup coming2 : ~q.close
  BY <1>0 DEF AttemptsOK
<1> QED BY <1>1, <1>2, <1>3, <1>4, <1>5 DEF AttemptsOK

(* The log *)

LEMMA LogSettle ==
  ASSUME NEW log, NEW ap, NEW ap2, NEW answers, NEW answers2, LogOK(log, ap, answers),
         \A a \in answers2 : a \in answers,
         \A m \in Numbers : ap2[m] = "resolved" => ap[m] = "resolved" \/ In(m, log)
  PROVE  LogOK(log, ap2, answers2)
<1>1. \A m \in Numbers : ap2[m] = "resolved" => In(m, log)
  BY DEF LogOK
<1>3. \A a \in answers2 : a.status = 204 /\ ~a.post.close =>
          \A i \in 1 .. Len(a.post.batch) : In(a.post.batch[i], log)
  BY DEF LogOK
<1> QED BY <1>1, <1>3 DEF LogOK

LEMMA OrderSettle ==
  ASSUME NEW log, NEW ap, NEW ap2, LogOrder(log, ap),
         \A m \in Numbers : ap[m] = "rejected" => ap2[m] = "rejected"
  PROVE  LogOrder(log, ap2)
<1> SUFFICES ASSUME NEW j \in 1 .. Len(log), log[j] # Final, NEW m \in Numbers, m < log[j]
             PROVE  ap2[m] = "rejected" \/ \E i \in 1 .. (j - 1) : log[i] = m
  BY DEF LogOrder
<1>1. ap[m] = "rejected" \/ \E i \in 1 .. (j - 1) : log[i] = m
  BY DEF LogOrder
<1> QED BY <1>1

LEMMA CallKeeps ==
  ASSUME NEW ap \in Promises, NEW m \in Numbers, ap[m] = "none"
  PROVE  /\ [ap EXCEPT ![m] = "pending"] \in Promises
         /\ \A k \in Numbers : [ap EXCEPT ![m] = "pending"][k] = "resolved" => ap[k] = "resolved"
         /\ \A k \in Numbers : ap[k] = "rejected" => [ap EXCEPT ![m] = "pending"][k] = "rejected"
         /\ \A k \in Numbers : ap[k] # "none" => [ap EXCEPT ![m] = "pending"][k] # "none"
BY DEF Promises, AppendState

LEMMA Concat ==
  ASSUME NEW log \in Seq(1 .. Final), NEW b \in Seq(1 .. Final)
  PROVE  /\ log \o b \in Seq(1 .. Final)
         /\ Len(log) \in Nat /\ Len(b) \in Nat /\ Len(log \o b) = Len(log) + Len(b)
         /\ \A i \in 1 .. Len(log) : (log \o b)[i] = log[i]
         /\ \A i \in 1 .. Len(b) : (log \o b)[Len(log) + i] = b[i]
         /\ \A j \in 1 .. Len(log \o b) : j \in 1 .. Len(log) \/ \E i \in 1 .. Len(b) : j = Len(log) + i
<1>1. /\ log \o b \in Seq(1 .. Final)
      /\ Len(log) \in Nat /\ Len(b) \in Nat /\ Len(log \o b) = Len(log) + Len(b)
  OBVIOUS
<1>2. \A i \in 1 .. Len(log) : (log \o b)[i] = log[i]
  OBVIOUS
<1>3. \A i \in 1 .. Len(b) : (log \o b)[Len(log) + i] = b[i]
  OBVIOUS
<1>4. ASSUME NEW j \in 1 .. Len(log \o b), j \notin 1 .. Len(log)
      PROVE  \E i \in 1 .. Len(b) : j = Len(log) + i
  <2>1. PICK n \in Nat : n = Len(log)
    BY <1>1
  <2>2. PICK k \in Nat : k = Len(b)
    BY <1>1
  <2>3. j \in 1 .. (n + k) /\ j \notin 1 .. n
    BY <1>1, <1>4, <2>1, <2>2
  <2>4. j - n \in 1 .. k /\ j = n + (j - n)
    BY <2>3
  <2> QED BY <2>1, <2>2, <2>4
<1> QED BY <1>1, <1>2, <1>3, <1>4

LEMMA InConcat ==
  ASSUME NEW log \in Seq(1 .. Final), NEW b \in Seq(1 .. Final), NEW x
  PROVE  In(x, log \o b) <=> In(x, log) \/ In(x, b)
<1>1. ASSUME In(x, log) PROVE In(x, log \o b)
  <2>1. PICK i \in 1 .. Len(log) : log[i] = x
    BY <1>1 DEF In
  <2>2. i \in 1 .. Len(log \o b) /\ (log \o b)[i] = x
    BY <2>1, Concat
  <2> QED BY <2>2 DEF In
<1>2. ASSUME In(x, b) PROVE In(x, log \o b)
  <2>1. PICK i \in 1 .. Len(b) : b[i] = x
    BY <1>2 DEF In
  <2>2. Len(log) + i \in 1 .. Len(log \o b) /\ (log \o b)[Len(log) + i] = x
    BY <2>1, Concat
  <2> QED BY <2>2 DEF In
<1>3. ASSUME In(x, log \o b) PROVE In(x, log) \/ In(x, b)
  <2>1. PICK j \in 1 .. Len(log \o b) : (log \o b)[j] = x
    BY <1>3 DEF In
  <2>2. CASE j \in 1 .. Len(log)
    BY <2>1, <2>2, Concat DEF In
  <2>3. CASE \E i \in 1 .. Len(b) : j = Len(log) + i
    <3>1. PICK i \in 1 .. Len(b) : j = Len(log) + i
      BY <2>3
    <3>2. b[i] = x
      BY <3>1, <2>1, Concat
    <3> QED BY <3>2 DEF In
  <2> QED BY <2>2, <2>3, Concat
<1> QED BY <1>1, <1>2, <1>3

\* the server stores a batch and answers
LEMMA LogStore ==
  ASSUME NEW log \in Seq(1 .. Final), NEW b \in Seq(1 .. Final), NEW ap, NEW answers, NEW answers2,
         LogOK(log, ap, answers), NEW r, r.post.batch = b,
         \A a \in answers2 : a \in answers \/ a = r
  PROVE  LogOK(log \o b, ap, answers2)
<1>1. \A m \in Numbers : ap[m] = "resolved" => In(m, log \o b)
  BY InConcat DEF LogOK
<1>2. \A a \in answers2 : a.status = 204 /\ ~a.post.close =>
          \A i \in 1 .. Len(a.post.batch) : In(a.post.batch[i], log \o b)
  <2> SUFFICES ASSUME NEW a \in answers2, a.status = 204, ~a.post.close,
                      NEW i \in 1 .. Len(a.post.batch)
               PROVE  In(a.post.batch[i], log \o b)
    OBVIOUS
  <2>1. CASE a \in answers
    <3>1. In(a.post.batch[i], log)
      BY <2>1 DEF LogOK
    <3> QED BY <3>1, InConcat
  <2>2. CASE a = r
    <3>1. In(a.post.batch[i], b)
      BY <2>2 DEF In
    <3> QED BY <3>1, InConcat
  <2> QED BY <2>1, <2>2
<1> QED BY <1>1, <1>2 DEF LogOK

LEMMA OrderStore ==
  ASSUME NEW log \in Seq(1 .. Final), NEW b \in Seq(1 .. Final), NEW ap,
         LogOrder(log, ap), \A m \in Numbers : ap[m] = "resolved" => In(m, log),
         \A j \in 1 .. Len(b) : b[j] # Final => \A m \in Numbers : m < b[j] =>
            ap[m] \in {"resolved", "rejected"} \/ \E i \in 1 .. (j - 1) : b[i] = m
  PROVE  LogOrder(log \o b, ap)
<1> SUFFICES ASSUME NEW j \in 1 .. Len(log \o b), (log \o b)[j] # Final, NEW m \in Numbers,
                    m < (log \o b)[j], ap[m] # "rejected"
             PROVE  \E i \in 1 .. (j - 1) : (log \o b)[i] = m
  BY DEF LogOrder
<1>1. CASE j \in 1 .. Len(log)
  <2>1. (log \o b)[j] = log[j]
    BY <1>1, Concat
  <2>2. PICK i \in 1 .. (j - 1) : log[i] = m
    BY <2>1, <1>1 DEF LogOrder
  <2>3. i \in 1 .. Len(log)
    BY <1>1, Concat
  <2> QED BY <2>2, <2>3, Concat
<1>2. CASE \E k \in 1 .. Len(b) : j = Len(log) + k
  <2>1. PICK k \in 1 .. Len(b) : j = Len(log) + k
    BY <1>2
  <2>2. (log \o b)[j] = b[k]
    BY <2>1, Concat
  <2>3. ap[m] = "resolved" \/ \E i \in 1 .. (k - 1) : b[i] = m
    BY <2>2
  <2>4. CASE ap[m] = "resolved"
    <3>1. PICK i \in 1 .. Len(log) : log[i] = m
      BY <2>4 DEF In
    <3>2. i \in 1 .. (j - 1)
      BY <3>1, <2>1, Concat
    <3> QED BY <3>1, <3>2, Concat
  <2>5. CASE \E i \in 1 .. (k - 1) : b[i] = m
    <3>1. PICK i \in 1 .. (k - 1) : b[i] = m
      BY <2>5
    <3>2. i \in 1 .. Len(b) /\ Len(log) + i \in 1 .. (j - 1)
      BY <3>1, <2>1, Concat
    <3> QED BY <3>1, <3>2, Concat
  <2> QED BY <2>3, <2>4, <2>5
<1> QED BY <1>1, <1>2, Concat

(* Stream-Seq *)

LEMMA SeqSettle ==
  ASSUME NEW posts, NEW posts2, NEW log, NEW ap, NEW ap2, NEW buf, NEW buf2, NEW last,
         SeqOK(posts, log, ap, buf, last), \A m \in Numbers : ap[m] # "none" => ap2[m] # "none",
         buf2 = buf \/ buf2 = <<>>,
         \A q \in posts2 : (\E p \in posts : SameRequest(p, q)) \/ q.close = TRUE
  PROVE  SeqOK(posts2, log, ap2, buf2, last)
<1>1. last = 0 \/ (last \in Numbers /\ ap2[last] # "none")
  BY DEF SeqOK
<1>2. \A j \in 1 .. Len(buf2) : last < buf2[j]
  BY DEF SeqOK
<1>3. \A q \in posts2 : ~q.close =>
          q.batch[Len(q.batch)] <= last \/ \A i \in 1 .. Len(q.batch) : last < q.batch[i]
  <2> SUFFICES ASSUME NEW q \in posts2, ~q.close
               PROVE  q.batch[Len(q.batch)] <= last \/ \A i \in 1 .. Len(q.batch) : last < q.batch[i]
    OBVIOUS
  <2>1. PICK p \in posts : SameRequest(p, q)
    OBVIOUS
  <2>2. p.batch[Len(p.batch)] <= last \/ \A i \in 1 .. Len(p.batch) : last < p.batch[i]
    BY <2>1 DEF SeqOK, SameRequest
  <2> QED BY <2>1, <2>2 DEF SameRequest
<1> QED BY <1>1, <1>2, <1>3 DEF SeqOK

LEMMA SeqLaunch ==
  ASSUME NEW posts, NEW posts2, NEW log, NEW ap, NEW buf, NEW last,
         SeqOK(posts, log, ap, buf, last),
         \A q \in posts2 : q \in posts \/ q = Post(buf)
  PROVE  SeqOK(posts2, log, ap, <<>>, last)
<1>0. Post(buf).batch = buf
  BY DEF Post
<1>1. \A i \in 1 .. Len(buf) : last < buf[i]
  BY DEF SeqOK
<1>3. \A q \in posts2 : ~q.close =>
          q.batch[Len(q.batch)] <= last \/ \A i \in 1 .. Len(q.batch) : last < q.batch[i]
  <2> SUFFICES ASSUME NEW q \in posts2, ~q.close
               PROVE  q.batch[Len(q.batch)] <= last \/ \A i \in 1 .. Len(q.batch) : last < q.batch[i]
    OBVIOUS
  <2>1. CASE q \in posts
    BY <2>1 DEF SeqOK
  <2>2. CASE q = Post(buf)
    BY <2>2, <1>0, <1>1
  <2> QED BY <2>1, <2>2
<1> QED BY <1>3 DEF SeqOK

LEMMA SeqEnqueue ==
  ASSUME NEW posts, NEW log, NEW ap \in Promises, NEW buf \in Seq(Numbers), NEW last,
         NEW m \in Numbers, ap[m] = "none", CallsInTurn(ap), SeqOK(posts, log, ap, buf, last)
  PROVE  SeqOK(posts, log, [ap EXCEPT ![m] = "pending"], Append(buf, m), last)
<1> DEFINE ap2 == [ap EXCEPT ![m] = "pending"]
           buf2 == Append(buf, m)
<1>0. last < m
  <2>1. CASE last = 0
    BY <2>1, NumbersFacts
  <2>2. CASE last \in Numbers /\ ap[last] # "none"
    <3>1. ~(m < last)
      BY <2>2 DEF CallsInTurn
    <3> QED BY <3>1, <2>2, NumbersFacts
  <2> QED BY <2>1, <2>2 DEF SeqOK
<1>1. last = 0 \/ (last \in Numbers /\ ap2[last] # "none")
  BY CallKeeps DEF SeqOK
<1>2. \A j \in 1 .. Len(buf2) : (j \in 1 .. Len(buf) /\ buf2[j] = buf[j]) \/ buf2[j] = m
  OBVIOUS
<1> HIDE DEF ap2, buf2
<1>3. \A j \in 1 .. Len(buf2) : last < buf2[j]
  BY <1>0, <1>2 DEF SeqOK
<1>4. SeqOK(posts, log, ap2, buf2, last)
  BY <1>1, <1>3 DEF SeqOK
<1> QED BY <1>4 DEF ap2, buf2


LEMMA SeqElement ==
  ASSUME NEW S, NEW q \in Seq(S), NEW i \in 1 .. Len(q)
  PROVE  q[i] \in S
OBVIOUS

LEMMA SeqWiden ==
  ASSUME NEW S, NEW T, S \subseteq T, NEW q \in Seq(S)
  PROVE  q \in Seq(T)
OBVIOUS

LEMMA NoDuplicates ==
  ASSUME NEW log \in Seq(1 .. Final), NEW b \in Seq(1 .. Final),
         \A i, j \in 1 .. Len(log) : i # j => log[i] # log[j],
         \A i, j \in 1 .. Len(b) : i # j => b[i] # b[j],
         \A i \in 1 .. Len(log), j \in 1 .. Len(b) : log[i] # b[j]
  PROVE  \A i, j \in 1 .. Len(log \o b) : i # j => (log \o b)[i] # (log \o b)[j]
<1> SUFFICES ASSUME NEW i \in 1 .. Len(log \o b), NEW j \in 1 .. Len(log \o b), i # j
             PROVE  (log \o b)[i] # (log \o b)[j]
  OBVIOUS
<1>1. CASE i \in 1 .. Len(log) /\ j \in 1 .. Len(log)
  BY <1>1, Concat
<1>2. CASE i \in 1 .. Len(log) /\ \E k \in 1 .. Len(b) : j = Len(log) + k
  <2>1. PICK k \in 1 .. Len(b) : j = Len(log) + k
    BY <1>2
  <2> QED BY <2>1, <1>2, Concat
<1>3. CASE j \in 1 .. Len(log) /\ \E k \in 1 .. Len(b) : i = Len(log) + k
  <2>1. PICK k \in 1 .. Len(b) : i = Len(log) + k
    BY <1>3
  <2> QED BY <2>1, <1>3, Concat
<1>4. CASE (\E k \in 1 .. Len(b) : i = Len(log) + k) /\ (\E k \in 1 .. Len(b) : j = Len(log) + k)
  <2>1. PICK k \in 1 .. Len(b) : i = Len(log) + k
    BY <1>4
  <2>2. PICK l \in 1 .. Len(b) : j = Len(log) + l
    BY <1>4
  <2>3. k # l
    BY <2>1, <2>2
  <2> QED BY <2>1, <2>2, <2>3, Concat
<1> QED BY <1>1, <1>2, <1>3, <1>4, Concat

LEMMA IncreasingFacts ==
  ASSUME NEW b \in Seq(Numbers), Increasing(b), Len(b) > 0
  PROVE  /\ Len(b) \in 1 .. Len(b) /\ b[Len(b)] \in Numbers
         /\ \A i \in 1 .. Len(b) : b[i] \in Numbers /\ b[i] <= b[Len(b)]
         /\ \A i, j \in 1 .. Len(b) : i # j => b[i] # b[j]
<1>0. Len(b) \in Nat
  OBVIOUS
<1>1. Len(b) \in 1 .. Len(b)
  BY <1>0
<1>a. \A i \in 1 .. Len(b) : b[i] \in Numbers
  BY SeqElement
<1>2. \A i \in 1 .. Len(b) : b[i] \in Numbers /\ b[i] \in Nat
  BY <1>a, NumbersFacts
<1>3. \A i \in 1 .. Len(b) : b[i] <= b[Len(b)]
  <2> SUFFICES ASSUME NEW i \in 1 .. Len(b) PROVE b[i] <= b[Len(b)]
    OBVIOUS
  <2>1. CASE i = Len(b)
    BY <2>1, <1>2
  <2>2. CASE i < Len(b)
    <3>1. b[i] < b[Len(b)]
      BY <2>2, <1>1 DEF Increasing
    <3> QED BY <3>1, <1>2, <1>1
  <2> QED BY <2>1, <2>2, <1>0
<1>4. \A i, j \in 1 .. Len(b) : i # j => b[i] # b[j]
  <2> SUFFICES ASSUME NEW i \in 1 .. Len(b), NEW j \in 1 .. Len(b), i # j PROVE b[i] # b[j]
    OBVIOUS
  <2>1. b[i] \in Nat /\ b[j] \in Nat
    BY <1>2
  <2>2. CASE i < j
    <3>1. b[i] < b[j]
      BY <2>2 DEF Increasing
    <3> QED BY <3>1, <2>1
  <2>3. CASE j < i
    <3>1. b[j] < b[i]
      BY <2>3 DEF Increasing
    <3> QED BY <3>1, <2>1
  <2> QED BY <2>2, <2>3
<1> QED BY <1>1, <1>2, <1>3, <1>4

LEMMA SeqStoreBatch ==
  ASSUME NEW posts, NEW posts2, NEW log \in Seq(1 .. Final), NEW ap \in Promises, NEW buf, NEW last \in Nat,
         SeqOK(posts, log, ap, buf, last), PostsOK(posts, ap, buf), ~In(Final, log),
         NEW p \in posts, ~p.close, NEW b, b = p.batch, NEW last2, last2 = b[Len(b)], last2 > last,
         \A q \in posts2 : q \in posts
  PROVE  SeqOK(posts2, log \o b, ap, buf, last2)
<1>1. Len(b) > 0 /\ GoodBatch(b, ap) /\ Before(b, buf)
  <2>1. PostOK(p, ap, buf)
    BY PostsAre
  <2> QED BY <2>1 DEF PostOK
<1>2. b \in Seq(Numbers) /\ Increasing(b)
  BY <1>1 DEF GoodBatch
<1>3. b \in Seq(1 .. Final)
  BY <1>2, NumbersFacts, SeqWiden
<1>4. /\ Len(b) \in 1 .. Len(b) /\ last2 \in Numbers
      /\ \A i \in 1 .. Len(b) : b[i] \in Numbers /\ b[i] <= last2
      /\ \A i, j \in 1 .. Len(b) : i # j => b[i] # b[j]
  BY <1>1, <1>2, IncreasingFacts
<1>5. last2 \in Nat
  BY <1>4, NumbersFacts
<1>6. \A i \in 1 .. Len(b) : last < b[i]
  <2>1. b[Len(b)] <= last \/ \A i \in 1 .. Len(b) : last < b[i]
    BY DEF SeqOK
  <2> QED BY <2>1, <1>5
<1>7. \A i \in 1 .. Len(log) : log[i] <= last /\ log[i] \in Nat
  <2> SUFFICES ASSUME NEW i \in 1 .. Len(log) PROVE log[i] <= last /\ log[i] \in Nat
    OBVIOUS
  <2>1. log[i] # Final
    BY DEF In
  <2>2. log[i] \in 1 .. Final
    BY SeqElement
  <2> QED BY <2>1, <2>2, NumbersFacts DEF SeqOK
<1>8. \A i \in 1 .. Len(log), j \in 1 .. Len(b) : log[i] # b[j]
  <2> SUFFICES ASSUME NEW i \in 1 .. Len(log), NEW j \in 1 .. Len(b) PROVE log[i] # b[j]
    OBVIOUS
  <2>1. b[j] \in Nat /\ last < b[j] /\ log[i] \in Nat /\ log[i] <= last
    BY <1>4, <1>6, <1>7, NumbersFacts
  <2> QED BY <2>1
<1>9. \A i, j \in 1 .. Len(log \o b) : i # j => (log \o b)[i] # (log \o b)[j]
  <2>1. \A i, j \in 1 .. Len(log) : i # j => log[i] # log[j]
    BY DEF SeqOK
  <2> QED BY <2>1, <1>3, <1>4, <1>8, NoDuplicates
<1>10. \A j \in 1 .. Len(log \o b) : (log \o b)[j] = Final \/ (log \o b)[j] <= last2
  <2> SUFFICES ASSUME NEW j \in 1 .. Len(log \o b) PROVE (log \o b)[j] <= last2
    OBVIOUS
  <2>1. CASE j \in 1 .. Len(log)
    <3>1. (log \o b)[j] = log[j]
      BY <2>1, <1>3, Concat
    <3>2. log[j] \in Nat /\ log[j] <= last
      BY <2>1, <1>7
    <3> QED BY <3>1, <3>2, <1>5
  <2>2. CASE \E k \in 1 .. Len(b) : j = Len(log) + k
    <3>1. PICK k \in 1 .. Len(b) : j = Len(log) + k
      BY <2>2
    <3>2. (log \o b)[j] = b[k]
      BY <3>1, <1>3, Concat
    <3> QED BY <3>2, <1>4
  <2> QED BY <2>1, <2>2, <1>3, Concat
<1>11. ap[last2] # "none"
  BY <1>1, <1>4 DEF GoodBatch
<1>12. \A j \in 1 .. Len(buf) : last2 < buf[j]
  BY <1>1, <1>4 DEF Before
<1>13. \A q \in posts2 : ~q.close =>
          q.batch[Len(q.batch)] <= last2 \/ \A i \in 1 .. Len(q.batch) : last2 < q.batch[i]
  <2> SUFFICES ASSUME NEW q \in posts2, ~q.close
               PROVE  q.batch[Len(q.batch)] <= last2 \/ \A i \in 1 .. Len(q.batch) : last2 < q.batch[i]
    OBVIOUS
  <2>1. PICK c : c = q.batch
    OBVIOUS
  <2>2. Len(c) > 0 /\ c \in Seq(Numbers) /\ Increasing(c)
    <3>1. PostOK(q, ap, buf)
      BY PostsAre
    <3>2. Len(c) > 0 /\ GoodBatch(c, ap)
      BY <3>1, <2>1 DEF PostOK
    <3> QED BY <3>2 DEF GoodBatch
  <2>3. Len(c) \in 1 .. Len(c) /\ c[Len(c)] \in Numbers
    BY <2>2, IncreasingFacts
  <2>4. c = b \/ Before(c, b) \/ Before(b, c)
    BY <2>1, PostsAre
  <2>5. CASE c = b
    BY <2>5, <2>1, <1>5
  <2>6. CASE Before(c, b)
    <3>1. c[Len(c)] < last2
      BY <2>6, <2>3, <1>4 DEF Before
    <3>2. c[Len(c)] \in Nat
      BY <2>3, NumbersFacts
    <3>3. c[Len(c)] <= last2
      BY <3>1, <3>2, <1>5
    <3> QED BY <3>3, <2>1
  <2>7. CASE Before(b, c)
    BY <2>7, <2>1, <1>4 DEF Before
  <2> QED BY <2>4, <2>5, <2>6, <2>7
<1> QED BY <1>4, <1>9, <1>10, <1>11, <1>12, <1>13 DEF SeqOK

LEMMA SeqStoreClose ==
  ASSUME NEW posts, NEW posts2, NEW log \in Seq(1 .. Final), NEW ap, NEW buf, NEW last,
         SeqOK(posts, log, ap, buf, last), ~In(Final, log), NEW b, b \in {<<>>, <<Final>>},
         \A q \in posts2 : q \in posts
  PROVE  SeqOK(posts2, log \o b, ap, buf, last) /\ b \in Seq(1 .. Final)
<1>1. b \in Seq(1 .. Final) /\ \A i \in 1 .. Len(b) : b[i] = Final /\ i = 1
  <2>1. CASE b = <<>>
    <3>1. <<>> \in Seq(1 .. Final)
      OBVIOUS
    <3> QED BY <2>1, <3>1
  <2>2. CASE b = <<Final>>
    <3>1. Final \in 1 .. Final
      BY HandleConstants DEF Final
    <3>2. <<Final>> \in Seq(1 .. Final) /\ Len(<<Final>>) = 1 /\ <<Final>>[1] = Final
      BY <3>1
    <3> QED BY <2>2, <3>2
  <2> QED BY <2>1, <2>2
<1>2. \A i, j \in 1 .. Len(log \o b) : i # j => (log \o b)[i] # (log \o b)[j]
  <2>1. \A i, j \in 1 .. Len(log) : i # j => log[i] # log[j]
    BY DEF SeqOK
  <2>2. \A i, j \in 1 .. Len(b) : i # j => b[i] # b[j]
    BY <1>1
  <2>3. \A i \in 1 .. Len(log), j \in 1 .. Len(b) : log[i] # b[j]
    BY <1>1 DEF In
  <2> QED BY <2>1, <2>2, <2>3, <1>1, NoDuplicates
<1>3. \A j \in 1 .. Len(log \o b) : (log \o b)[j] = Final \/ (log \o b)[j] <= last
  <2> SUFFICES ASSUME NEW j \in 1 .. Len(log \o b) PROVE (log \o b)[j] = Final \/ (log \o b)[j] <= last
    OBVIOUS
  <2>1. CASE j \in 1 .. Len(log)
    <3>1. (log \o b)[j] = log[j]
      BY <2>1, <1>1, Concat
    <3>2. log[j] = Final \/ log[j] <= last
      BY <2>1 DEF SeqOK
    <3> QED BY <3>1, <3>2
  <2>2. CASE \E k \in 1 .. Len(b) : j = Len(log) + k
    <3>1. PICK k \in 1 .. Len(b) : j = Len(log) + k
      BY <2>2
    <3>2. (log \o b)[j] = b[k]
      BY <3>1, <1>1, Concat
    <3> QED BY <3>2, <1>1
  <2> QED BY <2>1, <2>2, <1>1, Concat
<1>4. \A q \in posts2 : ~q.close =>
          q.batch[Len(q.batch)] <= last \/ \A i \in 1 .. Len(q.batch) : last < q.batch[i]
  BY DEF SeqOK
<1> QED BY <1>1, <1>2, <1>3, <1>4 DEF SeqOK

----------------------------------------------------------------------------
(* The steps *)

LEMMA PostIsRecord ==
  ASSUME NEW b \in Seq(Numbers)
  PROVE  /\ Post(b) \in PostRecord /\ Post(b).batch = b /\ Post(b).close = FALSE
         /\ Post(b).attempt = 0
<1>1. b \in Seq(1 .. Final)
  BY NumbersFacts, SeqWiden
<1> QED BY <1>1 DEF Post, PostRecord

\* a batch that starts after every batch so far is a request of its own
LEMMA FreshRequest ==
  ASSUME NEW posts, NEW ap, NEW buf, PostsOK(posts, ap, buf), Len(buf) > 0
  PROVE  \A q \in posts : ~SameRequest(q, Post(buf))
<1>1. GoodBatch(buf, ap)
  BY PostsAre
<1>2. Post(buf).batch = buf /\ Post(buf).close = FALSE
  BY DEF Post
<1> SUFFICES ASSUME NEW q \in posts, SameRequest(q, Post(buf)) PROVE FALSE
  OBVIOUS
<1>3. ~q.close /\ q.batch = buf
  BY <1>2 DEF SameRequest
<1>4. PostOK(q, ap, buf)
  BY PostsAre
<1>5. Before(buf, buf)
  BY <1>3, <1>4 DEF PostOK
<1> QED BY <1>1, <1>5, NotBeforeItself

LEMMA AppendsKeeps ==
  ASSUME HandleInv, NEW m \in Numbers, HandleAppends(m)
  PROVE  HandleInv'
<1> USE DEF HandleInv
<1>t. HandleTypeOK
  OBVIOUS
<1>0. /\ handleOpts \in Options /\ appends \in Promises /\ buffer \in Seq(Numbers)
      /\ inFlight \subseteq PostRecord /\ arriving \subseteq PostRecord
  BY <1>t DEF HandleTypeOK, Promises
<1>1. /\ appends[m] = "none" /\ \A k \in 1 .. (m - 1) : appends[k] # "none"
      /\ appends' = [appends EXCEPT ![m] = "pending"]
      /\ UNCHANGED <<handleOpts, replies, stored, lastSeq, streamShut, closeCall, netFaults>>
  BY DEF HandleAppends, streamSide
<1>2. appends' \in Promises /\ CallsInTurn(appends')
  BY <1>0, <1>1, CallKeeps, CallsNext
<1>3. PICK b : b = Append(buffer, m)
  OBVIOUS
<1>4. b \in Seq(Numbers) /\ Len(b) > 0
  BY <1>0, <1>3
<1>5. PostsOK(inFlight \cup arriving, appends', b)
  BY <1>0, <1>1, <1>3, PostsEnqueue
<1>6. handleOpts.batching => WorkerOK(inFlight \cup arriving, inFlight, appends', b, queueState)
  BY <1>0, <1>1, <1>3, WorkerEnqueue
<1>7. LogOK(stored, appends', replies)
  BY <1>0, <1>1, CallKeeps, LogSettle
<1>8. handleOpts.batching => LogOrder(stored, appends')
  <2>1. \A k \in Numbers : appends[k] = "rejected" => appends'[k] = "rejected"
    BY <1>0, <1>1, CallKeeps
  <2>2. handleOpts.batching => LogOrder(stored, appends)
    OBVIOUS
  <2> QED BY <2>1, <2>2, OrderSettle
<1>9. handleOpts.withSeq => SeqOK(inFlight \cup arriving, stored, appends', b, lastSeq)
  BY <1>0, <1>1, <1>3, SeqEnqueue
<1>10. CASE handleOpts.batching /\ queueState # "idle"
  <2>1. buffer' = b /\ UNCHANGED <<inFlight, arriving, queueState>>
    BY <1>10, <1>3 DEF HandleAppends
  <2>2. HandleTypeOK'
    BY <2>1, <1>1, <1>2, <1>4, <1>t DEF HandleTypeOK, Promises
  <2> QED BY <2>1, <2>2, <1>1, <1>2, <1>5, <1>6, <1>7, <1>8, <1>9, <1>10
<1>11. CASE ~(handleOpts.batching /\ queueState # "idle")
  <2>1. /\ inFlight' = inFlight \cup {Post(b)} /\ arriving' = arriving \cup {Post(b)}
        /\ buffer' = <<>>
        /\ queueState' \in {"running", queueState}
        /\ handleOpts.batching => queueState = "idle" /\ queueState' = "running"
    <3>1. CASE handleOpts.batching
      BY <3>1, <1>11, <1>3 DEF HandleAppends, Send
    <3>2. CASE ~handleOpts.batching
      <4>1. buffer = <<>>
        BY <3>2
      <4>2. Append(<<>>, m) = <<m>>
        OBVIOUS
      <4>3. b = <<m>>
        BY <4>1, <4>2, <1>3
      <4> QED BY <3>2, <4>1, <4>3 DEF HandleAppends, Send
    <3> QED BY <3>1, <3>2
  <2>2. Post(b) \in PostRecord /\ Post(b).close = FALSE /\ Post(b).attempt = 0
    BY <1>4, PostIsRecord
  <2>3. HandleTypeOK'
    <3>1. <<>> \in Seq(Numbers)
      OBVIOUS
    <3> QED BY <2>1, <2>2, <3>1, <1>1, <1>2, <1>t DEF HandleTypeOK, Promises
  <2>4. \A q \in inFlight' \cup arriving' : q \in inFlight \cup arriving \/ q = Post(b)
    BY <2>1
  <2>5. PostsOK(inFlight' \cup arriving', appends', <<>>)
    BY <2>4, <1>2, <1>4, <1>5, PostsLaunch
  <2>6. ASSUME handleOpts.batching
        PROVE  WorkerOK(inFlight' \cup arriving', inFlight', appends', <<>>, "running")
    <3>1. \A q \in inFlight : q.close
      BY <2>1, <2>6 DEF WorkerOK
    <3>2. GoodBatch(b, appends')
      BY <1>5, PostsAre
    <3>3. \A q \in inFlight' : q \in inFlight \/ q = Post(b)
      BY <2>1
    <3>4. Post(b) \in inFlight'
      BY <2>1
    <3>5. WorkerOK(inFlight \cup arriving, inFlight, appends', b, queueState)
      BY <2>6, <1>6
    <3> QED BY <3>1, <3>2, <3>3, <3>4, <3>5, <2>4, <1>2, WorkerLaunch
  <2>7. AttemptsOK(inFlight', arriving', replies, closeCall)
    <3>1. \A q \in inFlight \cup arriving : ~SameRequest(q, Post(b))
      BY <1>4, <1>5, FreshRequest
    <3>2. /\ \A q \in inFlight' : q \in inFlight \/ q = Post(b)
          /\ \A q \in inFlight : q \in inFlight'
          /\ \A q \in arriving' : q \in arriving \/ q = Post(b)
      BY <2>1
    <3> QED BY <3>1, <3>2, <2>2, AttemptsFresh
  <2>8. ASSUME handleOpts.withSeq
        PROVE  SeqOK(inFlight' \cup arriving', stored, appends', <<>>, lastSeq)
    <3>1. SeqOK(inFlight \cup arriving, stored, appends', b, lastSeq)
      BY <2>8, <1>9
    <3> QED BY <3>1, <2>4, SeqLaunch
  <2> QED BY <2>1, <2>3, <2>5, <2>6, <2>7, <2>8, <1>1, <1>2, <1>7, <1>8
<1> QED BY <1>10, <1>11

LEMMA ClosesKeeps ==
  ASSUME HandleInv, HandleCloses
  PROVE  HandleInv'
<1> USE DEF HandleInv
<1>t. HandleTypeOK
  OBVIOUS
<1>1. /\ closeCall = "none" /\ closeCall' = "pending"
      /\ inFlight' = inFlight \cup {ClosePost} /\ arriving' = arriving \cup {ClosePost}
      /\ UNCHANGED <<handleOpts, appends, buffer, queueState, replies, stored, lastSeq,
                     streamShut, netFaults>>
  BY DEF HandleCloses, Send, streamSide
<1>2. PICK c : c = ClosePost
  OBVIOUS
<1>3. c \in PostRecord /\ c.close = TRUE /\ c.batch \in {<<>>, <<Final>>} /\ c.attempt = 0
  <2>1. Final \in 1 .. Final
    BY HandleConstants DEF Final
  <2>2. <<Final>> \in Seq(1 .. Final)
    BY <2>1
  <2>3. <<>> \in Seq(1 .. Final)
    OBVIOUS
  <2>4. /\ c.close = TRUE /\ c.batch \in {<<>>, <<Final>>} /\ c.attempt = 0
        /\ c = [batch |-> c.batch, close |-> TRUE, attempt |-> 0]
    BY <1>2 DEF ClosePost, Final
  <2>5. c.batch \in Seq(1 .. Final)
    BY <2>2, <2>3, <2>4
  <2>a. PICK cb \in Seq(1 .. Final) : cb = c.batch
    BY <2>5
  <2>b. [batch |-> cb, close |-> TRUE, attempt |-> 0] \in PostRecord
    BY DEF PostRecord
  <2>6. c \in PostRecord
    BY <2>4, <2>a, <2>b
  <2> QED BY <2>4, <2>6
<1>4. HandleTypeOK'
  BY <1>1, <1>2, <1>3, <1>t DEF HandleTypeOK
<1>5. \A q \in inFlight' \cup arriving' : q \in inFlight \cup arriving \/ q = c
  BY <1>1, <1>2
<1>6. PostsOK(inFlight' \cup arriving', appends, buffer)
  <2>1. \A q \in inFlight' \cup arriving' :
          (\E p \in inFlight \cup arriving : SameRequest(p, q))
          \/ (q.close = TRUE /\ q.batch \in {<<>>, <<Final>>})
    BY <1>3, <1>5 DEF SameRequest
  <2> QED BY <2>1, PostsAgain
<1>7. ASSUME handleOpts.batching
      PROVE  WorkerOK(inFlight' \cup arriving', inFlight', appends, buffer, queueState)
  <2>1. WorkerOK(inFlight \cup arriving, inFlight, appends, buffer, queueState)
    BY <1>7
  <2>2. /\ \A q \in inFlight' \cup arriving' : q \in inFlight \cup arriving \/ q.close
        /\ \A q \in inFlight' : q \in inFlight \/ q.close
        /\ \A q \in inFlight : q \in inFlight' \/ q.close
    BY <1>1, <1>2, <1>3
  <2> QED BY <2>1, <2>2, WorkerOther
<1>8. AttemptsOK(inFlight', arriving', replies, closeCall')
  <2>1. \A q \in inFlight \cup arriving : ~SameRequest(q, c)
    BY <1>1, <1>3 DEF AttemptsOK, SameRequest
  <2>2. /\ \A q \in inFlight' : q \in inFlight \/ q = c
        /\ \A q \in inFlight : q \in inFlight'
        /\ \A q \in arriving' : q \in arriving \/ q = c
    BY <1>1, <1>2
  <2>3. closeCall' # "none"
    BY <1>1
  <2>4. AttemptsOK(inFlight, arriving, replies, closeCall)
    OBVIOUS
  <2> QED BY <2>1, <2>2, <2>3, <2>4, <1>1, <1>3, AttemptsFresh
<1>9. ASSUME handleOpts.withSeq
      PROVE  SeqOK(inFlight' \cup arriving', stored, appends, buffer, lastSeq)
  <2>1. SeqOK(inFlight \cup arriving, stored, appends, buffer, lastSeq)
    BY <1>9
  <2>2. \A q \in inFlight' \cup arriving' :
          (\E p \in inFlight \cup arriving : SameRequest(p, q)) \/ q.close = TRUE
    BY <1>3, <1>5 DEF SameRequest
  <2> QED BY <2>1, <2>2, SeqSettle
<1> QED BY <1>1, <1>4, <1>6, <1>7, <1>8, <1>9

LEMMA ReleaseKeeps ==
  ASSUME HandleInv, QueueReleases
  PROVE  HandleInv'
<1> USE DEF HandleInv
<1>1. /\ queueState = "finishing" /\ queueState' = "idle"
      /\ UNCHANGED <<handleOpts, appends, buffer, inFlight, arriving, replies, stored, lastSeq,
                     streamShut, closeCall, netFaults>>
  BY DEF QueueReleases, streamSide
<1>2. HandleTypeOK'
  BY <1>1 DEF HandleTypeOK
<1>3. ASSUME handleOpts.batching
      PROVE  WorkerOK(inFlight \cup arriving, inFlight, appends, buffer, queueState')
  <2>1. WorkerOK(inFlight \cup arriving, inFlight, appends, buffer, queueState)
    BY <1>3
  <2> QED BY <2>1, <1>1 DEF WorkerOK
<1> QED BY <1>1, <1>2, <1>3

LEMMA SettledLike ==
  ASSUME NEW ap
  PROVE  SettledFrom(ap, ap)
BY DEF SettledFrom

LEMMA RequestKeeps ==
  ASSUME HandleInv, NEW p \in arriving, HandleAppendRequest(p)
  PROVE  HandleInv'
<1> USE DEF HandleInv
<1>t. HandleTypeOK
  OBVIOUS
<1>0. /\ handleOpts \in Options /\ appends \in Promises /\ stored \in Seq(1 .. Final)
      /\ lastSeq \in Nat /\ streamShut \in BOOLEAN /\ p \in PostRecord
      /\ p.batch \in Seq(1 .. Final) /\ p.close \in BOOLEAN
  BY <1>t DEF HandleTypeOK, Promises, PostRecord
<1> DEFINE refused == IF streamShut THEN p.batch # <<>>
                      ELSE StreamSeq(p) # 0 /\ StreamSeq(p) <= lastSeq
<1>a. PICK status : status = IF refused THEN 409 ELSE 204
  OBVIOUS
<1>1. /\ status = IF refused THEN 409 ELSE 204
      /\ stored' = IF status = 204 /\ ~streamShut THEN stored \o p.batch ELSE stored
      /\ lastSeq' = IF status = 204 /\ ~streamShut /\ StreamSeq(p) # 0
                    THEN StreamSeq(p) ELSE lastSeq
      /\ replies' = IF p \in inFlight
                    THEN replies \cup {[post |-> p, status |-> status]} ELSE replies
  BY <1>0, <1>a DEF HandleAppendRequest
<1>2. /\ arriving' = arriving \ {p} /\ streamShut' = (streamShut \/ p.close)
      /\ UNCHANGED <<handleOpts, appends, buffer, inFlight, queueState, closeCall, netFaults>>
  BY DEF HandleAppendRequest
<1>3. PICK r : r = [post |-> p, status |-> status]
  OBVIOUS
<1>4. r.post = p /\ r.status = status /\ \A a \in replies' : a \in replies \/ (a = r /\ p \in inFlight)
  BY <1>1, <1>3
<1>5. PostOK(p, appends, buffer)
  BY PostsAre
<1>6. \A q \in inFlight' \cup arriving' : q \in inFlight \cup arriving
  BY <1>2
<1>7. PostsOK(inFlight' \cup arriving', appends, buffer)
  BY <1>6, <1>0, SettledLike, PostsSettle
<1>8. ASSUME handleOpts.batching
      PROVE  WorkerOK(inFlight' \cup arriving', inFlight, appends, buffer, queueState)
  <2>1. WorkerOK(inFlight \cup arriving, inFlight, appends, buffer, queueState)
    BY <1>8
  <2> QED BY <2>1, <1>6, WorkerOther
<1>9. AttemptsOK(inFlight, arriving', replies', closeCall)
  <2>1. \A q \in arriving' : q \in arriving /\ q # p
    BY <1>2
  <2> QED BY <2>1, <1>4, AttemptsAnswer
<1>10. PICK b : b = p.batch /\ b \in Seq(1 .. Final)
  BY <1>0
<1>11. CASE status = 204 /\ ~streamShut
  <2>1. stored' = stored \o b
    BY <1>1, <1>10, <1>11
  <2>2. ~In(Final, stored)
    BY <1>11
  <2>3. LogOK(stored', appends, replies')
    BY <2>1, <1>0, <1>4, <1>10, LogStore
  <2>4. ASSUME handleOpts.batching PROVE LogOrder(stored', appends)
    <3>1. \A m \in Numbers : appends[m] = "resolved" => In(m, stored)
      BY DEF LogOK
    <3>2. LogOrder(stored, appends)
      BY <2>4
    <3>3. \A j \in 1 .. Len(b) : b[j] # Final => \A m \in Numbers : m < b[j] =>
            appends[m] \in {"resolved", "rejected"} \/ \E i \in 1 .. (j - 1) : b[i] = m
      <4>1. CASE p.close
        <5>1. b = <<>> \/ b = <<Final>>
          BY <4>1, <1>5, <1>10 DEF PostOK
        <5>2. CASE b = <<>>
          BY <5>2
        <5>3. CASE b = <<Final>>
          BY <5>3
        <5> QED BY <5>1, <5>2, <5>3
      <4>2. CASE ~p.close
        <5>1. Follows(p, appends)
          BY <4>2, <2>4 DEF WorkerOK
        <5> QED BY <5>1, <1>10 DEF Follows
      <4> QED BY <4>1, <4>2
    <3>4. LogOrder(stored \o b, appends)
      BY <3>1, <3>2, <3>3, <1>0, <1>10, OrderStore
    <3> QED BY <3>4, <2>1
  <2>5. In(Final, stored') => streamShut'
    <3>1. CASE p.close
      BY <3>1, <1>2
    <3>2. CASE ~p.close
      <4>1. b \in Seq(Numbers)
        BY <3>2, <1>5, <1>10 DEF PostOK, GoodBatch
      <4>2. ~In(Final, b)
        BY <4>1, NumbersFacts, SeqElement DEF In
      <4> QED BY <4>2, <2>1, <2>2, <1>0, <1>10, InConcat
    <3> QED BY <3>1, <3>2
  <2>6. ASSUME handleOpts.withSeq
        PROVE  SeqOK(inFlight' \cup arriving', stored', appends, buffer, lastSeq')
    <3>0. SeqOK(inFlight \cup arriving, stored, appends, buffer, lastSeq)
      BY <2>6
    <3>1. CASE p.close
      <4>1. lastSeq' = lastSeq
        BY <3>1, <1>1 DEF StreamSeq
      <4>2. b \in {<<>>, <<Final>>}
        BY <3>1, <1>5, <1>10 DEF PostOK
      <4> QED BY <3>0, <4>1, <4>2, <2>1, <2>2, <1>0, <1>6, SeqStoreClose
    <3>2. CASE ~p.close
      <4>1. Len(b) > 0 /\ GoodBatch(b, appends)
        BY <3>2, <1>5, <1>10 DEF PostOK
      <4>2. b \in Seq(Numbers) /\ Increasing(b)
        BY <4>1 DEF GoodBatch
      <4>3. b[Len(b)] \in Numbers
        BY <4>1, <4>2, IncreasingFacts
      <4>4. StreamSeq(p) = b[Len(b)]
        BY <3>2, <2>6, <1>10 DEF StreamSeq
      <4>5. StreamSeq(p) \in Nat /\ StreamSeq(p) # 0
        <5>1. PICK n \in Numbers : n = StreamSeq(p)
          BY <4>3, <4>4
        <5> QED BY <5>1, NumbersFacts
      <4>6. ~(StreamSeq(p) <= lastSeq)
        BY <4>5, <1>1, <1>11
      <4>7. lastSeq' = b[Len(b)] /\ lastSeq' > lastSeq
        BY <4>4, <4>5, <4>6, <1>0, <1>1, <1>11
      <4>8. PICK last2 : last2 = lastSeq'
        OBVIOUS
      <4>9. last2 = b[Len(b)] /\ last2 > lastSeq
        BY <4>7, <4>8
      <4>10. SeqOK(inFlight' \cup arriving', stored \o b, appends, buffer, last2)
        BY <3>0, <3>2, <4>9, <2>2, <1>0, <1>6, <1>10, SeqStoreBatch
      <4> QED BY <4>8, <4>10, <2>1
    <3> QED BY <3>1, <3>2
  <2>7. HandleTypeOK'
    <3>1. stored' \in Seq(1 .. Final)
      BY <2>1, <1>0, <1>10, Concat
    <3>2. StreamSeq(p) \in Nat
      <4>1. CASE handleOpts.withSeq /\ ~p.close
        <5>1. Len(b) > 0 /\ GoodBatch(b, appends)
          BY <4>1, <1>5, <1>10 DEF PostOK
        <5>2. b \in Seq(Numbers) /\ Increasing(b)
          BY <5>1 DEF GoodBatch
        <5>3. b[Len(b)] \in Numbers
          BY <5>1, <5>2, IncreasingFacts
        <5> QED BY <4>1, <5>3, <1>10, NumbersFacts DEF StreamSeq
      <4>2. CASE ~(handleOpts.withSeq /\ ~p.close)
        BY <4>2 DEF StreamSeq
      <4> QED BY <4>1, <4>2
    <3>3. lastSeq' \in Nat /\ streamShut' \in BOOLEAN
      BY <3>2, <1>0, <1>1, <1>2
    <3>4. replies' \subseteq [post : PostRecord, status : {204, 409}]
      BY <1>0, <1>1, <1>t DEF HandleTypeOK
    <3> QED BY <3>1, <3>3, <3>4, <1>2, <1>t DEF HandleTypeOK
  <2> QED BY <2>3, <2>4, <2>5, <2>6, <2>7, <1>2, <1>7, <1>8, <1>9
<1>12. CASE ~(status = 204 /\ ~streamShut)
  <2>1. stored' = stored /\ lastSeq' = lastSeq
    BY <1>1, <1>12
  <2>2. status = 204 => p.close
    <3> SUFFICES ASSUME status = 204, ~p.close PROVE FALSE
      OBVIOUS
    <3>1. p.batch = <<>>
      BY <1>1, <1>12
    <3>2. Len(p.batch) > 0
      BY <1>5 DEF PostOK
    <3> QED BY <3>1, <3>2
  <2>3. LogOK(stored, appends, replies')
    BY <2>2, <1>4 DEF LogOK
  <2>4. In(Final, stored) => streamShut'
    BY <1>2
  <2>5. ASSUME handleOpts.withSeq
        PROVE  SeqOK(inFlight' \cup arriving', stored, appends, buffer, lastSeq)
    <3>0. SeqOK(inFlight \cup arriving, stored, appends, buffer, lastSeq)
      BY <2>5
    <3>1. \A q \in inFlight' \cup arriving' :
            (\E x \in inFlight \cup arriving : SameRequest(x, q)) \/ q.close = TRUE
      BY <1>6 DEF SameRequest
    <3> QED BY <3>0, <3>1, SeqSettle
  <2>6. HandleTypeOK'
    <3>1. replies' \subseteq [post : PostRecord, status : {204, 409}]
      BY <1>0, <1>1, <1>t DEF HandleTypeOK
    <3>2. streamShut' \in BOOLEAN
      BY <1>0, <1>2
    <3> QED BY <2>1, <3>1, <3>2, <1>2, <1>t DEF HandleTypeOK
  <2> QED BY <2>1, <2>3, <2>4, <2>5, <2>6, <1>2, <1>7, <1>8, <1>9
<1> QED BY <1>11, <1>12

LEMMA SettleIs ==
  ASSUME appends \in Promises, NEW S, NEW how \in {"resolved", "rejected"}
  PROVE  /\ Settle(S, how) \in Promises /\ SettledFrom(appends, Settle(S, how))
         /\ \A m \in Numbers : Settle(S, how)[m] = "pending" => m \notin S
         /\ \A m \in Numbers : Settle(S, how)[m] = "resolved" =>
               appends[m] = "resolved" \/ (m \in S /\ how = "resolved")
<1>1. \A m \in Numbers : Settle(S, how)[m] =
        IF m \in S /\ appends[m] = "pending" THEN how ELSE appends[m]
  BY DEF Settle, Numbers
<1>2. Settle(S, how) \in Promises
  BY DEF Settle, Numbers, Promises, AppendState
<1>3. SettledFrom(appends, Settle(S, how))
  BY <1>1 DEF SettledFrom
<1>4. \A m \in Numbers : Settle(S, how)[m] = "pending" => m \notin S
  BY <1>1
<1>5. \A m \in Numbers : Settle(S, how)[m] = "resolved" =>
               appends[m] = "resolved" \/ (m \in S /\ how = "resolved")
  BY <1>1
<1> QED BY <1>2, <1>3, <1>4, <1>5

LEMMA InToSet ==
  ASSUME NEW T, NEW b \in Seq(T), NEW m
  PROVE  m \in ToSet(b) <=> In(m, b)
BY DEF ToSet, In

\* the POST of an append() ends and none takes its place
LEMMA EndSettles ==
  ASSUME HandleInv, NEW p \in inFlight, ~p.close,
         appends' \in Promises, SettledFrom(appends, appends'),
         \A m \in Numbers : appends'[m] = "resolved" => appends[m] = "resolved" \/ In(m, stored),
         handleOpts.batching => \A m \in Numbers : appends'[m] = "pending" =>
            ~In(m, p.batch) /\ (buffer' = buffer \/ ~In(m, buffer)),
         buffer' = buffer \/ buffer' = <<>>,
         inFlight' = inFlight \ {p}, arriving' = arriving,
         UNCHANGED <<handleOpts, stored, lastSeq, streamShut, closeCall>>,
         queueState' \in {"idle", "running", "finishing"}, netFaults' \in Nat,
         \A a \in replies' : a \in replies /\ a.post # p
  PROVE  HandleInv'
<1> USE DEF HandleInv
<1>t. HandleTypeOK
  OBVIOUS
<1>0. appends \in Promises /\ buffer \in Seq(Numbers)
  BY <1>t DEF HandleTypeOK, Promises
<1>1. HandleTypeOK'
  <2>1. <<>> \in Seq(Numbers)
    OBVIOUS
  <2>2. buffer' \in Seq(Numbers)
    BY <2>1, <1>0
  <2>3. inFlight' \subseteq PostRecord /\ arriving' \subseteq PostRecord
    BY <1>t DEF HandleTypeOK
  <2>4. replies' \subseteq [post : PostRecord, status : {204, 409}]
    BY <1>t DEF HandleTypeOK
  <2> HIDE DEF HandleInv
  <2> QED BY <2>2, <2>3, <2>4, <1>t DEF HandleTypeOK, Promises
<1>2. CallsInTurn(appends')
  BY <1>0, CallsSettle
<1>3. \A q \in inFlight' \cup arriving' : q \in inFlight \cup arriving
  OBVIOUS
<1>4. PostsOK(inFlight' \cup arriving', appends', buffer')
  BY <1>0, <1>3, PostsSettle
<1>5. ASSUME handleOpts.batching
      PROVE  WorkerOK(inFlight' \cup arriving', inFlight', appends', buffer', queueState')
  <2>1. WorkerOK(inFlight \cup arriving, inFlight, appends, buffer, queueState)
    BY <1>5
  <2>2. \A q \in inFlight' : q \in inFlight /\ q # p
    OBVIOUS
  <2>3. \A m \in Numbers : appends'[m] = "pending" =>
            ~In(m, p.batch) /\ (buffer' = buffer \/ ~In(m, buffer))
    BY <1>5
  <2> HIDE DEF HandleInv
  <2> QED BY <2>1, <2>2, <2>3, <1>3, WorkerEnds
<1>6. AttemptsOK(inFlight', arriving', replies', closeCall')
  <2>1. \A a \in replies' : a.post \in inFlight'
    BY DEF AttemptsOK
  <2> QED BY <2>1, AttemptsFewer
<1>7. LogOK(stored, appends', replies')
  BY LogSettle
<1>8. handleOpts.batching => LogOrder(stored, appends')
  <2>1. \A m \in Numbers : appends[m] = "rejected" => appends'[m] = "rejected"
    BY DEF SettledFrom
  <2>2. handleOpts.batching => LogOrder(stored, appends)
    OBVIOUS
  <2> QED BY <2>1, <2>2, OrderSettle
<1>9. ASSUME handleOpts.withSeq
      PROVE  SeqOK(inFlight' \cup arriving', stored, appends', buffer', lastSeq)
  <2>0. SeqOK(inFlight \cup arriving, stored, appends, buffer, lastSeq)
    BY <1>9
  <2>1. \A q \in inFlight' \cup arriving' :
          (\E x \in inFlight \cup arriving : SameRequest(x, q)) \/ q.close = TRUE
    BY <1>3 DEF SameRequest
  <2>2. \A m \in Numbers : appends[m] # "none" => appends'[m] # "none"
    BY DEF SettledFrom
  <2> QED BY <2>0, <2>1, <2>2, SeqSettle
<1> QED BY <1>1, <1>2, <1>4, <1>5, <1>6, <1>7, <1>8, <1>9

\* the POST of close() ends
LEMMA EndCloses ==
  ASSUME HandleInv, NEW p \in inFlight, p.close,
         inFlight' = inFlight \ {p}, arriving' = arriving,
         UNCHANGED <<handleOpts, appends, buffer, queueState, stored, lastSeq, streamShut>>,
         closeCall' \in {"resolved", "rejected"}, netFaults' \in Nat,
         \A a \in replies' : a \in replies /\ a.post # p
  PROVE  HandleInv'
<1> USE DEF HandleInv
<1>t. HandleTypeOK
  OBVIOUS
<1>0. appends \in Promises
  BY <1>t DEF HandleTypeOK, Promises
<1>1. HandleTypeOK'
  BY <1>t DEF HandleTypeOK
<1>3. \A q \in inFlight' \cup arriving' : q \in inFlight \cup arriving
  OBVIOUS
<1>4. PostsOK(inFlight' \cup arriving', appends, buffer)
  BY <1>0, <1>3, SettledLike, PostsSettle
<1>5. ASSUME handleOpts.batching
      PROVE  WorkerOK(inFlight' \cup arriving', inFlight', appends, buffer, queueState)
  <2>1. WorkerOK(inFlight \cup arriving, inFlight, appends, buffer, queueState)
    BY <1>5
  <2>2. /\ \A q \in inFlight' : q \in inFlight \/ q.close
        /\ \A q \in inFlight : q \in inFlight' \/ q.close
    OBVIOUS
  <2> QED BY <2>1, <2>2, <1>3, WorkerOther
<1>6. AttemptsOK(inFlight', arriving', replies', closeCall')
  <2>1. \A a \in replies' : a.post \in inFlight'
    BY DEF AttemptsOK
  <2>2. closeCall' # "none"
    OBVIOUS
  <2> QED BY <2>1, <2>2, AttemptsFewer
<1>7. LogOK(stored, appends, replies')
  BY LogSettle
<1>9. ASSUME handleOpts.withSeq
      PROVE  SeqOK(inFlight' \cup arriving', stored, appends, buffer, lastSeq)
  <2>0. SeqOK(inFlight \cup arriving, stored, appends, buffer, lastSeq)
    BY <1>9
  <2>1. \A q \in inFlight' \cup arriving' :
          (\E x \in inFlight \cup arriving : SameRequest(x, q)) \/ q.close = TRUE
    BY <1>3 DEF SameRequest
  <2> QED BY <2>0, <2>1, SeqSettle
<1> QED BY <1>1, <1>4, <1>5, <1>6, <1>7, <1>9

\* the worker sends the buffer in the place of a POST that was answered
LEMMA EndLaunches ==
  ASSUME HandleInv, NEW p \in inFlight, ~p.close, handleOpts.batching,
         appends' \in Promises, SettledFrom(appends, appends'),
         \A m \in Numbers : appends'[m] = "resolved" => appends[m] = "resolved" \/ In(m, stored),
         \A m \in Numbers : appends'[m] = "pending" => ~In(m, p.batch),
         buffer # <<>>, buffer' = <<>>,
         inFlight' = (inFlight \ {p}) \cup {Post(buffer)}, arriving' = arriving \cup {Post(buffer)},
         UNCHANGED <<handleOpts, stored, lastSeq, streamShut, closeCall, queueState, netFaults>>,
         \A a \in replies' : a \in replies /\ a.post # p
  PROVE  HandleInv'
<1> USE DEF HandleInv
<1>t. HandleTypeOK
  OBVIOUS
<1>0. appends \in Promises /\ buffer \in Seq(Numbers)
  BY <1>t DEF HandleTypeOK, Promises
<1>a. Len(buffer) > 0
  BY <1>0
<1>b. Post(buffer) \in PostRecord /\ Post(buffer).close = FALSE /\ Post(buffer).attempt = 0
  BY <1>0, PostIsRecord
<1>1. HandleTypeOK'
  <2>1. <<>> \in Seq(Numbers)
    OBVIOUS
  <2> QED BY <2>1, <1>b, <1>t DEF HandleTypeOK, Promises
<1>2. CallsInTurn(appends')
  BY <1>0, CallsSettle
<1>c. PICK flying : flying = inFlight \ {p}
  OBVIOUS
<1>3. \A q \in flying \cup arriving : q \in inFlight \cup arriving
  BY <1>c
<1>d. /\ \A q \in inFlight' \cup arriving' : q \in flying \cup arriving \/ q = Post(buffer)
      /\ \A q \in inFlight' : q \in flying \/ q = Post(buffer)
      /\ \A q \in flying : q \in inFlight' /\ q \in inFlight /\ q # p
      /\ \A q \in arriving' : q \in arriving \/ q = Post(buffer)
      /\ Post(buffer) \in inFlight'
  BY <1>c
<1>4. PostsOK(flying \cup arriving, appends', buffer)
  BY <1>0, <1>3, PostsSettle
<1>5. PostsOK(inFlight' \cup arriving', appends', <<>>)
  BY <1>4, <1>a, <1>d, PostsLaunch
<1>6. /\ WorkerOK(flying \cup arriving, flying, appends', buffer, "finishing")
      /\ \A q \in flying : q.close
  <2>1. WorkerOK(inFlight \cup arriving, inFlight, appends, buffer, queueState)
    OBVIOUS
  <2>2. \A q \in flying : q \in inFlight /\ q # p
    BY <1>c
  <2>3. \A m \in Numbers : appends'[m] = "pending" =>
            ~In(m, p.batch) /\ (buffer = buffer \/ ~In(m, buffer))
    OBVIOUS
  <2> HIDE DEF HandleInv
  <2> QED BY <2>1, <2>2, <2>3, <1>3, WorkerEnds
<1>7. WorkerOK(inFlight' \cup arriving', inFlight', appends', <<>>, "running")
  <2>1. GoodBatch(buffer, appends')
    BY <1>4, PostsAre
  <2> HIDE DEF HandleInv
  <2> QED BY <2>1, <1>2, <1>6, <1>d, WorkerLaunch
<1>8. queueState' = "running"
  <2>1. queueState = "running"
    BY DEF WorkerOK
  <2> QED BY <2>1
<1>9. AttemptsOK(flying, arriving, replies', closeCall)
  <2>1. \A a \in replies' : a \in replies /\ a.post \in flying
    BY <1>c DEF AttemptsOK
  <2>2. AttemptsOK(inFlight, arriving, replies, closeCall)
    OBVIOUS
  <2>3. \A q \in flying : q \in inFlight
    BY <1>c
  <2> HIDE DEF HandleInv
  <2> QED BY <2>1, <2>2, <2>3, AttemptsFewer
<1>10. AttemptsOK(inFlight', arriving', replies', closeCall)
  <2>1. \A q \in flying \cup arriving : ~SameRequest(q, Post(buffer))
    BY <1>a, <1>4, FreshRequest
  <2> HIDE DEF HandleInv
  <2> QED BY <2>1, <1>9, <1>b, <1>d, AttemptsFresh
<1>11. LogOK(stored, appends', replies')
  BY LogSettle
<1>12. LogOrder(stored, appends')
  <2>1. \A m \in Numbers : appends[m] = "rejected" => appends'[m] = "rejected"
    BY DEF SettledFrom
  <2>2. LogOrder(stored, appends)
    OBVIOUS
  <2> QED BY <2>1, <2>2, OrderSettle
<1>13. ASSUME handleOpts.withSeq
      PROVE  SeqOK(inFlight' \cup arriving', stored, appends', <<>>, lastSeq)
  <2>0. SeqOK(inFlight \cup arriving, stored, appends, buffer, lastSeq)
    BY <1>13
  <2>1. \A q \in flying \cup arriving :
          (\E x \in inFlight \cup arriving : SameRequest(x, q)) \/ q.close = TRUE
    BY <1>3 DEF SameRequest
  <2>2. \A m \in Numbers : appends[m] # "none" => appends'[m] # "none"
    BY DEF SettledFrom
  <2>3. SeqOK(flying \cup arriving, stored, appends', buffer, lastSeq)
    <3>1. PICK b : b = buffer
      OBVIOUS
    <3>2. PICK posts : posts = flying \cup arriving
      OBVIOUS
    <3>3. \A q \in posts : (\E x \in inFlight \cup arriving : SameRequest(x, q)) \/ q.close = TRUE
      BY <2>1, <3>2
    <3> HIDE DEF HandleInv
    <3>4. SeqOK(posts, stored, appends', b, lastSeq)
      BY <2>0, <2>2, <3>1, <3>3, SeqSettle
    <3> QED BY <3>1, <3>2, <3>4
  <2> QED BY <2>3, <1>d, SeqLaunch
<1> QED BY <1>1, <1>2, <1>5, <1>7, <1>8, <1>10, <1>11, <1>12, <1>13

\* what an answered POST carried is stored
LEMMA AnsweredStored ==
  ASSUME HandleInv, NEW a \in replies, a.status = 204, ~a.post.close
  PROVE  \A m \in Numbers : m \in ToSet(a.post.batch) => In(m, stored)
<1>1. a.post \in inFlight
  BY DEF HandleInv, AttemptsOK
<1>2. a.post.batch \in Seq(1 .. Final)
  BY <1>1 DEF HandleInv, HandleTypeOK, PostRecord
<1>3. \A i \in 1 .. Len(a.post.batch) : In(a.post.batch[i], stored)
  BY DEF HandleInv, LogOK
<1>4. \A m \in Numbers : m \in ToSet(a.post.batch) => In(m, a.post.batch)
  BY <1>2, InToSet
<1>5. \A m \in Numbers : In(m, a.post.batch) => \E i \in 1 .. Len(a.post.batch) : a.post.batch[i] = m
  BY DEF In
<1> QED BY <1>3, <1>4, <1>5

\* a POST is rejected
LEMMA FailKeeps ==
  ASSUME HandleInv, NEW p \in inFlight, PostEnds(p, FALSE),
         UNCHANGED <<handleOpts, stored, lastSeq, streamShut>>, netFaults' \in Nat,
         \A a \in replies' : a \in replies /\ a.post # p
  PROVE  HandleInv'
<1>0. appends \in Promises /\ buffer \in Seq(Numbers) /\ p.batch \in Seq(1 .. Final)
      /\ queueState \in {"idle", "running", "finishing"}
  BY DEF HandleInv, HandleTypeOK, Promises, PostRecord
<1>1. CASE p.close
  <2>1. /\ closeCall' = "rejected" /\ inFlight' = inFlight \ {p} /\ arriving' = arriving
        /\ UNCHANGED <<appends, buffer, queueState>>
    BY <1>1 DEF PostEnds
  <2> QED BY <1>1, <2>1, EndCloses
<1>2. CASE ~p.close
  <2>1. PICK S : /\ appends' = Settle(S, "rejected") /\ \A m \in ToSet(p.batch) : m \in S
                 /\ buffer' = buffer \/ (buffer' = <<>> /\ \A m \in ToSet(buffer) : m \in S)
                 /\ inFlight' = inFlight \ {p} /\ arriving' = arriving /\ closeCall' = closeCall
                 /\ queueState' = queueState \/ queueState' = "finishing"
    <3>1. CASE handleOpts.batching
      <4>1. PICK S : S = ToSet(p.batch) \cup ToSet(buffer)
        OBVIOUS
      <4>2. /\ appends' = Settle(S, "rejected") /\ buffer' = <<>> /\ inFlight' = inFlight \ {p}
            /\ queueState' = "finishing" /\ arriving' = arriving /\ closeCall' = closeCall
        BY <1>2, <3>1, <4>1 DEF PostEnds, WorkerFails
      <4> QED BY <4>1, <4>2
    <3>2. CASE ~handleOpts.batching
      <4>2. /\ appends' = Settle(ToSet(p.batch), "rejected") /\ inFlight' = inFlight \ {p}
            /\ UNCHANGED <<buffer, queueState, arriving, closeCall>>
        BY <1>2, <3>2 DEF PostEnds
      <4> QED BY <4>2
    <3> QED BY <3>1, <3>2
  <2>2. /\ appends' \in Promises /\ SettledFrom(appends, appends')
        /\ \A m \in Numbers : appends'[m] = "pending" => m \notin S
        /\ \A m \in Numbers : appends'[m] = "resolved" => appends[m] = "resolved"
    BY <1>0, <2>1, SettleIs
  <2>3. \A m \in Numbers : appends'[m] = "pending" =>
            ~In(m, p.batch) /\ (buffer' = buffer \/ ~In(m, buffer))
    <3>1. \A m \in Numbers : (In(m, p.batch) <=> m \in ToSet(p.batch))
      BY <1>0, InToSet
    <3>2. \A m \in Numbers : (In(m, buffer) <=> m \in ToSet(buffer))
      BY <1>0, InToSet
    <3> QED BY <3>1, <3>2, <2>1, <2>2
  <2>4. buffer' = buffer \/ buffer' = <<>>
    BY <2>1
  <2>5. queueState' \in {"idle", "running", "finishing"}
    BY <2>1, <1>0
  <2> QED BY <1>2, <2>1, <2>2, <2>3, <2>4, <2>5, EndSettles
<1> QED BY <1>1, <1>2

LEMMA ReplyKeeps ==
  ASSUME HandleInv, NEW a \in replies, ReplyArrives(a)
  PROVE  HandleInv'
<1>0. PICK p : p = a.post
  OBVIOUS
<1>1. /\ p \in inFlight /\ replies' = replies \ {a} /\ PostEnds(p, a.status = 204)
      /\ UNCHANGED <<handleOpts, stored, lastSeq, streamShut, netFaults>>
  BY <1>0 DEF ReplyArrives, streamSide, HandleInv, AttemptsOK
<1>2. \A b \in replies' : b \in replies /\ b.post # p
  BY <1>0, <1>1 DEF HandleInv, AttemptsOK
<1>3. netFaults' \in Nat
  BY <1>1 DEF HandleInv, HandleTypeOK
<1>4. CASE a.status # 204
  <2>1. PostEnds(p, FALSE)
    BY <1>1, <1>4 DEF PostEnds
  <2> QED BY <2>1, <1>1, <1>2, <1>3, FailKeeps
<1>5. CASE a.status = 204 /\ p.close
  <2>1. /\ closeCall' = "resolved" /\ inFlight' = inFlight \ {p} /\ arriving' = arriving
        /\ UNCHANGED <<appends, buffer, queueState>>
    BY <1>5, <1>1 DEF PostEnds
  <2> QED BY <1>5, <2>1, <1>1, <1>2, <1>3, EndCloses
<1>6. CASE a.status = 204 /\ ~p.close
  <2>0. appends \in Promises /\ buffer \in Seq(Numbers) /\ p.batch \in Seq(1 .. Final)
        /\ queueState \in {"idle", "running", "finishing"}
    BY <1>1 DEF HandleInv, HandleTypeOK, Promises, PostRecord
  <2>1. appends' = Settle(ToSet(p.batch), "resolved") /\ closeCall' = closeCall
    BY <1>6, <1>1 DEF PostEnds, WorkerSucceeds
  <2>2. /\ appends' \in Promises /\ SettledFrom(appends, appends')
        /\ \A m \in Numbers : appends'[m] = "pending" => m \notin ToSet(p.batch)
        /\ \A m \in Numbers : appends'[m] = "resolved" =>
              appends[m] = "resolved" \/ m \in ToSet(p.batch)
    BY <2>0, <2>1, SettleIs
  <2>3. \A m \in Numbers : appends'[m] = "resolved" => appends[m] = "resolved" \/ In(m, stored)
    <3>1. \A m \in Numbers : m \in ToSet(p.batch) => In(m, stored)
      BY <1>0, <1>6, AnsweredStored
    <3> QED BY <3>1, <2>2
  <2>4. \A m \in Numbers : appends'[m] = "pending" => ~In(m, p.batch)
    <3>1. \A m \in Numbers : (In(m, p.batch) <=> m \in ToSet(p.batch))
      BY <2>0, InToSet
    <3> QED BY <3>1, <2>2
  <2>5. CASE handleOpts.batching /\ buffer # <<>>
    <3>1. /\ buffer' = <<>> /\ inFlight' = (inFlight \ {p}) \cup {Post(buffer)}
          /\ arriving' = arriving \cup {Post(buffer)} /\ queueState' = queueState
      BY <2>5, <1>6, <1>1 DEF PostEnds, WorkerSucceeds
    <3> QED BY <3>1, <2>1, <2>2, <2>3, <2>4, <2>5, <1>1, <1>2, <1>6, EndLaunches
  <2>6. CASE ~(handleOpts.batching /\ buffer # <<>>)
    <3>1. /\ buffer' = buffer /\ inFlight' = inFlight \ {p} /\ arriving' = arriving
          /\ queueState' \in {"idle", "running", "finishing"}
      BY <2>0, <2>6, <1>6, <1>1 DEF PostEnds, WorkerSucceeds
    <3> QED BY <3>1, <2>1, <2>2, <2>3, <2>4, <1>1, <1>2, <1>3, <1>6, EndSettles
  <2> QED BY <2>5, <2>6
<1> QED BY <1>4, <1>5, <1>6

LEMMA AbortKeeps ==
  ASSUME HandleInv, NEW p \in inFlight, AppendSignalAborts(p)
  PROVE  HandleInv'
<1>1. /\ replies' = {a \in replies : a.post # p} /\ PostEnds(p, FALSE)
      /\ UNCHANGED <<handleOpts, stored, lastSeq, streamShut, netFaults>>
  BY DEF AppendSignalAborts, streamSide
<1>2. \A a \in replies' : a \in replies /\ a.post # p
  BY <1>1
<1>3. netFaults' \in Nat
  BY <1>1 DEF HandleInv, HandleTypeOK
<1> QED BY <1>1, <1>2, <1>3, FailKeeps

LEMMA NoAnswerKeeps ==
  ASSUME HandleInv, NEW p \in inFlight, FetchGetsNoAnswer(p)
  PROVE  HandleInv'
<1>0. PICK again : again = [p EXCEPT !.attempt = @ + 1]
  OBVIOUS
<1>1. /\ netFaults' = netFaults + 1 /\ replies' = {a \in replies : a.post # p}
      /\ UNCHANGED <<handleOpts, stored, lastSeq, streamShut>>
  BY DEF FetchGetsNoAnswer, streamSide
<1>2. \A a \in replies' : a \in replies /\ a.post # p
  BY <1>1
<1>3. netFaults' \in Nat
  BY <1>1 DEF HandleInv, HandleTypeOK
<1>4. CASE PostEnds(p, FALSE)
  BY <1>1, <1>2, <1>3, <1>4, FailKeeps
<1>5. CASE /\ inFlight' = (inFlight \ {p}) \cup {again}
           /\ (arriving' = arriving \cup {again} \/ arriving' = (arriving \ {p}) \cup {again})
           /\ UNCHANGED <<appends, buffer, queueState, closeCall>>
  <2>1. p \in PostRecord
    BY DEF HandleInv, HandleTypeOK
  <2>2. again \in PostRecord /\ SameRequest(p, again) /\ again.attempt = p.attempt + 1
    BY <1>0, <2>1 DEF PostRecord, SameRequest
  <2>3. /\ \A q \in inFlight' : (q \in inFlight /\ q # p) \/ q = again
        /\ \A q \in inFlight : q \in inFlight' \/ q = p
        /\ \A q \in arriving' : q \in arriving \/ q = again
        /\ again \in inFlight'
    BY <1>5
  <2>4. \A q \in inFlight' \cup arriving' : q \in inFlight \cup arriving \/ q = again
    BY <2>3
  <2>5. HandleTypeOK'
    <3>1. inFlight' \subseteq PostRecord /\ arriving' \subseteq PostRecord
      BY <2>2, <2>3 DEF HandleInv, HandleTypeOK
    <3>2. replies' \subseteq [post : PostRecord, status : {204, 409}]
      BY <1>2 DEF HandleInv, HandleTypeOK
    <3> QED BY <3>1, <3>2, <1>1, <1>3, <1>5 DEF HandleInv, HandleTypeOK
  <2>6. \A q \in inFlight' \cup arriving' : \E x \in inFlight \cup arriving : SameRequest(x, q)
    BY <2>2, <2>4 DEF SameRequest
  <2>7. PostsOK(inFlight' \cup arriving', appends, buffer)
    BY <2>6, PostsAgain DEF HandleInv
  <2>8. ASSUME handleOpts.batching
        PROVE  WorkerOK(inFlight' \cup arriving', inFlight', appends, buffer, queueState)
    <3>1. WorkerOK(inFlight \cup arriving, inFlight, appends, buffer, queueState)
      BY <2>8 DEF HandleInv
    <3>2. p \in inFlight \cup arriving
      OBVIOUS
    <3> QED BY <3>1, <3>2, <2>2, <2>3, <2>4, WorkerAgain
  <2>9. AttemptsOK(inFlight', arriving', replies', closeCall)
    <3>1. /\ AttemptsOK(inFlight, arriving, replies, closeCall)
          /\ inFlight \subseteq PostRecord /\ arriving \subseteq PostRecord
      BY DEF HandleInv, HandleTypeOK
    <3> QED BY <3>1, <2>2, <2>3, <1>2, AttemptsAgain
  <2>10. LogOK(stored, appends, replies')
    <3>1. LogOK(stored, appends, replies)
      BY DEF HandleInv
    <3> QED BY <3>1, <1>2, LogSettle
  <2>11. ASSUME handleOpts.withSeq
         PROVE  SeqOK(inFlight' \cup arriving', stored, appends, buffer, lastSeq)
    <3>0. SeqOK(inFlight \cup arriving, stored, appends, buffer, lastSeq)
      BY <2>11 DEF HandleInv
    <3> QED BY <3>0, <2>6, SeqSettle
  <2> QED BY <2>5, <2>7, <2>8, <2>9, <2>10, <2>11, <1>1, <1>5 DEF HandleInv
<1> QED
  <2>1. PICK lost \in BOOLEAN :
          LET left == IF lost THEN arriving \ {p} ELSE arriving IN
          IF again.attempt <= handleOpts.maxRetries
          THEN /\ inFlight' = (inFlight \ {p}) \cup {again}
               /\ arriving' = left \cup {again}
               /\ UNCHANGED <<appends, buffer, queueState, closeCall>>
          ELSE PostEnds(p, FALSE) /\ lost = FALSE
    BY <1>0 DEF FetchGetsNoAnswer
  <2> QED BY <2>1, <1>4, <1>5

LEMMA HandleInitInv ==
  ASSUME HandleInit
  PROVE  HandleInv
<1>1. HandleTypeOK
  <2>1. <<>> \in Seq(Numbers) /\ <<>> \in Seq(1 .. Final)
    OBVIOUS
  <2>2. handleOpts \in Options
    BY NumbersFacts DEF HandleInit
  <2>3. appends \in [Numbers -> AppendState]
    BY DEF HandleInit, Numbers, AppendState
  <2> QED BY <2>1, <2>2, <2>3 DEF HandleInit, HandleTypeOK
<1>2. \A m \in Numbers : appends[m] = "none"
  BY DEF HandleInit, Numbers
<1>3. /\ inFlight = {} /\ arriving = {} /\ inFlight \cup arriving = {} /\ replies = {}
      /\ buffer = <<>> /\ stored = <<>> /\ lastSeq = 0
  BY DEF HandleInit
<1>4. CallsInTurn(appends)
  BY <1>2 DEF CallsInTurn
<1>5. PostsOK({}, appends, <<>>)
  BY EmptyBatch DEF PostsOK
<1>6. WorkerOK({}, {}, appends, <<>>, queueState)
  BY <1>2 DEF WorkerOK
<1>7. AttemptsOK({}, {}, {}, closeCall)
  BY DEF AttemptsOK
<1>8. LogOK(<<>>, appends, {}) /\ LogOrder(<<>>, appends) /\ ~In(Final, <<>>)
  BY <1>2 DEF LogOK, LogOrder, In
<1>9. SeqOK({}, <<>>, appends, <<>>, 0)
  BY DEF SeqOK
<1> QED BY <1>1, <1>3, <1>4, <1>5, <1>6, <1>7, <1>8, <1>9 DEF HandleInv

LEMMA HandleInvOrder ==
  ASSUME HandleInv
  PROVE  ResolvedInOrder
<1>0. stored \in Seq(1 .. Final) /\ \A m \in Called : m \in Numbers
  BY DEF HandleInv, HandleTypeOK, Called, Numbers
<1>d. DOMAIN stored = 1 .. Len(stored)
  BY <1>0
<1>1. \A m \in Called : appends[m] = "resolved" => m \in ToSet(stored)
  BY <1>0, InToSet DEF HandleInv, LogOK
<1>2. ASSUME handleOpts.batching, NEW m \in Called, NEW n \in Called, m < n,
             appends[m] = "resolved", NEW j \in DOMAIN stored, stored[j] = n
      PROVE  \E i \in 1 .. (j - 1) : stored[i] = m
  <2>1. n # Final
    BY <1>0, NumbersFacts
  <2>2. LogOrder(stored, appends)
    BY <1>2 DEF HandleInv
  <2> QED BY <1>0, <1>2, <1>d, <2>1, <2>2 DEF LogOrder
<1>3. handleOpts.withSeq => \A i, j \in DOMAIN stored : i # j => stored[i] # stored[j]
  BY <1>d DEF HandleInv, SeqOK
<1> QED BY <1>1, <1>2, <1>3 DEF ResolvedInOrder

\* A write handle keeps the order of its appends, for any number of calls, any setup,
\* retried and abandoned POSTs: see ResolvedInOrder.
THEOREM AppendsStayInOrder == HandleSpec => []ResolvedInOrder
<1>1. HandleInit => HandleInv
  BY HandleInitInv
<1>2. HandleInv /\ [HandleNext]_handleVars => HandleInv'
  <2> SUFFICES ASSUME HandleInv, [HandleNext]_handleVars PROVE HandleInv'
    OBVIOUS
  <2>1. CASE UNCHANGED handleVars
    BY <2>1 DEF HandleInv, HandleTypeOK, handleVars
  <2>2. ASSUME NEW m \in 1 .. MaxAppends, HandleAppends(m) PROVE HandleInv'
    BY <2>2, AppendsKeeps DEF Numbers
  <2>3. CASE HandleCloses
    BY <2>3, ClosesKeeps
  <2>4. CASE QueueReleases
    BY <2>4, ReleaseKeeps
  <2>5. ASSUME NEW p \in arriving, HandleAppendRequest(p) PROVE HandleInv'
    BY <2>5, RequestKeeps
  <2>6. ASSUME NEW a \in replies, ReplyArrives(a) PROVE HandleInv'
    BY <2>6, ReplyKeeps
  <2>7. ASSUME NEW p \in inFlight, FetchGetsNoAnswer(p) PROVE HandleInv'
    BY <2>7, NoAnswerKeeps
  <2>8. ASSUME NEW p \in inFlight, AppendSignalAborts(p) PROVE HandleInv'
    BY <2>8, AbortKeeps
  <2> QED BY <2>1, <2>2, <2>3, <2>4, <2>5, <2>6, <2>7, <2>8 DEF HandleNext
<1>3. HandleInv => ResolvedInOrder
  BY HandleInvOrder
<1> QED BY <1>1, <1>2, <1>3, PTL DEF HandleSpec
=============================================================================
