------------------------- MODULE StreamStoreProofs -------------------------
(***************************************************************************)
(* Proofs about the in-memory store, for every set of paths, producers and *)
(* waiters and every bound: its types and the reference counts of forks;   *)
(* then its logs: offsets tile them, every producer's requests are in them *)
(* once and in order, what a "duplicate" answer says is true, and they     *)
(* only grow until they are closed; then the long-polls.                   *)
(***************************************************************************)
EXTENDS StreamStore, FiniteSetTheorems, TLAPS

Store == [Path -> Stream]

\* Registered requests wait, and a waiting request names a path.
PollsPlaced ==
    /\ \A w \in pending : poll[w].state = "waiting"
    /\ \A w \in Waiter : poll[w].state = "waiting" => poll[w].path \in Path

----------------------------------------------------------------------------
(* Types of the helpers *)

LEMMA NoTupleType == NoTuple \in Tuple
BY DEF NoTuple, Tuple

LEMMA NoEntryType == NoEntry \in ProducerEntry
BY DEF NoEntry, ProducerEntry, ProducerState, NoProducerState

LEMMA NoStreamType == NoStream \in Stream
<1>1. [i \in Producer |-> NoEntry] \in [Producer -> ProducerEntry]
  BY NoEntryType
<1>2. <<>> \in Seq(Message)
  OBVIOUS
<1> QED
  BY <1>1, <1>2, NoTupleType DEF NoStream, Stream, ContentType, Expiry

LEMMA IdlePollType == IdlePoll \in Poll
<1>1. <<>> \in Seq(Message)
  OBVIOUS
<1> QED
  BY <1>1 DEF IdlePoll, Poll

LEMMA UnreferencedType ==
    ASSUME NEW s \in Stream
    PROVE  Unreferenced(s) \in Stream
BY DEF Unreferenced, Stream

LEMMA CascadeType ==
    ASSUME NEW S \in Store, NEW p \in Path
    PROVE  DeleteWithCascade(S, p) \in Store
BY NoStreamType, UnreferencedType DEF DeleteWithCascade, Store

LEMMA SoftDeletedType ==
    ASSUME NEW S \in Store, NEW p \in Path
    PROVE  [S EXCEPT ![p].softDeleted = TRUE] \in Store
BY DEF Store, Stream

LEMMA DeleteStreamType ==
    ASSUME NEW S \in Store, NEW p \in Path
    PROVE  DeleteStream(S, p) \in Store
BY CascadeType, SoftDeletedType DEF DeleteStream

LEMMA ReapedType ==
    ASSUME NEW S \in Store, NEW p \in Path
    PROVE  Reaped(S, p) \in Store
BY DeleteStreamType, SoftDeletedType DEF Reaped

LEMMA OwnAfterType ==
    ASSUME NEW s \in Stream, NEW offset \in Int
    PROVE  OwnAfter(s, offset) \in Seq(Message)
<1> DEFINE I == {i \in DOMAIN s.messages : s.messages[i].offset <= offset}
<1>1. s.messages \in Seq(Message)
  BY DEF Stream
<1>2. DOMAIN s.messages = 1 .. Len(s.messages) /\ Len(s.messages) \in Nat
  BY <1>1
<1>3. IsFiniteSet(1 .. Len(s.messages))
  BY <1>2, FS_Interval
<1>4. IsFiniteSet(I) /\ Cardinality(I) \in Nat
  BY <1>2, <1>3, FS_Subset, FS_CardinalityType
<1>5. FindOffsetIndex(s, offset) \in Nat \ {0}
  BY <1>4 DEF FindOffsetIndex
<1> QED
  BY <1>1, <1>2, <1>5 DEF OwnAfter

LEMMA FramedType ==
    ASSUME NEW s \in Stream, NEW size \in Nat, NEW data \in Nat, NEW by \in Tuple
    PROVE  Framed(s, size, data, by) \in Message
BY BoundsAssumption DEF Framed, Message, Stream

LEMMA AppendedType ==
    ASSUME NEW s \in Stream, NEW m \in Message
    PROVE  Appended(s, m) \in Stream
<1>1. Append(s.messages, m) \in Seq(Message)
  BY DEF Stream
<1>2. m.offset \in Nat
  BY DEF Message
<1> QED
  BY <1>1, <1>2 DEF Appended, Stream
LEMMA CleanedType ==
    ASSUME NEW s \in Stream
    PROVE  Cleaned(s) \in Stream
<1>1. \A e \in ProducerEntry : CleanedEntry(e) \in ProducerEntry
  BY NoEntryType DEF CleanedEntry, ProducerEntry
<1>2. s.producers \in [Producer -> ProducerEntry]
  BY DEF Stream
<1>3. [i \in Producer |-> CleanedEntry(s.producers[i])]
        \in [Producer -> ProducerEntry]
  BY <1>1, <1>2
<1> QED
  BY <1>3 DEF Cleaned, Stream

LEMMA StampType ==
    ASSUME NEW s \in Stream, NEW h \in ProducerHeaders \cup {NoHeaders}
    PROVE  Stamp(s, h) \in Tuple
<1>1. CASE HasProducer(h)
  <2>1. h \in ProducerHeaders
    BY <1>1 DEF HasProducer, NoHeaders
  <2>2. h.pid \in Producer /\ h.epoch \in Nat /\ h.seq \in Nat
    BY <2>1, BoundsAssumption DEF ProducerHeaders
  <2>3. s.producers[h.pid].drops \in Nat
    BY <2>2 DEF Stream, ProducerEntry
  <2> QED
    BY <1>1, <2>2, <2>3 DEF Stamp, Tuple
<1>2. CASE ~HasProducer(h)
  BY <1>2, NoTupleType DEF Stamp
<1> QED
  BY <1>1, <1>2

LEMMA CommittedType ==
    ASSUME NEW s \in Stream, NEW h \in ProducerHeaders \cup {NoHeaders}
    PROVE  Committed(s, h) \in Stream
<1>1. CASE HasProducer(h)
  <2>1. h \in ProducerHeaders
    BY <1>1 DEF HasProducer, NoHeaders
  <2>2. h.pid \in Producer /\ h.epoch \in Nat /\ h.seq \in Nat
    BY <2>1, BoundsAssumption DEF ProducerHeaders
  <2>3. ProposedState(h.epoch, h.seq) \in ProducerState
    BY <2>2 DEF ProposedState, ProducerState
  <2> DEFINE e == [s.producers[h.pid] EXCEPT
                     !.st = ProposedState(h.epoch, h.seq), !.stale = FALSE]
             new == [s EXCEPT !.producers = [@ EXCEPT ![h.pid] = e]]
  <2>4. s.producers[h.pid] \in ProducerEntry
    BY <2>2 DEF Stream
  <2>5. e \in ProducerEntry
    BY <2>3, <2>4 DEF ProducerEntry
  <2>6. new \in Stream
    BY <2>5 DEF Stream
  <2>7. Committed(s, h) = new
    BY <1>1 DEF Committed, Stream
  <2> QED
    BY <2>6, <2>7
<1>2. CASE ~HasProducer(h)
  BY <1>2 DEF Committed
<1> QED
  BY <1>1, <1>2

LEMMA SeenType ==
    ASSUME NEW s \in Stream, NEW h
    PROVE  Seen(s, h) \in Stream
BY CleanedType DEF Seen

LEMMA AfterAppendType ==
    ASSUME NEW s \in Stream, NEW r \in AppendRequest, writes \in Nat
    PROVE  AfterAppend(s, r) \in Stream
<1> DEFINE h == r.headers
           t == Seen(s, h)
           by == Stamp(t, h)
           m == Framed(t, r.size, writes + 1, by)
           u == Committed(Appended(t, m), h)
<1>1. /\ h \in ProducerHeaders \cup {NoHeaders}
      /\ r.size \in Nat /\ r.close \in BOOLEAN /\ r.seq \in Int
  <2>1. /\ r.headers \in ProducerHeaders \cup {NoHeaders}
        /\ r.size \in Sizes /\ r.close \in BOOLEAN /\ r.seq \in StreamSeqs
    BY DEF AppendRequest
  <2>2. r.size \in Nat
    BY <2>1, RequestAssumption
  <2>3. r.seq \in Int
    BY <2>1, RequestAssumption
  <2> QED
    BY <2>1, <2>2, <2>3
<1>2. t \in Stream /\ by \in Tuple
  BY <1>1, SeenType, StampType
<1>3. m \in Message
  BY <1>1, <1>2, FramedType
<1>4. u \in Stream
  BY <1>1, <1>2, <1>3, AppendedType, CommittedType
<1> HIDE DEF u, by, h
<1>5. AfterAppend(s, r) =
        [u EXCEPT !.lastSeq = IF r.seq # -1 THEN r.seq ELSE @,
                  !.closed = @ \/ r.close,
                  !.closedBy = IF r.close /\ HasProducer(h) THEN by ELSE @]
  BY DEF AfterAppend, u, by, h
<1> QED
  BY <1>1, <1>2, <1>4, <1>5 DEF Stream

----------------------------------------------------------------------------
(* Types of the long-polls *)

LEMMA ResolvedType ==
    ASSUME TypeOK, NEW w \in Waiter, NEW msgs \in Seq(Message),
           NEW c \in BOOLEAN, NEW t \in BOOLEAN
    PROVE  Resolved(w, msgs, c, t) \in Poll
BY DEF Resolved, TypeOK, Poll

LEMMA CancelWaitsType ==
    ASSUME TypeOK, NEW ps, CancelWaits(ps)
    PROVE  poll' \in [Waiter -> Poll] /\ pending' \subseteq Waiter
<1>1. <<>> \in Seq(Message)
  OBVIOUS
<1>2. \A w \in Waiter : Resolved(w, <<>>, FALSE, FALSE) \in Poll
  BY <1>1, ResolvedType
<1> QED
  BY <1>2 DEF CancelWaits, TypeOK

LEMMA NotifyWaitsType ==
    ASSUME TypeOK, NEW p, NEW s \in Stream, NEW c, NotifyWaits(p, s, c)
    PROVE  poll' \in [Waiter -> Poll] /\ pending' \subseteq Waiter
<1>1. \A w \in Waiter : poll[w].offset \in Int
  BY DEF TypeOK, Poll
<1>2. \A w \in Waiter : OwnAfter(s, poll[w].offset) \in Seq(Message)
  BY <1>1, OwnAfterType
<1>3. \A w \in Waiter :
        Resolved(w, OwnAfter(s, poll[w].offset),
                 s.closed /\ OwnAfter(s, poll[w].offset) = <<>>, FALSE) \in Poll
  BY <1>2, ResolvedType DEF Stream
<1> QED
  BY <1>3 DEF NotifyWaits, TypeOK

LEMMA OnlyReapType ==
    ASSUME TypeOK, NEW p \in Path, OnlyReap(p), UNCHANGED <<births, writes>>
    PROVE  TypeOK'
<1>1. streams' \in Store
  BY ReapedType DEF OnlyReap, TypeOK, Store
<1> QED
  BY <1>1, CancelWaitsType DEF OnlyReap, TypeOK, Store
----------------------------------------------------------------------------
(* create() *)

\* A store and a request that create() goes through with.
CreateContext(S, src, o) ==
    /\ S \in Store /\ births \in Nat /\ writes \in Nat
    /\ src \in ForkSources \cup {NoPath}
    /\ streams \in Store
    /\ o \in CreateRequest(src)
    /\ ~CreateRejected(S, o)

LEMMA RequestFields ==
    ASSUME NEW S, NEW src, NEW o, CreateContext(S, src, o)
    PROVE  /\ o.forkedFrom = src /\ o.closed \in BOOLEAN
           /\ o.size \in Nat /\ o.sub \in Nat
           /\ o.expiry \in Expiry
           /\ o.ctype \in ContentType \cup {"inherit"}
           /\ src # NoPath => src \in Path
           /\ src # NoPath => ForkPoint(S, o) \in Nat /\ ForkPoint(S, o) <= S[src].tail
<1>1. /\ o.forkedFrom = src /\ o.closed \in BOOLEAN
      /\ o.size \in Sizes
      /\ o.expiry \in Expiries
      /\ o.ctype \in ContentTypes
      /\ o.sub \in (IF src = NoPath THEN {0} ELSE SubOffsets)
      /\ o.forkOffset \in
            (IF src = NoPath THEN {-1} ELSE -1 .. streams[src].tail + 1)
  BY DEF CreateContext, CreateRequest
<1>2. o.size \in Nat
  BY <1>1, RequestAssumption
<1>3. o.sub \in Nat
  <2>1. CASE src = NoPath
    BY <1>1, <2>1
  <2>2. CASE src # NoPath
    BY <1>1, <2>2, RequestAssumption
  <2> QED
    BY <2>1, <2>2
<1>4. o.expiry \in Expiry /\ o.ctype \in ContentType \cup {"inherit"}
  BY <1>1, RequestAssumption
<1>5. src # NoPath => src \in Path
  BY NamesAssumption DEF CreateContext
<1>6. ASSUME src # NoPath
      PROVE  ForkPoint(S, o) \in Nat /\ ForkPoint(S, o) <= S[src].tail
  <2>1. S[src].tail \in Nat
    BY <1>5, <1>6 DEF CreateContext, Store, Stream
  <2>2. streams[src].tail \in Nat
    BY <1>5, <1>6 DEF CreateContext, Store, Stream
  <2>3. o.forkOffset \in Int
    BY <1>1, <1>6, <2>2
  <2>4. ForkPoint(S, o) \in Int
    BY <1>1, <2>1, <2>3 DEF ForkPoint
  <2>5. ~(ForkPoint(S, o) < 0) /\ ~(S[src].tail < ForkPoint(S, o))
    BY <1>1, <1>6 DEF CreateContext, CreateRejected, ForkRejected
  <2> QED
    BY <2>1, <2>4, <2>5
<1> QED
  BY <1>1, <1>2, <1>3, <1>4, <1>5, <1>6

LEMMA FreshStreamType ==
    ASSUME NEW S, NEW src, NEW o, CreateContext(S, src, o)
    PROVE  FreshStream(S, o) \in Stream
<1> DEFINE isFork == src # NoPath
           ctype == IF isFork /\ o.ctype = "inherit" THEN S[src].ctype
                    ELSE IF o.ctype = "inherit" THEN "bin" ELSE o.ctype
           tail == IF isFork THEN ForkPoint(S, o) ELSE 0
           expiry == IF isFork THEN ForkExpiry(S, o) ELSE o.expiry
<1>1. isFork => S[src] \in Stream
  BY RequestFields DEF CreateContext, Store
<1>2. ctype \in ContentType
  BY <1>1, RequestFields DEF Stream, ContentType
<1>3. tail \in Nat
  BY RequestFields
<1>4. expiry \in Expiry
  BY <1>1, RequestFields DEF ForkExpiry, Stream
<1>5. births + 1 \in Nat
  BY DEF CreateContext
<1>6. FreshStream(S, o) =
        [NoStream EXCEPT !.exists = TRUE, !.born = births + 1, !.ctype = ctype,
                         !.tail = tail, !.expiry = expiry, !.closed = o.closed,
                         !.forkedFrom = src, !.forkOffset = tail]
  <2>1. o.forkedFrom = src
    BY RequestFields
  <2> QED
    BY <2>1, Zenon DEF FreshStream
<1> HIDE DEF ctype, tail, expiry, isFork
<1>7. src \in Path \cup {NoPath} /\ o.closed \in BOOLEAN
  BY RequestFields
<1>8. PICK n \in Stream : n = NoStream
  BY NoStreamType
<1>9. PICK k \in Nat : k = births + 1
  BY <1>5
<1>10. FreshStream(S, o) =
        [n EXCEPT !.exists = TRUE, !.born = k, !.ctype = ctype, !.tail = tail, !.expiry = expiry,
                  !.closed = o.closed, !.forkedFrom = src, !.forkOffset = tail]
  BY <1>6, <1>8, <1>9, Zenon
<1> QED
  BY ONLY <1>2, <1>3, <1>4, <1>7, <1>8, <1>9, <1>10 DEF Stream

LEMMA VisibleType ==
    ASSUME NEW S \in Store, NEW q, NEW offset
    PROVE  Visible(S, q, offset) \subseteq Message
<1>1. \A r \in Path : Range(S[r].messages) \subseteq Message
  BY DEF Store, Stream, Range
<1> QED
  BY <1>1 DEF Visible

LEMMA FirstPastForkType ==
    ASSUME NEW S, NEW src, NEW o, CreateContext(S, src, o),
           src # NoPath, o.sub > 0
    PROVE  FirstPastFork(S, o) \in Message
<1>1. \E m \in PastFork(S, o) : IsFirst(m, PastFork(S, o))
  BY RequestFields DEF CreateContext, CreateRejected, ForkRejected
<1>2. FirstPastFork(S, o) \in PastFork(S, o)
  BY <1>1 DEF FirstPastFork
<1> QED
  BY <1>2, VisibleType DEF PastFork, CreateContext

LEMMA WithPrefixType ==
    ASSUME NEW S, NEW src, NEW o, CreateContext(S, src, o)
    PROVE  WithPrefix(S, o) \in Stream
<1> DEFINE s == FreshStream(S, o)
<1>1. s \in Stream /\ o.forkedFrom = src /\ o.sub \in Nat
  BY FreshStreamType, RequestFields
<1>2. CASE src # NoPath /\ o.sub > 0
  <2>1. FirstPastFork(S, o).data \in Nat
    BY <1>2, FirstPastForkType DEF Message
  <2>2. Framed(s, o.sub, FirstPastFork(S, o).data, NoTuple) \in Message
    BY <1>1, <2>1, FramedType, NoTupleType
  <2> QED
    BY <1>1, <1>2, <2>2, AppendedType DEF WithPrefix
<1>3. CASE ~(src # NoPath /\ o.sub > 0)
  BY <1>1, <1>3 DEF WithPrefix
<1> QED
  BY <1>2, <1>3

LEMMA WithInitialDataType ==
    ASSUME NEW S, NEW src, NEW o, CreateContext(S, src, o)
    PROVE  WithInitialData(S, o) \in Stream
<1> DEFINE s == WithPrefix(S, o)
<1>1. s \in Stream /\ o.size \in Nat /\ writes + 1 \in Nat
  <2>1. s \in Stream
    BY WithPrefixType
  <2>2. o.size \in Nat
    BY RequestFields
  <2>3. writes + 1 \in Nat
    BY DEF CreateContext
  <2> QED
    BY <2>1, <2>2, <2>3
<1>2. Framed(s, o.size, writes + 1, NoTuple) \in Message
  BY <1>1, FramedType, NoTupleType
<1> QED
  BY <1>1, <1>2, AppendedType DEF WithInitialData

LEMMA ClearedType ==
    ASSUME streams \in Store, NEW p \in Path
    PROVE  Cleared(p) \in Store
BY NoStreamType DEF Cleared, Store

LEMMA ReferencedType ==
    ASSUME NEW S, NEW src, NEW o, CreateContext(S, src, o)
    PROVE  Referenced(S, o) \in Store
<1>1. S \in Store /\ o.forkedFrom = src /\ (src # NoPath => src \in Path)
  BY RequestFields DEF CreateContext
<1>2. ASSUME src # NoPath
      PROVE  [S[src] EXCEPT !.refCount = @ + 1] \in Stream
  <2>1. S[src] \in Stream
    BY <1>1, <1>2 DEF Store
  <2>2. \A t \in Stream : [t EXCEPT !.refCount = @ + 1] \in Stream
    BY DEF Stream
  <2> QED
    BY <2>1, <2>2
<1> QED
  BY <1>1, <1>2 DEF Referenced, Store

LEMMA CreateType ==
    ASSUME TypeOK, NEW p \in Path, NEW src \in ForkSources \cup {NoPath},
           NEW o \in CreateRequest(src), Create(p, o)
    PROVE  TypeOK'
<1> DEFINE S == Cleared(p)
<1>1. CreateContext(S, src, o)
  BY ClearedType DEF CreateContext, TypeOK, Store, Create
<1>2. streams' = [Referenced(S, o) EXCEPT ![p] = WithInitialData(S, o)]
  BY DEF Create
<1>3. streams' \in [Path -> Stream]
  BY <1>1, <1>2, WithInitialDataType, ReferencedType DEF Store
<1>4. births' \in Nat /\ writes' \in Nat
  BY DEF Create, TypeOK
<1>5. CancelWaits(Removed(streams, S))
  BY DEF Create
<1> QED
  BY <1>3, <1>4, <1>5, CancelWaitsType DEF TypeOK
----------------------------------------------------------------------------
(* The type invariant *)

LEMMA StreamUpdate ==
    ASSUME streams \in Store, NEW p \in Path, NEW s \in Stream
    PROVE  [streams EXCEPT ![p] = s] \in Store
BY DEF Store

LEMMA AppendAcceptedType ==
    ASSUME TypeOK, NEW p \in Path, NEW r \in AppendRequest, AppendAccepted(p, r)
    PROVE  TypeOK'
<1> DEFINE s == Reaped(streams, p)[p]
<1>1. streams \in Store
  BY DEF TypeOK, Store
<1>2. s \in Stream
  BY <1>1, ReapedType DEF Store
<1>3. AfterAppend(s, r) \in Stream
  BY <1>2, AfterAppendType DEF TypeOK
<1>4. /\ streams' = [streams EXCEPT ![p] = AfterAppend(s, r)]
      /\ NotifyWaits(p, AfterAppend(s, r), r.close)
      /\ writes' = writes + 1 /\ births' = births
  BY DEF AppendAccepted
<1> HIDE DEF s
<1>5. streams' \in Store
  BY <1>1, <1>3, <1>4, StreamUpdate
<1>6. poll' \in [Waiter -> Poll] /\ pending' \subseteq Waiter
  BY <1>3, <1>4, NotifyWaitsType
<1> QED
  BY <1>4, <1>5, <1>6 DEF TypeOK, Store

LEMMA CloseStreamType ==
    ASSUME TypeOK, NEW p \in Path, CloseStream(p)
    PROVE  TypeOK'
<1> DEFINE s == [streams[p] EXCEPT !.closed = TRUE]
<1>1. streams \in Store /\ streams[p] \in Stream
  BY DEF TypeOK, Store
<1>2. s \in Stream
  BY <1>1 DEF Stream
<1>3. CASE Found(streams, p) /\ ~Reaped(streams, p)[p].softDeleted
  <2>1. streams' = [streams EXCEPT ![p] = s] /\ NotifyWaits(p, s, TRUE)
        /\ UNCHANGED <<births, writes>>
    BY <1>3 DEF CloseStream
  <2> HIDE DEF s
  <2>2. streams' \in Store
    BY <1>1, <1>2, <2>1, StreamUpdate
  <2>3. poll' \in [Waiter -> Poll] /\ pending' \subseteq Waiter
    BY <1>2, <2>1, NotifyWaitsType
  <2> QED
    BY <2>1, <2>2, <2>3 DEF TypeOK, Store
<1>4. CASE ~(Found(streams, p) /\ ~Reaped(streams, p)[p].softDeleted)
  BY <1>4, OnlyReapType DEF CloseStream
<1> QED
  BY <1>3, <1>4

LEMMA CloseStreamWithProducerType ==
    ASSUME TypeOK, NEW p \in Path, NEW h \in ProducerHeaders,
           CloseStreamWithProducer(p, h)
    PROVE  TypeOK'
<1> DEFINE s == Cleaned(Reaped(streams, p)[p])
           t == [Committed(s, h) EXCEPT !.closed = TRUE,
                                        !.closedBy = Stamp(s, h)]
<1>1. streams \in Store
  BY DEF TypeOK, Store
<1>2. s \in Stream
  BY <1>1, ReapedType, CleanedType DEF Store
<1>3. h \in ProducerHeaders \cup {NoHeaders}
  OBVIOUS
<1>4. Committed(s, h) \in Stream /\ Stamp(s, h) \in Tuple
  BY <1>2, <1>3, CommittedType, StampType
<1>5. t \in Stream
  BY <1>4 DEF Stream
<1>6. CASE Found(streams, p) /\ ~streams[p].closed /\ Validated(s, h) = "accepted"
  <2>1. streams' = [streams EXCEPT ![p] = t] /\ NotifyWaits(p, t, TRUE)
        /\ UNCHANGED <<births, writes>>
    BY <1>6 DEF CloseStreamWithProducer
  <2> HIDE DEF t
  <2>2. streams' \in Store
    BY <1>1, <1>5, <2>1, StreamUpdate
  <2>3. poll' \in [Waiter -> Poll] /\ pending' \subseteq Waiter
    BY <1>5, <2>1, NotifyWaitsType
  <2> QED
    BY <2>1, <2>2, <2>3 DEF TypeOK, Store
<1>7. CASE Found(streams, p) /\ ~streams[p].closed /\ Validated(s, h) # "accepted"
  <2>1. streams' = [streams EXCEPT ![p] = s]
        /\ UNCHANGED <<pending, poll, births, writes>>
    BY <1>7 DEF CloseStreamWithProducer
  <2> HIDE DEF s
  <2>2. streams' \in Store
    BY <1>1, <1>2, <2>1, StreamUpdate
  <2> QED
    BY <2>1, <2>2 DEF TypeOK, Store
<1>8. CASE ~(Found(streams, p) /\ ~streams[p].closed)
  BY <1>8, OnlyReapType DEF CloseStreamWithProducer
<1> QED
  BY <1>6, <1>7, <1>8

LEMMA DeleteType ==
    ASSUME TypeOK, NEW p \in Path, Delete(p)
    PROVE  TypeOK'
<1> DEFINE T == DeleteStream(Reaped(streams, p), p)
<1>1. T \in Store
  BY ReapedType, DeleteStreamType DEF TypeOK, Store
<1>2. streams' = T /\ CancelWaits(Removed(streams, T))
      /\ UNCHANGED <<births, writes>>
  BY DEF Delete
<1> QED
  BY <1>1, <1>2, CancelWaitsType DEF TypeOK, Store

LEMMA WaitForMessagesType ==
    ASSUME TypeOK, NEW p \in Path, NEW w \in Waiter,
           NEW offset \in 0 .. streams[p].tail, WaitForMessages(w, p, offset)
    PROVE  TypeOK'
<1>1. streams' \in Store
  BY ReapedType DEF WaitForMessages, TypeOK, Store
<1>2. offset \in Nat /\ streams[p].born \in Nat
  BY DEF TypeOK, Stream
<1>3. [IdlePoll EXCEPT !.state = "waiting", !.path = p, !.offset = offset,
                       !.born = streams[p].born, !.timer = TRUE] \in Poll
  BY <1>2, IdlePollType DEF Poll
<1> QED
  BY <1>1, <1>3 DEF WaitForMessages, TypeOK, Store

LEMMA TimeoutType ==
    ASSUME TypeOK, NEW w \in Waiter, Timeout(w), poll[w].path \in Path
    PROVE  TypeOK'
<1> DEFINE p == poll[w].path
           S == Reaped(streams, p)
           gone == Removed(streams, S)
           late == Resolved(w, <<>>, Found(streams, p) /\ S[p].closed, TRUE)
<1>1. S \in Store
  BY ReapedType DEF TypeOK, Store
<1>2. <<>> \in Seq(Message)
  OBVIOUS
<1>3. S[p].closed \in BOOLEAN
  BY <1>1 DEF Store, Stream
<1>4. late \in Poll
  BY <1>2, <1>3, ResolvedType
<1>5. \A v \in Waiter : Resolved(v, <<>>, FALSE, FALSE) \in Poll
  BY <1>2, ResolvedType
<1>6. poll' = [v \in Waiter |->
                 IF v = w THEN late
                 ELSE IF v \in Waiting(gone) THEN Resolved(v, <<>>, FALSE, FALSE)
                 ELSE poll[v]]
  BY DEF Timeout
<1>7. streams' = S /\ pending' = pending \ ({w} \cup Waiting(gone))
      /\ UNCHANGED <<births, writes>>
  BY DEF Timeout
<1> HIDE DEF late, gone, S
<1> QED
  BY <1>1, <1>4, <1>5, <1>6, <1>7 DEF TypeOK, Store
LEMMA ResolveReachedType ==
    ASSUME TypeOK, PollsPlaced, NEW reached \in EverySecond(pending),
           ResolveReached(reached)
    PROVE  poll' \in [Waiter -> Poll] /\ pending' \subseteq Waiter
<1>1. <<>> \in Seq(Message)
  OBVIOUS
<1>2. reached \subseteq pending
  BY DEF EverySecond
<1>3. \A w \in reached : streams[poll[w].path].closed \in BOOLEAN
  BY <1>2 DEF PollsPlaced, TypeOK, Stream
<1>4. \A w \in reached :
        Resolved(w, <<>>, streams[poll[w].path].closed, FALSE) \in Poll
  BY <1>1, <1>2, <1>3, ResolvedType DEF TypeOK
<1> QED
  BY <1>4 DEF ResolveReached, TypeOK

THEOREM TypeStep ==
    ASSUME TypeOK, PollsPlaced, [Next]_vars
    PROVE  TypeOK'
<1> SUFFICES ASSUME Next PROVE TypeOK'
  BY DEF vars, TypeOK
<1>1. ASSUME NEW p \in Path, NEW src \in ForkSources \cup {NoPath},
             NEW o \in CreateRequest(src), Create(p, o)
      PROVE  TypeOK'
  BY <1>1, CreateType
<1>2. ASSUME NEW p \in Path, NEW o, CreateFails(p, o)
      PROVE  TypeOK'
  <2>1. streams' \in Store
    BY <1>2, ClearedType DEF CreateFails, TypeOK, Store
  <2> QED
    BY <1>2, <2>1, CancelWaitsType DEF CreateFails, TypeOK, Store
<1>3. ASSUME NEW p \in Path, NEW r \in AppendRequest, AppendAccepted(p, r)
      PROVE  TypeOK'
  BY <1>3, AppendAcceptedType
<1>4. ASSUME NEW p \in Path, NEW r \in AppendRequest, AppendStopped(p, r)
      PROVE  TypeOK'
  BY <1>4, OnlyReapType DEF AppendStopped
<1>5. ASSUME NEW p \in Path, NEW r \in AppendRequest, AppendRejected(p, r)
      PROVE  TypeOK'
  <2>1. streams \in Store /\ streams[p] \in Stream
    BY DEF TypeOK, Store
  <2>2. Seen(streams[p], r.headers) \in Stream
    BY <2>1, SeenType
  <2>3. streams' \in Store
    BY <1>5, <2>1, <2>2, StreamUpdate DEF AppendRejected
  <2> QED
    BY <1>5, <2>3 DEF AppendRejected, TypeOK, Store
<1>6. ASSUME NEW p \in Path, CloseStream(p)
      PROVE  TypeOK'
  BY <1>6, CloseStreamType
<1>7. ASSUME NEW p \in Path, NEW h \in ProducerHeaders,
             CloseStreamWithProducer(p, h)
      PROVE  TypeOK'
  BY <1>7, CloseStreamWithProducerType
<1>8. ASSUME NEW p \in Path, Delete(p)
      PROVE  TypeOK'
  BY <1>8, DeleteType
<1>9. ASSUME NEW p \in Path, Lookup(p)
      PROVE  TypeOK'
  BY <1>9, OnlyReapType DEF Lookup
<1>10. ASSUME NEW p \in Path, NEW w \in Waiter,
              NEW offset \in 0 .. streams[p].tail, WaitForMessages(w, p, offset)
       PROVE  TypeOK'
  BY <1>10, WaitForMessagesType
<1>11. ASSUME NEW p \in Path, TouchAccess(p)
       PROVE  TypeOK'
  <2>1. streams[p] \in Stream
    BY DEF TypeOK
  <2>2. [streams[p] EXCEPT !.due = FALSE] \in Stream
    BY <2>1 DEF Stream
  <2> QED
    BY <1>11, <2>2 DEF TouchAccess, TypeOK
<1>12. ASSUME NEW p \in Path, StreamAges(p)
       PROVE  TypeOK'
  <2>1. streams[p] \in Stream
    BY DEF TypeOK
  <2>2. [streams[p] EXCEPT !.due = TRUE] \in Stream
    BY <2>1 DEF Stream
  <2> QED
    BY <1>12, <2>2 DEF StreamAges, TypeOK
<1>13. ASSUME NEW p \in Path, NEW i \in Producer, ProducerAges(p, i)
       PROVE  TypeOK'
  <2>1. streams[p] \in Stream
    BY DEF TypeOK
  <2>2. [streams[p].producers[i] EXCEPT !.stale = TRUE] \in ProducerEntry
    BY <2>1 DEF Stream, ProducerEntry
  <2>3. [streams[p].producers EXCEPT ![i].stale = TRUE]
          \in [Producer -> ProducerEntry]
    BY <2>1, <2>2 DEF Stream
  <2>4. [streams[p] EXCEPT !.producers[i].stale = TRUE] \in Stream
    BY <2>1, <2>3 DEF Stream
  <2> QED
    BY <1>13, <2>4 DEF ProducerAges, TypeOK
<1>14. ASSUME NEW w \in Waiter, Timeout(w)
       PROVE  TypeOK'
  BY <1>14, TimeoutType DEF PollsPlaced, Timeout
<1>15. CASE CancelAllWaits
  BY <1>15, ResolveReachedType DEF CancelAllWaits, TypeOK
<1>16. CASE Clear
  <2>1. streams' \in [Path -> Stream]
    BY <1>16, NoStreamType DEF Clear
  <2> QED
    BY <1>16, <2>1, ResolveReachedType DEF Clear, TypeOK
<1> QED
  BY <1>1, <1>2, <1>3, <1>4, <1>5, <1>6, <1>7, <1>8, <1>9, <1>10, <1>11,
     <1>12, <1>13, <1>14, <1>15, <1>16 DEF Next

----------------------------------------------------------------------------
(* PollsPlaced *)

\* A step that only resolves requests, and drops those from the list.
OnlyResolves ==
    /\ pending' \subseteq pending
    /\ \A w \in Waiter : poll'[w] = poll[w] \/ poll'[w].state = "done"
    /\ \A w \in pending' : poll'[w] = poll[w]

LEMMA OnlyResolvesPlaced ==
    ASSUME TypeOK, PollsPlaced, OnlyResolves
    PROVE  PollsPlaced'
BY DEF TypeOK, PollsPlaced, OnlyResolves

LEMMA CancelWaitsResolves ==
    ASSUME TypeOK, NEW ps, CancelWaits(ps)
    PROVE  OnlyResolves
<1>1. \A w \in Waiter : Resolved(w, <<>>, FALSE, FALSE).state = "done"
  BY DEF Resolved, TypeOK, Poll
<1> QED
  BY <1>1 DEF CancelWaits, TypeOK, OnlyResolves

LEMMA NotifyWaitsResolves ==
    ASSUME TypeOK, NEW p, NEW s, NEW c, NotifyWaits(p, s, c)
    PROVE  OnlyResolves
<1>1. \A w \in Waiter : \A msgs, d :
        Resolved(w, msgs, d, FALSE).state = "done"
  BY DEF Resolved, TypeOK, Poll
<1> QED
  BY <1>1 DEF NotifyWaits, TypeOK, OnlyResolves

LEMMA ResolveReachedResolves ==
    ASSUME TypeOK, NEW reached, ResolveReached(reached)
    PROVE  OnlyResolves
<1>1. \A w \in Waiter : \A msgs, d :
        Resolved(w, msgs, d, FALSE).state = "done"
  BY DEF Resolved, TypeOK, Poll
<1> QED
  BY <1>1 DEF ResolveReached, TypeOK, OnlyResolves

LEMMA TimeoutResolves ==
    ASSUME TypeOK, NEW w \in Waiter, Timeout(w)
    PROVE  OnlyResolves
<1>1. \A v \in Waiter : \A d, t : Resolved(v, <<>>, d, t).state = "done"
  BY DEF Resolved, TypeOK, Poll
<1> QED
  BY <1>1 DEF Timeout, TypeOK, OnlyResolves

\* Every step but waitForMessages only resolves requests.
LEMMA StepResolves ==
    ASSUME TypeOK, Next
    PROVE  \/ OnlyResolves
           \/ \E p \in Path, w \in Waiter :
                \E offset \in 0 .. streams[p].tail : WaitForMessages(w, p, offset)
<1>0. ASSUME UNCHANGED <<pending, poll>> PROVE OnlyResolves
  BY <1>0 DEF OnlyResolves
<1>1. ASSUME NEW p \in Path, NEW o, Create(p, o) \/ CreateFails(p, o)
      PROVE  OnlyResolves
  BY <1>1, CancelWaitsResolves DEF Create, CreateFails
<1>2. ASSUME NEW p \in Path, NEW r, AppendAccepted(p, r) \/ AppendStopped(p, r)
                                    \/ AppendRejected(p, r)
      PROVE  OnlyResolves
  BY <1>0, <1>2, CancelWaitsResolves, NotifyWaitsResolves
     DEF AppendAccepted, AppendStopped, AppendRejected, OnlyReap
<1>3. ASSUME NEW p \in Path, CloseStream(p)
      PROVE  OnlyResolves
  BY <1>3, CancelWaitsResolves, NotifyWaitsResolves DEF CloseStream, OnlyReap
<1>4. ASSUME NEW p \in Path, NEW h, CloseStreamWithProducer(p, h)
      PROVE  OnlyResolves
  BY <1>0, <1>4, CancelWaitsResolves, NotifyWaitsResolves
     DEF CloseStreamWithProducer, OnlyReap
<1>5. ASSUME NEW p \in Path, Delete(p) \/ Lookup(p)
      PROVE  OnlyResolves
  BY <1>5, CancelWaitsResolves DEF Delete, Lookup, OnlyReap
<1>6. ASSUME NEW p \in Path,
             TouchAccess(p) \/ StreamAges(p) \/ \E i \in Producer : ProducerAges(p, i)
      PROVE  OnlyResolves
  BY <1>0, <1>6 DEF TouchAccess, StreamAges, ProducerAges
<1>7. ASSUME NEW w \in Waiter, Timeout(w)
      PROVE  OnlyResolves
  BY <1>7, TimeoutResolves
<1>8. ASSUME CancelAllWaits \/ Clear
      PROVE  OnlyResolves
  BY <1>8, ResolveReachedResolves DEF CancelAllWaits, Clear
<1> QED
  BY <1>1, <1>2, <1>3, <1>4, <1>5, <1>6, <1>7, <1>8 DEF Next

LEMMA PlacedStep ==
    ASSUME TypeOK, PollsPlaced, [Next]_vars
    PROVE  PollsPlaced'
<1>1. CASE UNCHANGED vars
  BY <1>1 DEF vars, PollsPlaced
<1>2. CASE OnlyResolves
  BY <1>2, OnlyResolvesPlaced
<1>3. ASSUME NEW p \in Path, NEW w \in Waiter, NEW offset,
             WaitForMessages(w, p, offset)
      PROVE  PollsPlaced'
  BY <1>3 DEF WaitForMessages, PollsPlaced, TypeOK, IdlePoll
<1> QED
  BY <1>1, <1>2, <1>3, StepResolves

LEMMA InitTyped == Init => TypeOK /\ PollsPlaced
BY NoStreamType, IdlePollType DEF Init, TypeOK, PollsPlaced, IdlePoll

LEMMA Typed == Spec => [](TypeOK /\ PollsPlaced)
<1>1. TypeOK /\ PollsPlaced /\ [Next]_vars => (TypeOK /\ PollsPlaced)'
  BY TypeStep, PlacedStep
<1> QED
  BY <1>1, InitTyped, PTL DEF Spec

\* Every operation of the store keeps every variable in its type; in
\* particular no reference count drops below zero and no index or offset that
\* an operation computes is out of range.
THEOREM TypeCorrect == Spec => []TypeOK
BY Typed, PTL

----------------------------------------------------------------------------
(***************************************************************************)
(* The reference counts of the in-memory store, for every graph of forks   *)
(* of streams that do not expire.  (PUT on a path whose stream has expired *)
(* drops the record without looking at its references: with expiry the     *)
(* counts go wrong, as the run store_expired shows.)                       *)
(***************************************************************************)

Immortal == \A p \in Path : ~streams[p].due /\ streams[p].expiry = "none"

\* Only finitely many streams exist, whatever the set of paths.
FinitelyMany == IsFiniteSet({p \in Path : streams[p].exists})

ForkInv == Immortal /\ FinitelyMany /\ RefCountExact

----------------------------------------------------------------------------
(* The cascade *)

\* deleteWithCascade goes on from r to its source.
Chained(S, r) ==
    LET parent == S[r].forkedFrom IN
    /\ parent # NoPath
    /\ S[parent].exists /\ S[parent].softDeleted /\ S[parent].refCount <= 1

Upward(S, D) == \A r \in D : Chained(S, r) => S[r].forkedFrom \in D

\* Doomed is the least set that holds p and goes up the chain.
LEMMA DoomedLeast ==
    ASSUME NEW S \in Store, NEW p \in Path
    PROVE  /\ p \in Doomed(S, p) /\ Doomed(S, p) \subseteq Path
           /\ Upward(S, Doomed(S, p))
           /\ \A D \in SUBSET Path : p \in D /\ Upward(S, D) => Doomed(S, p) \subseteq D
<1>1. \A r \in Path : S[r].forkedFrom # NoPath => S[r].forkedFrom \in Path
  BY DEF Store, Stream
<1>2. Doomed(S, p) = {q \in Path : \A D \in SUBSET Path : p \in D /\ Upward(S, D) => q \in D}
  BY DEF Doomed, Upward, Chained
<1>3. Upward(S, Doomed(S, p))
  BY <1>1, <1>2 DEF Upward, Chained
<1> QED
  BY <1>2, <1>3

\* What is removed besides p hangs on a chain of removed forks: it is
\* soft-deleted, has one reference at most, and a fork of it is removed.
LEMMA DoomedChain ==
    ASSUME NEW S \in Store, NEW p \in Path, NEW q \in Doomed(S, p), q # p
    PROVE  \E r \in Doomed(S, p) : Chained(S, r) /\ S[r].forkedFrom = q
<1> SUFFICES ASSUME \A r \in Doomed(S, p) : Chained(S, r) => S[r].forkedFrom # q
             PROVE  FALSE
  OBVIOUS
<1> DEFINE D == Doomed(S, p) \ {q}
<1>1. D \in SUBSET Path /\ p \in D /\ Upward(S, D)
  BY DoomedLeast DEF Upward
<1> HIDE DEF D
<1>2. Doomed(S, p) \subseteq D
  BY <1>1, DoomedLeast
<1> QED
  BY <1>2 DEF D

\* The chain has one end.
LEMMA DoomedEnd ==
    ASSUME NEW S \in Store, NEW p \in Path, NEW a \in Doomed(S, p), NEW b \in Doomed(S, p),
           ~Chained(S, a), ~Chained(S, b)
    PROVE  a = b
<1> DEFINE D == {x \in Doomed(S, p) : a \in Doomed(S, x)}
<1>0. a \in Path /\ b \in Path
  BY DoomedLeast
<1>1. ASSUME NEW x \in D, Chained(S, x)
      PROVE  S[x].forkedFrom \in D
  <2> DEFINE y == S[x].forkedFrom
             E == {x} \cup Doomed(S, y)
  <2>1. y \in Doomed(S, p) /\ x \in Path /\ y \in Path
    BY <1>1, DoomedLeast DEF Upward
  <2>2. y \in Doomed(S, y) /\ Doomed(S, y) \subseteq Path /\ Upward(S, Doomed(S, y))
    BY <2>1, DoomedLeast
  <2>3. E \in SUBSET Path /\ x \in E /\ Upward(S, E)
    BY <2>1, <2>2 DEF Upward
  <2>4. Doomed(S, x) \subseteq E
    <3> HIDE DEF E
    <3> QED
      BY <2>1, <2>3, DoomedLeast
  <2>5. a # x
    BY <1>1
  <2> QED
    BY <2>1, <2>4, <2>5
<1>2. D \in SUBSET Path /\ p \in D
  BY DoomedLeast
<1>3. Upward(S, D)
  BY <1>1 DEF Upward
<1>4. b \in D
  <2> HIDE DEF D
  <2> QED
    BY <1>2, <1>3, DoomedLeast
<1>5. Doomed(S, b) \subseteq {b}
  <2>1. {b} \in SUBSET Path /\ b \in {b} /\ Upward(S, {b})
    BY <1>0 DEF Upward
  <2> QED
    BY <1>0, <2>1, DoomedLeast
<1> QED
  BY <1>4, <1>5

----------------------------------------------------------------------------
(* Steps that leave the graph alone *)

\* t is s as far as the graph of forks and the clocks go.
Alike(s, t) ==
    /\ t.exists = s.exists /\ t.forkedFrom = s.forkedFrom
    /\ t.refCount = s.refCount /\ t.softDeleted = s.softDeleted
    /\ t.due = s.due /\ t.expiry = s.expiry

AllAlike == \A q \in Path : Alike(streams[q], streams'[q])

LEMMA AllAlikeKeeps ==
    ASSUME ForkInv, AllAlike
    PROVE  ForkInv'
<1>1. Immortal'
  BY DEF ForkInv, Immortal, AllAlike, Alike
<1>2. {p \in Path : streams'[p].exists} = {p \in Path : streams[p].exists}
  BY DEF AllAlike, Alike
<1>3. FinitelyMany'
  BY <1>2 DEF ForkInv, FinitelyMany
<1>4. \A p \in Path : Forks(p)' = Forks(p)
  BY DEF Forks, AllAlike, Alike
<1>5. RefCountExact'
  BY <1>4 DEF ForkInv, RefCountExact, AllAlike, Alike
<1> QED
  BY <1>1, <1>3, <1>5 DEF ForkInv

LEMMA OneAlike ==
    ASSUME TypeOK, NEW p \in Path, NEW t, streams' = [streams EXCEPT ![p] = t],
           Alike(streams[p], t)
    PROVE  AllAlike
BY DEF TypeOK, AllAlike, Alike

LEMMA CleanedAlike ==
    ASSUME NEW s \in Stream
    PROVE  Alike(s, Cleaned(s))
BY DEF Alike, Cleaned, Stream

LEMMA SeenAlike ==
    ASSUME NEW s \in Stream, NEW h
    PROVE  Alike(s, Seen(s, h))
BY CleanedAlike DEF Seen, Alike

LEMMA CommittedAlike ==
    ASSUME NEW s \in Stream, NEW h
    PROVE  Alike(s, Committed(s, h))
BY DEF Alike, Committed, Stream

LEMMA AppendedAlike ==
    ASSUME NEW s \in Stream, NEW m
    PROVE  Alike(s, Appended(s, m))
BY DEF Alike, Appended, Stream

LEMMA AlikeTransitive ==
    ASSUME NEW s, NEW t, NEW u, Alike(s, t), Alike(t, u)
    PROVE  Alike(s, u)
BY DEF Alike

LEMMA AfterAppendAlike ==
    ASSUME NEW s \in Stream, NEW r \in AppendRequest, writes \in Nat
    PROVE  Alike(s, AfterAppend(s, r))
<1> DEFINE h == r.headers
           t == Seen(s, h)
           m == Framed(t, r.size, writes + 1, Stamp(t, h))
           a == Appended(t, m)
           u == Committed(a, h)
<1>1. h \in ProducerHeaders \cup {NoHeaders} /\ r.size \in Nat
  <2>1. r.headers \in ProducerHeaders \cup {NoHeaders} /\ r.size \in Sizes
    BY DEF AppendRequest
  <2> QED
    BY <2>1, RequestAssumption
<1>2. t \in Stream /\ Stamp(t, h) \in Tuple
  BY <1>1, SeenType, StampType
<1>3. a \in Stream
  BY <1>1, <1>2, FramedType, AppendedType
<1>4. u \in Stream
  BY <1>1, <1>3, CommittedType
<1>5. Alike(s, t) /\ Alike(t, a) /\ Alike(a, u)
  BY <1>2, <1>3, SeenAlike, AppendedAlike, CommittedAlike
<1>6. Alike(s, u)
  BY <1>5, AlikeTransitive
<1> DEFINE v == AfterAppend(s, r)
<1>7. Alike(u, v)
  <2>1. v = [u EXCEPT
              !.lastSeq = IF r.seq # -1 THEN r.seq ELSE @,
              !.closed = @ \/ r.close,
              !.closedBy = IF r.close /\ HasProducer(r.headers) THEN Stamp(t, h) ELSE @]
    BY DEF AfterAppend
  <2> HIDE DEF u, v
  <2> QED
    BY <1>4, <2>1 DEF Alike, Stream
<1> QED
  BY <1>6, <1>7, AlikeTransitive

\* A stream that does not expire is found as it is.
LEMMA NothingReaped ==
    ASSUME Immortal, NEW p \in Path
    PROVE  Reaped(streams, p) = streams
BY DEF Immortal, Reaped

LEMMA NothingCleared ==
    ASSUME Immortal, NEW p \in Path, ~streams[p].exists \/ streams[p].due
    PROVE  ~streams[p].exists /\ Cleared(p) = streams
BY DEF Immortal, Cleared

LEMMA OnlyReapAlike ==
    ASSUME Immortal, NEW p \in Path, OnlyReap(p)
    PROVE  AllAlike
BY NothingReaped DEF OnlyReap, AllAlike, Alike

LEMMA CloseStreamAlike ==
    ASSUME TypeOK, Immortal, NEW p \in Path, CloseStream(p)
    PROVE  AllAlike
<1> DEFINE s == [streams[p] EXCEPT !.closed = TRUE]
<1>1. CASE Found(streams, p) /\ ~Reaped(streams, p)[p].softDeleted
  <2>1. Alike(streams[p], s)
    BY DEF Alike, TypeOK, Stream
  <2>2. streams' = [streams EXCEPT ![p] = s]
    BY <1>1 DEF CloseStream
  <2> HIDE DEF s
  <2> QED
    BY <2>1, <2>2, OneAlike
<1>2. CASE ~(Found(streams, p) /\ ~Reaped(streams, p)[p].softDeleted)
  BY <1>2, OnlyReapAlike DEF CloseStream
<1> QED
  BY <1>1, <1>2

LEMMA CloseStreamWithProducerAlike ==
    ASSUME TypeOK, Immortal, NEW p \in Path, NEW h \in ProducerHeaders,
           CloseStreamWithProducer(p, h)
    PROVE  AllAlike
<1> DEFINE s == Cleaned(streams[p])
           c == Committed(s, h)
           t == [c EXCEPT !.closed = TRUE, !.closedBy = Stamp(s, h)]
<1>1. Reaped(streams, p) = streams
  BY NothingReaped
<1>2. s \in Stream /\ c \in Stream
  BY CleanedType, CommittedType DEF TypeOK
<1>3. Alike(streams[p], s) /\ Alike(s, c)
  BY <1>2, CleanedAlike, CommittedAlike DEF TypeOK
<1>4. Alike(c, t)
  <2> HIDE DEF c
  <2> QED
    BY <1>2 DEF Alike, Stream
<1>5. Alike(streams[p], t)
  BY <1>3, <1>4, AlikeTransitive
<1>6. CASE Found(streams, p) /\ ~streams[p].closed
  <2>1. streams' = [streams EXCEPT ![p] = t] \/ streams' = [streams EXCEPT ![p] = s]
    BY <1>1, <1>6 DEF CloseStreamWithProducer
  <2> HIDE DEF s, t
  <2> QED
    BY <1>3, <1>5, <2>1, OneAlike
<1>7. CASE ~(Found(streams, p) /\ ~streams[p].closed)
  BY <1>7, OnlyReapAlike DEF CloseStreamWithProducer
<1> QED
  BY <1>6, <1>7

LEMMA AppendAlike ==
    ASSUME TypeOK, Immortal, NEW p \in Path, NEW r \in AppendRequest,
           AppendAccepted(p, r) \/ AppendStopped(p, r) \/ AppendRejected(p, r)
    PROVE  AllAlike
<1>1. Reaped(streams, p) = streams /\ streams[p] \in Stream /\ writes \in Nat
  BY NothingReaped DEF TypeOK
<1>2. CASE AppendAccepted(p, r)
  <2>1. Alike(streams[p], AfterAppend(streams[p], r))
    BY <1>1, AfterAppendAlike
  <2>2. streams' = [streams EXCEPT ![p] = AfterAppend(streams[p], r)]
    BY <1>1, <1>2 DEF AppendAccepted
  <2> QED
    BY <2>1, <2>2, OneAlike
<1>3. CASE AppendStopped(p, r)
  BY <1>3, OnlyReapAlike DEF AppendStopped
<1>4. CASE AppendRejected(p, r)
  <2>1. streams' = [streams EXCEPT ![p] = Seen(streams[p], r.headers)]
    BY <1>4 DEF AppendRejected
  <2> QED
    BY <1>1, <2>1, SeenAlike, OneAlike
<1> QED
  BY <1>2, <1>3, <1>4

----------------------------------------------------------------------------
(* create() *)

\* The new stream has no references yet and does not expire.
LEMMA CreatedStream ==
    ASSUME TypeOK, Immortal, Expiries \subseteq {"none"},
           NEW src, NEW o, CreateContext(streams, src, o)
    PROVE  LET t == WithInitialData(streams, o) IN
           /\ t.exists /\ ~t.due /\ t.expiry = "none"
           /\ t.forkedFrom = src /\ t.refCount = 0 /\ ~t.softDeleted
<1> DEFINE f == FreshStream(streams, o)
           w == WithPrefix(streams, o)
           t == WithInitialData(streams, o)
<1>1. o.forkedFrom = src /\ (src # NoPath => src \in Path)
  BY RequestFields
<1>2. o.expiry = "none"
  BY DEF CreateContext, CreateRequest
<1>3. src # NoPath => ForkExpiry(streams, o) = "none"
  BY <1>1, <1>2 DEF ForkExpiry, Immortal
<1>4. f \in Stream /\ w \in Stream
  BY FreshStreamType, WithPrefixType
<1>5. /\ f.exists /\ ~f.due /\ f.expiry = "none"
      /\ f.forkedFrom = src /\ f.refCount = 0 /\ ~f.softDeleted
  BY <1>1, <1>2, <1>3 DEF FreshStream, NoStream
<1>6. Alike(f, w)
  <2>1. Alike(f, f)
    BY DEF Alike
  <2> QED
    BY <1>4, <2>1, AppendedAlike DEF WithPrefix
<1>7. Alike(w, t)
  <2>1. Alike(w, w)
    BY DEF Alike
  <2> HIDE DEF f
  <2> QED
    BY <1>4, <2>1, AppendedAlike DEF WithInitialData
<1> HIDE DEF f, w, t
<1>8. /\ t.exists /\ ~t.due /\ t.expiry = "none"
      /\ t.forkedFrom = src /\ t.refCount = 0 /\ ~t.softDeleted
  BY <1>5, <1>6, <1>7 DEF Alike
<1> QED
  BY <1>8 DEF t

LEMMA CreateKeeps ==
    ASSUME TypeOK, ForkInv, Expiries \subseteq {"none"}, NEW p \in Path,
           NEW src \in ForkSources \cup {NoPath}, NEW o \in CreateRequest(src),
           Create(p, o)
    PROVE  ForkInv'
<1> DEFINE t == WithInitialData(streams, o)
           E == {q \in Path : streams[q].exists}
<1>1. ~streams[p].exists /\ Cleared(p) = streams /\ Immortal
  BY NothingCleared DEF Create, ForkInv
<1>2. CreateContext(streams, src, o)
  BY <1>1 DEF CreateContext, TypeOK, Store, Create
<1>3. /\ t.exists /\ ~t.due /\ t.expiry = "none"
      /\ t.forkedFrom = src /\ t.refCount = 0 /\ ~t.softDeleted
  BY <1>1, <1>2, CreatedStream
<1>4. o.forkedFrom = src /\ (src # NoPath => src \in Path)
  BY <1>2, RequestFields
<1>5. src # NoPath => streams[src].exists /\ ~streams[src].softDeleted /\ src # p
  BY <1>1, <1>2, <1>4 DEF CreateContext, CreateRejected, ForkRejected
<1>6. streams' = [Referenced(streams, o) EXCEPT ![p] = t]
  BY <1>1 DEF Create
<1> HIDE DEF t
<1>7. streams'[p] = t
  BY <1>4, <1>6 DEF Referenced, TypeOK
<1>8. \A q \in Path : q # p =>
        /\ streams'[q].exists = streams[q].exists
        /\ streams'[q].forkedFrom = streams[q].forkedFrom
        /\ streams'[q].softDeleted = streams[q].softDeleted
        /\ streams'[q].due = streams[q].due
        /\ streams'[q].expiry = streams[q].expiry
        /\ streams'[q].refCount = IF q = src THEN streams[q].refCount + 1
                                  ELSE streams[q].refCount
  <2>1. CASE src = NoPath
    BY <1>4, <1>6, <2>1, NamesAssumption DEF Referenced, TypeOK
  <2>2. CASE src # NoPath
    <3>1. streams' = [[streams EXCEPT ![src] = [streams[src] EXCEPT
                         !.refCount = streams[src].refCount + 1]] EXCEPT ![p] = t]
      BY <1>4, <1>6, <2>2 DEF Referenced
    <3> QED
      BY <1>4, <1>5, <2>2, <3>1 DEF TypeOK, Stream
  <2> QED
    BY <2>1, <2>2
<1>9. Immortal'
  BY <1>1, <1>3, <1>7, <1>8 DEF Immortal
<1>10. \A q \in Path : Forks(q)' = IF q = src THEN Forks(q) \cup {p} ELSE Forks(q)
  BY <1>1, <1>3, <1>7, <1>8 DEF Forks
<1>11. IsFiniteSet(E)
  BY DEF ForkInv, FinitelyMany
<1>12. FinitelyMany'
  <2>1. {q \in Path : streams'[q].exists} = E \cup {p}
    BY <1>3, <1>7, <1>8
  <2>2. IsFiniteSet(E \cup {p})
    BY <1>11, FS_AddElement
  <2> QED
    BY <2>1, <2>2 DEF FinitelyMany
<1>13. ASSUME NEW q \in Path
       PROVE  /\ streams'[q].exists => streams'[q].refCount = Cardinality(Forks(q)')
              /\ ~streams'[q].exists => Forks(q)' = {}
              /\ streams'[q].softDeleted => Forks(q)' # {}
  <2>1. /\ streams[q].exists => streams[q].refCount = Cardinality(Forks(q))
        /\ ~streams[q].exists => Forks(q) = {}
        /\ streams[q].softDeleted => Forks(q) # {}
    BY DEF ForkInv, RefCountExact
  <2>2. CASE q = p
    <3>1. Forks(q)' = {}
      BY <1>1, <1>4, <1>5, <1>10, <2>1, <2>2, NamesAssumption
    <3> QED
      BY <1>3, <1>7, <2>2, <3>1, FS_EmptySet
  <2>3. CASE q # p /\ q # src
    BY <1>8, <1>10, <2>1, <2>3
  <2>4. CASE q # p /\ q = src
    <3>1. Forks(q) \subseteq E /\ p \notin Forks(q)
      BY <1>1 DEF Forks
    <3>2. IsFiniteSet(Forks(q))
      BY <1>11, <3>1, FS_Subset
    <3>3. Cardinality(Forks(q) \cup {p}) = Cardinality(Forks(q)) + 1
      BY <3>1, <3>2, FS_AddElement
    <3>4. streams[q].exists /\ ~streams[q].softDeleted
      BY <1>4, <1>5, <2>4, NamesAssumption
    <3> QED
      BY <1>8, <1>10, <2>1, <2>4, <3>3, <3>4
  <2> QED
    BY <2>2, <2>3, <2>4
<1>14. RefCountExact'
  BY <1>13 DEF RefCountExact
<1> QED
  BY <1>9, <1>12, <1>14 DEF ForkInv

----------------------------------------------------------------------------
(* delete() *)

\* RefCountExact at one path.
Counted(q) ==
    /\ streams[q].exists => streams[q].refCount = Cardinality(Forks(q))
    /\ ~streams[q].exists => Forks(q) = {}
    /\ streams[q].softDeleted => Forks(q) # {}

LEMMA ForksFinite ==
    ASSUME ForkInv, NEW q
    PROVE  IsFiniteSet(Forks(q)) /\ Cardinality(Forks(q)) \in Nat
<1>1. Forks(q) \subseteq {r \in Path : streams[r].exists}
  BY DEF Forks
<1>2. IsFiniteSet({r \in Path : streams[r].exists})
  BY DEF ForkInv, FinitelyMany
<1> QED
  BY <1>1, <1>2, FS_Subset, FS_CardinalityType

\* A stream with one reference at most has no two forks.
LEMMA OneFork ==
    ASSUME TypeOK, ForkInv, NEW q \in Path, streams[q].exists, streams[q].refCount <= 1,
           NEW a \in Forks(q), NEW b \in Forks(q)
    PROVE  a = b
<1> SUFFICES ASSUME a # b PROVE FALSE
  OBVIOUS
<1>1. IsFiniteSet(Forks(q)) /\ streams[q].refCount = Cardinality(Forks(q))
  BY ForksFinite DEF ForkInv, RefCountExact
<1> DEFINE R == Forks(q) \ {a}
<1>2. IsFiniteSet(R) /\ Cardinality(R) = Cardinality(Forks(q)) - 1
  BY <1>1, FS_RemoveElement
<1>3. b \in R
  OBVIOUS
<1>4. Cardinality(R) # 0
  BY <1>2, <1>3, FS_EmptySet
<1>5. Cardinality(R) \in Nat /\ Cardinality(Forks(q)) \in Nat
  BY <1>1, <1>2, FS_CardinalityType
<1> HIDE DEF R
<1> QED
  BY <1>1, <1>2, <1>4, <1>5

LEMMA SoftDeleteKeeps ==
    ASSUME TypeOK, ForkInv, NEW p \in Path, streams[p].exists, streams[p].refCount > 0,
           streams' = [streams EXCEPT ![p].softDeleted = TRUE]
    PROVE  ForkInv'
<1>1. \A q \in Path :
        /\ streams'[q].exists = streams[q].exists
        /\ streams'[q].forkedFrom = streams[q].forkedFrom
        /\ streams'[q].refCount = streams[q].refCount
        /\ streams'[q].due = streams[q].due /\ streams'[q].expiry = streams[q].expiry
        /\ streams'[q].softDeleted => streams[q].softDeleted \/ q = p
  BY DEF TypeOK, Stream
<1>2. Immortal'
  BY <1>1 DEF ForkInv, Immortal
<1>3. {q \in Path : streams'[q].exists} = {q \in Path : streams[q].exists}
  BY <1>1
<1>4. FinitelyMany'
  BY <1>3 DEF ForkInv, FinitelyMany
<1>5. \A q \in Path : Forks(q)' = Forks(q)
  BY <1>1 DEF Forks
<1>6. Forks(p) # {}
  <2>1. Cardinality(Forks(p)) # 0
    BY DEF ForkInv, RefCountExact, TypeOK, Stream
  <2> QED
    BY <2>1, FS_EmptySet
<1>7. RefCountExact'
  BY <1>1, <1>5, <1>6 DEF ForkInv, RefCountExact
<1> QED
  BY <1>2, <1>4, <1>7 DEF ForkInv

\* The cascade removes p and the chain of soft-deleted streams that only p
\* kept; the reference it takes from the end of the chain is the one that its
\* last member held.
LEMMA CascadeKeeps ==
    ASSUME TypeOK, ForkInv, NEW p \in Path,
           streams[p].exists, ~streams[p].softDeleted, streams[p].refCount = 0,
           streams' = DeleteWithCascade(streams, p)
    PROVE  ForkInv'
<1> DEFINE gone == Doomed(streams, p)
           E == {q \in Path : streams[q].exists}
<1>0. streams \in Store /\ \A q \in Path : streams[q] \in Stream
  BY DEF TypeOK, Store
<1>1. p \in gone /\ gone \subseteq Path /\ Upward(streams, gone)
  BY <1>0, DoomedLeast
<1>2. \A q \in gone : q # p => \E r \in gone : Chained(streams, r) /\ streams[r].forkedFrom = q
  BY <1>0, DoomedChain
<1>3. \A a, b \in gone : ~Chained(streams, a) /\ ~Chained(streams, b) => a = b
  BY <1>0, DoomedEnd
<1>4. \A q \in Path : streams'[q] =
        IF q \in gone THEN NoStream
        ELSE IF streams[q].exists /\ \E r \in gone : streams[r].forkedFrom = q
        THEN Unreferenced(streams[q])
        ELSE streams[q]
  BY DEF DeleteWithCascade
<1> HIDE DEF gone
<1>5. \A q \in gone : streams[q].exists
  BY <1>2 DEF Chained
<1>6. \A q \in Path : q \in gone =>
        /\ ~streams'[q].exists /\ ~streams'[q].softDeleted
        /\ ~streams'[q].due /\ streams'[q].expiry = "none"
  BY <1>4 DEF NoStream
<1>7. \A q \in Path : q \notin gone =>
        /\ streams'[q].exists = streams[q].exists
        /\ streams'[q].forkedFrom = streams[q].forkedFrom
        /\ streams'[q].softDeleted = streams[q].softDeleted
        /\ streams'[q].due = streams[q].due
        /\ streams'[q].expiry = streams[q].expiry
  <2>1. \A s \in Stream : LET u == Unreferenced(s) IN
          /\ u.exists = s.exists /\ u.forkedFrom = s.forkedFrom
          /\ u.softDeleted = s.softDeleted
          /\ u.due = s.due /\ u.expiry = s.expiry
    BY DEF Unreferenced, Stream
  <2> QED
    BY <1>0, <1>4, <2>1
<1>8. Immortal'
  BY <1>6, <1>7 DEF ForkInv, Immortal
<1>9. FinitelyMany'
  <2>1. {q \in Path : streams'[q].exists} \subseteq E
    BY <1>6, <1>7
  <2>2. IsFiniteSet(E)
    BY DEF ForkInv, FinitelyMany
  <2> QED
    BY <2>1, <2>2, FS_Subset DEF FinitelyMany
<1>10. \A q \in Path : Forks(q)' = Forks(q) \ gone
  BY <1>6, <1>7 DEF Forks
<1>11. \A q \in Path : Counted(q)
  BY DEF ForkInv, RefCountExact, Counted
<1>12. Forks(p) = {}
  <2>1. Cardinality(Forks(p)) = 0 /\ IsFiniteSet(Forks(p))
    BY <1>11, ForksFinite DEF Counted
  <2> QED
    BY <2>1, FS_EmptySet
<1>13. ASSUME NEW q \in gone
       PROVE  Forks(q) \ gone = {}
  <2>1. CASE q = p
    BY <1>12, <2>1
  <2>2. CASE q # p
    <3>1. PICK r \in gone : Chained(streams, r) /\ streams[r].forkedFrom = q
      BY <1>2, <2>2
    <3>2. r \in Forks(q) /\ streams[q].exists /\ streams[q].refCount <= 1 /\ q \in Path
      BY <1>1, <1>5, <3>1 DEF Forks, Chained
    <3>3. \A a \in Forks(q) : a = r
      BY <3>2, OneFork
    <3> QED
      BY <3>3
  <2> QED
    BY <2>1, <2>2
<1>14. ASSUME NEW q \in Path, q \notin gone, NEW r \in gone, streams[r].forkedFrom = q
       PROVE  Counted(q)'
  <2>1. r \in Forks(q) /\ ~Chained(streams, r)
    BY <1>1, <1>5, <1>14 DEF Forks, Upward
  <2>2. streams[q].exists /\ streams[q].refCount = Cardinality(Forks(q))
    BY <1>11, <2>1 DEF Counted
  <2>3. \A a \in gone : a \in Forks(q) => a = r
    <3>1. \A a \in gone : a \in Forks(q) => ~Chained(streams, a)
      BY <1>1, <1>14 DEF Forks, Upward
    <3> QED
      BY <1>3, <2>1, <3>1
  <2>4. Forks(q)' = Forks(q) \ {r}
    BY <1>10, <2>3, <1>14
  <2>5. IsFiniteSet(Forks(q)) /\ Cardinality(Forks(q)) \in Nat
    BY ForksFinite
  <2>6. /\ IsFiniteSet(Forks(q) \ {r})
        /\ Cardinality(Forks(q) \ {r}) = Cardinality(Forks(q)) - 1
        /\ Cardinality(Forks(q) \ {r}) \in Nat
    BY <2>1, <2>5, FS_RemoveElement, FS_CardinalityType
  <2>7. streams'[q].refCount = streams[q].refCount - 1
    <3>1. streams'[q] = Unreferenced(streams[q])
      BY <1>4, <1>14, <2>2
    <3>2. streams[q].refCount > 0
      BY <2>2, <2>5, <2>6
    <3> QED
      BY <1>0, <3>1, <3>2 DEF Unreferenced, Stream
  <2>8. ASSUME streams[q].softDeleted
        PROVE  Forks(q) \ {r} # {}
    <3>1. ~(streams[q].refCount <= 1)
      BY <1>14, <2>1, <2>2, <2>8, NamesAssumption DEF Chained
    <3>2. Cardinality(Forks(q) \ {r}) # 0
      BY <2>2, <2>5, <2>6, <3>1
    <3> QED
      BY <3>2, FS_EmptySet
  <2> QED
    BY <1>7, <1>14, <2>2, <2>4, <2>6, <2>7, <2>8 DEF Counted
<1>15. ASSUME NEW q \in Path, q \notin gone, ~\E r \in gone : streams[r].forkedFrom = q
       PROVE  Counted(q)'
  <2>1. Forks(q)' = Forks(q)
    BY <1>10, <1>15 DEF Forks
  <2>2. streams'[q] = streams[q]
    BY <1>4, <1>15
  <2> QED
    BY <1>11, <2>1, <2>2 DEF Counted
<1>16. ASSUME NEW q \in gone
       PROVE  Counted(q)'
  <2>1. Forks(q)' = {}
    BY <1>1, <1>10, <1>13
  <2> QED
    BY <1>1, <1>6, <2>1 DEF Counted
<1>17. RefCountExact'
  <2>1. \A q \in Path : Counted(q)'
    BY <1>14, <1>15, <1>16
  <2> QED
    BY <2>1 DEF Counted, RefCountExact
<1> QED
  BY <1>8, <1>9, <1>17 DEF ForkInv

LEMMA DeleteKeeps ==
    ASSUME TypeOK, ForkInv, NEW p \in Path, Delete(p)
    PROVE  ForkInv'
<1>1. streams' = DeleteStream(streams, p)
  BY NothingReaped DEF ForkInv, Delete
<1>2. streams[p].refCount \in Nat
  BY DEF TypeOK, Stream
<1>3. CASE ~streams[p].exists \/ streams[p].softDeleted
  <2>1. AllAlike
    BY <1>1, <1>3 DEF DeleteStream, AllAlike, Alike
  <2> QED
    BY <2>1, AllAlikeKeeps
<1>4. CASE streams[p].exists /\ ~streams[p].softDeleted /\ streams[p].refCount > 0
  BY <1>1, <1>4, SoftDeleteKeeps DEF DeleteStream
<1>5. CASE streams[p].exists /\ ~streams[p].softDeleted /\ streams[p].refCount = 0
  BY <1>1, <1>5, CascadeKeeps DEF DeleteStream
<1> QED
  BY <1>2, <1>3, <1>4, <1>5

----------------------------------------------------------------------------
(* The reference counts *)

LEMMA ClearKeeps ==
    ASSUME Clear
    PROVE  ForkInv'
<1>1. \A p \in Path : streams'[p] = NoStream
  BY DEF Clear
<1>2. Immortal'
  BY <1>1 DEF Immortal, NoStream
<1>3. {p \in Path : streams'[p].exists} = {}
  BY <1>1 DEF NoStream
<1>4. FinitelyMany'
  BY <1>3, FS_EmptySet DEF FinitelyMany
<1>5. \A p \in Path : Forks(p)' = {}
  BY <1>1 DEF Forks, NoStream
<1>6. RefCountExact'
  BY <1>1, <1>5 DEF RefCountExact, NoStream
<1> QED
  BY <1>2, <1>4, <1>6 DEF ForkInv

LEMMA ForkInit == Init => ForkInv
<1> SUFFICES ASSUME Init PROVE ForkInv
  OBVIOUS
<1>1. \A p \in Path : streams[p] = NoStream
  BY DEF Init
<1>2. {p \in Path : streams[p].exists} = {} /\ \A p \in Path : Forks(p) = {}
  BY <1>1 DEF Forks, NoStream
<1>3. Immortal
  BY <1>1 DEF Immortal, NoStream
<1>4. FinitelyMany
  BY <1>2, FS_EmptySet DEF FinitelyMany
<1>5. RefCountExact
  BY <1>1, <1>2 DEF RefCountExact, NoStream
<1> QED
  BY <1>3, <1>4, <1>5 DEF ForkInv

LEMMA ForkStep ==
    ASSUME TypeOK, PollsPlaced, ForkInv, Expiries \subseteq {"none"}, [Next]_vars
    PROVE  ForkInv'
<1>0. Immortal
  BY DEF ForkInv
<1>1. CASE UNCHANGED streams
  <2>1. AllAlike
    BY <1>1 DEF AllAlike, Alike
  <2> QED
    BY <2>1, AllAlikeKeeps
<1>2. ASSUME NEW p \in Path, NEW src \in ForkSources \cup {NoPath},
             NEW o \in CreateRequest(src), Create(p, o)
      PROVE  ForkInv'
  BY <1>2, CreateKeeps
<1>3. ASSUME NEW p \in Path, NEW o, CreateFails(p, o)
      PROVE  ForkInv'
  BY <1>0, <1>1, <1>3, NothingCleared DEF CreateFails
<1>4. ASSUME NEW p \in Path, NEW r \in AppendRequest,
             AppendAccepted(p, r) \/ AppendStopped(p, r) \/ AppendRejected(p, r)
      PROVE  ForkInv'
  BY <1>0, <1>4, AppendAlike, AllAlikeKeeps
<1>5. ASSUME NEW p \in Path, CloseStream(p)
      PROVE  ForkInv'
  BY <1>0, <1>5, CloseStreamAlike, AllAlikeKeeps
<1>6. ASSUME NEW p \in Path, NEW h \in ProducerHeaders, CloseStreamWithProducer(p, h)
      PROVE  ForkInv'
  BY <1>0, <1>6, CloseStreamWithProducerAlike, AllAlikeKeeps
<1>7. ASSUME NEW p \in Path, Delete(p)
      PROVE  ForkInv'
  BY <1>7, DeleteKeeps
<1>8. ASSUME NEW p \in Path, Lookup(p) \/ TouchAccess(p) \/ StreamAges(p)
      PROVE  FALSE
  BY <1>0, <1>8 DEF Immortal, Lookup, TouchAccess, StreamAges
<1>9. ASSUME NEW p \in Path, NEW w \in Waiter, NEW offset, WaitForMessages(w, p, offset)
      PROVE  ForkInv'
  BY <1>0, <1>1, <1>9, NothingReaped DEF WaitForMessages
<1>10. ASSUME NEW p \in Path, NEW i \in Producer, ProducerAges(p, i)
       PROVE  ForkInv'
  <2> DEFINE t == [streams[p] EXCEPT !.producers[i].stale = TRUE]
  <2>1. Alike(streams[p], t)
    BY DEF Alike, TypeOK, Stream
  <2>2. streams' = [streams EXCEPT ![p] = t]
    BY <1>10 DEF ProducerAges
  <2> HIDE DEF t
  <2> QED
    BY <2>1, <2>2, OneAlike, AllAlikeKeeps
<1>11. ASSUME NEW w \in Waiter, Timeout(w)
       PROVE  ForkInv'
  <2>1. poll[w].path \in Path
    BY <1>11 DEF Timeout, PollsPlaced
  <2>2. streams' = streams
    BY <1>0, <1>11, <2>1, NothingReaped DEF Timeout
  <2> QED
    BY <1>1, <2>2
<1>12. CASE CancelAllWaits
  BY <1>1, <1>12 DEF CancelAllWaits
<1>13. CASE Clear
  BY <1>13, ClearKeeps
<1> QED
  BY <1>1, <1>2, <1>3, <1>4, <1>5, <1>6, <1>7, <1>8, <1>9, <1>10, <1>11, <1>12, <1>13
     DEF Next, vars

\* Where no PUT asks for an expiry, whatever is forked, from whatever depth,
\* and deleted in whatever order: a stream's reference count is the number of
\* its forks, no fork's source is removed from under it, and a soft-deleted
\* stream is kept exactly as long as a fork needs it (create, delete and
\* deleteWithCascade of store.ts).
THEOREM CountsAreExact == Expiries \subseteq {"none"} => (Spec => []RefCountExact)
<1> SUFFICES ASSUME Expiries \subseteq {"none"} PROVE Spec => []RefCountExact
  OBVIOUS
<1>1. TypeOK /\ PollsPlaced /\ ForkInv /\ [Next]_vars => ForkInv'
  BY ForkStep
<1>2. ForkInv => RefCountExact
  BY DEF ForkInv
<1> QED
  BY <1>1, <1>2, ForkInit, Typed, PTL DEF Spec

----------------------------------------------------------------------------
(* Logs *)

\* The strengthening that makes exactly-once inductive: a producer's state is
\* at or past every message of its current window, so what ValidateProducer
\* accepts is past all of them.
Covered(e, by) ==
    /\ by.win <= e.drops
    /\ by.win = e.drops =>
         /\ e.st.epoch # -1
         /\ \/ by.epoch < e.st.epoch
            \/ by.epoch = e.st.epoch /\ by.seq <= e.st.lastSeq

Bounded(s) ==
    \A k \in DOMAIN s.messages :
        s.messages[k].by.pid # NoProducer =>
            Covered(s.producers[s.messages[k].by.pid], s.messages[k].by)

Healthy(s) == Tiled(s) /\ Once(s) /\ Bounded(s) /\ Backed(s)

\* Inductive: every stream is healthy and was born by now.
LogInv == \A p \in Path : Healthy(streams[p]) /\ streams[p].born <= births

\* t is s but for its reference count, its clocks, its settings, and perhaps a
\* close.
Same(s, t) ==
    /\ t.exists = s.exists /\ t.born = s.born
    /\ t.messages = s.messages /\ t.tail = s.tail
    /\ t.forkedFrom = s.forkedFrom /\ t.forkOffset = s.forkOffset
    /\ s.closed => t.closed
    /\ t.closedBy = s.closedBy
    /\ \A i \in Producer : /\ t.producers[i].st = s.producers[i].st
                           /\ t.producers[i].drops = s.producers[i].drops

\* ... or it is gone.
Kept(s, t) == Same(s, t) \/ Same(NoStream, t)

----------------------------------------------------------------------------
(* Operations that leave logs alone *)

LEMMA SameReflexive == \A s : Same(s, s)
BY DEF Same

LEMMA KeptTransitive ==
    ASSUME NEW s, NEW t, NEW u, Kept(s, t), Kept(t, u)
    PROVE  Kept(s, u)
BY DEF Kept, Same

LEMMA MessageAuthor ==
    ASSUME NEW s \in Stream, NEW k \in DOMAIN s.messages
    PROVE  /\ s.messages[k] \in Message
           /\ s.messages[k].by \in Tuple
           /\ s.messages[k].by.pid # NoProducer => s.messages[k].by.pid \in Producer
<1>1. s.messages \in Seq(Message)
  BY DEF Stream
<1>2. s.messages[k] \in Message
  BY <1>1
<1>3. s.messages[k].by \in Tuple
  BY <1>2 DEF Message
<1> QED
  BY <1>2, <1>3 DEF Tuple

LEMMA SameHealthy ==
    ASSUME NEW s \in Stream, NEW t \in Stream, Same(s, t), Healthy(s)
    PROVE  Healthy(t)
<1>1. Tiled(t)
  BY DEF Same, Healthy, Tiled, Base
<1>2. Once(t)
  BY DEF Same, Healthy, Once
<1>3. Bounded(t)
  <2> SUFFICES ASSUME NEW k \in DOMAIN t.messages,
                      t.messages[k].by.pid # NoProducer
               PROVE  Covered(t.producers[t.messages[k].by.pid],
                              t.messages[k].by)
    BY DEF Bounded
  <2>1. t.messages[k].by.pid \in Producer
    BY MessageAuthor
  <2>2. Covered(s.producers[t.messages[k].by.pid], t.messages[k].by)
    BY DEF Same, Healthy, Bounded
  <2> QED
    BY <2>1, <2>2 DEF Same, Covered
<1>4. Backed(t)
  <2>1. \A x : TookEffect(s, x) => TookEffect(t, x)
    BY DEF TookEffect, Same
  <2> QED
    BY <2>1 DEF Same, Healthy, Backed
<1> QED
  BY <1>1, <1>2, <1>3, <1>4 DEF Healthy

LEMMA NoStreamHealthy == Healthy(NoStream)
<1>1. NoStream.messages = <<>> /\ NoStream.tail = 0 /\ NoStream.forkedFrom = NoPath
  BY DEF NoStream
<1>2. \A i \in Producer : NoStream.producers[i].st.epoch = -1
  BY DEF NoStream, NoEntry, NoProducerState
<1>3. Tiled(NoStream) /\ Once(NoStream) /\ Bounded(NoStream)
  BY <1>1 DEF Tiled, Once, Bounded, Base
<1>4. Backed(NoStream)
  BY <1>2 DEF Backed
<1> QED
  BY <1>3, <1>4 DEF Healthy

LEMMA KeptHealthy ==
    ASSUME NEW s \in Stream, NEW t \in Stream, Kept(s, t), Healthy(s)
    PROVE  Healthy(t)
BY SameHealthy, NoStreamHealthy, NoStreamType DEF Kept

LEMMA UnreferencedSame ==
    ASSUME NEW s \in Stream
    PROVE  Same(s, Unreferenced(s))
BY DEF Unreferenced, Same, Stream

LEMMA SoftDeletedSame ==
    ASSUME NEW S \in Store, NEW p \in Path
    PROVE  \A q \in Path : Same(S[q], [S EXCEPT ![p].softDeleted = TRUE][q])
BY SameReflexive DEF Same, Store, Stream

LEMMA CascadeKept ==
    ASSUME NEW S \in Store, NEW p \in Path
    PROVE  \A q \in Path : Kept(S[q], DeleteWithCascade(S, p)[q])
<1>1. \A q \in Path : S[q] \in Stream
  BY DEF Store
<1> QED
  BY <1>1, SameReflexive, UnreferencedSame DEF DeleteWithCascade, Kept

LEMMA DeleteStreamKept ==
    ASSUME NEW S \in Store, NEW p \in Path
    PROVE  \A q \in Path : Kept(S[q], DeleteStream(S, p)[q])
BY SameReflexive, SoftDeletedSame, CascadeKept DEF DeleteStream, Kept

LEMMA ReapedKept ==
    ASSUME NEW S \in Store, NEW p \in Path
    PROVE  \A q \in Path : Kept(S[q], Reaped(S, p)[q])
BY SameReflexive, SoftDeletedSame, DeleteStreamKept DEF Reaped, Kept

LEMMA FoundSame ==
    ASSUME NEW S \in Store, NEW p \in Path, Found(S, p)
    PROVE  Same(S[p], Reaped(S, p)[p])
BY SameReflexive, SoftDeletedSame DEF Found, Reaped

LEMMA ClearedKept ==
    ASSUME streams \in Store, NEW p \in Path
    PROVE  \A q \in Path : Kept(streams[q], Cleared(p)[q])
BY SameReflexive DEF Cleared, Kept, Store

----------------------------------------------------------------------------
(* Operations that write *)

LEMMA AppendedFields ==
    ASSUME NEW s \in Stream, NEW m \in Message
    PROVE  LET t == Appended(s, m) IN
           /\ t.messages = Append(s.messages, m) /\ t.tail = m.offset
           /\ t.forkedFrom = s.forkedFrom /\ t.forkOffset = s.forkOffset
           /\ t.exists = s.exists /\ t.born = s.born
           /\ t.closed = s.closed /\ t.closedBy = s.closedBy
           /\ t.producers = s.producers /\ t.ctype = s.ctype
BY DEF Appended, Stream

LEMMA AppendedTiled ==
    ASSUME NEW s \in Stream, NEW size \in Nat, NEW data \in Nat,
           NEW by \in Tuple, Tiled(s)
    PROVE  Tiled(Appended(s, Framed(s, size, data, by)))
<1> DEFINE m == Framed(s, size, data, by)
           t == Appended(s, m)
           n == Len(s.messages)
<1>1. m \in Message
  BY FramedType
<1>2. /\ t.messages = Append(s.messages, m) /\ t.tail = m.offset
      /\ t.forkedFrom = s.forkedFrom /\ t.forkOffset = s.forkOffset
  BY <1>1, AppendedFields
<1>3. m.offset = s.tail + FrameOverhead + size /\ m.size = size
  BY DEF Framed
<1>4. s.messages \in Seq(Message) /\ s.tail \in Nat
  BY DEF Stream
<1> HIDE DEF m, t
<1>5. /\ t.messages # <<>> /\ Len(t.messages) = n + 1 /\ n \in Nat
      /\ t.messages[n + 1] = m
      /\ DOMAIN t.messages = 1 .. n + 1 /\ DOMAIN s.messages = 1 .. n
      /\ \A i \in 1 .. n : t.messages[i] = s.messages[i]
  BY <1>1, <1>2, <1>4
<1>6. Base(t) = Base(s)
  BY <1>2 DEF Base
<1>7. s.tail = IF n = 0 THEN Base(s) ELSE s.messages[n].offset
  BY <1>4 DEF Tiled
<1>8. ASSUME NEW i \in 1 .. n + 1
      PROVE  LET from == IF i = 1 THEN Base(t) ELSE t.messages[i - 1].offset IN
             t.messages[i].offset = from + FrameOverhead + t.messages[i].size
  <2>1. CASE i = n + 1
    BY <1>3, <1>5, <1>6, <1>7, <2>1
  <2>2. CASE i # n + 1
    <3>1. i \in 1 .. n /\ (i # 1 => i - 1 \in 1 .. n)
      BY <1>5, <2>2
    <3> QED
      BY <1>5, <1>6, <3>1 DEF Tiled
  <2> QED
    BY <2>1, <2>2
<1> QED
  BY <1>2, <1>5, <1>8 DEF Tiled, t, m

\* A message without a producer does not touch the producers' guarantees.
LEMMA AnonymousAppendHealthy ==
    ASSUME NEW s \in Stream, NEW size \in Nat, NEW data \in Nat, Healthy(s)
    PROVE  Healthy(Appended(s, Framed(s, size, data, NoTuple)))
<1> DEFINE m == Framed(s, size, data, NoTuple)
           t == Appended(s, m)
           n == Len(s.messages)
<1>1. m \in Message /\ m.by = NoTuple
  BY FramedType, NoTupleType DEF Framed
<1>2. /\ t.messages = Append(s.messages, m) /\ t.producers = s.producers
      /\ t.closed = s.closed /\ t.closedBy = s.closedBy
  BY <1>1, AppendedFields
<1>3. Tiled(t)
  BY AppendedTiled, NoTupleType DEF Healthy
<1>4. s.messages \in Seq(Message)
  BY DEF Stream
<1> HIDE DEF m, t
<1>5. /\ n \in Nat
      /\ DOMAIN t.messages = 1 .. n + 1 /\ DOMAIN s.messages = 1 .. n
      /\ t.messages[n + 1].by.pid = NoProducer
      /\ \A i \in 1 .. n : t.messages[i] = s.messages[i]
  BY <1>1, <1>2, <1>4 DEF NoTuple
<1>6. \A k \in DOMAIN t.messages : t.messages[k].by.pid # NoProducer =>
         k \in DOMAIN s.messages /\ t.messages[k] = s.messages[k]
  BY <1>5
<1>7. Once(t)
  BY <1>6 DEF Once, Healthy
<1>8. Bounded(t)
  BY <1>2, <1>6 DEF Bounded, Healthy
<1>9. \A x : TookEffect(s, x) => TookEffect(t, x)
  BY <1>2, <1>5 DEF TookEffect
<1>10. Backed(t)
  BY <1>2, <1>9 DEF Backed, Healthy
<1> QED
  BY <1>3, <1>7, <1>8, <1>10 DEF Healthy, t, m

LEMMA FreshStreamHealthy ==
    ASSUME NEW S, NEW src, NEW o, CreateContext(S, src, o)
    PROVE  /\ Healthy(FreshStream(S, o))
           /\ FreshStream(S, o).born = births + 1
<1> DEFINE s == FreshStream(S, o)
<1>1. /\ s.messages = <<>> /\ s.producers = NoStream.producers
      /\ s.forkedFrom = o.forkedFrom
      /\ s.tail = (IF o.forkedFrom # NoPath THEN ForkPoint(S, o) ELSE 0)
      /\ s.forkOffset = (IF o.forkedFrom # NoPath THEN ForkPoint(S, o) ELSE 0)
      /\ s.born = births + 1
  BY DEF FreshStream, NoStream
<1>2. \A i \in Producer : NoStream.producers[i].st.epoch = -1
  BY DEF NoStream, NoEntry, NoProducerState
<1> HIDE DEF s
<1>3. Tiled(s) /\ Once(s) /\ Bounded(s)
  BY <1>1 DEF Tiled, Once, Bounded, Base
<1>4. Backed(s)
  BY <1>1, <1>2 DEF Backed
<1> QED
  BY <1>1, <1>3, <1>4 DEF Healthy, s

LEMMA WithInitialDataHealthy ==
    ASSUME NEW S, NEW src, NEW o, CreateContext(S, src, o)
    PROVE  /\ Healthy(WithInitialData(S, o))
           /\ WithInitialData(S, o).born = births + 1
<1> DEFINE s == FreshStream(S, o)
           t == WithPrefix(S, o)
           u == WithInitialData(S, o)
<1>1. s \in Stream /\ t \in Stream
  BY FreshStreamType, WithPrefixType
<1>2. o.size \in Nat /\ o.sub \in Nat /\ writes + 1 \in Nat /\ o.forkedFrom = src
  <2>1. writes + 1 \in Nat
    BY DEF CreateContext
  <2> QED
    BY <2>1, RequestFields
<1>3. Healthy(s) /\ s.born = births + 1
  BY FreshStreamHealthy
<1>4. Healthy(t) /\ t.born = births + 1
  <2>1. CASE src # NoPath /\ o.sub > 0
    <3>1. FirstPastFork(S, o).data \in Nat
      BY <2>1, FirstPastForkType DEF Message
    <3>2. Framed(s, o.sub, FirstPastFork(S, o).data, NoTuple) \in Message
      BY <1>1, <1>2, <3>1, FramedType, NoTupleType
    <3>3. t = Appended(s, Framed(s, o.sub, FirstPastFork(S, o).data, NoTuple))
      BY <1>2, <2>1 DEF WithPrefix
    <3> HIDE DEF s, t
    <3>4. t.born = births + 1
      BY <1>1, <1>3, <3>2, <3>3, AppendedFields
    <3> QED
      BY <1>1, <1>2, <1>3, <3>1, <3>3, <3>4, AnonymousAppendHealthy
  <2>2. CASE ~(src # NoPath /\ o.sub > 0)
    BY <1>2, <1>3, <2>2 DEF WithPrefix
  <2> QED
    BY <2>1, <2>2
<1>5. CASE InitEmpty(S, o)
  BY <1>4, <1>5 DEF WithInitialData
<1>6. CASE ~InitEmpty(S, o)
  <2>1. Framed(t, o.size, writes + 1, NoTuple) \in Message
    BY <1>1, <1>2, FramedType, NoTupleType
  <2>2. u = Appended(t, Framed(t, o.size, writes + 1, NoTuple))
    BY <1>6 DEF WithInitialData
  <2> HIDE DEF t, u
  <2>3. u.born = births + 1
    BY <1>1, <1>4, <2>1, <2>2, AppendedFields
  <2>4. Healthy(u)
    BY <1>1, <1>2, <1>4, <2>2, AnonymousAppendHealthy
  <2> QED
    BY <2>3, <2>4 DEF u
<1> QED
  BY <1>5, <1>6

----------------------------------------------------------------------------
(* Producers *)

LEMMA CleanedFields ==
    ASSUME NEW s \in Stream
    PROVE  LET t == Cleaned(s) IN
           /\ t.messages = s.messages /\ t.tail = s.tail
           /\ t.forkedFrom = s.forkedFrom /\ t.forkOffset = s.forkOffset
           /\ t.exists = s.exists /\ t.born = s.born
           /\ t.closed = s.closed /\ t.closedBy = s.closedBy
           /\ \A i \in Producer : t.producers[i] = CleanedEntry(s.producers[i])
BY DEF Cleaned, Stream

\* An aged-out producer starts a new window, in which it has written nothing.
LEMMA CleanedHealthy ==
    ASSUME NEW s \in Stream, Healthy(s)
    PROVE  Healthy(Cleaned(s))
<1> DEFINE t == Cleaned(s)
<1>1. /\ t.messages = s.messages /\ t.tail = s.tail
      /\ t.forkedFrom = s.forkedFrom /\ t.forkOffset = s.forkOffset
      /\ t.closed = s.closed /\ t.closedBy = s.closedBy
      /\ \A i \in Producer : t.producers[i] = CleanedEntry(s.producers[i])
  BY CleanedFields
<1> HIDE DEF t
<1>2. Tiled(t) /\ Once(t)
  BY <1>1 DEF Healthy, Tiled, Once, Base
<1>3. ASSUME NEW e \in ProducerEntry, NEW by \in Tuple, Covered(e, by)
      PROVE  Covered(CleanedEntry(e), by)
  <2>1. e.drops \in Nat /\ by.win \in Nat
    BY DEF ProducerEntry, Tuple
  <2>2. CASE e.stale
    <3>1. CleanedEntry(e).drops = e.drops + 1
      BY <2>2 DEF CleanedEntry, NoEntry
    <3> QED
      BY <1>3, <2>1, <3>1 DEF Covered
  <2>3. CASE ~e.stale
    BY <1>3, <2>3 DEF CleanedEntry
  <2> QED
    BY <2>2, <2>3
<1>4. Bounded(t)
  <2> SUFFICES ASSUME NEW k \in DOMAIN s.messages,
                      s.messages[k].by.pid # NoProducer
               PROVE  Covered(t.producers[s.messages[k].by.pid],
                              s.messages[k].by)
    BY <1>1 DEF Bounded
  <2>1. s.messages[k].by.pid \in Producer /\ s.messages[k].by \in Tuple
    BY MessageAuthor
  <2>2. s.producers[s.messages[k].by.pid] \in ProducerEntry
    BY <2>1 DEF Stream
  <2>3. Covered(s.producers[s.messages[k].by.pid], s.messages[k].by)
    BY DEF Healthy, Bounded
  <2> QED
    BY <1>1, <1>3, <2>1, <2>2, <2>3
<1>5. Backed(t)
  <2>1. \A x : TookEffect(s, x) => TookEffect(t, x)
    BY <1>1 DEF TookEffect
  <2>2. \A i \in Producer : t.producers[i].st.epoch # -1 =>
                              t.producers[i] = s.producers[i]
    <3>1. \A e : e.stale => CleanedEntry(e).st = NoProducerState
      BY DEF CleanedEntry, NoEntry
    <3>2. \A e : ~e.stale => CleanedEntry(e) = e
      BY DEF CleanedEntry
    <3>3. NoProducerState.epoch = -1
      BY DEF NoProducerState
    <3>4. \A i \in Producer : s.producers[i].stale \in BOOLEAN
      BY DEF Stream, ProducerEntry
    <3> QED
      BY <1>1, <3>1, <3>2, <3>3, <3>4
  <2> QED
    BY <2>1, <2>2 DEF Backed, Healthy
<1> QED
  BY <1>2, <1>4, <1>5 DEF Healthy, t

\* What an accepted request looks like, whichever rule accepted it.
LEMMA AcceptedCases ==
    ASSUME NEW st \in ProducerState, NEW epoch \in Nat, NEW seq \in Nat,
           ValidateProducer(st, epoch, seq) = "accepted"
    PROVE  \/ st.epoch = -1 /\ seq = 0
           \/ st.epoch # -1 /\ epoch > st.epoch /\ seq = 0
           \/ st.epoch # -1 /\ epoch = st.epoch /\ seq = st.lastSeq + 1
<1>1. st.epoch \in Int /\ st.lastSeq \in Int
  BY DEF ProducerState
<1>2. CASE st.epoch = -1
  BY <1>1, <1>2 DEF ValidateProducer
<1>3. CASE st.epoch # -1 /\ epoch < st.epoch
  BY <1>1, <1>3 DEF ValidateProducer
<1>4. CASE st.epoch # -1 /\ epoch > st.epoch
  BY <1>1, <1>4 DEF ValidateProducer
<1>5. CASE st.epoch # -1 /\ epoch = st.epoch
  BY <1>1, <1>5 DEF ValidateProducer
<1> QED
  BY <1>1, <1>2, <1>3, <1>4, <1>5

LEMMA HeaderFields ==
    ASSUME NEW h \in ProducerHeaders
    PROVE  /\ h.pid \in Producer /\ h.epoch \in Nat /\ h.seq \in Nat
           /\ HasProducer(h)
BY BoundsAssumption, NamesAssumption DEF ProducerHeaders, HasProducer

\* t has the producers of s after commitProducerState of h.
Commits(s, t, h) ==
    \A i \in Producer :
        /\ t.producers[i].drops = s.producers[i].drops
        /\ t.producers[i].st = IF i = h.pid THEN ProposedState(h.epoch, h.seq)
                               ELSE s.producers[i].st

LEMMA CommittedCommits ==
    ASSUME NEW s \in Stream, NEW h \in ProducerHeaders
    PROVE  LET t == Committed(s, h) IN
           /\ Commits(s, t, h)
           /\ t.messages = s.messages /\ t.tail = s.tail
           /\ t.forkedFrom = s.forkedFrom /\ t.forkOffset = s.forkOffset
           /\ t.exists = s.exists /\ t.born = s.born
           /\ t.closed = s.closed /\ t.closedBy = s.closedBy
<1> DEFINE e == [s.producers[h.pid] EXCEPT
                   !.st = ProposedState(h.epoch, h.seq), !.stale = FALSE]
           new == [s EXCEPT !.producers = [@ EXCEPT ![h.pid] = e]]
<1>1. h.pid \in Producer /\ HasProducer(h)
  BY HeaderFields
<1>2. s.producers[h.pid] \in ProducerEntry
  BY <1>1 DEF Stream
<1>3. Committed(s, h) = new
  BY <1>1 DEF Committed, Stream
<1>4. e.st = ProposedState(h.epoch, h.seq) /\ e.drops = s.producers[h.pid].drops
  BY <1>2 DEF ProducerEntry
<1> HIDE DEF e
<1>5. /\ new.messages = s.messages /\ new.tail = s.tail
      /\ new.forkedFrom = s.forkedFrom /\ new.forkOffset = s.forkOffset
      /\ new.exists = s.exists /\ new.born = s.born
      /\ new.closed = s.closed /\ new.closedBy = s.closedBy
      /\ new.producers = [s.producers EXCEPT ![h.pid] = e]
  BY DEF Stream
<1> HIDE DEF new
<1>6. Commits(s, new, h)
  BY <1>1, <1>4, <1>5 DEF Commits, Stream
<1> QED
  BY <1>3, <1>5, <1>6

\* The producer's state only moves forward, so it still covers the log ...
LEMMA CommitCovers ==
    ASSUME NEW s \in Stream, NEW t \in Stream, NEW h \in ProducerHeaders,
           Commits(s, t, h), Validated(s, h) = "accepted",
           NEW by \in Tuple, by.pid \in Producer, Covered(s.producers[by.pid], by)
    PROVE  /\ Covered(t.producers[by.pid], by)
           /\ (by.pid = h.pid /\ by.win = s.producers[h.pid].drops)
              => Before(by, Stamp(s, h))
<1> DEFINE e == s.producers[h.pid]
<1>1. h.pid \in Producer /\ h.epoch \in Nat /\ h.seq \in Nat /\ HasProducer(h)
  BY HeaderFields
<1>2. e \in ProducerEntry /\ e.st \in ProducerState
  BY <1>1 DEF Stream, ProducerEntry
<1>3. \/ e.st.epoch = -1 /\ h.seq = 0
      \/ e.st.epoch # -1 /\ h.epoch > e.st.epoch /\ h.seq = 0
      \/ e.st.epoch # -1 /\ h.epoch = e.st.epoch /\ h.seq = e.st.lastSeq + 1
  BY <1>1, <1>2, AcceptedCases DEF Validated
<1>4. e.st.epoch \in Int /\ e.st.lastSeq \in Int /\ e.drops \in Nat
  BY <1>2 DEF ProducerState, ProducerEntry
<1>5. by.epoch \in Nat /\ by.seq \in Nat /\ by.win \in Nat
  BY DEF Tuple
<1>6. CASE by.pid # h.pid
  BY <1>6 DEF Commits, Covered
<1>7. CASE by.pid = h.pid
  <2>1. /\ t.producers[h.pid].drops = e.drops
        /\ t.producers[h.pid].st.epoch = h.epoch
        /\ t.producers[h.pid].st.lastSeq = h.seq
    BY <1>1 DEF Commits, ProposedState
  <2>2. Stamp(s, h).epoch = h.epoch /\ Stamp(s, h).seq = h.seq
    BY <1>1 DEF Stamp
  <2>3. Covered(e, by)
    BY <1>7
  <2> HIDE DEF e
  <2> QED
    BY <1>1, <1>3, <1>4, <1>5, <1>7, <2>1, <2>2, <2>3 DEF Covered, Before, e
<1> QED
  BY <1>6, <1>7

\* ... and each number it now covers took effect.
LEMMA CommitBacked ==
    ASSUME NEW s \in Stream, NEW t \in Stream, NEW h \in ProducerHeaders,
           Commits(s, t, h), Validated(s, h) = "accepted",
           Backed(s), ~s.closed, TookEffect(t, Stamp(s, h)),
           \A k \in DOMAIN s.messages :
              k \in DOMAIN t.messages /\ t.messages[k] = s.messages[k]
    PROVE  Backed(t)
<1> DEFINE e == s.producers[h.pid]
<1>1. h.pid \in Producer /\ h.epoch \in Nat /\ h.seq \in Nat /\ HasProducer(h)
  BY HeaderFields
<1>2. e \in ProducerEntry /\ e.st \in ProducerState
  BY <1>1 DEF Stream, ProducerEntry
<1>3. \/ h.seq = 0
      \/ e.st.epoch # -1 /\ h.epoch = e.st.epoch /\ h.seq = e.st.lastSeq + 1
  BY <1>1, <1>2, AcceptedCases DEF Validated
<1>4. \A x : TookEffect(s, x) => TookEffect(t, x)
  BY DEF TookEffect
<1>5. ASSUME NEW i \in Producer, i # h.pid, t.producers[i].st.epoch # -1,
             NEW q \in 0 .. t.producers[i].st.lastSeq
      PROVE  TookEffect(t, [pid |-> i, epoch |-> t.producers[i].st.epoch,
                            seq |-> q, win |-> t.producers[i].drops])
  BY <1>4, <1>5 DEF Commits, Backed
<1>6. ASSUME NEW q \in 0 .. h.seq
      PROVE  TookEffect(t, [pid |-> h.pid, epoch |-> h.epoch, seq |-> q,
                            win |-> e.drops])
  <2>1. CASE q = h.seq
    BY <1>1, <2>1 DEF Stamp
  <2>2. CASE q # h.seq
    <3>1. e.st.lastSeq \in Int
      BY <1>2 DEF ProducerState
    <3>2. /\ e.st.epoch # -1 /\ h.epoch = e.st.epoch
          /\ q \in 0 .. e.st.lastSeq
      BY <1>1, <1>3, <2>2, <3>1
    <3>3. TookEffect(s, [pid |-> h.pid, epoch |-> e.st.epoch, seq |-> q,
                         win |-> e.drops])
      BY <1>1, <3>2 DEF Backed
    <3> QED
      BY <1>4, <3>2, <3>3
  <2> QED
    BY <2>1, <2>2
<1>7. /\ t.producers[h.pid].drops = e.drops
      /\ t.producers[h.pid].st.epoch = h.epoch
      /\ t.producers[h.pid].st.lastSeq = h.seq
  BY <1>1 DEF Commits, ProposedState
<1> QED
  BY <1>5, <1>6, <1>7 DEF Backed

\* The close-only request of a producer.
LEMMA CommitClosedHealthy ==
    ASSUME NEW s \in Stream, NEW t \in Stream, NEW h \in ProducerHeaders,
           Healthy(s), ~s.closed, Validated(s, h) = "accepted", Commits(s, t, h),
           t.messages = s.messages, t.tail = s.tail,
           t.forkedFrom = s.forkedFrom, t.forkOffset = s.forkOffset,
           t.closed, t.closedBy = Stamp(s, h)
    PROVE  Healthy(t)
<1>1. Tiled(t) /\ Once(t)
  BY DEF Healthy, Tiled, Once, Base
<1>2. Bounded(t)
  <2> SUFFICES ASSUME NEW k \in DOMAIN s.messages,
                      s.messages[k].by.pid # NoProducer
               PROVE  Covered(t.producers[s.messages[k].by.pid],
                              s.messages[k].by)
    BY DEF Bounded
  <2>1. s.messages[k].by.pid \in Producer /\ s.messages[k].by \in Tuple
    BY MessageAuthor
  <2>2. Covered(s.producers[s.messages[k].by.pid], s.messages[k].by)
    BY DEF Healthy, Bounded
  <2> QED
    BY <2>1, <2>2, CommitCovers
<1>3. TookEffect(t, Stamp(s, h))
  BY DEF TookEffect
<1>4. Backed(t)
  BY <1>3, CommitBacked DEF Healthy
<1> QED
  BY <1>1, <1>2, <1>4 DEF Healthy

\* An append of a producer, with or without a close.
LEMMA ProducerAppendHealthy ==
    ASSUME NEW s \in Stream, NEW t \in Stream, NEW h \in ProducerHeaders,
           NEW size \in Nat, NEW data \in Nat,
           Healthy(s), ~s.closed, Validated(s, h) = "accepted", Commits(s, t, h),
           t.messages = Append(s.messages, Framed(s, size, data, Stamp(s, h))),
           t.tail = Framed(s, size, data, Stamp(s, h)).offset,
           t.forkedFrom = s.forkedFrom, t.forkOffset = s.forkOffset
    PROVE  Healthy(t)
<1> DEFINE by == Stamp(s, h)
           m == Framed(s, size, data, by)
           n == Len(s.messages)
<1>1. /\ h.pid \in Producer /\ h.epoch \in Nat /\ h.seq \in Nat
      /\ HasProducer(h) /\ h \in ProducerHeaders \cup {NoHeaders}
  BY HeaderFields
<1>2. by \in Tuple /\ m \in Message /\ m.by = by
  BY <1>1, StampType, FramedType DEF Framed
<1>3. /\ by.pid = h.pid /\ by.epoch = h.epoch /\ by.seq = h.seq
      /\ by.win = s.producers[h.pid].drops
  BY <1>1 DEF Stamp
<1>4. Tiled(t)
  <2>1. Tiled(Appended(s, m))
    BY <1>2, AppendedTiled DEF Healthy
  <2>2. LET u == Appended(s, m) IN
        /\ t.messages = u.messages /\ t.tail = u.tail
        /\ t.forkedFrom = u.forkedFrom /\ t.forkOffset = u.forkOffset
    BY <1>2, AppendedFields
  <2> HIDE DEF m
  <2> QED
    BY <2>1, <2>2 DEF Tiled, Base
<1>5. s.messages \in Seq(Message)
  BY DEF Stream
<1>6. t.messages = Append(s.messages, m)
  OBVIOUS
<1> HIDE DEF m, by
<1>7. /\ n \in Nat
      /\ DOMAIN t.messages = 1 .. n + 1 /\ DOMAIN s.messages = 1 .. n
      /\ t.messages[n + 1] = m
      /\ \A i \in 1 .. n : t.messages[i] = s.messages[i]
  BY <1>2, <1>5, <1>6
<1>8. \A k \in 1 .. n :
        LET a == s.messages[k].by IN
        a.pid # NoProducer =>
          /\ Covered(t.producers[a.pid], a)
          /\ (a.pid = h.pid /\ a.win = s.producers[h.pid].drops) => Before(a, by)
  <2> SUFFICES ASSUME NEW k \in 1 .. n, s.messages[k].by.pid # NoProducer
               PROVE  LET a == s.messages[k].by IN
                      /\ Covered(t.producers[a.pid], a)
                      /\ (a.pid = h.pid /\ a.win = s.producers[h.pid].drops)
                         => Before(a, by)
    OBVIOUS
  <2>1. s.messages[k].by.pid \in Producer /\ s.messages[k].by \in Tuple
    BY <1>7, MessageAuthor
  <2>2. Covered(s.producers[s.messages[k].by.pid], s.messages[k].by)
    BY <1>7 DEF Healthy, Bounded
  <2> QED
    BY <2>1, <2>2, CommitCovers DEF by
<1>9. Once(t)
  <2> SUFFICES ASSUME NEW i \in 1 .. n + 1, NEW j \in 1 .. n + 1, i < j,
                      t.messages[i].by.pid # NoProducer,
                      t.messages[i].by.pid = t.messages[j].by.pid,
                      t.messages[i].by.win = t.messages[j].by.win
               PROVE  Before(t.messages[i].by, t.messages[j].by)
    BY <1>7 DEF Once
  <2>1. i \in 1 .. n /\ t.messages[i] = s.messages[i]
    BY <1>7
  <2>2. CASE j = n + 1
    BY <1>2, <1>3, <1>7, <1>8, <2>1, <2>2
  <2>3. CASE j # n + 1
    <3>1. j \in 1 .. n /\ t.messages[j] = s.messages[j]
      BY <1>7, <2>3
    <3> QED
      BY <1>7, <2>1, <3>1 DEF Once, Healthy
  <2> QED
    BY <2>2, <2>3
<1>10. Bounded(t)
  <2>1. Covered(t.producers[h.pid], by)
    <3>1. /\ t.producers[h.pid].drops = s.producers[h.pid].drops
          /\ t.producers[h.pid].st.epoch = h.epoch
          /\ t.producers[h.pid].st.lastSeq = h.seq
      BY <1>1 DEF Commits, ProposedState
    <3>2. s.producers[h.pid].drops \in Nat
      BY <1>1 DEF Stream, ProducerEntry
    <3> QED
      BY <1>1, <1>3, <3>1, <3>2 DEF Covered
  <2> SUFFICES ASSUME NEW k \in 1 .. n + 1, t.messages[k].by.pid # NoProducer
               PROVE  Covered(t.producers[t.messages[k].by.pid],
                              t.messages[k].by)
    BY <1>7 DEF Bounded
  <2>2. CASE k = n + 1
    BY <1>2, <1>3, <1>7, <2>1, <2>2
  <2>3. CASE k # n + 1
    <3>1. k \in 1 .. n /\ t.messages[k] = s.messages[k]
      BY <1>7, <2>3
    <3> QED
      BY <1>8, <3>1
  <2> QED
    BY <2>2, <2>3
<1>11. Backed(t)
  <2>1. TookEffect(t, by)
    BY <1>2, <1>7 DEF TookEffect
  <2>2. \A k \in DOMAIN s.messages :
          k \in DOMAIN t.messages /\ t.messages[k] = s.messages[k]
    BY <1>7
  <2> QED
    BY <2>1, <2>2, CommitBacked DEF Healthy, by
<1> QED
  BY <1>4, <1>9, <1>10, <1>11 DEF Healthy

LEMMA SeenFields ==
    ASSUME NEW s \in Stream, NEW h
    PROVE  LET t == Seen(s, h) IN
           /\ t.messages = s.messages /\ t.tail = s.tail
           /\ t.exists = s.exists /\ t.born = s.born
           /\ t.forkedFrom = s.forkedFrom /\ t.forkOffset = s.forkOffset
           /\ t.closed = s.closed /\ t.closedBy = s.closedBy
BY CleanedFields DEF Seen

LEMMA AfterAppendHealthy ==
    ASSUME NEW s \in Stream, NEW r \in AppendRequest, writes \in Nat,
           Healthy(s), ~s.closed, ~StopAtProducer(s, r)
    PROVE  LET t == AfterAppend(s, r) IN
           /\ Healthy(t) /\ t.exists = s.exists /\ t.born = s.born
           /\ \E m \in Message : t.messages = Append(s.messages, m)
<1> DEFINE h == r.headers
           t == Seen(s, h)
           by == Stamp(t, h)
           m == Framed(t, r.size, writes + 1, by)
           u == Appended(t, m)
           v == Committed(u, h)
           z == AfterAppend(s, r)
<1>1. /\ h \in ProducerHeaders \cup {NoHeaders}
      /\ r.size \in Nat /\ r.close \in BOOLEAN /\ writes + 1 \in Nat
  <2>1. /\ r.headers \in ProducerHeaders \cup {NoHeaders}
        /\ r.size \in Sizes /\ r.close \in BOOLEAN
    BY DEF AppendRequest
  <2>2. r.size \in Nat
    BY <2>1, RequestAssumption
  <2> QED
    BY <2>1, <2>2
<1>2. t \in Stream /\ by \in Tuple
  BY <1>1, SeenType, StampType
<1>3. m \in Message
  BY <1>1, <1>2, FramedType
<1>4. u \in Stream /\ v \in Stream /\ z \in Stream
  BY <1>1, <1>2, <1>3, AppendedType, CommittedType, AfterAppendType
<1>5. Healthy(t)
  BY CleanedHealthy DEF Seen
<1>6. /\ t.messages = s.messages /\ t.exists = s.exists /\ t.born = s.born
      /\ t.closed = s.closed
  BY SeenFields
<1>7. /\ u.messages = Append(t.messages, m) /\ u.tail = m.offset
      /\ u.forkedFrom = t.forkedFrom /\ u.forkOffset = t.forkOffset
      /\ u.exists = t.exists /\ u.born = t.born
      /\ u.closed = t.closed /\ u.closedBy = t.closedBy
      /\ u.producers = t.producers
  BY <1>2, <1>3, AppendedFields
<1>8. z = [v EXCEPT !.lastSeq = IF r.seq # -1 THEN r.seq ELSE @,
                    !.closed = @ \/ r.close,
                    !.closedBy = IF r.close /\ HasProducer(h) THEN by ELSE @]
  BY DEF AfterAppend
<1> HIDE DEF h, t, by, m, u, v, z
<1>9. /\ z.messages = v.messages /\ z.tail = v.tail
      /\ z.forkedFrom = v.forkedFrom /\ z.forkOffset = v.forkOffset
      /\ z.exists = v.exists /\ z.born = v.born
      /\ z.producers = v.producers
      /\ v.closed => z.closed
      /\ ~HasProducer(h) => z.closedBy = v.closedBy
  BY <1>4, <1>8 DEF Stream
<1>10. CASE h \in ProducerHeaders
  <2>1. HasProducer(h)
    BY <1>10, HeaderFields
  <2>2. Validated(t, h) = "accepted"
    BY <2>1 DEF StopAtProducer, t, h, Seen
  <2>3. /\ Commits(u, v, h)
        /\ v.messages = u.messages /\ v.tail = u.tail
        /\ v.forkedFrom = u.forkedFrom /\ v.forkOffset = u.forkOffset
        /\ v.exists = u.exists /\ v.born = u.born
    BY <1>4, <1>10, CommittedCommits DEF v
  <2>4. Commits(t, z, h)
    BY <1>7, <1>9, <2>3 DEF Commits
  <2>5. ~t.closed
    BY <1>6
  <2>6. Healthy(z)
    <3>1. /\ z.messages = Append(t.messages, Framed(t, r.size, writes + 1, Stamp(t, h)))
          /\ z.tail = Framed(t, r.size, writes + 1, Stamp(t, h)).offset
          /\ z.forkedFrom = t.forkedFrom /\ z.forkOffset = t.forkOffset
      BY <1>7, <1>9, <2>3 DEF m, by
    <3> QED
      BY <1>1, <1>2, <1>4, <1>5, <1>10, <2>2, <2>4, <2>5, <3>1,
         ProducerAppendHealthy
  <2> QED
    BY <1>3, <1>6, <1>7, <1>9, <2>3, <2>6 DEF z
<1>11. CASE h = NoHeaders
  <2>1. ~HasProducer(h)
    BY <1>11 DEF HasProducer, NoHeaders
  <2>2. v = u /\ by = NoTuple
    BY <2>1 DEF v, by, Committed, Stamp
  <2>3. Healthy(u)
    BY <1>1, <1>2, <1>5, <2>2, AnonymousAppendHealthy DEF u, m
  <2>4. Same(u, z)
    BY <1>9, <2>1, <2>2 DEF Same
  <2>5. Healthy(z)
    BY <1>4, <2>3, <2>4, SameHealthy
  <2> QED
    BY <1>3, <1>6, <1>7, <1>9, <2>2, <2>5 DEF z
<1> QED
  BY <1>1, <1>10, <1>11

----------------------------------------------------------------------------
(* Steps *)

\* What a step does to the log of path p.
Evolves(p) ==
    /\ Healthy(streams'[p])
    /\ streams'[p].born <= births'
    /\ (/\ streams[p].exists /\ streams'[p].exists
        /\ streams'[p].born = streams[p].born)
       => Continues(streams[p], streams'[p])

LEMMA PrefixReflexive ==
    ASSUME NEW a \in Seq(Message)
    PROVE  IsPrefix(a, a)
BY DEF IsPrefix

LEMMA SameContinues ==
    ASSUME NEW s \in Stream, NEW t \in Stream, Same(s, t)
    PROVE  Continues(s, t)
<1>1. s.messages \in Seq(Message)
  BY DEF Stream
<1> QED
  BY <1>1, PrefixReflexive DEF Same, Continues

LEMMA KeptEvolves ==
    ASSUME TypeOK, TypeOK', LogInv, births' = births \/ births' = births + 1,
           NEW p \in Path, Kept(streams[p], streams'[p])
    PROVE  Evolves(p)
<1>1. streams[p] \in Stream /\ streams'[p] \in Stream /\ births \in Nat
  BY DEF TypeOK
<1>2. streams[p].born \in Nat
  BY <1>1 DEF Stream
<1>3. Healthy(streams'[p])
  BY <1>1, KeptHealthy DEF LogInv
<1>4. CASE Same(streams[p], streams'[p])
  <2>1. streams'[p].born = streams[p].born /\ streams[p].born <= births
    BY <1>4 DEF Same, LogInv
  <2>2. streams'[p].born <= births'
    BY <1>1, <1>2, <2>1
  <2> QED
    BY <1>1, <1>3, <1>4, <2>2, SameContinues DEF Evolves
<1>5. CASE Same(NoStream, streams'[p])
  <2>1. streams'[p].born = 0 /\ ~streams'[p].exists
    BY <1>5 DEF Same, NoStream
  <2> QED
    BY <1>1, <1>3, <2>1 DEF Evolves
<1> QED
  BY <1>4, <1>5 DEF Kept

LEMMA OneStreamEvolves ==
    ASSUME TypeOK, TypeOK', LogInv, births' = births, NEW p \in Path, NEW t,
           streams' = [streams EXCEPT ![p] = t],
           Healthy(t), t.born = streams[p].born, Continues(streams[p], t)
    PROVE  \A q \in Path : Evolves(q)
<1> SUFFICES ASSUME NEW q \in Path PROVE Evolves(q)
  OBVIOUS
<1>1. CASE q = p
  <2>1. streams'[p] = t
    BY DEF TypeOK
  <2> QED
    BY <1>1, <2>1 DEF Evolves, LogInv
<1>2. CASE q # p
  <2>1. streams'[q] = streams[q]
    BY <1>2 DEF TypeOK
  <2>2. Kept(streams[q], streams'[q])
    BY <2>1, SameReflexive DEF Kept
  <2> QED
    BY <2>2, KeptEvolves
<1> QED
  BY <1>1, <1>2

LEMMA OneSameEvolves ==
    ASSUME TypeOK, TypeOK', LogInv, births' = births, NEW p \in Path,
           NEW t \in Stream,
           streams' = [streams EXCEPT ![p] = t], Same(streams[p], t)
    PROVE  \A q \in Path : Evolves(q)
<1>1. streams[p] \in Stream /\ Healthy(streams[p])
  BY DEF TypeOK, LogInv
<1>2. Healthy(t) /\ Continues(streams[p], t) /\ t.born = streams[p].born
  BY <1>1, SameHealthy, SameContinues DEF Same
<1> QED
  BY <1>2, OneStreamEvolves

LEMMA ReapEvolves ==
    ASSUME TypeOK, TypeOK', LogInv, births' = births, NEW p \in Path,
           streams' = Reaped(streams, p)
    PROVE  \A q \in Path : Evolves(q)
<1>1. streams \in Store
  BY DEF TypeOK, Store
<1>2. \A q \in Path : Kept(streams[q], streams'[q])
  BY <1>1, ReapedKept
<1> QED
  BY <1>2, KeptEvolves

LEMMA CreateEvolves ==
    ASSUME TypeOK, TypeOK', LogInv, NEW p \in Path,
           NEW src \in ForkSources \cup {NoPath}, NEW o \in CreateRequest(src),
           Create(p, o)
    PROVE  \A q \in Path : Evolves(q)
<1> DEFINE S == Cleared(p)
           t == WithInitialData(S, o)
<1>1. CreateContext(S, src, o) /\ S \in Store
  BY ClearedType DEF CreateContext, TypeOK, Store, Create
<1>2. Healthy(t) /\ t.born = births + 1
  BY <1>1, WithInitialDataHealthy
<1>3. streams' = [Referenced(S, o) EXCEPT ![p] = t] /\ births' = births + 1
  BY DEF Create
<1>4. Referenced(S, o) \in Store
  BY <1>1, ReferencedType
<1> HIDE DEF t
<1>5. Evolves(p)
  <2>1. streams'[p] = t
    BY <1>3, <1>4 DEF Store
  <2>2. streams[p].born <= births /\ streams[p].born \in Nat /\ births \in Nat
    BY DEF LogInv, TypeOK, Stream
  <2> QED
    BY <1>2, <1>3, <2>1, <2>2 DEF Evolves
<1>6. ASSUME NEW q \in Path, q # p
      PROVE  Evolves(q)
  <2>1. streams'[q] = Referenced(S, o)[q]
    BY <1>3, <1>4, <1>6 DEF Store
  <2>2. S[q] = streams[q]
    BY <1>6 DEF Cleared, TypeOK
  <2>3. o.forkedFrom # NoPath => o.forkedFrom \in Path
    BY <1>1, RequestFields
  <2>4. S[q] \in Stream
    BY <1>1 DEF Store
  <2>5. \A s \in Stream : Same(s, [s EXCEPT !.refCount = @ + 1])
    BY DEF Same, Stream
  <2>6. Same(S[q], Referenced(S, o)[q])
    <3>1. CASE o.forkedFrom = q
      <4>1. Referenced(S, o)[q] = [S[q] EXCEPT !.refCount = @ + 1]
        BY <1>1, <2>3, <3>1, NamesAssumption DEF Referenced, Store
      <4> QED
        BY <2>4, <2>5, <4>1
    <3>2. CASE o.forkedFrom # q
      <4>1. Referenced(S, o)[q] = S[q]
        BY <1>1, <2>3, <3>2 DEF Referenced, Store
      <4> QED
        BY <4>1, SameReflexive
    <3> QED
      BY <3>1, <3>2
  <2> QED
    BY <1>3, <2>1, <2>2, <2>6, KeptEvolves DEF Kept
<1> QED
  BY <1>5, <1>6

LEMMA AppendAcceptedEvolves ==
    ASSUME TypeOK, TypeOK', LogInv, NEW p \in Path, NEW r \in AppendRequest,
           AppendAccepted(p, r)
    PROVE  \A q \in Path : Evolves(q)
<1> DEFINE s == Reaped(streams, p)[p]
           t == AfterAppend(s, r)
<1>1. streams \in Store /\ streams[p] \in Stream /\ Healthy(streams[p])
  BY DEF TypeOK, Store, LogInv
<1>2. s \in Stream
  BY <1>1, ReapedType DEF Store
<1>3. Same(streams[p], s)
  BY <1>1, FoundSame DEF AppendAccepted
<1>4. /\ ~StopBeforeProducer(s, r) /\ ~StopAtProducer(s, r)
      /\ streams' = [streams EXCEPT ![p] = t] /\ births' = births
      /\ writes \in Nat
  BY DEF AppendAccepted, TypeOK
<1> HIDE DEF s
<1>5. Healthy(s) /\ ~s.closed /\ ~streams[p].closed
  BY <1>1, <1>2, <1>3, <1>4, SameHealthy DEF StopBeforeProducer, Same
<1>6. /\ Healthy(t) /\ t.born = s.born
      /\ \E m \in Message : t.messages = Append(s.messages, m)
  BY <1>2, <1>4, <1>5, AfterAppendHealthy
<1> HIDE DEF t
<1>7. t.born = streams[p].born /\ s.messages = streams[p].messages
  BY <1>3, <1>6 DEF Same
<1>8. IsPrefix(streams[p].messages, t.messages)
  <2>1. streams[p].messages \in Seq(Message)
    BY <1>1 DEF Stream
  <2>2. PICK m \in Message : t.messages = Append(streams[p].messages, m)
    BY <1>6, <1>7
  <2> QED
    BY <2>1, <2>2 DEF IsPrefix
<1>9. Continues(streams[p], t)
  BY <1>5, <1>8 DEF Continues
<1> QED
  BY <1>4, <1>6, <1>7, <1>9, OneStreamEvolves

LEMMA AppendRejectedEvolves ==
    ASSUME TypeOK, TypeOK', LogInv, NEW p \in Path, NEW r \in AppendRequest,
           AppendRejected(p, r)
    PROVE  \A q \in Path : Evolves(q)
<1> DEFINE t == Seen(streams[p], r.headers)
<1>1. streams[p] \in Stream /\ Healthy(streams[p])
  BY DEF TypeOK, LogInv
<1>2. Healthy(t)
  BY <1>1, CleanedHealthy DEF Seen
<1>3. /\ t.messages = streams[p].messages /\ t.born = streams[p].born
      /\ t.closed = streams[p].closed /\ t.closedBy = streams[p].closedBy
  BY <1>1, SeenFields
<1>4. streams[p].messages \in Seq(Message)
  BY <1>1 DEF Stream
<1>5. streams' = [streams EXCEPT ![p] = t] /\ births' = births
  BY DEF AppendRejected
<1> HIDE DEF t
<1>6. Continues(streams[p], t)
  BY <1>3, <1>4, PrefixReflexive DEF Continues
<1> QED
  BY <1>2, <1>3, <1>5, <1>6, OneStreamEvolves

LEMMA CloseStreamEvolves ==
    ASSUME TypeOK, TypeOK', LogInv, NEW p \in Path, CloseStream(p)
    PROVE  \A q \in Path : Evolves(q)
<1> DEFINE t == [streams[p] EXCEPT !.closed = TRUE]
<1>1. streams[p] \in Stream
  BY DEF TypeOK
<1>2. t \in Stream /\ Same(streams[p], t)
  BY <1>1 DEF Same, Stream
<1>3. CASE Found(streams, p) /\ ~Reaped(streams, p)[p].softDeleted
  <2>1. streams' = [streams EXCEPT ![p] = t] /\ births' = births
    BY <1>3 DEF CloseStream
  <2> HIDE DEF t
  <2> QED
    BY <1>2, <2>1, OneSameEvolves
<1>4. CASE ~(Found(streams, p) /\ ~Reaped(streams, p)[p].softDeleted)
  <2>1. streams' = Reaped(streams, p) /\ births' = births
    BY <1>4 DEF CloseStream, OnlyReap
  <2> QED
    BY <2>1, ReapEvolves
<1> QED
  BY <1>3, <1>4

LEMMA CloseStreamWithProducerEvolves ==
    ASSUME TypeOK, TypeOK', LogInv, NEW p \in Path, NEW h \in ProducerHeaders,
           CloseStreamWithProducer(p, h)
    PROVE  \A q \in Path : Evolves(q)
<1> DEFINE r == Reaped(streams, p)[p]
           s == Cleaned(r)
           c == Committed(s, h)
           t == [c EXCEPT !.closed = TRUE, !.closedBy = Stamp(s, h)]
<1>1. streams \in Store /\ streams[p] \in Stream /\ Healthy(streams[p])
  BY DEF TypeOK, Store, LogInv
<1>2. r \in Stream /\ s \in Stream
  BY <1>1, ReapedType, CleanedType DEF Store
<1>3. CASE ~(Found(streams, p) /\ ~streams[p].closed)
  <2>1. streams' = Reaped(streams, p) /\ births' = births
    BY <1>3 DEF CloseStreamWithProducer, OnlyReap
  <2> QED
    BY <2>1, ReapEvolves
<1>4. CASE Found(streams, p) /\ ~streams[p].closed
  <2>1. Same(streams[p], r) /\ r.closed = streams[p].closed
    BY <1>1, <1>4, FoundSame DEF Found, Reaped, Store, Stream
  <2>2. Healthy(r) /\ ~r.closed
    BY <1>1, <1>2, <1>4, <2>1, SameHealthy
  <2>3. Healthy(s)
    BY <1>2, <2>2, CleanedHealthy
  <2>4. /\ s.messages = r.messages /\ s.tail = r.tail /\ s.born = r.born
        /\ s.closed = r.closed
    BY <1>2, CleanedFields
  <2>5. /\ s.messages = streams[p].messages /\ s.born = streams[p].born
        /\ ~s.closed
    BY <2>1, <2>2, <2>4 DEF Same
  <2>6. IsPrefix(streams[p].messages, s.messages)
    BY <1>1, <2>5, PrefixReflexive DEF Stream
  <2>7. CASE Validated(s, h) # "accepted"
    <3>1. streams' = [streams EXCEPT ![p] = s] /\ births' = births
      BY <1>4, <2>7 DEF CloseStreamWithProducer
    <3> HIDE DEF s
    <3>2. Continues(streams[p], s)
      BY <1>4, <2>6 DEF Continues
    <3> QED
      BY <2>3, <2>5, <3>1, <3>2, OneStreamEvolves
  <2>8. CASE Validated(s, h) = "accepted"
    <3>1. streams' = [streams EXCEPT ![p] = t] /\ births' = births
      BY <1>4, <2>8 DEF CloseStreamWithProducer
    <3>2. h \in ProducerHeaders \cup {NoHeaders}
      OBVIOUS
    <3>3. c \in Stream /\ Stamp(s, h) \in Tuple
      BY <1>2, <3>2, CommittedType, StampType
    <3>4. /\ Commits(s, c, h)
          /\ c.messages = s.messages /\ c.tail = s.tail
          /\ c.forkedFrom = s.forkedFrom /\ c.forkOffset = s.forkOffset
          /\ c.born = s.born
      BY <1>2, CommittedCommits
    <3> HIDE DEF c, s, r
    <3>5. /\ t \in Stream /\ t.closed /\ t.closedBy = Stamp(s, h)
          /\ t.messages = c.messages /\ t.tail = c.tail
          /\ t.forkedFrom = c.forkedFrom /\ t.forkOffset = c.forkOffset
          /\ t.producers = c.producers /\ t.born = c.born
      BY <3>3 DEF Stream
    <3> HIDE DEF t
    <3>6. Commits(s, t, h)
      BY <3>4, <3>5 DEF Commits
    <3>7. Healthy(t)
      BY <1>2, <2>3, <2>5, <2>8, <3>4, <3>5, <3>6, CommitClosedHealthy
    <3>8. Continues(streams[p], t)
      BY <1>4, <2>6, <3>4, <3>5 DEF Continues
    <3> QED
      BY <2>5, <3>1, <3>4, <3>5, <3>7, <3>8, OneStreamEvolves
  <2> QED
    BY <2>7, <2>8
<1> QED
  BY <1>3, <1>4

LEMMA DeleteEvolves ==
    ASSUME TypeOK, TypeOK', LogInv, NEW p \in Path, Delete(p)
    PROVE  \A q \in Path : Evolves(q)
<1> DEFINE S == Reaped(streams, p)
           T == DeleteStream(S, p)
<1>1. streams \in Store /\ S \in Store
  BY ReapedType DEF TypeOK, Store
<1>2. \A q \in Path : Kept(streams[q], S[q])
  BY <1>1, ReapedKept
<1>3. \A q \in Path : Kept(S[q], T[q])
  BY <1>1, DeleteStreamKept
<1>4. streams' = T /\ births' = births
  BY DEF Delete
<1> HIDE DEF S, T
<1>5. \A q \in Path : Kept(streams[q], streams'[q])
  BY <1>2, <1>3, <1>4, KeptTransitive
<1> QED
  BY <1>4, <1>5, KeptEvolves

\* Streams and producers age; touchAccess undoes the former.
LEMMA TimeEvolves ==
    ASSUME TypeOK, TypeOK', LogInv, NEW p \in Path,
           TouchAccess(p) \/ StreamAges(p) \/ \E i \in Producer : ProducerAges(p, i)
    PROVE  \A q \in Path : Evolves(q)
<1>1. streams[p] \in Stream /\ streams'[p] \in Stream
  BY DEF TypeOK
<1>2. \A b \in BOOLEAN : Same(streams[p], [streams[p] EXCEPT !.due = b])
  BY <1>1 DEF Same, Stream
<1>3. ASSUME NEW i \in Producer
      PROVE  Same(streams[p], [streams[p] EXCEPT !.producers[i].stale = TRUE])
  <2>1. \A s \in Stream : Same(s, [s EXCEPT !.producers[i].stale = TRUE])
    BY <1>3 DEF Same, Stream, ProducerEntry
  <2> QED
    BY <1>1, <2>1
<1>4. CASE TouchAccess(p)
  <2>1. streams' = [streams EXCEPT ![p] = [streams[p] EXCEPT !.due = FALSE]]
        /\ births' = births
    BY <1>4 DEF TouchAccess, TypeOK
  <2>2. Same(streams[p], streams'[p])
    BY <1>2, <2>1 DEF TypeOK
  <2> QED
    BY <1>1, <2>1, <2>2, OneSameEvolves DEF TypeOK
<1>5. CASE StreamAges(p)
  <2>1. streams' = [streams EXCEPT ![p] = [streams[p] EXCEPT !.due = TRUE]]
        /\ births' = births
    BY <1>5 DEF StreamAges, TypeOK
  <2>2. Same(streams[p], streams'[p])
    BY <1>2, <2>1 DEF TypeOK
  <2> QED
    BY <1>1, <2>1, <2>2, OneSameEvolves DEF TypeOK
<1>6. ASSUME NEW i \in Producer, ProducerAges(p, i)
      PROVE  \A q \in Path : Evolves(q)
  <2>1. streams' = [streams EXCEPT ![p] =
                      [streams[p] EXCEPT !.producers[i].stale = TRUE]]
        /\ births' = births
    BY <1>6 DEF ProducerAges, TypeOK
  <2>2. Same(streams[p], streams'[p])
    BY <1>3, <2>1 DEF TypeOK
  <2> QED
    BY <1>1, <2>1, <2>2, OneSameEvolves DEF TypeOK
<1> QED
  BY <1>4, <1>5, <1>6

LEMMA StepEvolves ==
    ASSUME TypeOK, TypeOK', PollsPlaced, LogInv, [Next]_vars
    PROVE  \A q \in Path : Evolves(q)
<1>0. ASSUME UNCHANGED <<streams, births>>
      PROVE  \A q \in Path : Evolves(q)
  <2>1. \A q \in Path : Kept(streams[q], streams'[q])
    BY <1>0, SameReflexive DEF Kept
  <2> QED
    BY <1>0, <2>1, KeptEvolves
<1>1. ASSUME NEW p \in Path, NEW src \in ForkSources \cup {NoPath},
             NEW o \in CreateRequest(src), Create(p, o)
      PROVE  \A q \in Path : Evolves(q)
  BY <1>1, CreateEvolves
<1>2. ASSUME NEW p \in Path, NEW o, CreateFails(p, o)
      PROVE  \A q \in Path : Evolves(q)
  <2>1. \A q \in Path : Kept(streams[q], streams'[q])
    BY <1>2, ClearedKept DEF CreateFails, TypeOK, Store
  <2> QED
    BY <1>2, <2>1, KeptEvolves DEF CreateFails
<1>3. ASSUME NEW p \in Path, NEW r \in AppendRequest,
             AppendAccepted(p, r) \/ AppendRejected(p, r)
      PROVE  \A q \in Path : Evolves(q)
  BY <1>3, AppendAcceptedEvolves, AppendRejectedEvolves
<1>4. ASSUME NEW p \in Path, NEW r, AppendStopped(p, r) \/ Lookup(p)
      PROVE  \A q \in Path : Evolves(q)
  BY <1>4, ReapEvolves DEF AppendStopped, Lookup, OnlyReap
<1>5. ASSUME NEW p \in Path, CloseStream(p)
      PROVE  \A q \in Path : Evolves(q)
  BY <1>5, CloseStreamEvolves
<1>6. ASSUME NEW p \in Path, NEW h \in ProducerHeaders,
             CloseStreamWithProducer(p, h)
      PROVE  \A q \in Path : Evolves(q)
  BY <1>6, CloseStreamWithProducerEvolves
<1>7. ASSUME NEW p \in Path, Delete(p)
      PROVE  \A q \in Path : Evolves(q)
  BY <1>7, DeleteEvolves
<1>8. ASSUME NEW p \in Path, NEW w, NEW offset, WaitForMessages(w, p, offset)
      PROVE  \A q \in Path : Evolves(q)
  BY <1>8, ReapEvolves DEF WaitForMessages
<1>9. ASSUME NEW p \in Path,
             TouchAccess(p) \/ StreamAges(p) \/ \E i \in Producer : ProducerAges(p, i)
      PROVE  \A q \in Path : Evolves(q)
  BY <1>9, TimeEvolves
<1>10. ASSUME NEW w \in Waiter, Timeout(w)
       PROVE  \A q \in Path : Evolves(q)
  <2>1. poll[w].path \in Path
    BY <1>10 DEF PollsPlaced, Timeout
  <2> QED
    BY <1>10, <2>1, ReapEvolves DEF Timeout
<1>11. CASE CancelAllWaits \/ UNCHANGED vars
  BY <1>0, <1>11 DEF CancelAllWaits, vars
<1>12. CASE Clear
  <2>1. \A q \in Path : Kept(streams[q], streams'[q])
    BY <1>12, SameReflexive DEF Clear, Kept
  <2> QED
    BY <1>12, <2>1, KeptEvolves DEF Clear
<1> QED
  BY <1>1, <1>2, <1>3, <1>4, <1>5, <1>6, <1>7, <1>8, <1>9, <1>10, <1>11, <1>12
     DEF Next

----------------------------------------------------------------------------
(* Theorems *)

LEMMA InitLogs == Init => LogInv
<1>1. NoStream.born = 0
  BY DEF NoStream
<1> QED
  BY <1>1, NoStreamHealthy DEF Init, LogInv

LEMMA Logs == Spec => []LogInv
<1>1. LogInv /\ TypeOK /\ PollsPlaced /\ TypeOK' /\ [Next]_vars => LogInv'
  BY StepEvolves DEF LogInv, Evolves
<1> QED
  BY <1>1, InitLogs, Typed, TypeCorrect, PTL DEF Spec

\* Whatever mix of create, fork, sub-offset and append wrote a stream, its
\* messages tile the bytes from its base to its tail (appendToStream).
THEOREM LogsTiled == Spec => []LogWellFormed
<1>1. LogInv => LogWellFormed
  BY DEF LogInv, Healthy, LogWellFormed
<1> QED
  BY <1>1, Logs, PTL

\* validateProducer and commitProducerState give exactly-once, in-order
\* delivery for any number of producers, epochs and sequence numbers, as long
\* as the producer's state is not aged out.
THEOREM ProducersExactlyOnce == Spec => []ExactlyOnce
<1>1. LogInv => ExactlyOnce
  BY DEF LogInv, Healthy, ExactlyOnce
<1> QED
  BY <1>1, Logs, PTL

\* What validateProducer answers "duplicate" to has been stored: the state is
\* committed only with the message or the close it stands for.
THEOREM DuplicatesStored == Spec => []DuplicateMeansStored
<1>1. LogInv => DuplicateMeansStored
  BY DEF LogInv, Healthy, DuplicateMeansStored
<1> QED
  BY <1>1, Logs, PTL

\* No operation of the store rewrites a live stream's log, reopens a closed
\* stream or adds to it.
THEOREM CloseIsFinal == Spec => ClosedIsFinal
<1>1. LogInv /\ TypeOK /\ PollsPlaced /\ TypeOK' /\ [Next]_vars =>
        [\A p \in Path :
            (/\ streams[p].exists /\ streams'[p].exists
             /\ streams'[p].born = streams[p].born)
            => Continues(streams[p], streams'[p])]_vars
  BY StepEvolves DEF Evolves
<1> QED
  BY <1>1, Logs, Typed, TypeCorrect, PTL DEF Spec, ClosedIsFinal

----------------------------------------------------------------------------
(***************************************************************************)
(* The long-polls of the in-memory store: nobody who is registered waits   *)
(* for what is there already, and nobody is told that a stream is closed   *)
(* while there is more to read.                                            *)
(***************************************************************************)

\* What a waiter cares about in a stream.
Still(s, t) ==
    t.exists = s.exists /\ t.born = s.born /\ t.closed = s.closed /\ t.tail = s.tail

\* A stream after a step is a new one, or the one before it, which has not
\* moved if it was closed.
Carries(p) ==
    streams'[p].exists =>
        \/ streams'[p].born > births
        \/ /\ streams[p].exists /\ streams'[p].born = streams[p].born
           /\ streams[p].closed =>
                streams'[p].closed /\ streams'[p].tail = streams[p].tail

\* The kinds of step, by what they do to the list of requests.  One that may
\* remove streams cancels the requests that wait on them ...
CancelStep ==
    \E S : /\ CancelWaits(Removed(streams, S))
           /\ \A q \in Path : Still(streams[q], streams'[q]) \/ ~S[q].exists

\* ... an append or a close notifies those that wait on the stream ...
NotifyStep ==
    \E p \in Path, closing \in BOOLEAN :
        /\ NotifyWaits(p, streams'[p], closing)
        /\ \/ streams'[p].tail = streams[p].tail /\ closing
           \/ streams'[p].tail > streams[p].tail /\ streams'[p].messages # <<>>
        /\ \A q \in Path : q # p => Still(streams[q], streams'[q])

\* ... and most leave the list alone.
QuietStep ==
    /\ UNCHANGED <<pending, poll>>
    /\ \A q \in Path : Still(streams[q], streams'[q])

ShutdownStep ==
    Shutdown /\ \E reached : ResolveReached(reached)

----------------------------------------------------------------------------
(* Operations that do not write *)

LEMMA StillReflexive == \A s : Still(s, s)
BY DEF Still

LEMMA NoStreamAbsent == ~NoStream.exists
BY DEF NoStream

LEMMA SoftDeletedStill ==
    ASSUME NEW S \in Store, NEW p \in Path
    PROVE  \A q \in Path : Still(S[q], [S EXCEPT ![p].softDeleted = TRUE][q])
BY DEF Still, Store, Stream

LEMMA CascadeStill ==
    ASSUME NEW S \in Store, NEW p \in Path
    PROVE  \A q \in Path : LET t == DeleteWithCascade(S, p)[q] IN
                           Still(S[q], t) \/ ~t.exists
<1>1. \A s \in Stream : Still(s, Unreferenced(s))
  BY DEF Unreferenced, Still, Stream
<1>2. \A q \in Path : S[q] \in Stream
  BY DEF Store
<1> QED
  BY <1>1, <1>2, StillReflexive, NoStreamAbsent DEF DeleteWithCascade

LEMMA DeleteStreamStill ==
    ASSUME NEW S \in Store, NEW p \in Path
    PROVE  \A q \in Path : LET t == DeleteStream(S, p)[q] IN
                           Still(S[q], t) \/ ~t.exists
BY StillReflexive, SoftDeletedStill, CascadeStill DEF DeleteStream

LEMMA ReapedStill ==
    ASSUME NEW S \in Store, NEW p \in Path
    PROVE  \A q \in Path : LET t == Reaped(S, p)[q] IN
                           Still(S[q], t) \/ ~t.exists
BY StillReflexive, SoftDeletedStill, DeleteStreamStill DEF Reaped

\* A stream that getIfNotExpired returns stays, and so do all others.
LEMMA FoundStill ==
    ASSUME NEW S \in Store, NEW p \in Path, Found(S, p)
    PROVE  \A q \in Path : Still(S[q], Reaped(S, p)[q])
BY StillReflexive, SoftDeletedStill DEF Found, Reaped

LEMMA StillCarries ==
    ASSUME NEW p \in Path, Still(streams[p], streams'[p]) \/ ~streams'[p].exists
    PROVE  Carries(p)
BY DEF Still, Carries

\* Reaping and deleting.
LEMMA RemovalKind ==
    ASSUME TypeOK, CancelWaits(Removed(streams, streams')),
           \A q \in Path : Still(streams[q], streams'[q]) \/ ~streams'[q].exists
    PROVE  CancelStep /\ \A q \in Path : Carries(q)
<1>1. CancelStep
  BY DEF CancelStep
<1> QED
  BY <1>1, StillCarries

LEMMA ReapKind ==
    ASSUME TypeOK, NEW p \in Path, OnlyReap(p)
    PROVE  CancelStep /\ \A q \in Path : Carries(q)
<1>1. streams \in Store
  BY DEF TypeOK, Store
<1>2. streams' = Reaped(streams, p) /\ CancelWaits(Removed(streams, streams'))
  BY DEF OnlyReap
<1> QED
  BY <1>1, <1>2, ReapedStill, RemovalKind

LEMMA DeleteKind ==
    ASSUME TypeOK, NEW p \in Path, Delete(p)
    PROVE  CancelStep /\ \A q \in Path : Carries(q)
<1> DEFINE S == Reaped(streams, p)
           T == DeleteStream(S, p)
<1>1. streams \in Store /\ S \in Store
  BY ReapedType DEF TypeOK, Store
<1>2. \A q \in Path : Still(streams[q], S[q]) \/ ~S[q].exists
  BY <1>1, ReapedStill
<1>3. \A q \in Path : Still(S[q], T[q]) \/ ~T[q].exists
  BY <1>1, DeleteStreamStill
<1>4. streams' = T /\ CancelWaits(Removed(streams, T))
  BY DEF Delete
<1> HIDE DEF S, T
<1>5. \A q \in Path : Still(streams[q], T[q]) \/ ~T[q].exists
  BY <1>2, <1>3 DEF Still
<1> QED
  BY <1>4, <1>5, RemovalKind

----------------------------------------------------------------------------
(* create() *)

LEMMA CreateFailsKind ==
    ASSUME TypeOK, NEW p \in Path, NEW o, CreateFails(p, o)
    PROVE  CancelStep /\ \A q \in Path : Carries(q)
<1>1. streams' = Cleared(p) /\ CancelWaits(Removed(streams, streams'))
  BY DEF CreateFails
<1>2. \A q \in Path : Still(streams[q], streams'[q]) \/ ~streams'[q].exists
  BY <1>1, StillReflexive, NoStreamAbsent DEF Cleared, TypeOK
<1> QED
  BY <1>1, <1>2, RemovalKind

LEMMA CreateKind ==
    ASSUME TypeOK, NEW p \in Path, NEW src \in ForkSources \cup {NoPath},
           NEW o \in CreateRequest(src), Create(p, o)
    PROVE  CancelStep /\ \A q \in Path : Carries(q)
<1>0. PICK S : S = Cleared(p)
  OBVIOUS
<1> DEFINE t == WithInitialData(S, o)
<1>1. CreateContext(S, src, o) /\ S \in Store /\ ~S[p].exists
  BY <1>0, ClearedType, NoStreamAbsent DEF CreateContext, TypeOK, Store, Create, Cleared
<1>2. t.born = births + 1
  BY <1>1, WithInitialDataHealthy
<1>3. /\ streams' = [Referenced(S, o) EXCEPT ![p] = t]
      /\ CancelWaits(Removed(streams, S))
  BY <1>0 DEF Create
<1>4. Referenced(S, o) \in Store
  BY <1>1, ReferencedType
<1> HIDE DEF t
<1>5. streams'[p] = t
  BY <1>3, <1>4 DEF Store
<1>6. ASSUME NEW q \in Path, q # p
      PROVE  Still(streams[q], streams'[q])
  <2>1. streams'[q] = Referenced(S, o)[q]
    BY <1>3, <1>4, <1>6 DEF Store
  <2>2. S[q] = streams[q] /\ S[q] \in Stream
    BY <1>0, <1>1, <1>6 DEF Cleared, TypeOK, Store
  <2>3. o.forkedFrom # NoPath => o.forkedFrom \in Path
    BY <1>1, RequestFields
  <2>4. \A s \in Stream : Still(s, [s EXCEPT !.refCount = @ + 1])
    BY DEF Still, Stream
  <2>5. CASE o.forkedFrom = q
    <3>1. Referenced(S, o)[q] = [S[q] EXCEPT !.refCount = @ + 1]
      BY <1>1, <2>3, <2>5, NamesAssumption DEF Referenced, Store
    <3> QED
      BY <2>1, <2>2, <2>4, <3>1
  <2>6. CASE o.forkedFrom # q
    <3>1. Referenced(S, o)[q] = S[q]
      BY <1>1, <2>3, <2>6 DEF Referenced, Store
    <3> QED
      BY <2>1, <2>2, <3>1, StillReflexive
  <2> QED
    BY <2>5, <2>6
<1>7. CancelStep
  <2>1. \A q \in Path : Still(streams[q], streams'[q]) \/ ~S[q].exists
    BY <1>1, <1>6
  <2> QED
    BY <1>3, <2>1 DEF CancelStep
<1>8. ASSUME NEW q \in Path PROVE Carries(q)
  <2>1. CASE q = p
    BY <1>2, <1>5, <2>1 DEF Carries, TypeOK
  <2> QED
    BY <1>6, <2>1, StillCarries
<1> QED
  BY <1>7, <1>8

----------------------------------------------------------------------------
(* append() and close *)

LEMMA AfterAppendFields ==
    ASSUME NEW s \in Stream, NEW r \in AppendRequest, writes \in Nat
    PROVE  LET t == AfterAppend(s, r) IN
           /\ t.exists = s.exists /\ t.born = s.born
           /\ t.tail = s.tail + FrameOverhead + r.size /\ t.tail > s.tail
           /\ t.messages # <<>>
<1> DEFINE h == r.headers
           t == Seen(s, h)
           by == Stamp(t, h)
           m == Framed(t, r.size, writes + 1, by)
           u == Appended(t, m)
           v == Committed(u, h)
<1>1. /\ h \in ProducerHeaders \cup {NoHeaders} /\ writes + 1 \in Nat
      /\ r.size \in Nat /\ r.size > 0
  <2>1. r.headers \in ProducerHeaders \cup {NoHeaders} /\ r.size \in Sizes
    BY DEF AppendRequest
  <2>2. r.size \in Nat \ {0}
    BY <2>1, RequestAssumption
  <2> QED
    BY <2>1, <2>2
<1>2. t \in Stream /\ by \in Tuple
  BY <1>1, SeenType, StampType
<1>3. t.tail = s.tail /\ t.exists = s.exists /\ t.born = s.born
  BY SeenFields
<1>4. m \in Message /\ m.offset = s.tail + FrameOverhead + r.size
  BY <1>1, <1>2, <1>3, FramedType DEF Framed
<1> HIDE DEF m, t, by
<1>5. /\ u \in Stream /\ u.tail = m.offset /\ u.exists = t.exists /\ u.born = t.born
      /\ u.messages = Append(t.messages, m)
  BY <1>2, <1>4, AppendedType, AppendedFields
<1> HIDE DEF u
<1>6. u.messages # <<>>
  <2>1. t.messages \in Seq(Message)
    BY <1>2 DEF Stream
  <2>2. Len(u.messages) = Len(t.messages) + 1 /\ Len(t.messages) \in Nat
    BY <1>4, <1>5, <2>1
  <2> QED
    BY <2>2
<1>7. /\ v \in Stream /\ v.tail = u.tail /\ v.exists = u.exists /\ v.born = u.born
      /\ v.messages = u.messages
  <2>1. CASE HasProducer(h)
    <3>1. h \in ProducerHeaders
      BY <1>1, <2>1 DEF HasProducer, NoHeaders
    <3> QED
      BY <1>1, <1>5, <3>1, CommittedCommits, CommittedType
  <2>2. CASE ~HasProducer(h)
    BY <1>5, <2>2 DEF Committed
  <2> QED
    BY <2>1, <2>2
<1>8. AfterAppend(s, r) =
        [v EXCEPT !.lastSeq = IF r.seq # -1 THEN r.seq ELSE @,
                  !.closed = @ \/ r.close,
                  !.closedBy = IF r.close /\ HasProducer(h) THEN by ELSE @]
  BY DEF AfterAppend, v, u, m, by, t
<1> HIDE DEF v, h
<1>9. LET z == AfterAppend(s, r) IN
      z.tail = v.tail /\ z.exists = v.exists /\ z.born = v.born /\ z.messages = v.messages
  BY <1>7, <1>8 DEF Stream
<1>10. s.tail \in Nat /\ s.tail + FrameOverhead + r.size > s.tail
  BY <1>1, BoundsAssumption DEF Stream
<1> QED
  BY <1>3, <1>4, <1>5, <1>6, <1>7, <1>9, <1>10

\* The stream at p gives way to t.
LEMMA OneStreamCarries ==
    ASSUME TypeOK, NEW p \in Path, NEW t, streams' = [streams EXCEPT ![p] = t],
           t.exists = streams[p].exists, t.born = streams[p].born,
           streams[p].closed => t.closed /\ t.tail = streams[p].tail
    PROVE  /\ streams'[p] = t
           /\ \A q \in Path : q # p => Still(streams[q], streams'[q])
           /\ \A q \in Path : Carries(q)
<1>1. streams'[p] = t /\ \A q \in Path : q # p => streams'[q] = streams[q]
  BY DEF TypeOK
<1> QED
  BY <1>1, StillReflexive DEF Carries

LEMMA AppendAcceptedKind ==
    ASSUME TypeOK, NEW p \in Path, NEW r \in AppendRequest, AppendAccepted(p, r)
    PROVE  NotifyStep /\ \A q \in Path : Carries(q)
<1> DEFINE s == Reaped(streams, p)[p]
           t == AfterAppend(s, r)
<1>1. streams \in Store /\ writes \in Nat
  BY DEF TypeOK, Store
<1>2. s \in Stream /\ Still(streams[p], s)
  BY <1>1, ReapedType, FoundStill DEF Store, AppendAccepted
<1>3. /\ streams' = [streams EXCEPT ![p] = t] /\ NotifyWaits(p, t, r.close)
      /\ ~StopBeforeProducer(s, r) /\ r.close \in BOOLEAN
  BY DEF AppendAccepted, AppendRequest
<1>4. t.exists = s.exists /\ t.born = s.born /\ t.tail > s.tail /\ t.messages # <<>>
  BY <1>1, <1>2, AfterAppendFields
<1>5. ~s.closed
  BY <1>3 DEF StopBeforeProducer
<1> HIDE DEF t, s
<1>6. /\ t.exists = streams[p].exists /\ t.born = streams[p].born
      /\ ~streams[p].closed /\ t.tail > streams[p].tail
  BY <1>2, <1>4, <1>5 DEF Still
<1>7. /\ streams'[p] = t /\ \A q \in Path : q # p => Still(streams[q], streams'[q])
      /\ \A q \in Path : Carries(q)
  BY <1>3, <1>6, OneStreamCarries
<1> QED
  BY <1>3, <1>4, <1>6, <1>7 DEF NotifyStep

LEMMA CloseKind ==
    ASSUME TypeOK, NEW p \in Path, NEW t, streams' = [streams EXCEPT ![p] = t],
           t.exists = streams[p].exists, t.born = streams[p].born, t.closed,
           t.tail = streams[p].tail, NotifyWaits(p, t, TRUE)
    PROVE  NotifyStep /\ \A q \in Path : Carries(q)
<1>1. /\ streams'[p] = t /\ \A q \in Path : q # p => Still(streams[q], streams'[q])
      /\ \A q \in Path : Carries(q)
  BY OneStreamCarries
<1> QED
  BY <1>1 DEF NotifyStep

LEMMA CloseStreamKind ==
    ASSUME TypeOK, NEW p \in Path, CloseStream(p)
    PROVE  (NotifyStep \/ CancelStep) /\ \A q \in Path : Carries(q)
<1>1. CASE OnlyReap(p)
  BY <1>1, ReapKind
<1>2. CASE Found(streams, p) /\ ~Reaped(streams, p)[p].softDeleted
  <2> DEFINE t == [streams[p] EXCEPT !.closed = TRUE]
  <2>1. streams[p] \in Stream
    BY DEF TypeOK
  <2>2. /\ t.exists = streams[p].exists /\ t.born = streams[p].born /\ t.closed
        /\ t.tail = streams[p].tail
    BY <2>1 DEF Stream
  <2>3. streams' = [streams EXCEPT ![p] = t] /\ NotifyWaits(p, t, TRUE)
    BY <1>2 DEF CloseStream
  <2> HIDE DEF t
  <2> QED
    BY <2>2, <2>3, CloseKind
<1> QED
  BY <1>1, <1>2 DEF CloseStream

\* A step that changes one stream in nothing a waiter cares about.
LEMMA OneStreamQuiet ==
    ASSUME TypeOK, NEW p \in Path, NEW t, streams' = [streams EXCEPT ![p] = t],
           Still(streams[p], t), UNCHANGED <<pending, poll>>
    PROVE  QuietStep /\ \A q \in Path : Carries(q)
<1>1. \A q \in Path : Still(streams[q], streams'[q])
  BY StillReflexive DEF TypeOK
<1> QED
  BY <1>1, StillCarries DEF QuietStep

LEMMA CloseStreamWithProducerKind ==
    ASSUME TypeOK, NEW p \in Path, NEW h \in ProducerHeaders,
           CloseStreamWithProducer(p, h)
    PROVE  (NotifyStep \/ CancelStep \/ QuietStep) /\ \A q \in Path : Carries(q)
<1> DEFINE r == Reaped(streams, p)[p]
           s == Cleaned(r)
           c == Committed(s, h)
           t == [c EXCEPT !.closed = TRUE, !.closedBy = Stamp(s, h)]
<1>1. streams \in Store
  BY DEF TypeOK, Store
<1>2. r \in Stream /\ s \in Stream
  BY <1>1, ReapedType, CleanedType DEF Store
<1>3. CASE OnlyReap(p)
  BY <1>3, ReapKind
<1>4. CASE Found(streams, p) /\ ~streams[p].closed
  <2>1. Still(streams[p], r)
    BY <1>1, <1>4, FoundStill
  <2>2. Still(r, s)
    BY <1>2, CleanedFields DEF Still
  <2>3. Still(streams[p], s)
    BY <2>1, <2>2 DEF Still
  <2>4. CASE Validated(s, h) # "accepted"
    <3>1. streams' = [streams EXCEPT ![p] = s] /\ UNCHANGED <<pending, poll>>
      BY <1>4, <2>4 DEF CloseStreamWithProducer
    <3> HIDE DEF s
    <3> QED
      BY <2>3, <3>1, OneStreamQuiet
  <2>5. CASE Validated(s, h) = "accepted"
    <3>1. streams' = [streams EXCEPT ![p] = t] /\ NotifyWaits(p, t, TRUE)
      BY <1>4, <2>5 DEF CloseStreamWithProducer
    <3>2. h \in ProducerHeaders \cup {NoHeaders}
      OBVIOUS
    <3>3. c \in Stream /\ c.tail = s.tail /\ c.exists = s.exists /\ c.born = s.born
      BY <1>2, <3>2, CommittedType, CommittedCommits
    <3> HIDE DEF c, s, r
    <3>4. t.closed /\ t.tail = c.tail /\ t.exists = c.exists /\ t.born = c.born
      BY <3>3 DEF Stream
    <3> HIDE DEF t
    <3>5. /\ t.exists = streams[p].exists /\ t.born = streams[p].born
          /\ t.tail = streams[p].tail
      BY <2>3, <3>3, <3>4 DEF Still
    <3> QED
      BY <3>1, <3>4, <3>5, CloseKind
  <2> QED
    BY <2>4, <2>5
<1> QED
  BY <1>3, <1>4 DEF CloseStreamWithProducer

LEMMA AppendRejectedKind ==
    ASSUME TypeOK, NEW p \in Path, NEW r, AppendRejected(p, r)
    PROVE  QuietStep /\ \A q \in Path : Carries(q)
<1> DEFINE t == Seen(streams[p], r.headers)
<1>1. streams[p] \in Stream
  BY DEF TypeOK
<1>2. Still(streams[p], t)
  BY <1>1, SeenFields DEF Still
<1>3. streams' = [streams EXCEPT ![p] = t] /\ UNCHANGED <<pending, poll>>
  BY DEF AppendRejected
<1> HIDE DEF t
<1> QED
  BY <1>2, <1>3, OneStreamQuiet

LEMMA TimeKind ==
    ASSUME TypeOK, NEW p \in Path,
           TouchAccess(p) \/ StreamAges(p) \/ \E i \in Producer : ProducerAges(p, i)
    PROVE  QuietStep /\ \A q \in Path : Carries(q)
<1>1. streams[p] \in Stream /\ UNCHANGED <<pending, poll>>
  BY DEF TypeOK, TouchAccess, StreamAges, ProducerAges
<1>2. CASE TouchAccess(p) \/ StreamAges(p)
  <2>1. PICK b : streams' = [streams EXCEPT ![p] = [streams[p] EXCEPT !.due = b]]
    BY <1>2 DEF TouchAccess, StreamAges, TypeOK
  <2>2. Still(streams[p], [streams[p] EXCEPT !.due = b])
    BY <1>1 DEF Still, Stream
  <2> QED
    BY <1>1, <2>1, <2>2, OneStreamQuiet
<1>3. ASSUME NEW i \in Producer, ProducerAges(p, i)
      PROVE  QuietStep /\ \A q \in Path : Carries(q)
  <2>1. PICK f : streams' = [streams EXCEPT ![p] = [streams[p] EXCEPT !.producers = f]]
    BY <1>3 DEF ProducerAges, TypeOK
  <2>2. Still(streams[p], [streams[p] EXCEPT !.producers = f])
    BY <1>1 DEF Still, Stream
  <2> QED
    BY <1>1, <2>1, <2>2, OneStreamQuiet
<1> QED
  BY <1>2, <1>3

----------------------------------------------------------------------------
(* Every step *)

\* The streams of a step that looks p up.
LEMMA LookupCarries ==
    ASSUME TypeOK, NEW p \in Path, streams' = Reaped(streams, p)
    PROVE  /\ \A q \in Path : Still(streams[q], streams'[q]) \/ ~streams'[q].exists
           /\ \A q \in Path : Carries(q)
<1>1. \A q \in Path : Still(streams[q], streams'[q]) \/ ~streams'[q].exists
  BY ReapedStill DEF TypeOK, Store
<1> QED
  BY <1>1, StillCarries

LEMMA StepKind ==
    ASSUME TypeOK, PollsPlaced, [Next]_vars
    PROVE  /\ \A q \in Path : Carries(q)
           /\ \/ CancelStep \/ NotifyStep \/ QuietStep \/ ShutdownStep
              \/ \E w \in Waiter : Timeout(w)
              \/ \E p \in Path, w \in Waiter :
                   \E offset \in 0 .. streams[p].tail : WaitForMessages(w, p, offset)
<1>1. ASSUME UNCHANGED <<streams, pending, poll>>
      PROVE  QuietStep /\ \A q \in Path : Carries(q)
  BY <1>1, StillReflexive, StillCarries DEF QuietStep
<1>2. ASSUME NEW p \in Path, NEW src \in ForkSources \cup {NoPath},
             NEW o \in CreateRequest(src), Create(p, o) \/ CreateFails(p, o)
      PROVE  CancelStep /\ \A q \in Path : Carries(q)
  BY <1>2, CreateKind, CreateFailsKind
<1>3. ASSUME NEW p \in Path, NEW r \in AppendRequest,
             AppendAccepted(p, r) \/ AppendStopped(p, r) \/ AppendRejected(p, r)
      PROVE  (CancelStep \/ NotifyStep \/ QuietStep) /\ \A q \in Path : Carries(q)
  BY <1>3, AppendAcceptedKind, AppendRejectedKind, ReapKind DEF AppendStopped
<1>4. ASSUME NEW p \in Path, CloseStream(p) \/ \E h \in ProducerHeaders : CloseStreamWithProducer(p, h)
      PROVE  (CancelStep \/ NotifyStep \/ QuietStep) /\ \A q \in Path : Carries(q)
  BY <1>4, CloseStreamKind, CloseStreamWithProducerKind
<1>5. ASSUME NEW p \in Path, Delete(p) \/ Lookup(p)
      PROVE  CancelStep /\ \A q \in Path : Carries(q)
  BY <1>5, DeleteKind, ReapKind DEF Lookup
<1>6. ASSUME NEW p \in Path,
             TouchAccess(p) \/ StreamAges(p) \/ \E i \in Producer : ProducerAges(p, i)
      PROVE  QuietStep /\ \A q \in Path : Carries(q)
  BY <1>6, TimeKind
<1>7. ASSUME NEW p \in Path, NEW w, NEW offset, WaitForMessages(w, p, offset)
      PROVE  \A q \in Path : Carries(q)
  BY <1>7, LookupCarries DEF WaitForMessages
<1>8. ASSUME NEW w \in Waiter, Timeout(w)
      PROVE  \A q \in Path : Carries(q)
  BY <1>8, LookupCarries DEF Timeout, PollsPlaced
<1>9. ASSUME CancelAllWaits \/ Clear
      PROVE  ShutdownStep /\ \A q \in Path : Carries(q)
  <2>1. ShutdownStep
    BY <1>9 DEF CancelAllWaits, Clear, ShutdownStep
  <2>2. CASE CancelAllWaits
    BY <2>1, <2>2, StillReflexive, StillCarries DEF CancelAllWaits
  <2>3. CASE Clear
    BY <2>1, <2>3, NoStreamAbsent, StillCarries DEF Clear
  <2> QED
    BY <1>9, <2>1, <2>2, <2>3
<1>10. CASE UNCHANGED vars
  BY <1>1, <1>10 DEF vars
<1>11. CASE Next
  BY <1>2, <1>3, <1>4, <1>5, <1>6, <1>7, <1>8, <1>9, <1>11 DEF Next
<1> QED
  BY <1>10, <1>11

----------------------------------------------------------------------------
(* No wake-up is missed *)

\* findOffsetIndex and the tiling: where nothing is left to read, the offset
\* has reached the tail.
LEMMA NothingLeft ==
    ASSUME NEW s \in Stream, Tiled(s), NEW offset \in Nat, OwnAfter(s, offset) = <<>>
    PROVE  s.tail <= offset \/ (s.messages = <<>> /\ s.tail = Base(s))
<1> DEFINE n == Len(s.messages)
           I == {i \in DOMAIN s.messages : s.messages[i].offset <= offset}
<1>1. s.messages \in Seq(Message)
  BY DEF Stream
<1>2. DOMAIN s.messages = 1 .. n /\ n \in Nat
  BY <1>1
<1>3. IsFiniteSet(1 .. n) /\ I \subseteq 1 .. n
  BY <1>2, FS_Interval
<1>4. IsFiniteSet(I) /\ Cardinality(I) \in Nat
  BY <1>3, FS_Subset, FS_CardinalityType
<1>5. SubSeq(s.messages, Cardinality(I) + 1, n) = <<>>
  BY DEF OwnAfter, FindOffsetIndex
<1>6. Cardinality(I) >= n
  <2>1. SUFFICES ASSUME Cardinality(I) < n PROVE FALSE
    BY <1>2, <1>4
  <2> HIDE DEF I
  <2>2. Len(SubSeq(s.messages, Cardinality(I) + 1, n)) = n - Cardinality(I)
    BY <1>1, <1>2, <1>4, <2>1
  <2>3. Len(SubSeq(s.messages, Cardinality(I) + 1, n)) = Len(<<>>) /\ Len(<<>>) = 0
    BY <1>5, Zenon
  <2> QED
    BY <1>2, <1>4, <2>1, <2>2, <2>3
<1>7. CASE n = 0
  <2>1. s.messages = <<>>
    BY <1>1, <1>7
  <2> QED
    BY <2>1 DEF Tiled
<1>8. CASE n > 0
  <2>1. n \in I
    <3>1. SUFFICES ASSUME n \notin I PROVE FALSE
      OBVIOUS
    <3>2. I \subseteq 1 .. (n - 1)
      BY <1>2, <1>3, <1>8, <3>1
    <3>3. IsFiniteSet(1 .. (n - 1)) /\ Cardinality(1 .. (n - 1)) = n - 1
      <4>1. n - 1 \in Nat /\ 1 \in Int /\ n - 1 \in Int
        BY <1>2, <1>8
      <4> HIDE DEF n
      <4>2. IsFiniteSet(1 .. (n - 1)) /\ Cardinality(1 .. (n - 1)) = IF 1 > n - 1 THEN 0 ELSE n - 1 - 1 + 1
        BY <4>1, FS_Interval
      <4> QED
        BY <1>2, <1>8, <4>1, <4>2
    <3>4. Cardinality(I) <= n - 1
      BY <3>2, <3>3, FS_Subset
    <3> QED
      BY <1>2, <1>4, <1>6, <3>4
  <2>2. s.messages # <<>> /\ s.messages[n].offset <= offset
    BY <1>1, <1>8, <2>1
  <2> QED
    BY <2>2 DEF Tiled
<1> QED
  BY <1>2, <1>7, <1>8

\* A request that stays on the list keeps waiting on the same stream.
LEMMA PendingStays ==
    ASSUME TypeOK, PollsPlaced, NoMissedWakeup, pending' \subseteq pending,
           \A w \in pending' : /\ poll'[w] = poll[w]
                               /\ Still(streams[poll[w].path], streams'[poll[w].path])
    PROVE  NoMissedWakeup'
BY DEF NoMissedWakeup, Still

\* An append or a close wakes every request that waits on the stream.
LEMMA NotifyWakesAll ==
    ASSUME TypeOK, TypeOK', PollsPlaced, NoMissedWakeup, LogInv', NEW p \in Path, NEW closing,
           NotifyWaits(p, streams'[p], closing),
           \/ streams'[p].tail = streams[p].tail /\ closing
           \/ streams'[p].tail > streams[p].tail /\ streams'[p].messages # <<>>
    PROVE  pending' = pending \ Waiting({p})
<1>1. ASSUME NEW w \in pending, poll[w].path = p, streams'[p].tail > streams[p].tail, streams'[p].messages # <<>>
      PROVE  OwnAfter(streams'[p], poll[w].offset) # <<>>
  <2>1. poll[w].offset = streams[p].tail /\ poll[w].offset \in Nat
    BY <1>1 DEF NoMissedWakeup, TypeOK, Poll
  <2>2. streams'[p] \in Stream /\ Tiled(streams'[p]) /\ streams'[p].tail \in Nat
    BY DEF TypeOK, LogInv, Healthy, Stream
  <2> QED
    BY <1>1, <2>1, <2>2, NothingLeft
<1>2. \A w \in Waiting({p}) : closing \/ OwnAfter(streams'[p], poll[w].offset) # <<>>
  BY <1>1 DEF Waiting
<1> QED
  BY <1>2 DEF NotifyWaits

LEMMA WakeupStep ==
    ASSUME TypeOK, TypeOK', PollsPlaced, LogInv, LogInv', NoMissedWakeup, [Next]_vars
    PROVE  NoMissedWakeup'
<1>1. CASE CancelStep
  <2>1. PICK S : /\ CancelWaits(Removed(streams, S))
                 /\ \A q \in Path : Still(streams[q], streams'[q]) \/ ~S[q].exists
    BY <1>1 DEF CancelStep
  <2>2. ASSUME NEW w \in pending'
        PROVE  /\ w \in pending /\ poll'[w] = poll[w]
               /\ Still(streams[poll[w].path], streams'[poll[w].path])
    <3>1. w \in pending /\ w \notin Waiting(Removed(streams, S)) /\ w \in Waiter
      BY <2>1, <2>2 DEF CancelWaits, TypeOK
    <3>2. poll[w].path \in Path /\ streams[poll[w].path].exists
      BY <3>1 DEF PollsPlaced, NoMissedWakeup
    <3>3. S[poll[w].path].exists
      BY <3>1, <3>2 DEF Waiting, Removed
    <3> QED
      BY <2>1, <3>1, <3>2, <3>3 DEF CancelWaits
  <2> QED
    BY <2>2, PendingStays
<1>2. CASE NotifyStep
  <2>1. PICK p \in Path, closing \in BOOLEAN :
          /\ NotifyWaits(p, streams'[p], closing)
          /\ \/ streams'[p].tail = streams[p].tail /\ closing
             \/ streams'[p].tail > streams[p].tail /\ streams'[p].messages # <<>>
          /\ \A q \in Path : q # p => Still(streams[q], streams'[q])
    BY <1>2 DEF NotifyStep
  <2>2. pending' = pending \ Waiting({p})
    BY <2>1, NotifyWakesAll
  <2>3. ASSUME NEW w \in pending'
        PROVE  /\ w \in pending /\ poll'[w] = poll[w]
               /\ Still(streams[poll[w].path], streams'[poll[w].path])
    <3>1. w \in pending /\ poll[w].path # p /\ w \in Waiter /\ poll[w].path \in Path
      BY <2>2, <2>3 DEF Waiting, TypeOK, PollsPlaced
    <3>2. poll'[w] = poll[w]
      BY <2>1, <3>1 DEF NotifyWaits, Waiting
    <3> QED
      BY <2>1, <3>1, <3>2
  <2> QED
    BY <2>3, PendingStays
<1>3. CASE QuietStep
  BY <1>3, PendingStays DEF QuietStep, PollsPlaced, TypeOK
<1>4. CASE ShutdownStep
  BY <1>4 DEF ShutdownStep, ResolveReached, NoMissedWakeup
<1>5. ASSUME NEW w \in Waiter, Timeout(w)
      PROVE  NoMissedWakeup'
  <2> DEFINE p == poll[w].path
             S == Reaped(streams, p)
  <2>1. p \in Path
    BY <1>5 DEF Timeout, PollsPlaced
  <2>2. streams' = S /\ \A q \in Path : Still(streams[q], S[q]) \/ ~S[q].exists
    BY <1>5, <2>1, LookupCarries DEF Timeout
  <2>3. ASSUME NEW v \in pending'
        PROVE  /\ v \in pending /\ poll'[v] = poll[v]
               /\ Still(streams[poll[v].path], streams'[poll[v].path])
    <3>1. v \in pending /\ v # w /\ v \notin Waiting(Removed(streams, S)) /\ v \in Waiter
      BY <1>5, <2>3 DEF Timeout, TypeOK
    <3>2. poll'[v] = poll[v]
      BY <1>5, <3>1 DEF Timeout
    <3>3. poll[v].path \in Path /\ streams[poll[v].path].exists
      BY <3>1 DEF PollsPlaced, NoMissedWakeup
    <3> HIDE DEF S
    <3>4. S[poll[v].path].exists
      BY <3>1, <3>3 DEF Waiting, Removed
    <3> QED
      BY <2>2, <3>1, <3>2, <3>3, <3>4
  <2> QED
    BY <2>3, PendingStays
<1>6. ASSUME NEW p \in Path, NEW w \in Waiter, NEW offset \in 0 .. streams[p].tail,
             WaitForMessages(w, p, offset)
      PROVE  NoMissedWakeup'
  <2>1. streams \in Store /\ streams[p] \in Stream /\ Tiled(streams[p]) /\ offset \in Nat
    BY DEF TypeOK, Store, LogInv, Healthy
  <2>2. streams[p].tail \in Nat /\ streams[p].forkOffset \in Nat /\ offset <= streams[p].tail
    BY <2>1 DEF Stream
  <2>3. OwnAfter(streams[p], offset) = <<>>
    BY <1>6 DEF WaitForMessages
  <2>4. streams[p].tail = offset
    <3>1. Base(streams[p]) <= offset
      BY <1>6, <2>2 DEF WaitForMessages, Base
    <3> QED
      BY <2>1, <2>2, <2>3, <3>1, NothingLeft
  <2>5. ~streams[p].closed /\ streams[p].exists
    BY <1>6, <2>4 DEF WaitForMessages, Found
  <2>6. \A q \in Path : Still(streams[q], streams'[q])
    BY <1>6, <2>1, FoundStill DEF WaitForMessages
  <2>7. /\ poll'[w].state = "waiting" /\ poll'[w].timer /\ poll'[w].path = p
        /\ poll'[w].offset = offset /\ poll'[w].born = streams[p].born
    BY <1>6 DEF WaitForMessages, TypeOK, IdlePoll
  <2>8. \A v \in pending' : v # w => v \in pending /\ poll'[v] = poll[v]
    BY <1>6 DEF WaitForMessages, TypeOK
  <2>9. ASSUME NEW v \in pending'
        PROVE  LET s == streams'[poll'[v].path] IN
               /\ poll'[v].state = "waiting" /\ poll'[v].timer
               /\ s.exists /\ s.born = poll'[v].born
               /\ ~s.closed /\ s.tail = poll'[v].offset
    <3>1. CASE v = w
      BY <2>4, <2>5, <2>6, <2>7, <3>1 DEF Still
    <3>2. CASE v # w
      <4>1. v \in pending /\ poll'[v] = poll[v] /\ poll[v].path \in Path
        BY <2>8, <3>2 DEF PollsPlaced, TypeOK
      <4> QED
        BY <2>6, <4>1 DEF NoMissedWakeup, Still
    <3> QED
      BY <3>1, <3>2
  <2> QED
    BY <2>9 DEF NoMissedWakeup
<1> QED
  BY <1>1, <1>2, <1>3, <1>4, <1>5, <1>6, StepKind

\* No wake-up is missed: whatever appends, closes, deletions, expiries and
\* shutdowns come between, a request that is on the list waits on the stream
\* it asked for, which is open and has nothing past the request's offset
\* (waitForMessages, notifyLongPolls, cancelLongPollsForStream).
THEOREM WakeupsNotMissed == Spec => []NoMissedWakeup
<1>1. Init => NoMissedWakeup
  BY DEF Init, NoMissedWakeup
<1>2. /\ NoMissedWakeup /\ TypeOK /\ PollsPlaced /\ LogInv /\ TypeOK' /\ LogInv' /\ [Next]_vars
      => NoMissedWakeup'
  BY WakeupStep
<1> QED
  BY <1>1, <1>2, Logs, Typed, TypeCorrect, PTL DEF Spec

----------------------------------------------------------------------------
(* Nobody is told of a close too early *)

\* A request names a stream that was created by now, and is on the list as
\* long as it waits, until the store is shut down.
PollsListed ==
    \A w \in Waiter :
        /\ poll[w].state # "idle" => poll[w].path \in Path /\ poll[w].born <= births
        /\ poll[w].state = "waiting" => w \in pending

\* What a step does to a request: nothing, it registers it, or it answers it,
\* and then says "closed" only at the tail of a closed stream.
Registers(w) ==
    /\ poll'[w].state = "waiting" /\ w \in pending'
    /\ poll'[w].path \in Path /\ poll'[w].born <= births

Answers(w) ==
    /\ w \in pending /\ poll'[w].state = "done"
    /\ poll'[w].path = poll[w].path /\ poll'[w].born = poll[w].born
    /\ poll'[w].offset = poll[w].offset
    /\ poll'[w].closed => /\ streams'[poll[w].path].closed
                          /\ streams'[poll[w].path].tail = poll[w].offset

EmptyAnswer(w) ==
    /\ poll'[w].state = "done" /\ poll'[w].path = poll[w].path
    /\ poll'[w].born = poll[w].born /\ poll'[w].offset = poll[w].offset
    /\ ~poll'[w].closed

LEMMA PollStep ==
    ASSUME TypeOK, TypeOK', PollsPlaced, LogInv, LogInv', NoMissedWakeup, PollsListed, ~Shutdown,
           [Next]_vars, NEW w \in Waiter
    PROVE  \/ poll'[w] = poll[w] /\ (w \in pending => w \in pending')
           \/ Registers(w)
           \/ Answers(w)
<1>1. CASE CancelStep
  <2>1. PICK S : CancelWaits(Removed(streams, S))
    BY <1>1 DEF CancelStep
  <2>2. CASE w \in Waiting(Removed(streams, S))
    <3>1. poll'[w] = Resolved(w, <<>>, FALSE, FALSE) /\ w \in pending
      BY <2>1, <2>2 DEF CancelWaits, Waiting
    <3>2. EmptyAnswer(w)
      BY <3>1 DEF Resolved, TypeOK, Poll, EmptyAnswer
    <3> QED
      BY <3>1, <3>2 DEF Answers, EmptyAnswer
  <2>3. CASE w \notin Waiting(Removed(streams, S))
    BY <2>1, <2>3 DEF CancelWaits
  <2> QED
    BY <2>2, <2>3
<1>2. CASE NotifyStep
  <2>1. PICK p \in Path, closing \in BOOLEAN :
          /\ NotifyWaits(p, streams'[p], closing)
          /\ \/ streams'[p].tail = streams[p].tail /\ closing
             \/ streams'[p].tail > streams[p].tail /\ streams'[p].messages # <<>>
    BY <1>2 DEF NotifyStep
  <2> DEFINE msgs == OwnAfter(streams'[p], poll[w].offset)
             woken == w \in Waiting({p}) /\ (closing \/ msgs # <<>>)
             c == streams'[p].closed /\ msgs = <<>>
  <2>2. /\ woken => poll'[w] = Resolved(w, msgs, c, FALSE)
        /\ ~woken => poll'[w] = poll[w] /\ (w \in pending => w \in pending')
    BY <2>1 DEF NotifyWaits
  <2>3. ASSUME woken PROVE Answers(w)
    <3>1. w \in pending /\ poll[w].path = p /\ streams[p].tail = poll[w].offset /\ poll[w].offset \in Nat
      BY <2>3 DEF Waiting, NoMissedWakeup, TypeOK, Poll
    <3>2. streams'[p] \in Stream /\ Tiled(streams'[p]) /\ streams'[p].tail \in Nat
      BY DEF TypeOK, LogInv, Healthy, Stream
    <3>3. msgs = <<>> => streams'[p].tail = poll[w].offset
      BY <2>1, <3>1, <3>2, NothingLeft
    <3> HIDE DEF msgs, c
    <3>4. /\ poll'[w].state = "done" /\ poll'[w].path = poll[w].path /\ poll'[w].born = poll[w].born
          /\ poll'[w].offset = poll[w].offset /\ poll'[w].closed = c
      <4>1. PICK v \in Poll : v = poll[w]
        BY DEF TypeOK
      <4>2. poll'[w] = [v EXCEPT !.state = "done", !.timer = FALSE, !.messages = msgs,
                                 !.closed = c, !.timedOut = FALSE]
        BY <2>2, <2>3, <4>1 DEF Resolved
      <4> QED
        BY ONLY <4>1, <4>2 DEF Poll
    <3> QED
      BY <3>1, <3>3, <3>4 DEF Answers, c
  <2> QED
    BY <2>2, <2>3
<1>3. CASE QuietStep
  BY <1>3 DEF QuietStep
<1>4. CASE ShutdownStep
  BY <1>4 DEF ShutdownStep
<1>5. ASSUME NEW v \in Waiter, Timeout(v)
      PROVE  (poll'[w] = poll[w] /\ (w \in pending => w \in pending')) \/ Answers(w)
  <2> DEFINE p == poll[v].path
             S == Reaped(streams, p)
  <2>1. p \in Path /\ v \in pending
    BY <1>5 DEF Timeout, PollsPlaced, PollsListed
  <2>2. CASE w = v
    <3>1. /\ poll'[w] = Resolved(w, <<>>, Found(streams, p) /\ S[p].closed, TRUE)
      BY <1>5, <2>2 DEF Timeout
    <3>2. streams[p].exists /\ ~streams[p].closed
      BY <2>1 DEF NoMissedWakeup
    <3>3. streams \in Store
      BY DEF TypeOK, Store
    <3>4. ~(Found(streams, p) /\ S[p].closed)
      BY <2>1, <3>2, <3>3, FoundStill DEF Still
    <3>5. poll'[w] = Resolved(w, <<>>, FALSE, TRUE)
      BY <3>1, <3>4
    <3>6. EmptyAnswer(w)
      BY <3>5 DEF Resolved, TypeOK, Poll, EmptyAnswer
    <3> QED
      BY <2>1, <2>2, <3>6 DEF Answers, EmptyAnswer
  <2>3. CASE w # v /\ w \in Waiting(Removed(streams, S))
    <3>1. poll'[w] = Resolved(w, <<>>, FALSE, FALSE) /\ w \in pending
      BY <1>5, <2>3 DEF Timeout, Waiting
    <3>2. EmptyAnswer(w)
      BY <3>1 DEF Resolved, TypeOK, Poll, EmptyAnswer
    <3> QED
      BY <3>1, <3>2 DEF Answers, EmptyAnswer
  <2>4. CASE w # v /\ w \notin Waiting(Removed(streams, S))
    BY <1>5, <2>4 DEF Timeout
  <2> QED
    BY <2>2, <2>3, <2>4
<1>6. ASSUME NEW p \in Path, NEW v \in Waiter, NEW offset, WaitForMessages(v, p, offset)
      PROVE  (poll'[w] = poll[w] /\ (w \in pending => w \in pending')) \/ Registers(w)
  <2>1. CASE w = v
    <3>1. /\ poll'[w].state = "waiting" /\ poll'[w].path = p /\ poll'[w].born = streams[p].born
          /\ w \in pending'
      BY <1>6, <2>1 DEF WaitForMessages, TypeOK, IdlePoll
    <3> QED
      BY <3>1 DEF Registers, LogInv
  <2>2. CASE w # v
    BY <1>6, <2>2 DEF WaitForMessages, TypeOK
  <2> QED
    BY <2>1, <2>2
<1> QED
  BY <1>1, <1>2, <1>3, <1>4, <1>5, <1>6, StepKind

LEMMA BirthsGrow ==
    ASSUME TypeOK, [Next]_vars
    PROVE  births' = births \/ births' = births + 1
<1>1. \A p, o : Create(p, o) => births' = births + 1
  BY DEF Create
<1>2. \A p, o : CreateFails(p, o) => births' = births
  BY DEF CreateFails
<1>3. \A p, r : AppendAccepted(p, r) => births' = births
  BY DEF AppendAccepted
<1>4. \A p, r : AppendStopped(p, r) => births' = births
  BY DEF AppendStopped
<1>5. \A p, r : AppendRejected(p, r) => births' = births
  BY DEF AppendRejected
<1>6. \A p : CloseStream(p) => births' = births
  BY DEF CloseStream
<1>7. \A p, h : CloseStreamWithProducer(p, h) => births' = births
  BY DEF CloseStreamWithProducer
<1>8. \A p : Delete(p) => births' = births
  BY DEF Delete
<1>9. \A p : Lookup(p) => births' = births
  BY DEF Lookup
<1>10. \A p : TouchAccess(p) => births' = births
  BY DEF TouchAccess
<1>11. \A w, p, offset : WaitForMessages(w, p, offset) => births' = births
  BY DEF WaitForMessages
<1>12. \A w : Timeout(w) => births' = births
  BY DEF Timeout
<1>13. CancelAllWaits => births' = births
  BY DEF CancelAllWaits
<1>14. Clear => births' = births
  BY DEF Clear
<1>15. \A p : StreamAges(p) => births' = births
  BY DEF StreamAges
<1>16. \A p, i : ProducerAges(p, i) => births' = births
  BY DEF ProducerAges
<1> QED
  BY <1>1, <1>2, <1>3, <1>4, <1>5, <1>6, <1>7, <1>8, <1>9, <1>10, <1>11, <1>12, <1>13, <1>14, <1>15, <1>16 DEF Next, vars

LEMMA DrainedStep ==
    ASSUME TypeOK, TypeOK', PollsPlaced, LogInv, LogInv', NoMissedWakeup, PollsListed, ~Shutdown,
           ClosedMeansDrained, [Next]_vars
    PROVE  PollsListed' /\ ClosedMeansDrained'
<1>1. births \in Nat /\ births <= births' /\ births' \in Nat
  BY BirthsGrow DEF TypeOK
<1>2. \A q \in Path : Carries(q)
  BY StepKind
<1>3. ASSUME NEW w \in Waiter
      PROVE  /\ poll'[w].state # "idle" => poll'[w].path \in Path /\ poll'[w].born <= births
             /\ poll'[w].state = "waiting" => w \in pending'
  BY PollStep DEF PollsListed, Registers, Answers, TypeOK, PollsPlaced, NoMissedWakeup
<1>4. PollsListed'
  <2>1. \A w \in Waiter : poll'[w].born \in Nat
    BY DEF TypeOK, Poll
  <2> QED
    BY <1>1, <1>3, <2>1 DEF PollsListed
<1>5. ASSUME NEW w \in Waiter, poll'[w].state = "done", poll'[w].closed,
             streams'[poll'[w].path].exists,
             streams'[poll'[w].path].born = poll'[w].born
      PROVE  streams'[poll'[w].path].closed /\ streams'[poll'[w].path].tail = poll'[w].offset
  <2>1. CASE Answers(w)
    BY <1>5, <2>1 DEF Answers
  <2>2. CASE poll'[w] = poll[w]
    <3> DEFINE p == poll[w].path
    <3>1. p \in Path /\ poll[w].born <= births /\ poll[w].born \in Nat
      BY <1>5, <2>2 DEF PollsListed, TypeOK, Poll
    <3>2. ~(streams'[p].born > births)
      BY <1>1, <1>5, <2>2, <3>1
    <3>3. /\ streams[p].exists /\ streams'[p].born = streams[p].born
          /\ streams[p].closed => streams'[p].closed /\ streams'[p].tail = streams[p].tail
      BY <1>2, <1>5, <2>2, <3>1, <3>2 DEF Carries
    <3>4. streams[p].closed /\ streams[p].tail = poll[w].offset
      BY <1>5, <2>2, <3>3 DEF ClosedMeansDrained
    <3> QED
      BY <2>2, <3>3, <3>4
  <2>3. CASE Registers(w)
    BY <1>5, <2>3 DEF Registers
  <2> QED
    BY <2>1, <2>2, <2>3, PollStep
<1>6. ClosedMeansDrained'
  BY <1>5 DEF ClosedMeansDrained
<1> QED
  BY <1>4, <1>6

\* A long-poll that is answered "closed" has been given everything there is:
\* the stream is closed and ends at the request's offset, and stays so as long
\* as the stream lives (notifyLongPollsClosed, the resolve callbacks).  After a
\* shutdown a request that cancelAllWaits passed over is answered from its
\* timer, and may be told of a close that came after more data.
THEOREM ClosedAfterAllData == ~Shutdown => (Spec => []ClosedMeansDrained)
<1> SUFFICES ASSUME ~Shutdown PROVE Spec => []ClosedMeansDrained
  OBVIOUS
<1>1. Init => PollsListed /\ ClosedMeansDrained
  BY DEF Init, PollsListed, ClosedMeansDrained, IdlePoll
<1>2. /\ PollsListed /\ ClosedMeansDrained /\ NoMissedWakeup
      /\ TypeOK /\ PollsPlaced /\ LogInv /\ TypeOK' /\ LogInv' /\ [Next]_vars
      => (PollsListed /\ ClosedMeansDrained)'
  BY DrainedStep
<1> QED
  BY <1>1, <1>2, WakeupsNotMissed, Logs, Typed, TypeCorrect, PTL DEF Spec
=============================================================================
