-------------------------- MODULE FileStoreProofs --------------------------
(***************************************************************************)
(* The file-backed store while nothing is deleted: for any number of       *)
(* paths, clients, producers and crashes the recorded offsets agree with   *)
(* the files, what was answered is stored where the client was told, no    *)
(* producer's answered request is stored twice, and long-polls are woken.  *)
(*                                                                         *)
(* Deletion has to be left out.  delete(), expiry and the rollback of a    *)
(* failed create do not take the append lock: one of them under an append  *)
(* is undone when the append puts the metadata it started from, with an    *)
(* offset that the new or unlinked file does not have.                     *)
(***************************************************************************)
EXTENDS FileStore, FiniteSetTheorems, TLAPS

Permanent ==
    /\ Operations \cap {"delete", "createFails"} = {}
    /\ Expiries \subseteq {"none"}

----------------------------------------------------------------------------
(* Types, for streams that are not deleted *)

MetaRecord ==
    [exists : BOOLEAN, dir : 0 .. MaxBirths, tail : Nat,
     producers : [Producer -> ProducerState],
     closed : BOOLEAN, closedBy : Headers \cup {NoHeaders},
     forkedFrom : Path \cup {NoPath}, forkOffset : Nat,
     refCount : Nat, softDeleted : {FALSE}, expiry : {"none"}, due : {FALSE}]

FileRecord(T) ==
    [state : {"none", "present", "unlinked"}, frames : Seq(T), synced : Nat]

IsFile(f) == \E T : f \in FileRecord(T)

OpRecord ==
    [kind : {"none", "append", "create", "seal", "close"},
     pc : {"idle", "open", "lock", "write", "fsync", "put", "committed"},
     path : Path \cup {NoPath}, streamMeta : MetaRecord,
     headers : Headers \cup {NoHeaders}, data : Nat,
     init : {"none", "valid"}, close : BOOLEAN]

PollRecord ==
    [state : {"idle", "waiting", "done"}, path : Path \cup {NoPath},
     dir : 0 .. MaxBirths, offset : Nat, got : Nat, closed : BOOLEAN]

PollTypeOK ==
    /\ poll \in [Waiter -> PollRecord]
    /\ \A w \in Waiter : poll[w].state = "waiting" => poll[w].path \in Path

FileTypeOK ==
    /\ meta \in [Path -> MetaRecord] /\ disk \in [Path -> MetaRecord]
    /\ files = [d \in Dir |-> files[d]] /\ \A d \in Dir : IsFile(files[d])
    /\ op \in [Client -> OpRecord]
    /\ PollTypeOK
    /\ births \in 0 .. MaxBirths /\ writes \in Nat /\ crashes \in Nat

\* Only finitely many streams exist, whatever the set of paths.
FinitelyMany == IsFiniteSet({p \in Path : meta[p].exists})

----------------------------------------------------------------------------
(* The inductive invariant *)

SameStream(s, t) ==
    /\ s.exists = t.exists /\ s.dir = t.dir
    /\ s.forkedFrom = t.forkedFrom /\ s.forkOffset = t.forkOffset

FrameOf(o) == [data |-> o.data, by |-> o.headers]

\* The place of an append's frame in its file.
PlaceOf(o) == o.streamMeta.tail + 1 - Base(o.streamMeta)

\* Frame x is the kth of segment d in F, and on disk.
Held(F, d, k, x) == k \in 1 .. F[d].synced /\ F[d].frames[k] = x

Writing(o) ==
    /\ o.kind \in {"append", "create"}
    /\ o.pc \in {"write", "fsync", "put", "committed"}

\* The message of the operation is on disk, and not yet answered for.
Stored(o) ==
    \/ o.kind \in {"append", "create"} /\ o.pc \in {"put", "committed"}
    \/ o.kind = "seal" /\ o.data # 0

\* What an operation holds is about the stream that is there.
OpPlaced(o, M) ==
    /\ o.pc = "idle" => o = IdleOp
    /\ o.pc # "idle" =>
         o.path \in Path /\ M[o.path].exists /\ SameStream(o.streamMeta, M[o.path])
    /\ o.pc \in {"open", "lock"} => o.kind = "create" /\ o.data = 0
    /\ o.kind = "close" => o.data = 0

\* What an append remembers of the tail is true until it puts a new one, and
\* its frame is at the end of the file as soon as it is written.
OpInStep(o, M, F) ==
    LET f == F[o.streamMeta.dir] IN
    /\ o.pc \in {"write", "fsync"} =>
         o.kind \in {"append", "create"} /\ o.streamMeta.tail = M[o.path].tail
    /\ o.pc = "fsync" =>
         /\ Len(f.frames) = PlaceOf(o) /\ f.synced = Len(f.frames) - 1
         /\ f.frames[Len(f.frames)] = FrameOf(o)
    /\ Stored(o) => Held(F, o.streamMeta.dir, PlaceOf(o), FrameOf(o))

\* Each stream has a segment of its own, and the record on disk names it too.
Placed ==
    /\ \A p \in Path : SameStream(disk[p], meta[p])
    /\ \A p \in Path : meta[p].exists =>
         /\ meta[p].dir \in 1 .. births
         /\ files[meta[p].dir].state \in {"none", "present"}
    /\ \A p, q \in Path : meta[p].exists /\ meta[q].exists /\ p # q => meta[p].dir # meta[q].dir
    /\ \A d \in Dir : files[d].frames # <<>> => \E p \in Path : meta[p].exists /\ meta[p].dir = d

\* The append lock.
OneWriter ==
    \A c, e \in Client : c # e /\ Writing(op[c]) /\ Writing(op[e]) => op[c].path # op[e].path

\* Without a frame that waits for its sync, the file ends where the record says.
Unmoved(p) == \A c \in Client : op[c].path = p => op[c].pc # "fsync"
InStep ==
    \A p \in Path : meta[p].exists /\ Unmoved(p) =>
        LET f == files[meta[p].dir] IN
        /\ Len(f.frames) = meta[p].tail - Base(meta[p])
        /\ f.synced = Len(f.frames)

AckRecord == [dir : Nat, offset : Nat, data : Nat, by : Headers \cup {NoHeaders}]
AckedHeld ==
    \A a \in acked :
        /\ a \in AckRecord /\ a.dir <= births
        /\ \A p \in Path : meta[p].exists /\ meta[p].dir = a.dir =>
             Held(files, a.dir, a.offset - Base(meta[p]), [data |-> a.data, by |-> a.by])

FileInv ==
    /\ FileTypeOK /\ FinitelyMany /\ Placed
    /\ \A c \in Client : OpPlaced(op[c], meta) /\ OpInStep(op[c], meta, files)
    /\ OneWriter /\ InStep /\ AckedHeld

----------------------------------------------------------------------------
(* Values *)

LEMMA NamesTyped ==
    /\ NoMeta \in MetaRecord /\ IdleOp \in OpRecord /\ IdlePoll \in PollRecord
    /\ IsFile(NoFile) /\ IsFile(Gone)
<1>1. NoMeta \in MetaRecord
  BY FileBounds DEF NoMeta, MetaRecord, ProducerState, NoProducerState
<1>2. IdleOp \in OpRecord
  BY <1>1 DEF IdleOp, OpRecord
<1>3. IdlePoll \in PollRecord
  BY FileBounds DEF IdlePoll, PollRecord
<1>4. NoFile \in FileRecord({0}) /\ [NoFile EXCEPT !.state = "unlinked"] \in FileRecord({0})
  <2> DEFINE empty == <<>>
  <2>1. empty \in Seq({0})
    OBVIOUS
  <2>2. NoFile = [state |-> "none", frames |-> empty, synced |-> 0]
    BY DEF NoFile
  <2> HIDE DEF empty
  <2> QED
    BY <2>1, <2>2 DEF FileRecord
<1>5. IsFile(NoFile) /\ IsFile(Gone)
  BY <1>4 DEF IsFile, Gone
<1> QED
  BY <1>1, <1>2, <1>3, <1>5

LEMMA RecordFacts ==
  ASSUME NEW s \in MetaRecord
  PROVE  /\ s.exists \in BOOLEAN /\ s.dir \in Nat /\ s.tail \in Nat /\ s.closed \in BOOLEAN
         /\ s.forkOffset \in Nat /\ s.refCount \in Nat /\ Base(s) \in Nat
         /\ s.producers \in [Producer -> ProducerState]
  BY FileBounds DEF MetaRecord, Base

\* Lookups find what is there and change nothing.
LEMMA LookupPlain ==
  ASSUME FileTypeOK, NEW p \in Path
  PROVE  Reaped(meta, p) = meta /\ Found(meta, p) = meta[p].exists /\ meta[p] \in MetaRecord
<1>1. meta[p] \in MetaRecord /\ meta[p].due = FALSE /\ meta[p].exists \in BOOLEAN
  BY DEF FileTypeOK, MetaRecord
<1> QED
  BY <1>1 DEF Reaped, Found

LEMMA CommittedTyped ==
  ASSUME NEW s \in MetaRecord, NEW h \in Headers \cup {NoHeaders}
  PROVE  /\ Committed(s, h) \in MetaRecord
         /\ SameStream(Committed(s, h), s) /\ Committed(s, h).tail = s.tail
         /\ Committed(s, h).closed = s.closed /\ Committed(s, h).closedBy = s.closedBy
         /\ Committed(s, h).refCount = s.refCount
         /\ HasProducer(h) => h \in Headers /\ Committed(s, h).producers =
                [s.producers EXCEPT ![h.pid] = ProposedState(h.epoch, h.seq)]
         /\ ~HasProducer(h) => Committed(s, h) = s
<1>1. CASE HasProducer(h)
  <2>1. h \in Headers /\ h.pid \in Producer /\ h.epoch \in Int /\ h.seq \in Int
    BY <1>1, FileBounds DEF HasProducer, NoHeaders, Headers
  <2> DEFINE P == [s.producers EXCEPT ![h.pid] = ProposedState(h.epoch, h.seq)]
  <2>2. P \in [Producer -> ProducerState]
    BY <2>1 DEF MetaRecord, ProposedState, ProducerState
  <2>3. Committed(s, h) = [s EXCEPT !.producers = P]
    BY <1>1 DEF Committed, MetaRecord
  <2> HIDE DEF P
  <2>4. /\ [s EXCEPT !.producers = P] \in MetaRecord
        /\ [s EXCEPT !.producers = P].producers = P
    BY <2>2 DEF MetaRecord
  <2>5. /\ SameStream([s EXCEPT !.producers = P], s)
        /\ [s EXCEPT !.producers = P].tail = s.tail
        /\ [s EXCEPT !.producers = P].closed = s.closed
        /\ [s EXCEPT !.producers = P].closedBy = s.closedBy
        /\ [s EXCEPT !.producers = P].refCount = s.refCount
    BY DEF MetaRecord, SameStream
  <2> QED
    BY <1>1, <2>1, <2>3, <2>4, <2>5 DEF P
<1>2. CASE ~HasProducer(h)
  BY <1>2 DEF Committed, SameStream
<1> QED
  BY <1>1, <1>2

LEMMA FlushedTyped ==
  ASSUME NEW o \in OpRecord
  PROVE  /\ Flushed(o) \in OpRecord
         /\ Flushed(o).pc = IF o.pc = "put" THEN "committed" ELSE o.pc
         /\ Flushed(o).kind = o.kind /\ Flushed(o).path = o.path
         /\ Flushed(o).streamMeta = o.streamMeta /\ Flushed(o).headers = o.headers
         /\ Flushed(o).data = o.data /\ Flushed(o).init = o.init
         /\ Flushed(o).close = o.close
         /\ o.pc # "put" => Flushed(o) = o
  BY DEF Flushed, OpRecord

\* A file after an append.
Extended(f, x) == [f EXCEPT !.frames = Append(f.frames, x), !.state = "present"]

LEMMA FrameAppended ==
  ASSUME NEW f, IsFile(f), NEW x, NEW g, g = Extended(f, x)
  PROVE  /\ IsFile(g) /\ g.state = "present" /\ g.synced = f.synced
         /\ Len(g.frames) = Len(f.frames) + 1 /\ Len(f.frames) \in Nat /\ f.synced \in Nat
         /\ g.frames[Len(f.frames) + 1] = x
         /\ \A k \in 1 .. Len(f.frames) : g.frames[k] = f.frames[k]
         /\ DOMAIN f.frames = 1 .. Len(f.frames) /\ DOMAIN g.frames = 1 .. Len(g.frames)
<1>1. PICK T : f \in FileRecord(T)
  BY DEF IsFile
<1> DEFINE U == T \cup {x}
           s == Append(f.frames, x)
<1>2. f.frames \in Seq(T) /\ f.frames \in Seq(U) /\ f.synced \in Nat
  BY <1>1 DEF FileRecord
<1>3. /\ s \in Seq(U) /\ Len(s) = Len(f.frames) + 1 /\ s[Len(f.frames) + 1] = x
      /\ \A k \in 1 .. Len(f.frames) : s[k] = f.frames[k]
      /\ Len(f.frames) \in Nat /\ DOMAIN f.frames = 1 .. Len(f.frames)
      /\ DOMAIN s = 1 .. Len(s)
  BY <1>2
<1> HIDE DEF s, U
<1>4. g.frames = s /\ g.synced = f.synced /\ g.state = "present" /\ g \in FileRecord(U)
  BY <1>1, <1>2, <1>3 DEF FileRecord, Extended, s
<1> QED
  BY <1>2, <1>3, <1>4 DEF IsFile

LEMMA FileFacts ==
  ASSUME NEW f, IsFile(f)
  PROVE  /\ Len(f.frames) \in Nat /\ f.synced \in Nat /\ DOMAIN f.frames = 1 .. Len(f.frames)
         /\ f.state \in {"none", "present", "unlinked"}
  BY DEF IsFile, FileRecord

LEMMA FileInitially == ASSUME Permanent, Init PROVE FileInv
<1>1. FileTypeOK
  BY NamesTyped, FileBounds DEF Init, FileTypeOK, PollTypeOK, IdlePoll
<1>2. \A p \in Path : meta[p].exists = FALSE
  BY DEF Init, NoMeta
<1>3. FinitelyMany
  <2>1. {p \in Path : meta[p].exists} = {}
    BY <1>2
  <2> QED
    BY <2>1, FS_EmptySet DEF FinitelyMany
<1>4. Placed
  BY <1>2 DEF Init, Placed, SameStream, NoFile
<1>5. \A c \in Client : OpPlaced(op[c], meta) /\ OpInStep(op[c], meta, files)
  BY DEF Init, OpPlaced, OpInStep, Stored, IdleOp
<1>6. OneWriter
  BY DEF Init, OneWriter, Writing, IdleOp
<1>7. InStep
  BY <1>2 DEF InStep
<1>8. AckedHeld
  BY DEF Init, AckedHeld
<1> QED
  BY <1>1, <1>3, <1>4, <1>5, <1>6, <1>7, <1>8 DEF FileInv

----------------------------------------------------------------------------
(* Steps that leave the files, the tails and the identity of streams alone *)

\* Segment F2 holds what F does.
SameFrames(F2, F) ==
    \A d \in Dir : F2[d].frames = F[d].frames /\ F2[d].synced = F[d].synced

SameTails(M2, M) ==
    \A p \in Path : SameStream(M2[p], M[p]) /\ M2[p].tail = M[p].tail

LEMMA OpKept ==
  ASSUME NEW o \in OpRecord, NEW M, NEW M2, NEW F, NEW F2,
         M \in [Path -> MetaRecord],
         \A p \in Path : M[p].exists => M[p].dir \in Dir,
         OpPlaced(o, M), OpInStep(o, M, F),
         SameTails(M2, M), SameFrames(F2, F)
  PROVE  /\ OpPlaced(o, M2) /\ OpInStep(o, M2, F2)
         /\ OpPlaced(Flushed(o), M2) /\ OpInStep(Flushed(o), M2, F2)
<1>1. OpPlaced(o, M2)
  BY DEF OpPlaced, SameTails, SameStream
<1>2. o.pc # "idle" => o.path \in Path /\ o.streamMeta.dir \in Dir
  BY DEF OpPlaced, SameStream
<1>3. Stored(o) => o.pc # "idle"
  BY DEF Stored, OpPlaced, IdleOp
<1>4. OpInStep(o, M2, F2)
  BY <1>2, <1>3 DEF OpInStep, SameTails, SameFrames, Held
<1>5. CASE o.pc # "put"
  BY <1>1, <1>4, <1>5, FlushedTyped
<1>6. CASE o.pc = "put"
  <2> DEFINE n == Flushed(o)
  <2>1. /\ n.pc = "committed" /\ n.kind = o.kind /\ n.path = o.path
        /\ n.streamMeta = o.streamMeta /\ n.headers = o.headers /\ n.data = o.data
    BY <1>6, FlushedTyped
  <2> HIDE DEF n
  <2>2. OpPlaced(n, M2)
    BY <1>1, <1>6, <2>1 DEF OpPlaced
  <2>3. Stored(n) => Stored(o)
    BY <1>6, <2>1 DEF Stored
  <2>4. OpInStep(n, M2, F2)
    BY <1>4, <2>1, <2>3 DEF OpInStep, PlaceOf, FrameOf
  <2> QED
    BY <1>1, <1>4, <2>2, <2>4 DEF n
<1> QED
  BY <1>5, <1>6

\* A step of operation c that does not write: it may take a lock that is free,
\* and answer for what it has stored.
LEMMA OpMoves ==
  ASSUME FileInv, FileTypeOK', births' = births, NEW c \in Client,
         SameFrames(files', files),
         \A d \in Dir : files[d].state \in {"none", "present"} => files'[d].state \in {"none", "present"},
         SameTails(meta', meta),
         \A p \in Path : SameStream(disk'[p], meta[p]),
         \A x \in Client \ {c} : op'[x] = op[x] \/ op'[x] = Flushed(op[x]),
         op[c].pc # "fsync", op'[c].pc # "fsync",
         OpPlaced(op'[c], meta), OpInStep(op'[c], meta, files),
         Writing(op'[c]) => \/ Writing(op[c]) /\ op'[c].path = op[c].path
                            \/ AppendLockFree(op'[c].path),
         \A a \in acked' : a \in acked \/ (Stored(op[c]) /\ a = Ack(op[c]))
  PROVE  FileInv'
<1>0. /\ meta \in [Path -> MetaRecord] /\ op \in [Client -> OpRecord] /\ op' \in [Client -> OpRecord]
      /\ \A p \in Path : meta[p].exists => meta[p].dir \in Dir /\ meta[p].dir \in 1 .. births
      /\ \A p \in Path : meta[p] \in MetaRecord /\ meta'[p] \in MetaRecord
      /\ \A x \in Client : OpPlaced(op[x], meta) /\ OpInStep(op[x], meta, files) /\ op[x] \in OpRecord
  BY FileBounds DEF FileInv, FileTypeOK, Placed, Dir
<1>1. \A p \in Path : SameStream(meta'[p], meta[p]) /\ meta'[p].tail = meta[p].tail
  BY DEF SameTails
<1>2. \A p \in Path : Base(meta'[p]) = Base(meta[p])
  BY <1>1 DEF SameStream, Base
<1>3. FinitelyMany'
  <2>1. {p \in Path : meta'[p].exists} = {p \in Path : meta[p].exists}
    BY <1>1 DEF SameStream
  <2> QED
    BY <2>1 DEF FileInv, FinitelyMany
<1>4. Placed'
  <2>1. \A p \in Path : SameStream(disk'[p], meta'[p])
    BY <1>1 DEF SameStream
  <2>2. \A d \in Dir : files'[d].frames = files[d].frames
    BY DEF SameFrames
  <2> QED
    BY <1>0, <1>1, <2>1, <2>2 DEF FileInv, Placed, SameStream
<1>5. \A x \in Client : OpPlaced(op'[x], meta') /\ OpInStep(op'[x], meta', files')
  <2> TAKE x \in Client
  <2>1. CASE x # c
    BY <1>0, <2>1, OpKept
  <2>2. CASE x = c
    <3>1. PICK n : n = op'[c]
      OBVIOUS
    <3>2. n \in OpRecord
      BY <1>0, <3>1
    <3> QED
      BY <1>0, <2>2, <3>1, <3>2, OpKept
  <2> QED
    BY <2>1, <2>2
<1>6. \A x \in Client \ {c} : /\ op'[x].path = op[x].path /\ op'[x].kind = op[x].kind
                              /\ op'[x].pc = op[x].pc \/ (op[x].pc = "put" /\ op'[x].pc = "committed")
  BY <1>0, FlushedTyped
<1>7. OneWriter'
  <2>1. \A x \in Client \ {c} : Writing(op'[x]) => Writing(op[x])
    BY <1>6 DEF Writing
  <2>2. \A x \in Client \ {c} : Writing(op'[x]) /\ Writing(op'[c]) => op'[x].path # op'[c].path
    BY <1>6, <2>1 DEF FileInv, OneWriter, AppendLockFree, Writing
  <2>3. \A x, y \in Client \ {c} : x # y /\ Writing(op'[x]) /\ Writing(op'[y]) => op'[x].path # op'[y].path
    BY <1>6, <2>1 DEF FileInv, OneWriter
  <2> QED
    BY <2>2, <2>3 DEF OneWriter
<1>8. InStep'
  <2> SUFFICES ASSUME NEW p \in Path, meta'[p].exists, Unmoved(p)'
               PROVE  /\ Len(files'[meta'[p].dir].frames) = meta'[p].tail - Base(meta'[p])
                      /\ files'[meta'[p].dir].synced = Len(files'[meta'[p].dir].frames)
    BY DEF InStep
  <2>1. \A x \in Client : op[x].path = p => op[x].pc # "fsync"
    BY <1>6 DEF Unmoved
  <2>2. meta[p].exists /\ meta'[p].dir = meta[p].dir /\ meta[p].dir \in Dir
    BY <1>0, <1>1 DEF SameStream
  <2> QED
    BY <1>1, <1>2, <2>1, <2>2 DEF FileInv, InStep, Unmoved, SameFrames
<1>9. AckedHeld'
  <2> SUFFICES ASSUME NEW a \in acked'
               PROVE  /\ a \in AckRecord /\ a.dir <= births
                      /\ \A p \in Path : meta'[p].exists /\ meta'[p].dir = a.dir =>
                           Held(files', a.dir, a.offset - Base(meta'[p]), [data |-> a.data, by |-> a.by])
    BY DEF AckedHeld
  <2>1. /\ a \in AckRecord /\ a.dir <= births
        /\ \A p \in Path : meta[p].exists /\ meta[p].dir = a.dir =>
             Held(files, a.dir, a.offset - Base(meta[p]), [data |-> a.data, by |-> a.by])
    <3>1. CASE a \in acked
      BY <3>1 DEF FileInv, AckedHeld
    <3>2. CASE Stored(op[c]) /\ a = Ack(op[c])
      <4> DEFINE o == op[c]
      <4>1. o.pc # "idle" /\ o \in OpRecord /\ o.streamMeta \in MetaRecord
        BY <1>0, <3>2 DEF Stored, OpPlaced, IdleOp, OpRecord
      <4>2. o.path \in Path /\ meta[o.path].exists /\ SameStream(o.streamMeta, meta[o.path])
        BY <1>0, <4>1 DEF OpPlaced
      <4>3. /\ a.dir = o.streamMeta.dir /\ a.offset = o.streamMeta.tail + 1
            /\ a.data = o.data /\ a.by = o.headers
        BY <3>2 DEF Ack
      <4>4. o.streamMeta.tail \in Nat /\ o.streamMeta.dir \in Nat /\ o.data \in Nat
            /\ o.headers \in Headers \cup {NoHeaders}
        BY <4>1, RecordFacts DEF OpRecord
      <4>5. a \in AckRecord
        BY <3>2, <4>4 DEF Ack, AckRecord
      <4>6. Held(files, o.streamMeta.dir, PlaceOf(o), FrameOf(o))
        BY <1>0, <3>2 DEF OpInStep
      <4>7. \A p \in Path : meta[p].exists /\ meta[p].dir = a.dir => p = o.path
        BY <4>2, <4>3 DEF FileInv, Placed, SameStream
      <4>8. Base(o.streamMeta) = Base(meta[o.path]) /\ a.dir \in 1 .. births
        BY <1>0, <4>2, <4>3 DEF SameStream, Base
      <4> HIDE DEF o
      <4>9. a.dir <= births
        BY <4>8 DEF FileInv, FileTypeOK
      <4>10. PlaceOf(o) = a.offset - Base(meta[o.path])
        <5>1. Base(o.streamMeta) \in Nat
          BY <4>1, RecordFacts
        <5> QED
          BY <4>3, <4>4, <4>8, <5>1 DEF PlaceOf
      <4>11. FrameOf(o) = [data |-> a.data, by |-> a.by]
        BY <4>3, Zenon DEF FrameOf
      <4> QED
        BY <4>3, <4>5, <4>6, <4>7, <4>9, <4>10, <4>11
    <3> QED
      BY <3>1, <3>2
  <2>2. \A p \in Path : meta'[p].exists /\ meta'[p].dir = a.dir =>
          meta[p].exists /\ meta[p].dir = a.dir /\ a.dir \in Dir
    BY <1>0, <1>1 DEF SameStream
  <2> QED
    BY <1>2, <2>1, <2>2 DEF Held, SameFrames
<1> QED
  BY <1>3, <1>4, <1>5, <1>7, <1>8, <1>9 DEF FileInv

----------------------------------------------------------------------------
(* Long-polls *)

LEMMA MaxOfPair ==
  ASSUME NEW x \in Int
  PROVE  Max({0, x}) \in Nat /\ Max({0, x}) >= x
<1>1. \E m \in {0, x} : \A y \in {0, x} : m >= y
  OBVIOUS
<1>2. Max({0, x}) \in {0, x} /\ \A y \in {0, x} : Max({0, x}) >= y
  BY <1>1 DEF Max
<1> QED
  BY <1>2

\* What a read finds past an offset of a stream.
LEMMA OwnAfterFacts ==
  ASSUME FileInv, NEW p \in Path, meta[p].exists, NEW offset \in Nat
  PROVE  /\ OwnAfter(meta[p], offset) \in Nat
         /\ offset < meta[p].tail => OwnAfter(meta[p], offset) > 0
<1> DEFINE s == meta[p]
           n == Len(files[s.dir].frames)
<1>1. s \in MetaRecord /\ s.dir \in Dir /\ s.tail \in Nat /\ Base(s) \in Nat
  BY RecordFacts, FileBounds DEF FileInv, FileTypeOK, Placed, Dir
<1>2. n \in Nat
  BY <1>1, FileFacts DEF FileInv, FileTypeOK
<1>3. s.tail <= Base(s) + n
  <2>1. CASE Unmoved(p)
    BY <1>1, <1>2, <2>1 DEF FileInv, InStep
  <2>2. CASE ~Unmoved(p)
    <3>1. PICK c \in Client : op[c].path = p /\ op[c].pc = "fsync"
      BY <2>2 DEF Unmoved
    <3>2. /\ OpPlaced(op[c], meta) /\ OpInStep(op[c], meta, files)
          /\ op[c].streamMeta \in MetaRecord
      BY DEF FileInv, FileTypeOK, OpRecord
    <3>3. /\ SameStream(op[c].streamMeta, s) /\ n = PlaceOf(op[c])
          /\ op[c].streamMeta.tail = s.tail
      BY <3>1, <3>2 DEF OpPlaced, OpInStep, SameStream
    <3>4. Base(op[c].streamMeta) = Base(s)
      BY <3>3 DEF SameStream, Base
    <3> QED
      BY <1>1, <1>2, <3>3, <3>4 DEF PlaceOf
  <2> QED
    BY <2>1, <2>2
<1> DEFINE x == Base(s) + n - offset
<1>4. OwnAfter(s, offset) = IF offset >= s.tail THEN 0 ELSE Max({0, x})
  BY DEF OwnAfter
<1> HIDE DEF s, n
<1>5. x \in Int /\ (offset < s.tail => x > 0)
  BY <1>1, <1>2, <1>3
<1> HIDE DEF x
<1>6. Max({0, x}) \in Nat /\ Max({0, x}) >= x
  BY <1>5, MaxOfPair
<1>7. OwnAfter(s, offset) \in Nat /\ (offset < s.tail => OwnAfter(s, offset) > 0)
  BY <1>1, <1>4, <1>5, <1>6
<1> QED
  BY <1>7 DEF s

LEMMA ResolvedTyped ==
  ASSUME FileTypeOK, NEW w \in Waiter, NEW got \in Nat, NEW closed \in BOOLEAN
  PROVE  /\ Resolved(w, got, closed) \in PollRecord
         /\ Resolved(w, got, closed).state = "done"
  BY DEF FileTypeOK, PollTypeOK, Resolved, PollRecord

LEMMA PollsTyped ==
  ASSUME FileInv, NEW p \in Path, meta[p].exists, NEW b \in BOOLEAN,
         Notify(p, b) \/ NotifyClosed(p, b) \/ UNCHANGED poll
  PROVE  PollTypeOK'
<1>1. \A w \in Waiter : /\ poll[w] \in PollRecord /\ poll[w].offset \in Nat
                        /\ poll[w].state = "waiting" => poll[w].path \in Path
  BY DEF FileInv, FileTypeOK, PollTypeOK, PollRecord
<1>2. \A w \in Waiter : OwnAfter(meta[p], poll[w].offset) \in Nat
  BY <1>1, OwnAfterFacts
<1>3. FileTypeOK /\ meta[p].closed \in BOOLEAN
  BY DEF FileInv, FileTypeOK, MetaRecord
<1>4. CASE Notify(p, b)
  <2> DEFINE r(w) == Resolved(w, OwnAfter(meta[p], poll[w].offset), meta[p].closed)
  <2>1. \A w \in Waiter : r(w) \in PollRecord /\ r(w).state = "done"
    BY <1>2, <1>3, ResolvedTyped
  <2>2. /\ poll' = [w \in Waiter |-> poll'[w]]
        /\ \A w \in Waiter : poll'[w] = poll[w] \/ poll'[w] = r(w)
    BY <1>4 DEF Notify
  <2> HIDE DEF r
  <2> QED
    BY <1>1, <2>1, <2>2 DEF PollTypeOK
<1>5. CASE NotifyClosed(p, b)
  <2>1. \A w \in Waiter : Resolved(w, 0, b) \in PollRecord /\ Resolved(w, 0, b).state = "done"
    BY <1>3, ResolvedTyped
  <2>2. /\ poll' = [w \in Waiter |-> poll'[w]]
        /\ \A w \in Waiter : poll'[w] = poll[w] \/ poll'[w] = Resolved(w, 0, b)
    BY <1>5 DEF NotifyClosed
  <2> QED
    BY <1>1, <2>1, <2>2 DEF PollTypeOK
<1>6. CASE UNCHANGED poll
  BY <1>6 DEF FileInv, FileTypeOK, PollTypeOK
<1> QED
  BY <1>4, <1>5, <1>6

----------------------------------------------------------------------------
(* Operations that wait, step by step *)

OthersStay(c) == \A x \in Client \ {c} : op'[x] = op[x]
OthersFlush(c) == \A x \in Client \ {c} : op'[x] = Flushed(op[x])

LEMMA OpFacts ==
  ASSUME FileInv, NEW c \in Client, op[c].pc # "idle"
  PROVE  /\ op[c] \in OpRecord /\ op[c].path \in Path /\ meta[op[c].path].exists
         /\ SameStream(op[c].streamMeta, meta[op[c].path])
         /\ op[c].streamMeta \in MetaRecord /\ meta[op[c].path] \in MetaRecord
         /\ op[c].streamMeta.dir \in Dir /\ IsFile(files[op[c].streamMeta.dir])
         /\ files[op[c].streamMeta.dir].state \in {"none", "present"}
         /\ Base(op[c].streamMeta) = Base(meta[op[c].path])
         /\ OpPlaced(op[c], meta) /\ OpInStep(op[c], meta, files)
<1>1. op[c] \in OpRecord /\ op[c].streamMeta \in MetaRecord /\ OpPlaced(op[c], meta)
      /\ OpInStep(op[c], meta, files)
  BY DEF FileInv, FileTypeOK, OpRecord
<1>2. /\ op[c].path \in Path /\ meta[op[c].path].exists
      /\ SameStream(op[c].streamMeta, meta[op[c].path])
  BY <1>1 DEF OpPlaced
<1>3. /\ meta[op[c].path] \in MetaRecord /\ op[c].streamMeta.dir = meta[op[c].path].dir
      /\ op[c].streamMeta.dir \in Dir /\ Base(op[c].streamMeta) = Base(meta[op[c].path])
      /\ files[meta[op[c].path].dir].state \in {"none", "present"}
  BY <1>2, FileBounds DEF FileInv, FileTypeOK, Placed, Dir, SameStream, Base
<1>4. IsFile(files[op[c].streamMeta.dir])
  BY <1>3 DEF FileInv, FileTypeOK
<1> QED
  BY <1>1, <1>2, <1>3, <1>4

LEMMA AppendStartEffect ==
  ASSUME FileTypeOK, NEW c \in Client, NEW p \in Path, NEW h \in Headers \cup {NoHeaders},
         NEW close \in BOOLEAN, AppendStart(c, p, h, close)
  PROVE  /\ op' \in [Client -> OpRecord] /\ OthersStay(c)
         /\ op[c].pc = "idle" /\ AppendLockFree(p)
         /\ meta[p].exists /\ ~meta[p].closed /\ Accepted(meta[p], h)
         /\ op'[c].kind = "append" /\ op'[c].pc = "write" /\ op'[c].path = p
         /\ op'[c].streamMeta = meta[p] /\ op'[c].headers = h
         /\ op'[c].data = writes + 1 /\ op'[c].close = close
         /\ writes' = writes + 1
         /\ UNCHANGED <<meta, disk, files, poll, births, crashes, acked, shut>>
<1> DEFINE n == [IdleOp EXCEPT !.kind = "append", !.pc = "write", !.path = p,
                               !.streamMeta = meta[p], !.headers = h,
                               !.data = writes + 1, !.close = close]
<1>1. Reaped(meta, p) = meta /\ Found(meta, p) = meta[p].exists /\ meta[p] \in MetaRecord
  BY LookupPlain
<1>2. /\ op' = [op EXCEPT ![c] = n] /\ op[c].pc = "idle" /\ AppendLockFree(p)
      /\ meta[p].exists /\ ~meta[p].closed /\ Accepted(meta[p], h)
      /\ writes' = writes + 1
      /\ UNCHANGED <<meta, disk, files, poll, births, crashes, acked, shut>>
  BY <1>1 DEF AppendStart, Idle
<1>3. writes + 1 \in Nat
  BY DEF FileTypeOK
<1>4. /\ n \in OpRecord /\ n.kind = "append" /\ n.pc = "write" /\ n.path = p
      /\ n.streamMeta = meta[p] /\ n.headers = h /\ n.data = writes + 1 /\ n.close = close
  BY <1>1, <1>3, NamesTyped DEF OpRecord
<1> HIDE DEF n
<1>5. op' \in [Client -> OpRecord] /\ op'[c] = n /\ \A x \in Client \ {c} : op'[x] = op[x]
  BY <1>2, <1>4 DEF FileTypeOK
<1> QED
  BY <1>2, <1>4, <1>5 DEF OthersStay

LEMMA AppendStartKeeps ==
  ASSUME FileInv, NEW c \in Client, NEW p \in Path, NEW h \in Headers \cup {NoHeaders},
         NEW close \in BOOLEAN, AppendStart(c, p, h, close)
  PROVE  FileInv'
<1>1. FileTypeOK
  BY DEF FileInv
<1>2. /\ op' \in [Client -> OpRecord] /\ OthersStay(c)
      /\ op[c].pc = "idle" /\ AppendLockFree(p) /\ meta[p].exists
      /\ op'[c].kind = "append" /\ op'[c].pc = "write" /\ op'[c].path = p
      /\ op'[c].streamMeta = meta[p] /\ writes' = writes + 1
      /\ UNCHANGED <<meta, disk, files, poll, births, crashes, acked, shut>>
  BY <1>1, AppendStartEffect
<1>3. FileTypeOK'
  BY <1>1, <1>2 DEF FileTypeOK, PollTypeOK
<1>4. OpPlaced(op'[c], meta) /\ OpInStep(op'[c], meta, files)
  BY <1>2 DEF OpPlaced, OpInStep, SameStream, Stored
<1>5. SameFrames(files', files) /\ SameTails(meta', meta) /\ \A q \in Path : SameStream(disk'[q], meta[q])
  BY <1>2 DEF SameFrames, SameTails, SameStream, FileInv, Placed
<1> QED
  BY <1>2, <1>3, <1>4, <1>5, OpMoves DEF OthersStay

LEMMA AppendDoneKeeps ==
  ASSUME FileInv, NEW c \in Client, AppendDone(c)
  PROVE  FileInv'
<1>1. /\ op[c].kind = "append" /\ op[c].pc = "committed" /\ op' = [op EXCEPT ![c] = IdleOp]
      /\ acked' = acked \cup {Ack(op[c])} /\ Notify(op[c].path, op[c].close)
      /\ UNCHANGED <<meta, disk, files, births, writes, crashes>>
  BY DEF AppendDone
<1>2. op[c] \in OpRecord /\ op[c].path \in Path /\ meta[op[c].path].exists /\ op[c].close \in BOOLEAN
  BY <1>1, OpFacts DEF OpRecord
<1>3. PollTypeOK'
  BY <1>1, <1>2, PollsTyped
<1>4. op' \in [Client -> OpRecord] /\ op'[c] = IdleOp /\ \A x \in Client \ {c} : op'[x] = op[x]
  BY <1>1, NamesTyped DEF FileInv, FileTypeOK
<1>5. FileTypeOK'
  BY <1>1, <1>3, <1>4 DEF FileInv, FileTypeOK
<1>6. OpPlaced(op'[c], meta) /\ OpInStep(op'[c], meta, files) /\ ~Writing(op'[c]) /\ op'[c].pc # "fsync"
  BY <1>4 DEF OpPlaced, OpInStep, Stored, IdleOp, Writing
<1>7. Stored(op[c])
  BY <1>1 DEF Stored
<1>8. SameFrames(files', files) /\ SameTails(meta', meta) /\ \A q \in Path : SameStream(disk'[q], meta[q])
  BY <1>1 DEF SameFrames, SameTails, SameStream, FileInv, Placed
<1> QED
  BY <1>1, <1>4, <1>5, <1>6, <1>7, <1>8, OpMoves

\* Polls come and go.
LEMMA PollStepKeeps ==
  ASSUME FileInv, NEW w \in Waiter,
         Timeout(w) \/ \E p \in Path : WaitForMessages(w, p)
  PROVE  /\ FileInv' /\ UNCHANGED <<meta, disk, files, op, births, writes, crashes, acked, shut>>
<1>1. UNCHANGED <<meta, disk, files, op, births, writes, crashes, acked, shut>>
  BY DEF Timeout, WaitForMessages
<1>2. PollTypeOK'
  <2>1. poll \in [Waiter -> PollRecord] /\ FileTypeOK
    BY DEF FileInv, FileTypeOK, PollTypeOK
  <2>2. CASE Timeout(w)
    <3>1. poll' = [poll EXCEPT ![w] = Resolved(w, 0, meta[poll[w].path].closed)] /\ poll[w].state = "waiting"
      BY <2>2 DEF Timeout
    <3>2. poll[w].path \in Path
      BY <2>1, <3>1 DEF FileTypeOK, PollTypeOK
    <3>3. meta[poll[w].path].closed \in BOOLEAN
      BY <2>1, <3>2 DEF FileTypeOK, MetaRecord
    <3>4. /\ Resolved(w, 0, meta[poll[w].path].closed) \in PollRecord
          /\ Resolved(w, 0, meta[poll[w].path].closed).state = "done"
      BY <2>1, <3>3, ResolvedTyped
    <3> QED
      BY <2>1, <3>1, <3>4 DEF FileTypeOK, PollTypeOK
  <2>3. ASSUME NEW p \in Path, WaitForMessages(w, p) PROVE PollTypeOK'
    <3> DEFINE n == [IdlePoll EXCEPT !.state = "waiting", !.path = p, !.dir = meta[p].dir, !.offset = meta[p].tail]
    <3>1. meta[p].dir \in 0 .. MaxBirths /\ meta[p].tail \in Nat
      BY <2>1 DEF FileTypeOK, MetaRecord
    <3>2. n \in PollRecord /\ n.path = p
      BY <3>1, NamesTyped DEF PollRecord
    <3>3. poll' = [poll EXCEPT ![w] = n]
      BY <2>3 DEF WaitForMessages
    <3> HIDE DEF n
    <3> QED
      BY <2>1, <3>2, <3>3 DEF FileTypeOK, PollTypeOK
  <2> QED
    BY <2>2, <2>3
<1>3. FileTypeOK'
  BY <1>1, <1>2 DEF FileInv, FileTypeOK
<1>4. FinitelyMany' /\ Placed' /\ OneWriter' /\ InStep' /\ AckedHeld'
  BY <1>1 DEF FileInv, FinitelyMany, Placed, OneWriter, InStep, Unmoved, AckedHeld
<1> QED
  BY <1>1, <1>3, <1>4 DEF FileInv

LEMMA SameTailsRefl ==
  ASSUME FileInv
  PROVE  /\ SameTails(meta, meta) /\ SameFrames(files, files)
         /\ \A q \in Path : SameStream(disk[q], meta[q])
         /\ \A x \in Client : /\ OpPlaced(op[x], meta) /\ OpInStep(op[x], meta, files)
                              /\ OpPlaced(Flushed(op[x]), meta) /\ OpInStep(Flushed(op[x]), meta, files)
<1>1. /\ SameTails(meta, meta) /\ SameFrames(files, files)
      /\ \A q \in Path : SameStream(disk[q], meta[q])
  BY DEF SameTails, SameFrames, SameStream, FileInv, Placed
<1>2. /\ meta \in [Path -> MetaRecord] /\ \A q \in Path : meta[q].exists => meta[q].dir \in Dir
  BY FileBounds DEF FileInv, FileTypeOK, Placed, Dir
<1>3. \A x \in Client : op[x] \in OpRecord /\ OpPlaced(op[x], meta) /\ OpInStep(op[x], meta, files)
  BY DEF FileInv, FileTypeOK
<1> QED
  BY <1>1, <1>2, <1>3, OpKept

\* The record of a stream with another closed flag.
LEMMA ClosedRecord ==
  ASSUME FileTypeOK, NEW p \in Path, NEW M, M = [meta EXCEPT ![p].closed = TRUE]
  PROVE  /\ M \in [Path -> MetaRecord] /\ SameTails(M, meta)
         /\ \A q \in Path : M[q].producers = meta[q].producers
         /\ \A q \in Path : q # p => M[q] = meta[q]
         /\ M[p].closed = TRUE
<1>1. meta[p] \in MetaRecord /\ meta \in [Path -> MetaRecord]
  BY DEF FileTypeOK
<1> DEFINE r == [meta[p] EXCEPT !.closed = TRUE]
<1>2. /\ r \in MetaRecord /\ SameStream(r, meta[p]) /\ r.tail = meta[p].tail
      /\ r.producers = meta[p].producers /\ r.closed = TRUE
  BY <1>1 DEF MetaRecord, SameStream
<1>3. M = [meta EXCEPT ![p] = r]
  BY <1>1
<1> HIDE DEF r
<1>4. /\ M \in [Path -> MetaRecord] /\ M[p] = r
      /\ \A q \in Path : q # p => M[q] = meta[q]
  BY <1>1, <1>2, <1>3
<1>5. SameTails(M, meta)
  BY <1>2, <1>4 DEF SameTails, SameStream
<1> QED
  BY <1>2, <1>4, <1>5

LEMMA CommitKeeps ==
  ASSUME FileInv, Commit
  PROVE  FileInv'
<1>1. PICK c \in Client : op[c].pc = "put"
  BY DEF Commit
<1>2. /\ meta' = meta /\ disk' = meta /\ op' = [x \in Client |-> Flushed(op[x])]
      /\ UNCHANGED <<files, poll, births, writes, crashes, acked, shut>>
  BY DEF Commit, PutSync
<1>3. \A x \in Client : Flushed(op[x]) \in OpRecord
  BY FlushedTyped DEF FileInv, FileTypeOK
<1>4. FileTypeOK'
  BY <1>2, <1>3 DEF FileInv, FileTypeOK, PollTypeOK
<1>5. /\ SameTails(meta', meta) /\ SameFrames(files', files)
      /\ OpPlaced(op'[c], meta) /\ OpInStep(op'[c], meta, files)
      /\ \A q \in Path : SameStream(disk'[q], meta[q])
  BY <1>2, SameTailsRefl DEF SameStream
<1>6. op[c] \in OpRecord /\ op'[c] = Flushed(op[c])
  BY <1>2 DEF FileInv, FileTypeOK
<1>7. op'[c].pc = "committed" /\ (Writing(op'[c]) => Writing(op[c])) /\ op'[c].path = op[c].path
  BY <1>1, <1>6, FlushedTyped DEF Writing
<1> QED
  BY <1>1, <1>2, <1>4, <1>5, <1>7, OpMoves

LEMMA CloseStreamKeeps ==
  ASSUME FileInv, NEW c \in Client, NEW p \in Path, CloseStream(c, p)
  PROVE  FileInv'
<1> DEFINE M == [meta EXCEPT ![p].closed = TRUE]
<1>1. FileTypeOK
  BY DEF FileInv
<1>2. Reaped(meta, p) = meta /\ Found(meta, p) = meta[p].exists
  BY <1>1, LookupPlain
<1>3. /\ op[c].pc = "idle" /\ meta[p].exists /\ meta' = M /\ disk' = M
      /\ op' = [x \in Client |-> Flushed(op[x])] /\ NotifyClosed(p, TRUE)
      /\ UNCHANGED <<files, births, writes, crashes, acked>>
  BY <1>2 DEF CloseStream, PutSync, Idle
<1>4. M \in [Path -> MetaRecord] /\ SameTails(M, meta)
  BY <1>1, ClosedRecord
<1> HIDE DEF M
<1>5. \A x \in Client : Flushed(op[x]) \in OpRecord
  BY <1>1, FlushedTyped DEF FileTypeOK
<1>6. PollTypeOK'
  BY <1>3, PollsTyped
<1>7. FileTypeOK'
  BY <1>1, <1>3, <1>4, <1>5, <1>6 DEF FileTypeOK
<1>8. op'[c] = op[c]
  BY <1>1, <1>3, FlushedTyped DEF FileTypeOK
<1>9. OpPlaced(op'[c], meta) /\ OpInStep(op'[c], meta, files) /\ SameFrames(files', files)
  BY <1>3, <1>8, SameTailsRefl
<1>10. \A q \in Path : SameStream(disk'[q], meta[q])
  BY <1>3, <1>4 DEF SameTails
<1>11. \A x \in Client : op'[x] = Flushed(op[x])
  BY <1>3
<1>12. SameTails(meta', meta)
  BY <1>3, <1>4
<1> QED
  BY <1>3, <1>7, <1>8, <1>9, <1>10, <1>11, <1>12, OpMoves

LEMMA CloseWithProducerEffect ==
  ASSUME FileTypeOK, NEW c \in Client, NEW p \in Path, NEW h \in Headers,
         CloseStreamWithProducer(c, p, h)
  PROVE  /\ op' \in [Client -> OpRecord] /\ OthersStay(c)
         /\ op[c].pc = "idle" /\ meta[p].exists /\ Accepted(meta[p], h)
         /\ op'[c].kind = "close" /\ op'[c].pc = "put" /\ op'[c].path = p
         /\ op'[c].streamMeta = meta[p] /\ op'[c].data = 0
         /\ meta' \in [Path -> MetaRecord] /\ SameTails(meta', meta)
         /\ meta'[p].producers = Committed(meta[p], h).producers
         /\ \A q \in Path : q # p => meta'[q] = meta[q]
         /\ UNCHANGED <<disk, files, poll, births, writes, crashes, acked, shut>>
<1> DEFINE n == [IdleOp EXCEPT !.kind = "close", !.pc = "put", !.path = p,
                               !.streamMeta = meta[p], !.headers = h]
           r == [Committed(meta[p], h) EXCEPT !.closed = TRUE, !.closedBy = h]
<1>1. Reaped(meta, p) = meta /\ Found(meta, p) = meta[p].exists /\ meta[p] \in MetaRecord
  BY LookupPlain
<1>2. /\ op[c].pc = "idle" /\ meta[p].exists /\ Accepted(meta[p], h)
      /\ disk' = disk /\ meta' = [meta EXCEPT ![p] = r] /\ op' = [op EXCEPT ![c] = n]
      /\ UNCHANGED <<files, poll, births, writes, crashes, acked, shut>>
  BY <1>1 DEF CloseStreamWithProducer, Idle
<1>3. h \in Headers \cup {NoHeaders}
  OBVIOUS
<1>4. PICK s : s = Committed(meta[p], h)
  OBVIOUS
<1>5. s \in MetaRecord /\ SameStream(s, meta[p]) /\ s.tail = meta[p].tail
  BY <1>1, <1>3, <1>4, CommittedTyped
<1>6. r \in MetaRecord /\ SameStream(r, meta[p]) /\ r.tail = meta[p].tail /\ r.producers = s.producers
  BY <1>3, <1>4, <1>5 DEF MetaRecord, SameStream
<1>7. /\ n \in OpRecord /\ n.kind = "close" /\ n.pc = "put" /\ n.path = p
      /\ n.streamMeta = meta[p] /\ n.data = 0
  BY <1>1, NamesTyped DEF OpRecord, IdleOp
<1> HIDE DEF n, r
<1>8. op' \in [Client -> OpRecord] /\ op'[c] = n /\ \A x \in Client \ {c} : op'[x] = op[x]
  BY <1>2, <1>7 DEF FileTypeOK
<1>9. meta' \in [Path -> MetaRecord] /\ meta'[p] = r /\ \A q \in Path : q # p => meta'[q] = meta[q]
  BY <1>2, <1>6 DEF FileTypeOK
<1>10. SameTails(meta', meta)
  BY <1>6, <1>9 DEF SameTails, SameStream
<1> QED
  BY <1>2, <1>4, <1>6, <1>7, <1>8, <1>9, <1>10 DEF OthersStay

LEMMA CloseWithProducerKeeps ==
  ASSUME FileInv, NEW c \in Client, NEW p \in Path, NEW h \in Headers,
         CloseStreamWithProducer(c, p, h)
  PROVE  FileInv'
<1>1. FileTypeOK
  BY DEF FileInv
<1>2. /\ op' \in [Client -> OpRecord] /\ OthersStay(c)
      /\ op[c].pc = "idle" /\ meta[p].exists
      /\ op'[c].kind = "close" /\ op'[c].pc = "put" /\ op'[c].path = p
      /\ op'[c].streamMeta = meta[p] /\ op'[c].data = 0
      /\ meta' \in [Path -> MetaRecord] /\ SameTails(meta', meta)
      /\ UNCHANGED <<disk, files, poll, births, writes, crashes, acked, shut>>
  BY <1>1, CloseWithProducerEffect
<1>3. FileTypeOK'
  BY <1>1, <1>2 DEF FileTypeOK, PollTypeOK
<1>4. OpPlaced(op'[c], meta) /\ OpInStep(op'[c], meta, files) /\ ~Writing(op'[c])
  BY <1>2 DEF OpPlaced, OpInStep, SameStream, Stored, Writing
<1>5. SameFrames(files', files) /\ \A q \in Path : SameStream(disk'[q], meta[q])
  BY <1>2, SameTailsRefl
<1> QED
  BY <1>2, <1>3, <1>4, <1>5, OpMoves DEF OthersStay

LEMMA CloseDoneKeeps ==
  ASSUME FileInv, NEW c \in Client, CloseDone(c)
  PROVE  FileInv'
<1>1. /\ op[c].kind \in {"close", "seal"} /\ op[c].pc = "committed" /\ op' = [op EXCEPT ![c] = IdleOp]
      /\ acked' = IF op[c].data # 0 THEN acked \cup {Ack(op[c])} ELSE acked
      /\ NotifyClosed(op[c].path, meta[op[c].path].closed) \/ UNCHANGED poll
      /\ UNCHANGED <<meta, disk, files, births, writes, crashes>>
  BY DEF CloseDone
<1>2. op[c] \in OpRecord /\ op[c].path \in Path /\ meta[op[c].path].exists /\ meta[op[c].path].closed \in BOOLEAN
  BY <1>1, OpFacts, RecordFacts
<1>3. PollTypeOK'
  BY <1>1, <1>2, PollsTyped
<1>4. op' \in [Client -> OpRecord] /\ op'[c] = IdleOp /\ \A x \in Client \ {c} : op'[x] = op[x]
  BY <1>1, NamesTyped DEF FileInv, FileTypeOK
<1>5. FileTypeOK'
  BY <1>1, <1>3, <1>4 DEF FileInv, FileTypeOK
<1>6. OpPlaced(op'[c], meta) /\ OpInStep(op'[c], meta, files) /\ ~Writing(op'[c]) /\ op'[c].pc # "fsync"
  BY <1>4 DEF OpPlaced, OpInStep, Stored, IdleOp, Writing
<1>7. op[c].kind = "close" => op[c].data = 0
  BY DEF FileInv, OpPlaced
<1>8. op[c].data # 0 => Stored(op[c])
  BY <1>1, <1>7 DEF Stored
<1>9. SameFrames(files', files) /\ SameTails(meta', meta) /\ \A q \in Path : SameStream(disk'[q], meta[q])
  BY <1>1, SameTailsRefl
<1> QED
  BY <1>1, <1>4, <1>5, <1>6, <1>8, <1>9, OpMoves

----------------------------------------------------------------------------
(* create() after its transaction *)

LEMMA CreateTailEffect ==
  ASSUME FileInv, NEW c \in Client, NEW answered, CreateTail(c, answered),
         op[c].kind = "create", op[c].pc \in {"open", "lock", "committed"}
  PROVE  /\ op' \in [Client -> OpRecord] /\ OthersStay(c)
         /\ meta' \in [Path -> MetaRecord] /\ SameTails(meta', meta) /\ UNCHANGED <<disk, shut>>
         /\ \A q \in Path : meta'[q].producers = meta[q].producers
         /\ op[c].close =>
              /\ op'[c].kind = "seal" /\ op'[c].pc = "put" /\ op'[c].path = op[c].path
              /\ op'[c].streamMeta = op[c].streamMeta /\ op'[c].headers = op[c].headers
              /\ op'[c].data = op[c].data /\ acked' = acked
         /\ ~op[c].close => op'[c] = IdleOp /\ meta' = meta /\ acked' = acked \cup answered
<1> DEFINE p == op[c].path
<1>1. /\ op[c] \in OpRecord /\ p \in Path /\ meta[p].exists /\ FileTypeOK
      /\ op \in [Client -> OpRecord] /\ meta \in [Path -> MetaRecord]
  BY OpFacts DEF FileInv, FileTypeOK
<1>2. CASE op[c].close
  <2> DEFINE M == [meta EXCEPT ![p].closed = TRUE]
             n == [op[c] EXCEPT !.kind = "seal", !.pc = "put"]
  <2>1. meta' = M /\ UNCHANGED <<disk, acked, shut>>
    BY <1>1, <1>2 DEF CreateTail
  <2>2. op' = [op EXCEPT ![c] = n]
    BY <1>1, <1>2 DEF CreateTail
  <2>3. /\ n \in OpRecord /\ n.kind = "seal" /\ n.pc = "put" /\ n.path = p
        /\ n.streamMeta = op[c].streamMeta /\ n.headers = op[c].headers /\ n.data = op[c].data
    BY <1>1 DEF OpRecord
  <2> HIDE DEF p
  <2>4. M \in [Path -> MetaRecord] /\ SameTails(M, meta) /\ \A q \in Path : M[q].producers = meta[q].producers
    <3>1. PICK N : N = M
      OBVIOUS
    <3>2. N = [meta EXCEPT ![p].closed = TRUE] /\ p \in Path /\ FileTypeOK
      BY <1>1, <3>1
    <3>3. N \in [Path -> MetaRecord] /\ SameTails(N, meta) /\ \A q \in Path : N[q].producers = meta[q].producers
      <4>1. PICK y \in Path : y = p
        BY <1>1
      <4>2. N = [meta EXCEPT ![y].closed = TRUE]
        BY ONLY <3>2, <4>1
      <4>3. FileTypeOK
        BY <1>1
      <4>4. meta[y] \in MetaRecord /\ meta \in [Path -> MetaRecord]
        BY ONLY <4>3, y \in Path DEF FileTypeOK
      <4>5. PICK u \in MetaRecord : u = meta[y]
        BY ONLY <4>4
      <4>6. [u EXCEPT !.closed = TRUE] \in MetaRecord
        BY ONLY u \in MetaRecord DEF MetaRecord
      <4>7. PICK v \in MetaRecord : v = [meta[y] EXCEPT !.closed = TRUE]
        BY ONLY <4>5, <4>6
      <4>8. SameStream(v, meta[y]) /\ v.tail = meta[y].tail /\ v.producers = meta[y].producers
        BY ONLY <4>7, <4>4 DEF MetaRecord, SameStream
      <4>9. N = [meta EXCEPT ![y] = v]
        BY ONLY <4>2, <4>7, <4>4
      <4>10. N \in [Path -> MetaRecord] /\ N[y] = v /\ \A q \in Path : q # y => N[q] = meta[q]
        BY ONLY <4>4, <4>9, v \in MetaRecord, y \in Path
      <4> QED
        BY ONLY <4>8, <4>10 DEF SameTails, SameStream
    <3> QED
      BY <3>1, <3>3
  <2> HIDE DEF n, M
  <2>5. op' \in [Client -> OpRecord] /\ op'[c] = n /\ \A x \in Client \ {c} : op'[x] = op[x]
    BY <1>1, <2>2, <2>3
  <2> QED
    BY <1>2, <2>1, <2>3, <2>4, <2>5 DEF OthersStay, p
<1>3. CASE ~op[c].close
  <2>1. op' = [op EXCEPT ![c] = IdleOp] /\ acked' = acked \cup answered /\ UNCHANGED <<meta, disk, shut>>
    BY <1>1, <1>3 DEF CreateTail
  <2>2. op' \in [Client -> OpRecord] /\ op'[c] = IdleOp /\ \A x \in Client \ {c} : op'[x] = op[x]
    BY <1>1, <2>1, NamesTyped
  <2>3. SameTails(meta', meta)
    BY <2>1, SameTailsRefl
  <2> QED
    BY <1>1, <1>3, <2>1, <2>2, <2>3 DEF OthersStay
<1> QED
  BY <1>2, <1>3

LEMMA CreateTailKeeps ==
  ASSUME FileInv, NEW c \in Client, NEW answered, CreateTail(c, answered),
         op[c].kind = "create", op[c].pc \in {"open", "lock", "committed"},
         \A a \in answered : Stored(op[c]) /\ a = Ack(op[c]),
         files' = [d \in Dir |-> files'[d]], \A d \in Dir : IsFile(files'[d]),
         SameFrames(files', files),
         \A d \in Dir : files[d].state \in {"none", "present"} => files'[d].state \in {"none", "present"},
         PollTypeOK', UNCHANGED <<births, writes, crashes>>
  PROVE  FileInv'
<1>1. /\ op' \in [Client -> OpRecord] /\ OthersStay(c)
      /\ meta' \in [Path -> MetaRecord] /\ SameTails(meta', meta) /\ disk' = disk
      /\ op[c].close =>
           /\ op'[c].kind = "seal" /\ op'[c].pc = "put" /\ op'[c].path = op[c].path
           /\ op'[c].streamMeta = op[c].streamMeta /\ op'[c].headers = op[c].headers
           /\ op'[c].data = op[c].data /\ acked' = acked
      /\ ~op[c].close => op'[c] = IdleOp /\ meta' = meta /\ acked' = acked \cup answered
  BY CreateTailEffect
<1>2. FileTypeOK'
  BY <1>1 DEF FileInv, FileTypeOK
<1>3. \A q \in Path : SameStream(disk'[q], meta[q])
  BY <1>1, SameTailsRefl
<1>4. OpPlaced(op'[c], meta) /\ OpInStep(op'[c], meta, files) /\ ~Writing(op'[c]) /\ op'[c].pc # "fsync"
  <2>1. CASE ~op[c].close
    BY <1>1, <2>1 DEF OpPlaced, OpInStep, Stored, IdleOp, Writing
  <2>2. CASE op[c].close
    <3>1. OpPlaced(op[c], meta) /\ OpInStep(op[c], meta, files)
      BY DEF FileInv
    <3>2. OpPlaced(op'[c], meta) /\ ~Writing(op'[c])
      BY <1>1, <2>2, <3>1 DEF OpPlaced, Writing
    <3>3. op'[c].data # 0 => op[c].pc = "committed"
      BY <1>1, <2>2, <3>1 DEF OpPlaced
    <3>4. Stored(op'[c]) => Stored(op[c])
      BY <1>1, <2>2, <3>3 DEF Stored
    <3>5. PlaceOf(op'[c]) = PlaceOf(op[c]) /\ FrameOf(op'[c]) = FrameOf(op[c])
      BY <1>1, <2>2, Zenon DEF PlaceOf, FrameOf
    <3> QED
      BY <1>1, <2>2, <3>1, <3>2, <3>4, <3>5 DEF OpInStep
  <2> QED
    BY <2>1, <2>2
<1>5. \A a \in acked' : a \in acked \/ (Stored(op[c]) /\ a = Ack(op[c]))
  BY <1>1
<1> QED
  BY <1>1, <1>2, <1>3, <1>4, <1>5, OpMoves DEF OthersStay

LEMMA OpenEffect ==
  ASSUME FileInv, NEW c \in Client, OpenDone(c)
  PROVE  /\ files' = [d \in Dir |-> files'[d]] /\ \A d \in Dir : IsFile(files'[d])
         /\ SameFrames(files', files)
         /\ \A d \in Dir : files[d].state \in {"none", "present"} => files'[d].state \in {"none", "present"}
<1> DEFINE e == op[c].streamMeta.dir
           g == [files[e] EXCEPT !.state = IF files[e].state = "none" THEN "present" ELSE files[e].state]
<1>1. op[c].pc = "open" /\ files' = [files EXCEPT ![e] = g]
  BY DEF OpenDone
<1>2. e \in Dir /\ IsFile(files[e]) /\ files = [d \in Dir |-> files[d]]
  BY <1>1, OpFacts DEF FileInv, FileTypeOK
<1>3. PICK T : files[e] \in FileRecord(T)
  BY <1>2 DEF IsFile
<1>4. /\ g \in FileRecord(T) /\ g.frames = files[e].frames /\ g.synced = files[e].synced
      /\ files[e].state \in {"none", "present"} => g.state \in {"none", "present"}
  BY <1>3 DEF FileRecord
<1>5. IsFile(g)
  BY <1>4 DEF IsFile
<1> HIDE DEF g, e
<1>6. files' = [d \in Dir |-> files'[d]] /\ \A d \in Dir : files'[d] = IF d = e THEN g ELSE files[d]
  BY <1>1, <1>2
<1>7. \A d \in Dir : IsFile(files[d])
  BY DEF FileInv, FileTypeOK
<1> QED
  BY <1>4, <1>5, <1>6, <1>7 DEF SameFrames

LEMMA OpenDoneKeeps ==
  ASSUME FileInv, NEW c \in Client, OpenDone(c)
  PROVE  FileInv'
<1>1. /\ op[c].pc = "open" /\ UNCHANGED <<poll, births, writes, crashes>>
      /\ IF op[c].init = "none" THEN CreateTail(c, {})
         ELSE op' = [op EXCEPT ![c].pc = "lock"] /\ UNCHANGED <<meta, disk, acked, shut>>
  BY DEF OpenDone
<1>2. op[c].kind = "create" /\ op[c].data = 0 /\ op[c] \in OpRecord
  BY <1>1, OpFacts DEF OpPlaced
<1>3. PollTypeOK'
  BY <1>1 DEF FileInv, FileTypeOK, PollTypeOK
<1>4. CASE op[c].init = "none"
  BY <1>1, <1>2, <1>3, <1>4, OpenEffect, CreateTailKeeps
<1>5. CASE op[c].init # "none"
  <2> DEFINE n == [op[c] EXCEPT !.pc = "lock"]
  <2>1. op' = [op EXCEPT ![c] = n] /\ UNCHANGED <<meta, disk, acked, shut>>
    BY <1>1, <1>5
  <2>2. /\ n \in OpRecord /\ n.pc = "lock" /\ n.kind = "create" /\ n.data = 0 /\ n.path = op[c].path
        /\ n.streamMeta = op[c].streamMeta
    BY <1>2 DEF OpRecord
  <2> HIDE DEF n
  <2>3. op' \in [Client -> OpRecord] /\ op'[c] = n /\ \A x \in Client \ {c} : op'[x] = op[x]
    BY <2>1, <2>2 DEF FileInv, FileTypeOK
  <2>4. FileTypeOK'
    BY <1>1, <1>3, <2>1, <2>3, OpenEffect DEF FileInv, FileTypeOK
  <2>5. OpPlaced(op[c], meta)
    BY DEF FileInv
  <2>6. OpPlaced(n, meta) /\ OpInStep(n, meta, files) /\ ~Writing(n)
    BY <1>1, <2>2, <2>5 DEF OpPlaced, OpInStep, Stored, Writing
  <2>7. SameTails(meta', meta) /\ \A q \in Path : SameStream(disk'[q], meta[q])
    BY <2>1, SameTailsRefl
  <2> QED
    BY <1>1, <2>1, <2>2, <2>3, <2>4, <2>6, <2>7, OpenEffect, OpMoves
<1> QED
  BY <1>4, <1>5

LEMMA InitialDoneKeeps ==
  ASSUME FileInv, NEW c \in Client, InitialDone(c)
  PROVE  FileInv'
<1>1. /\ op[c].kind = "create" /\ op[c].pc = "committed" /\ Notify(op[c].path, FALSE)
      /\ CreateTail(c, {Ack(op[c])}) /\ UNCHANGED <<files, births, writes, crashes>>
  BY DEF InitialDone
<1>2. op[c].path \in Path /\ meta[op[c].path].exists
  BY <1>1, OpFacts
<1>3. PollTypeOK'
  BY <1>1, <1>2, PollsTyped
<1>4. Stored(op[c])
  BY <1>1 DEF Stored
<1>5. files' = [d \in Dir |-> files'[d]] /\ (\A d \in Dir : IsFile(files'[d])) /\ SameFrames(files', files)
  BY <1>1 DEF FileInv, FileTypeOK, SameFrames
<1> QED
  BY <1>1, <1>3, <1>4, <1>5, CreateTailKeeps

\* The stream is there and the body is good: either somebody has closed it
\* meanwhile, or the append starts.
LEMMA InitialAppendEffect ==
  ASSUME FileInv, NEW c \in Client, InitialAppend(c)
  PROVE  /\ op[c].pc = "lock" /\ AppendLockFree(op[c].path)
         /\ \/ /\ CreateTail(c, {}) /\ UNCHANGED <<files, poll, births, writes, crashes>>
            \/ /\ ~meta[op[c].path].closed /\ writes' = writes + 1
               /\ op' \in [Client -> OpRecord] /\ OthersStay(c)
               /\ op'[c].kind = op[c].kind /\ op'[c].pc = "write" /\ op'[c].path = op[c].path
               /\ op'[c].streamMeta = meta[op[c].path] /\ op'[c].headers = op[c].headers
               /\ op'[c].data = writes + 1 /\ op'[c].close = op[c].close
               /\ UNCHANGED <<meta, disk, files, poll, births, crashes, acked, shut>>
<1> DEFINE p == op[c].path
<1>1. op[c].pc = "lock" /\ AppendLockFree(p)
  BY DEF InitialAppend
<1>2. /\ op[c] \in OpRecord /\ p \in Path /\ meta[p].exists /\ FileTypeOK /\ meta[p] \in MetaRecord
      /\ writes + 1 \in Nat
  BY <1>1, OpFacts DEF FileInv, FileTypeOK
<1>3. Reaped(meta, p) = meta /\ Found(meta, p) /\ ~meta[p].softDeleted /\ op[c].init # "bad"
  BY <1>2, LookupPlain DEF MetaRecord, OpRecord
<1> DEFINE n == [op[c] EXCEPT !.pc = "write", !.streamMeta = meta[p], !.data = writes + 1]
<1>4. \/ CreateTail(c, {}) /\ UNCHANGED <<files, poll, births, writes, crashes>>
      \/ /\ ~meta[p].closed /\ writes' = writes + 1 
         /\ op' = [op EXCEPT ![c].pc = "write", ![c].streamMeta = meta[p], ![c].data = writes + 1]
         /\ UNCHANGED <<meta, disk, files, poll, births, crashes, acked, shut>>
  BY <1>3 DEF InitialAppend
<1>5. CASE CreateTail(c, {}) /\ UNCHANGED <<files, poll, births, writes, crashes>>
  BY <1>1, <1>5
<1>6. CASE /\ ~meta[p].closed /\ writes' = writes + 1 
           /\ op' = [op EXCEPT ![c].pc = "write", ![c].streamMeta = meta[p], ![c].data = writes + 1]
           /\ UNCHANGED <<meta, disk, files, poll, births, crashes, acked, shut>>
  <2>1. op' = [op EXCEPT ![c] = n]
    BY <1>2, <1>6 DEF FileTypeOK
  <2>2. /\ n \in OpRecord /\ n.kind = op[c].kind /\ n.pc = "write" /\ n.path = p
        /\ n.streamMeta = meta[p] /\ n.headers = op[c].headers /\ n.data = writes + 1
        /\ n.close = op[c].close
    BY <1>2 DEF OpRecord
  <2> HIDE DEF n
  <2>3. op' \in [Client -> OpRecord] /\ op'[c] = n /\ \A x \in Client \ {c} : op'[x] = op[x]
    BY <1>2, <2>1, <2>2 DEF FileTypeOK
  <2> QED
    BY <1>1, <1>6, <2>2, <2>3 DEF OthersStay
<1> QED
  BY <1>4, <1>5, <1>6

LEMMA InitialAppendKeeps ==
  ASSUME FileInv, NEW c \in Client, InitialAppend(c)
  PROVE  FileInv'
<1>1. op[c].pc = "lock" /\ AppendLockFree(op[c].path)
  BY InitialAppendEffect
<1>2. /\ op[c].kind = "create" /\ op[c].path \in Path /\ meta[op[c].path].exists
  BY <1>1, OpFacts DEF OpPlaced
<1>3. CASE CreateTail(c, {}) /\ UNCHANGED <<files, poll, births, writes, crashes>>
  <2>1. /\ files' = [d \in Dir |-> files'[d]] /\ (\A d \in Dir : IsFile(files'[d])) /\ SameFrames(files', files)
        /\ PollTypeOK'
    BY <1>3 DEF FileInv, FileTypeOK, PollTypeOK, SameFrames
  <2> QED
    BY <1>1, <1>2, <1>3, <2>1, CreateTailKeeps
<1>4. CASE /\ writes' = writes + 1
           /\ op' \in [Client -> OpRecord] /\ OthersStay(c)
           /\ op'[c].kind = op[c].kind /\ op'[c].pc = "write" /\ op'[c].path = op[c].path
           /\ op'[c].streamMeta = meta[op[c].path]
           /\ UNCHANGED <<meta, disk, files, poll, births, crashes, acked, shut>>
  <2>1. FileTypeOK'
    BY <1>4 DEF FileInv, FileTypeOK, PollTypeOK
  <2>2. OpPlaced(op'[c], meta) /\ OpInStep(op'[c], meta, files)
    BY <1>2, <1>4 DEF OpPlaced, OpInStep, SameStream, Stored
  <2>3. SameFrames(files', files) /\ SameTails(meta', meta) /\ \A q \in Path : SameStream(disk'[q], meta[q])
    BY <1>4, SameTailsRefl
  <2> QED
    BY <1>1, <1>4, <2>1, <2>2, <2>3, OpMoves DEF OthersStay
<1> QED
  BY <1>3, <1>4, InitialAppendEffect

----------------------------------------------------------------------------
(* The write and the sync *)

\* What is on disk in F is on disk in F2.
Durable(F2, F) ==
    \A d \in Dir : /\ F[d].synced <= F2[d].synced
                   /\ \A k \in 1 .. F[d].synced : F2[d].frames[k] = F[d].frames[k]

LEMMA HeldOn ==
  ASSUME NEW F, NEW F2, Durable(F2, F), NEW d \in Dir, NEW k, NEW x, Held(F, d, k, x),
         F[d].synced \in Nat, F2[d].synced \in Nat
  PROVE  Held(F2, d, k, x)
  BY DEF Durable, Held

\* Only the stream at path p is touched.
LEMMA ElsewhereKept ==
  ASSUME FileInv, NEW p \in Path, meta[p].exists, NEW x \in Client, op[x].path # p,
         NEW F2, \A d \in Dir : d # meta[p].dir => F2[d] = files[d],
         NEW M2, \A q \in Path : q # p => M2[q] = meta[q]
  PROVE  OpPlaced(op[x], M2) /\ OpInStep(op[x], M2, F2)
<1>1. OpPlaced(op[x], meta) /\ OpInStep(op[x], meta, files)
  BY DEF FileInv
<1>2. CASE op[x].pc = "idle"
  BY <1>1, <1>2 DEF OpPlaced, OpInStep, IdleOp, Stored
<1>3. CASE op[x].pc # "idle"
  <2>1. /\ op[x].path \in Path /\ meta[op[x].path].exists /\ op[x].streamMeta.dir \in Dir
        /\ SameStream(op[x].streamMeta, meta[op[x].path])
    BY <1>3, OpFacts
  <2>2. op[x].streamMeta.dir # meta[p].dir /\ M2[op[x].path] = meta[op[x].path]
    BY <2>1 DEF FileInv, Placed, SameStream
  <2>3. F2[op[x].streamMeta.dir] = files[op[x].streamMeta.dir]
    BY <2>1, <2>2
  <2> QED
    BY <1>1, <2>2, <2>3 DEF OpPlaced, OpInStep, Held
<1> QED
  BY <1>2, <1>3

\* While one append writes, another operation on the stream is past its own.
LEMMA OthersWait ==
  ASSUME FileInv, NEW c \in Client, Writing(op[c]), op[c].pc # "idle",
         NEW x \in Client, x # c, op[x].path = op[c].path
  PROVE  /\ ~Writing(op[x]) /\ op[x].pc \notin {"write", "fsync"}
         /\ op[x].pc # "idle" /\ op[x].streamMeta.dir = op[c].streamMeta.dir
         /\ Stored(op[x]) => op[x].kind = "seal" /\ op[x].data # 0
<1>1. ~Writing(op[x])
  BY DEF FileInv, OneWriter
<1>2. OpPlaced(op[x], meta) /\ OpInStep(op[x], meta, files)
  BY DEF FileInv
<1>3. op[x].pc \notin {"write", "fsync"}
  BY <1>1, <1>2 DEF OpInStep, Writing
<1>4. op[c].path \in Path
  BY OpFacts
<1>5. op[x].pc # "idle"
  BY <1>2, <1>4, FileNames DEF OpPlaced, IdleOp
<1>6. op[x].streamMeta.dir = op[c].streamMeta.dir
  BY <1>5, OpFacts DEF SameStream
<1> QED
  BY <1>1, <1>3, <1>5, <1>6 DEF Stored, Writing

LEMMA WriteDoneEffect ==
  ASSUME FileInv, NEW c \in Client, WriteDone(c), NEW d, d = op[c].streamMeta.dir
  PROVE     /\ op[c].pc = "write" /\ Writing(op[c])
            /\ op' \in [Client -> OpRecord] /\ OthersStay(c)
            /\ op'[c].pc = "fsync" /\ op'[c].kind = op[c].kind /\ op'[c].path = op[c].path
            /\ op'[c].streamMeta = op[c].streamMeta /\ op'[c].headers = op[c].headers
            /\ op'[c].data = op[c].data
            /\ d \in Dir /\ files' = [e \in Dir |-> files'[e]]
            /\ \A e \in Dir : e # d => files'[e] = files[e]
            /\ IsFile(files'[d]) /\ files'[d].state = "present"
            /\ files'[d].synced = files[d].synced /\ files[d].synced = Len(files[d].frames)
            /\ Len(files[d].frames) \in Nat /\ Len(files[d].frames) = PlaceOf(op[c]) - 1
            /\ Len(files'[d].frames) = Len(files[d].frames) + 1
            /\ files'[d].frames[Len(files[d].frames) + 1] = FrameOf(op[c])
            /\ \A k \in 1 .. Len(files[d].frames) : files'[d].frames[k] = files[d].frames[k]
            /\ Durable(files', files)
            /\ UNCHANGED <<meta, disk, poll, births, writes, crashes, acked, shut>>
<1> DEFINE p == op[c].path
           x == FrameOf(op[c])
           g == Extended(files[d], x)
<1>1. /\ op[c] \in OpRecord /\ p \in Path /\ meta[p].exists /\ d \in Dir /\ IsFile(files[d])
      /\ files[d].state \in {"none", "present"} /\ SameStream(op[c].streamMeta, meta[p])
      /\ OpInStep(op[c], meta, files) /\ op[c].pc = "write" /\ op[c].streamMeta \in MetaRecord
      /\ Base(op[c].streamMeta) = Base(meta[p]) /\ files = [e \in Dir |-> files[e]]
  BY OpFacts DEF WriteDone, FileInv, FileTypeOK
<1>2. /\ files' = [files EXCEPT ![d].frames = Append(@, x), ![d].state = "present"]
      /\ op' = [op EXCEPT ![c].pc = "fsync"]
      /\ UNCHANGED <<meta, disk, poll, births, writes, crashes, acked, shut>>
  BY <1>1 DEF WriteDone, FrameOf
<1>3. files' = [files EXCEPT ![d] = g]
  BY <1>1, <1>2 DEF Extended
<1>4. Writing(op[c])
  BY <1>1 DEF Writing, OpInStep
<1>5. Unmoved(p)
  BY <1>1, <1>4, OthersWait DEF Unmoved
<1>6. meta[p].dir = d /\ op[c].streamMeta.tail = meta[p].tail
  BY <1>1 DEF SameStream, OpInStep
<1>7. Len(files[d].frames) = meta[p].tail - Base(meta[p]) /\ files[d].synced = Len(files[d].frames)
  BY <1>1, <1>5, <1>6 DEF FileInv, InStep
<1>8. meta[p].tail \in Nat /\ Base(meta[p]) \in Nat
  BY <1>1, RecordFacts DEF FileInv, FileTypeOK
<1>9. Len(files[d].frames) = PlaceOf(op[c]) - 1
  BY <1>1, <1>6, <1>7, <1>8 DEF PlaceOf
<1>10. /\ IsFile(g) /\ g.state = "present" /\ g.synced = files[d].synced
       /\ Len(g.frames) = Len(files[d].frames) + 1 /\ Len(files[d].frames) \in Nat
       /\ g.frames[Len(files[d].frames) + 1] = x
       /\ \A k \in 1 .. Len(files[d].frames) : g.frames[k] = files[d].frames[k]
  <2>1. IsFile(files[d]) /\ g = Extended(files[d], x)
    BY <1>1
  <2> HIDE DEF g, x
  <2>2. IsFile(g) /\ g.state = "present" /\ g.synced = files[d].synced
    BY <2>1, FrameAppended
  <2>3. Len(g.frames) = Len(files[d].frames) + 1 /\ Len(files[d].frames) \in Nat
    BY <2>1, FrameAppended
  <2>4. g.frames[Len(files[d].frames) + 1] = x
    BY <2>1, FrameAppended
  <2>5. \A k \in 1 .. Len(files[d].frames) : g.frames[k] = files[d].frames[k]
    BY <2>1, FrameAppended
  <2> QED
    BY <2>2, <2>3, <2>4, <2>5
<1> DEFINE n == [op[c] EXCEPT !.pc = "fsync"]
<1>11. op' = [op EXCEPT ![c] = n]
  BY <1>2
<1>12. /\ n \in OpRecord /\ n.pc = "fsync" /\ n.kind = op[c].kind /\ n.path = op[c].path
       /\ n.streamMeta = op[c].streamMeta /\ n.headers = op[c].headers /\ n.data = op[c].data
  BY <1>1 DEF OpRecord
<1> HIDE DEF n
<1>13. op' \in [Client -> OpRecord] /\ op'[c] = n /\ \A y \in Client \ {c} : op'[y] = op[y]
  BY <1>11, <1>12 DEF FileInv, FileTypeOK
<1> HIDE DEF g
<1>14. files' = [e \in Dir |-> files'[e]] /\ files'[d] = g /\ \A e \in Dir : e # d => files'[e] = files[e]
  BY <1>1, <1>3
<1>15. Durable(files', files)
  <2>1. \A e \in Dir : files[e].synced \in Nat
    BY FileFacts DEF FileInv, FileTypeOK
  <2> QED
    BY <1>7, <1>10, <1>14, <2>1 DEF Durable
<1>16. files'[d].frames = g.frames /\ files'[d].synced = g.synced /\ files'[d].state = g.state
  BY <1>14
<1>17. IsFile(files'[d])
  BY <1>10, <1>14
<1>18. /\ Len(files'[d].frames) = Len(files[d].frames) + 1
       /\ files'[d].frames[Len(files[d].frames) + 1] = FrameOf(op[c])
       /\ \A k \in 1 .. Len(files[d].frames) : files'[d].frames[k] = files[d].frames[k]
  BY <1>10, <1>14
<1> QED
  BY <1>1, <1>2, <1>4, <1>7, <1>9, <1>10, <1>12, <1>13, <1>14, <1>15, <1>16, <1>17, <1>18 DEF OthersStay

\* What was answered for stays on disk when segments only grow and no stream
\* changes its own.
LEMMA AckedStays ==
  ASSUME FileInv, acked' = acked, births' = births, Durable(files', files),
         \A p \in Path : SameStream(meta'[p], meta[p]),
         \A e \in Dir : IsFile(files'[e])
  PROVE  AckedHeld'
<1> SUFFICES ASSUME NEW a \in acked
             PROVE  /\ a \in AckRecord /\ a.dir <= births
                    /\ \A p \in Path : meta'[p].exists /\ meta'[p].dir = a.dir =>
                         Held(files', a.dir, a.offset - Base(meta'[p]), [data |-> a.data, by |-> a.by])
  BY DEF AckedHeld
<1>1. /\ a \in AckRecord /\ a.dir <= births
      /\ \A p \in Path : meta[p].exists /\ meta[p].dir = a.dir =>
           Held(files, a.dir, a.offset - Base(meta[p]), [data |-> a.data, by |-> a.by])
  BY DEF FileInv, AckedHeld
<1>2. \A e \in Dir : files[e].synced \in Nat /\ files'[e].synced \in Nat
  BY FileFacts DEF FileInv, FileTypeOK
<1>3. \A p \in Path : meta[p].exists => meta[p].dir \in Dir
  BY FileBounds DEF FileInv, FileTypeOK, Placed, Dir
<1>4. ASSUME NEW p \in Path, meta'[p].exists, meta'[p].dir = a.dir
      PROVE  Held(files', a.dir, a.offset - Base(meta'[p]), [data |-> a.data, by |-> a.by])
  <2>1. meta[p].exists /\ meta[p].dir = a.dir /\ a.dir \in Dir
    BY <1>3, <1>4 DEF SameStream
  <2>2. Base(meta'[p]) = Base(meta[p])
    BY <2>1 DEF SameStream, Base
  <2>3. Held(files, a.dir, a.offset - Base(meta'[p]), [data |-> a.data, by |-> a.by])
    BY <1>1, <2>1, <2>2
  <2> QED
    BY <1>2, <2>1, <2>3, HeldOn
<1> QED
  BY <1>1, <1>4

LEMMA WriteDoneKeeps ==
  ASSUME FileInv, NEW c \in Client, WriteDone(c)
  PROVE  FileInv'
<1> DEFINE p == op[c].path
<1>1. PICK d : d = op[c].streamMeta.dir
  OBVIOUS
<1>2. /\ op[c].pc = "write" /\ Writing(op[c])
      /\ op' \in [Client -> OpRecord] /\ OthersStay(c)
      /\ op'[c].pc = "fsync" /\ op'[c].kind = op[c].kind /\ op'[c].path = op[c].path
      /\ op'[c].streamMeta = op[c].streamMeta /\ op'[c].headers = op[c].headers
      /\ op'[c].data = op[c].data
      /\ d \in Dir /\ files' = [e \in Dir |-> files'[e]]
      /\ \A e \in Dir : e # d => files'[e] = files[e]
      /\ IsFile(files'[d]) /\ files'[d].state = "present"
      /\ files'[d].synced = files[d].synced /\ files[d].synced = Len(files[d].frames)
      /\ Len(files[d].frames) \in Nat /\ Len(files[d].frames) = PlaceOf(op[c]) - 1
      /\ Len(files'[d].frames) = Len(files[d].frames) + 1
      /\ files'[d].frames[Len(files[d].frames) + 1] = FrameOf(op[c])
      /\ Durable(files', files)
      /\ UNCHANGED <<meta, disk, poll, births, writes, crashes, acked, shut>>
  BY <1>1, WriteDoneEffect
<1>3. /\ p \in Path /\ meta[p].exists /\ meta[p].dir = d /\ OpPlaced(op[c], meta)
      /\ OpInStep(op[c], meta, files) /\ op[c].streamMeta \in MetaRecord
  BY <1>1, <1>2, OpFacts DEF SameStream
<1>4. \A e \in Dir : IsFile(files'[e]) /\ IsFile(files[e])
  BY <1>2 DEF FileInv, FileTypeOK
<1>5. FileTypeOK'
  BY <1>2, <1>4 DEF FileInv, FileTypeOK, PollTypeOK
<1>6. FinitelyMany' /\ AckedHeld'
  <2>1. FinitelyMany'
    BY <1>2 DEF FileInv, FinitelyMany
  <2>2. \A q \in Path : SameStream(meta'[q], meta[q])
    BY <1>2 DEF SameStream
  <2> QED
    BY <1>2, <1>4, <2>1, <2>2, AckedStays
<1>7. Placed'
  <2>1. \A e \in Dir : files[e].state \in {"none", "present"} => files'[e].state \in {"none", "present"}
    BY <1>2
  <2>2. \A e \in Dir : files'[e].frames # <<>> => files[e].frames # <<>> \/ e = d
    BY <1>2
  <2>3. \A q \in Path : meta[q].exists => meta[q].dir \in Dir
    BY FileBounds DEF FileInv, FileTypeOK, Placed, Dir
  <2> QED
    BY <1>2, <1>3, <2>1, <2>2, <2>3 DEF FileInv, Placed
<1>8. \A x \in Client : OpPlaced(op'[x], meta') /\ OpInStep(op'[x], meta', files')
  <2> TAKE x \in Client
  <2>1. CASE x = c
    <3>1. OpPlaced(op'[c], meta)
      BY <1>2, <1>3 DEF OpPlaced
    <3>2. PlaceOf(op'[c]) = PlaceOf(op[c]) /\ FrameOf(op'[c]) = FrameOf(op[c])
      BY <1>2, Zenon DEF PlaceOf, FrameOf
    <3>3. PlaceOf(op[c]) = Len(files[d].frames) + 1
      <4>1. op[c].streamMeta.tail \in Nat /\ Base(op[c].streamMeta) \in Nat
        BY <1>3, RecordFacts
      <4> QED
        BY <1>2, <4>1 DEF PlaceOf
    <3>4. /\ op'[c].streamMeta.dir = d /\ ~Stored(op'[c])
          /\ op'[c].kind \in {"append", "create"} /\ op'[c].streamMeta.tail = meta[p].tail
      BY <1>1, <1>2, <1>3 DEF OpInStep, Stored
    <3>5. OpInStep(op'[c], meta, files')
      BY <1>2, <3>2, <3>3, <3>4 DEF OpInStep
    <3> QED
      BY <1>2, <2>1, <3>1, <3>5
  <2>2. CASE x # c /\ op[x].path # p
    <3>1. OpPlaced(op[x], meta) /\ OpInStep(op[x], meta, files')
      BY <1>2, <1>3, <2>2, ElsewhereKept
    <3> QED
      BY <1>2, <2>2, <3>1 DEF OthersStay
  <2>3. CASE x # c /\ op[x].path = p
    <3>1. /\ op[x].pc \notin {"write", "fsync"} /\ op[x].pc # "idle" /\ op[x].streamMeta.dir = d
      BY <1>1, <1>2, <2>3, OthersWait
    <3>2. OpPlaced(op[x], meta) /\ OpInStep(op[x], meta, files)
      BY DEF FileInv
    <3>3. Stored(op[x]) => Held(files', d, PlaceOf(op[x]), FrameOf(op[x]))
      <4>1. files[d].synced \in Nat /\ files'[d].synced \in Nat
        BY <1>2
      <4>2. Stored(op[x]) => Held(files, d, PlaceOf(op[x]), FrameOf(op[x]))
        BY <3>1, <3>2 DEF OpInStep
      <4> QED
        BY <1>2, <4>1, <4>2, HeldOn
    <3>4. OpInStep(op[x], meta, files')
      BY <3>1, <3>3 DEF OpInStep
    <3> QED
      BY <1>2, <2>3, <3>2, <3>4 DEF OthersStay
  <2> QED
    BY <2>1, <2>2, <2>3
<1>9. OneWriter'
  <2>1. \A x \in Client : (Writing(op'[x]) => Writing(op[x])) /\ op'[x].path = op[x].path
    BY <1>2 DEF Writing, OthersStay
  <2> QED
    BY <2>1 DEF FileInv, OneWriter
<1>10. InStep'
  <2> SUFFICES ASSUME NEW q \in Path, meta[q].exists, Unmoved(q)'
               PROVE  /\ Len(files'[meta[q].dir].frames) = meta[q].tail - Base(meta[q])
                      /\ files'[meta[q].dir].synced = Len(files'[meta[q].dir].frames)
    BY <1>2 DEF InStep
  <2>1. q # p
    BY <1>2 DEF Unmoved
  <2>2. meta[q].dir # d /\ meta[q].dir \in Dir
    BY <1>3, <2>1, FileBounds DEF FileInv, FileTypeOK, Placed, Dir
  <2>3. Unmoved(q)
    BY <1>2, <2>1 DEF Unmoved, OthersStay
  <2> QED
    BY <1>2, <2>2, <2>3 DEF FileInv, InStep
<1> QED
  BY <1>5, <1>6, <1>7, <1>8, <1>9, <1>10 DEF FileInv

LEMMA UpdatedTyped ==
  ASSUME FileTypeOK, NEW o \in OpRecord, o.path \in Path
  PROVE  /\ UpdatedMeta(o) \in MetaRecord
         /\ SameStream(UpdatedMeta(o), o.streamMeta)
         /\ UpdatedMeta(o).tail = o.streamMeta.tail + 1
         /\ UpdatedMeta(o).producers = Committed(o.streamMeta, o.headers).producers
<1>1. o.streamMeta \in MetaRecord /\ o.headers \in Headers \cup {NoHeaders} /\ o.close \in BOOLEAN
  BY DEF OpRecord
<1>2. PICK s : s = Committed(o.streamMeta, o.headers)
  OBVIOUS
<1>3. s \in MetaRecord /\ SameStream(s, o.streamMeta) /\ s.tail = o.streamMeta.tail
  BY <1>1, <1>2, CommittedTyped
<1>4. meta[o.path].due = FALSE
  BY DEF FileTypeOK, MetaRecord
<1>5. PICK cl \in BOOLEAN : cl = (s.closed \/ (o.kind = "append" /\ o.close))
  OBVIOUS
<1>6. PICK by : by = IF (o.kind = "append" /\ o.close) /\ HasProducer(o.headers) THEN o.headers ELSE s.closedBy
  OBVIOUS
<1>7. by \in Headers \cup {NoHeaders}
  BY <1>1, <1>3, <1>6 DEF MetaRecord
<1>8. UpdatedMeta(o) = [s EXCEPT !.tail = s.tail + 1, !.closed = cl, !.closedBy = by, !.due = FALSE]
  BY <1>2, <1>3, <1>4, <1>5, <1>6 DEF UpdatedMeta
<1>9. PICK u : u = UpdatedMeta(o)
  OBVIOUS
<1>10. u \in MetaRecord /\ u.tail = s.tail + 1 /\ u.producers = s.producers /\ SameStream(u, s)
  <2>1. PICK t \in Nat : t = s.tail + 1
    BY <1>3, RecordFacts
  <2>2. u = [s EXCEPT !.tail = t, !.closed = cl, !.closedBy = by, !.due = FALSE]
    BY <1>8, <1>9, <2>1
  <2>3. u \in MetaRecord
    BY <1>3, <1>7, <2>2 DEF MetaRecord
  <2>4. u.tail = t /\ u.producers = s.producers
    BY <1>3, <2>2 DEF MetaRecord
  <2>5. SameStream(u, s)
    BY <1>3, <2>2 DEF MetaRecord, SameStream
  <2> QED
    BY <2>1, <2>3, <2>4, <2>5
<1>11. SameStream(u, o.streamMeta)
  BY <1>3, <1>10 DEF SameStream
<1> QED
  BY <1>2, <1>3, <1>9, <1>10, <1>11

LEMMA FsyncDoneEffect ==
  ASSUME FileInv, NEW c \in Client, FsyncDone(c), NEW d, d = op[c].streamMeta.dir,
         NEW p, p = op[c].path
  PROVE  /\ op[c].pc = "fsync" /\ Writing(op[c]) /\ p \in Path /\ meta[p].exists /\ d = meta[p].dir
         /\ op' \in [Client -> OpRecord] /\ OthersStay(c)
         /\ op'[c].pc = "put" /\ op'[c].kind = op[c].kind /\ op'[c].path = p
         /\ op'[c].streamMeta = op[c].streamMeta /\ op'[c].headers = op[c].headers
         /\ op'[c].data = op[c].data /\ op'[c].close = op[c].close
         /\ d \in Dir /\ files' = [e \in Dir |-> files'[e]]
         /\ \A e \in Dir : e # d => files'[e] = files[e]
         /\ IsFile(files'[d]) /\ files'[d].state = files[d].state /\ files'[d].frames = files[d].frames
         /\ files'[d].synced = Len(files[d].frames) /\ Len(files[d].frames) = PlaceOf(op[c])
         /\ Len(files[d].frames) \in Nat /\ files[d].synced = Len(files[d].frames) - 1
         /\ files[d].frames[Len(files[d].frames)] = FrameOf(op[c])
         /\ Durable(files', files)
         /\ meta' \in [Path -> MetaRecord] /\ \A q \in Path : SameStream(meta'[q], meta[q])
         /\ \A q \in Path : q # p => meta'[q] = meta[q]
         /\ op[c].streamMeta.tail = meta[p].tail /\ meta'[p].tail = meta[p].tail + 1
         /\ meta'[p].producers = Committed(op[c].streamMeta, op[c].headers).producers
         /\ UNCHANGED <<disk, poll, births, writes, crashes, acked, shut>>
<1>1. /\ op[c].pc = "fsync"
      /\ files' = [files EXCEPT ![d].synced = Len(files[d].frames)]
      /\ meta' = [meta EXCEPT ![p] = UpdatedMeta(op[c])]
      /\ op' = [op EXCEPT ![c].pc = "put"]
      /\ UNCHANGED <<disk, poll, births, writes, crashes, acked, shut>>
  BY DEF FsyncDone
<1>2. /\ op[c] \in OpRecord /\ p \in Path /\ meta[p].exists /\ d \in Dir /\ IsFile(files[d])
      /\ SameStream(op[c].streamMeta, meta[p]) /\ d = meta[p].dir
      /\ OpInStep(op[c], meta, files) /\ op[c].streamMeta \in MetaRecord
      /\ files = [e \in Dir |-> files[e]] /\ FileTypeOK
  BY <1>1, OpFacts DEF FileInv, FileTypeOK, SameStream
<1>3. /\ Writing(op[c]) /\ op[c].streamMeta.tail = meta[p].tail
      /\ Len(files[d].frames) = PlaceOf(op[c]) /\ files[d].synced = Len(files[d].frames) - 1
      /\ files[d].frames[Len(files[d].frames)] = FrameOf(op[c])
  BY <1>1, <1>2 DEF OpInStep, Writing
<1> DEFINE n == [op[c] EXCEPT !.pc = "put"]
<1>4. /\ n \in OpRecord /\ n.pc = "put" /\ n.kind = op[c].kind /\ n.path = p
      /\ n.streamMeta = op[c].streamMeta /\ n.headers = op[c].headers /\ n.data = op[c].data
      /\ n.close = op[c].close
  BY <1>2 DEF OpRecord
<1>5. op' = [op EXCEPT ![c] = n]
  BY <1>1
<1> HIDE DEF n
<1>6. op' \in [Client -> OpRecord] /\ op'[c] = n /\ \A y \in Client \ {c} : op'[y] = op[y]
  BY <1>4, <1>5 DEF FileInv, FileTypeOK
<1>7. PICK T : files[d] \in FileRecord(T)
  BY <1>2 DEF IsFile
<1> DEFINE len == Len(files[d].frames)
           g == [files[d] EXCEPT !.synced = len]
<1>8. len \in Nat
  BY <1>2, FileFacts
<1>9. files' = [files EXCEPT ![d] = g]
  BY <1>1
<1> HIDE DEF len
<1>10. g \in FileRecord(T) /\ g.frames = files[d].frames /\ g.state = files[d].state /\ g.synced = len
  BY <1>7, <1>8 DEF FileRecord
<1>11. IsFile(g)
  BY <1>10 DEF IsFile
<1> HIDE DEF g
<1>12. files' = [e \in Dir |-> files'[e]] /\ files'[d] = g /\ \A e \in Dir : e # d => files'[e] = files[e]
  BY <1>2, <1>9
<1>13. Durable(files', files)
  <2>1. \A e \in Dir : files[e].synced \in Nat
    BY <1>2, FileFacts DEF FileTypeOK
  <2> QED
    BY <1>3, <1>8, <1>10, <1>12, <2>1 DEF Durable, len
<1>14. PICK u : u = UpdatedMeta(op[c])
  OBVIOUS
<1>15. /\ u \in MetaRecord /\ SameStream(u, op[c].streamMeta) /\ u.tail = op[c].streamMeta.tail + 1
       /\ u.producers = Committed(op[c].streamMeta, op[c].headers).producers
  BY <1>2, <1>14, UpdatedTyped
<1>16. meta' \in [Path -> MetaRecord] /\ meta'[p] = u /\ \A q \in Path : q # p => meta'[q] = meta[q]
  BY <1>1, <1>2, <1>14, <1>15 DEF FileTypeOK
<1>17. \A q \in Path : SameStream(meta'[q], meta[q])
  BY <1>2, <1>15, <1>16 DEF SameStream
<1>18. meta'[p].tail = meta[p].tail + 1
  BY <1>3, <1>15, <1>16
<1>19. files'[d].synced = Len(files[d].frames)
  BY <1>10, <1>12 DEF len
<1>20. Len(files[d].frames) \in Nat
  BY <1>8 DEF len
<1>21. IsFile(files'[d]) /\ files'[d].state = files[d].state /\ files'[d].frames = files[d].frames
  BY <1>10, <1>11, <1>12
<1> QED
  BY <1>1, <1>2, <1>3, <1>4, <1>6, <1>12, <1>13, <1>15, <1>16, <1>17, <1>18, <1>19, <1>20, <1>21 DEF OthersStay

LEMMA FsyncDoneKeeps ==
  ASSUME FileInv, NEW c \in Client, FsyncDone(c)
  PROVE  FileInv'
<1>0. PICK d : d = op[c].streamMeta.dir
  OBVIOUS
<1>1. PICK p : p = op[c].path
  OBVIOUS
<1>2. /\ op[c].pc = "fsync" /\ Writing(op[c]) /\ p \in Path /\ meta[p].exists /\ d = meta[p].dir
      /\ op' \in [Client -> OpRecord] /\ OthersStay(c)
      /\ op'[c].pc = "put" /\ op'[c].kind = op[c].kind /\ op'[c].path = p
      /\ op'[c].streamMeta = op[c].streamMeta /\ op'[c].headers = op[c].headers
      /\ op'[c].data = op[c].data
      /\ d \in Dir /\ files' = [e \in Dir |-> files'[e]]
      /\ \A e \in Dir : e # d => files'[e] = files[e]
      /\ IsFile(files'[d]) /\ files'[d].state = files[d].state /\ files'[d].frames = files[d].frames
      /\ files'[d].synced = Len(files[d].frames) /\ Len(files[d].frames) = PlaceOf(op[c])
      /\ Len(files[d].frames) \in Nat /\ files[d].synced = Len(files[d].frames) - 1
      /\ files[d].frames[Len(files[d].frames)] = FrameOf(op[c])
      /\ Durable(files', files)
      /\ meta' \in [Path -> MetaRecord] /\ \A q \in Path : SameStream(meta'[q], meta[q])
      /\ \A q \in Path : q # p => meta'[q] = meta[q]
      /\ op[c].streamMeta.tail = meta[p].tail /\ meta'[p].tail = meta[p].tail + 1
      /\ UNCHANGED <<disk, poll, births, writes, crashes, acked, shut>>
  BY <1>0, <1>1, FsyncDoneEffect
<1>3. /\ OpPlaced(op[c], meta) /\ OpInStep(op[c], meta, files) /\ op[c].streamMeta \in MetaRecord
      /\ Base(op[c].streamMeta) = Base(meta[p]) /\ SameStream(op[c].streamMeta, meta[p])
      /\ op[c].streamMeta.tail \in Nat /\ Base(meta[p]) \in Nat
  BY <1>1, <1>2, OpFacts, RecordFacts
<1>4. \A e \in Dir : IsFile(files'[e]) /\ IsFile(files[e])
  BY <1>2 DEF FileInv, FileTypeOK
<1>5. FileTypeOK'
  BY <1>2, <1>4 DEF FileInv, FileTypeOK, PollTypeOK
<1>6. FinitelyMany' /\ AckedHeld'
  <2>1. {q \in Path : meta'[q].exists} = {q \in Path : meta[q].exists}
    BY <1>2 DEF SameStream
  <2>2. FinitelyMany'
    BY <2>1 DEF FileInv, FinitelyMany
  <2> QED
    BY <1>2, <1>4, <2>2, AckedStays
<1>7. Placed'
  <2>1. \A e \in Dir : files'[e].state = files[e].state /\ files'[e].frames = files[e].frames
    BY <1>2
  <2>2. \A q \in Path : meta[q].exists => meta[q].dir \in Dir
    BY FileBounds DEF FileInv, FileTypeOK, Placed, Dir
  <2> QED
    BY <1>2, <2>1, <2>2 DEF FileInv, Placed, SameStream
<1>8. \A x \in Client : OpPlaced(op'[x], meta') /\ OpInStep(op'[x], meta', files')
  <2> TAKE x \in Client
  <2>1. CASE x = c
    <3>1. OpPlaced(op'[c], meta')
      BY <1>2, <1>3 DEF OpPlaced, SameStream
    <3>2. PlaceOf(op'[c]) = PlaceOf(op[c]) /\ FrameOf(op'[c]) = FrameOf(op[c]) /\ op'[c].streamMeta.dir = d
      BY <1>0, <1>2, Zenon DEF PlaceOf, FrameOf
    <3>3. PlaceOf(op[c]) \in 1 .. files'[d].synced /\ files'[d].frames[PlaceOf(op[c])] = FrameOf(op[c])
      <4>1. files[d].synced \in Nat
        BY <1>2, <1>4, FileFacts
      <4> QED
        BY <1>2, <4>1
    <3>4. OpInStep(op'[c], meta', files')
      BY <1>2, <3>2, <3>3 DEF OpInStep, Held
    <3> QED
      BY <2>1, <3>1, <3>4
  <2>2. CASE x # c /\ op[x].path # p
    <3>1. OpPlaced(op[x], meta') /\ OpInStep(op[x], meta', files')
      BY <1>2, <2>2, ElsewhereKept
    <3> QED
      BY <1>2, <2>2, <3>1 DEF OthersStay
  <2>3. CASE x # c /\ op[x].path = p
    <3>0. op[x].path = op[c].path /\ x # c /\ Writing(op[c]) /\ op[c].pc # "idle"
      BY <1>1, <1>2, <2>3
    <3>1. /\ op[x].pc \notin {"write", "fsync"} /\ op[x].pc # "idle" /\ op[x].streamMeta.dir = d
      BY <1>0, <3>0, OthersWait
    <3>2. OpPlaced(op[x], meta) /\ OpInStep(op[x], meta, files)
      BY DEF FileInv
    <3>3. Stored(op[x]) => Held(files', d, PlaceOf(op[x]), FrameOf(op[x]))
      <4>1. files[d].synced \in Nat /\ files'[d].synced \in Nat
        BY <1>2, <1>4, FileFacts
      <4>2. Stored(op[x]) => Held(files, d, PlaceOf(op[x]), FrameOf(op[x]))
        BY <3>1, <3>2 DEF OpInStep
      <4> QED
        BY <1>2, <4>1, <4>2, HeldOn
    <3>4. OpInStep(op[x], meta', files')
      BY <3>1, <3>3 DEF OpInStep
    <3>5. OpPlaced(op[x], meta')
      BY <1>2, <3>2 DEF OpPlaced, SameStream
    <3> QED
      BY <1>2, <2>3, <3>4, <3>5 DEF OthersStay
  <2> QED
    BY <2>1, <2>2, <2>3
<1>9. OneWriter'
  <2>1. \A x \in Client : (Writing(op'[x]) => Writing(op[x])) /\ op'[x].path = op[x].path
    BY <1>1, <1>2 DEF Writing, OthersStay
  <2> QED
    BY <2>1 DEF FileInv, OneWriter
<1>10. InStep'
  <2> SUFFICES ASSUME NEW q \in Path, meta'[q].exists, Unmoved(q)'
               PROVE  /\ Len(files'[meta'[q].dir].frames) = meta'[q].tail - Base(meta'[q])
                      /\ files'[meta'[q].dir].synced = Len(files'[meta'[q].dir].frames)
    BY DEF InStep
  <2>1. CASE q = p
    <3>1. meta'[p].dir = d /\ Base(meta'[p]) = Base(meta[p])
      BY <1>2 DEF SameStream, Base
    <3>2. PlaceOf(op[c]) = meta'[p].tail - Base(meta[p])
      BY <1>2, <1>3 DEF PlaceOf
    <3> QED
      BY <1>2, <2>1, <3>1, <3>2
  <2>2. CASE q # p
    <3>1. meta'[q] = meta[q] /\ meta[q].exists
      BY <1>2, <2>2
    <3>2. meta[q].dir # d /\ meta[q].dir \in Dir
      <4>1. meta[q].dir \in Dir
        BY <3>1, FileBounds DEF FileInv, FileTypeOK, Placed, Dir
      <4>2. Placed /\ meta[p].exists /\ d = meta[p].dir /\ p \in Path
        BY <1>2 DEF FileInv
      <4>3. meta[q].dir # d
        BY ONLY <4>2, <2>2, <3>1, q \in Path DEF Placed
      <4> QED
        BY <4>1, <4>3
    <3>3. Unmoved(q)
      <4> SUFFICES ASSUME NEW x \in Client, op[x].path = q PROVE op[x].pc # "fsync"
        BY DEF Unmoved
      <4>1. x # c
        BY <1>1, <2>2
      <4>2. op'[x] = op[x]
        BY <1>2, <4>1 DEF OthersStay
      <4> QED
        BY <4>2 DEF Unmoved
    <3> QED
      BY <1>2, <3>1, <3>2, <3>3 DEF FileInv, InStep
  <2> QED
    BY <2>1, <2>2
<1> QED
  BY <1>5, <1>6, <1>7, <1>8, <1>9, <1>10 DEF FileInv

----------------------------------------------------------------------------
(* The transaction of create() *)

LEMMA FirstFrames ==
  ASSUME NEW o \in CreateRequest, NEW F, F = PrefixFrames(meta, o)
  PROVE  /\ \E T : F \in Seq(T)
         /\ Len(F) = (IF o.prefix THEN 1 ELSE 0)
         /\ \A k \in 1 .. Len(F) : F[k].by = NoHeaders
<1>1. CASE o.prefix
  <2> DEFINE x == [data |-> ResolveForkSubOffset(meta, o), by |-> NoHeaders]
  <2>1. F = <<x>> /\ x.by = NoHeaders
    BY <1>1 DEF PrefixFrames
  <2> HIDE DEF x
  <2>2. F \in Seq({x}) /\ Len(F) = 1 /\ F[1] = x
    BY <2>1
  <2>3. \E T : F \in Seq(T)
    BY <2>2
  <2>4. Len(F) = (IF o.prefix THEN 1 ELSE 0)
    BY <1>1, <2>2
  <2>5. \A k \in 1 .. Len(F) : F[k].by = NoHeaders
    <3> TAKE k \in 1 .. Len(F)
    <3>1. k = 1
      BY <2>2
    <3> QED
      BY <2>1, <2>2, <3>1
  <2> QED
    BY <2>3, <2>4, <2>5
<1>2. CASE ~o.prefix
  <2>1. F = <<>>
    BY <1>2 DEF PrefixFrames
  <2>2. F \in Seq({0}) /\ Len(F) = 0
    BY <2>1
  <2> QED
    BY <1>2, <2>2
<1> QED
  BY <1>1, <1>2

\* The record of the new stream, and of its source.
ChildOf(M, p, o) ==
    /\ M \in [Path -> MetaRecord]
    /\ \A q \in Path : q # p => /\ SameStream(M[q], meta[q]) /\ M[q].tail = meta[q].tail
                                /\ M[q].producers = meta[q].producers /\ M[q].closed = meta[q].closed
    /\ M[p].exists = TRUE /\ M[p].dir = births + 1
    /\ M[p].tail = Base(M[p]) + (IF o.prefix THEN 1 ELSE 0)

LEMMA ChildTyped ==
  ASSUME Permanent, FileInv, births < MaxBirths, NEW p \in Path, ~meta[p].exists, NEW o \in CreateRequest,
         o.forkedFrom = NoPath => o.forkOffset = 0 /\ ~o.prefix,
         o.forkedFrom # NoPath => meta[o.forkedFrom].exists,
         NEW M, M = ChildCommitted(meta, p, o)
  PROVE  ChildOf(M, p, o)
<1>0. /\ o.forkedFrom \in ForkSources \cup {NoPath} /\ o.forkOffset \in 0 .. MaxWrites /\ o.prefix \in BOOLEAN
      /\ o.expiry \in Expiries
  BY DEF CreateRequest
<1>1. /\ meta \in [Path -> MetaRecord] /\ births + 1 \in 0 .. MaxBirths /\ o.forkOffset \in Nat
      /\ o.forkedFrom \in Path \cup {NoPath}
  BY <1>0, FileNames, FileBounds DEF FileInv, FileTypeOK
<1>2. ResolveForkExpiry(meta, o) = "none"
  <2>1. CASE o.forkedFrom # NoPath /\ o.expiry = "none"
    <3>1. o.forkedFrom \in Path
      BY <1>1, <2>1
    <3> QED
      BY <1>1, <2>1, <3>1 DEF ResolveForkExpiry, MetaRecord
  <2>2. CASE ~(o.forkedFrom # NoPath /\ o.expiry = "none")
    BY <1>0, <2>2 DEF ResolveForkExpiry, Permanent
  <2> QED
    BY <2>1, <2>2
<1>3. PICK t : t = IF o.prefix THEN o.forkOffset + 1 ELSE o.forkOffset
  OBVIOUS
<1>4. t \in Nat /\ t = o.forkOffset + (IF o.prefix THEN 1 ELSE 0)
  BY <1>0, <1>1, <1>3
<1>5. PICK n : n = NewMeta(meta, o)
  OBVIOUS
<1>6. n = [NoMeta EXCEPT !.exists = TRUE, !.dir = births + 1, !.tail = t,
                         !.forkedFrom = o.forkedFrom, !.forkOffset = o.forkOffset, !.expiry = "none"]
  BY <1>2, <1>3, <1>5 DEF NewMeta
<1>7. n \in MetaRecord /\ n.exists = TRUE /\ n.dir = births + 1 /\ n.tail = t
  BY <1>1, <1>4, <1>6, NamesTyped DEF MetaRecord
<1>8. n.forkedFrom = o.forkedFrom /\ n.forkOffset = o.forkOffset
  BY <1>6, NamesTyped DEF MetaRecord
<1>9. Base(n) = o.forkOffset
  BY <1>8 DEF Base
<1>10. PICK S : S = IF o.forkedFrom = NoPath THEN meta ELSE [meta EXCEPT ![o.forkedFrom].refCount = @ + 1]
  OBVIOUS
<1>11. /\ S \in [Path -> MetaRecord]
       /\ \A q \in Path : /\ SameStream(S[q], meta[q]) /\ S[q].tail = meta[q].tail
                          /\ S[q].producers = meta[q].producers /\ S[q].closed = meta[q].closed
  <2>1. CASE o.forkedFrom = NoPath
    BY <1>1, <1>10, <2>1 DEF SameStream
  <2>2. CASE o.forkedFrom # NoPath
    <3>1. PICK f \in Path : f = o.forkedFrom
      BY <1>1, <2>2
    <3>2. PICK k \in Nat : k = meta[f].refCount + 1
      BY <1>1, RecordFacts
    <3>3. PICK r : r = [meta[f] EXCEPT !.refCount = k]
      OBVIOUS
    <3>4. r \in MetaRecord /\ SameStream(r, meta[f]) /\ r.tail = meta[f].tail
          /\ r.producers = meta[f].producers /\ r.closed = meta[f].closed
      <4>1. PICK v \in MetaRecord : v = meta[f]
        BY <1>1
      <4>2. r = [v EXCEPT !.refCount = k]
        BY <3>3, <4>1
      <4>3. r \in MetaRecord /\ SameStream(r, v) /\ r.tail = v.tail /\ r.producers = v.producers /\ r.closed = v.closed
        BY ONLY <4>1, <4>2, <3>2 DEF MetaRecord, SameStream
      <4> QED
        BY <4>1, <4>3
    <3>5. S = [meta EXCEPT ![f] = r]
      BY <1>1, <1>10, <2>2, <3>1, <3>2, <3>3
    <3> QED
      BY <1>1, <3>4, <3>5 DEF SameStream
  <2> QED
    BY <2>1, <2>2
<1>12. M = [S EXCEPT ![p] = n]
  BY <1>5, <1>10 DEF ChildCommitted
<1>13. M \in [Path -> MetaRecord] /\ M[p] = n /\ \A q \in Path : q # p => M[q] = S[q]
  BY <1>7, <1>11, <1>12
<1> QED
  BY <1>4, <1>7, <1>9, <1>11, <1>13 DEF ChildOf

LEMMA CreateStartEffect ==
  ASSUME Permanent, FileInv, NEW c \in Client, NEW p \in Path, NEW o \in CreateRequest,
         CreateStart(c, p, o), NEW d, d = births + 1
  PROVE  /\ op[c].pc = "idle" /\ ~meta[p].exists /\ d \in Dir /\ births' = d
         /\ meta' \in [Path -> MetaRecord] /\ disk' = meta'
         /\ \A q \in Path : q # p => /\ SameStream(meta'[q], meta[q]) /\ meta'[q].tail = meta[q].tail
                                     /\ meta'[q].producers = meta[q].producers
                                     /\ meta'[q].closed = meta[q].closed
         /\ meta'[p].exists /\ meta'[p].dir = d
         /\ meta'[p].tail = Base(meta'[p]) + Len(files'[d].frames)
         /\ op' \in [Client -> OpRecord] /\ OthersFlush(c)
         /\ op'[c].kind = "create" /\ op'[c].pc = "open" /\ op'[c].path = p
         /\ op'[c].streamMeta = meta'[p] /\ op'[c].headers = NoHeaders /\ op'[c].data = 0
         /\ op'[c].close = o.closed
         /\ files' = [e \in Dir |-> files'[e]] /\ \A e \in Dir : e # d => files'[e] = files[e]
         /\ IsFile(files'[d]) /\ files'[d].state \in {"none", "present"}
         /\ files'[d].synced = Len(files'[d].frames)
         /\ \A k \in 1 .. Len(files'[d].frames) : files'[d].frames[k].by = NoHeaders
         /\ poll' = poll /\ UNCHANGED <<writes, crashes, acked, shut>>
<1>0. FileTypeOK /\ births \in Nat
  BY FileBounds DEF FileInv, FileTypeOK
<1>1. /\ FileTypeOK /\ meta[p].due = FALSE /\ meta \in [Path -> MetaRecord] /\ op \in [Client -> OpRecord]
      /\ files = [e \in Dir |-> files[e]] /\ births \in Nat
  <2>1. /\ meta \in [Path -> MetaRecord] /\ op \in [Client -> OpRecord]
        /\ files = [e \in Dir |-> files[e]]
    BY <1>0 DEF FileTypeOK
  <2>2. meta[p].due = FALSE
    BY <2>1 DEF MetaRecord
  <2> QED
    BY <1>0, <2>1, <2>2
<1>2. op[c].pc = "idle" /\ births < MaxBirths /\ ~meta[p].exists
  BY <1>1 DEF CreateStart, Idle
<1>3. Cleared(p) = meta
  BY <1>2 DEF Cleared
<1>4. Unlinked(meta) = files
  <2>1. DirsRemoved(meta) = {}
    BY DEF DirsRemoved
  <2> QED
    BY <1>1, <2>1 DEF Unlinked
<1>5. PICK M : M = ChildCommitted(meta, p, o)
  OBVIOUS
<1>6. PICK F : F = PrefixFrames(meta, o)
  OBVIOUS
<1> DEFINE n == [IdleOp EXCEPT !.kind = "create", !.pc = "open", !.path = p, !.streamMeta = M[p],
                               !.init = o.init, !.close = o.closed]
           g == [state |-> IF o.prefix THEN "present" ELSE "none", frames |-> F, synced |-> Len(F)]
<1>7. /\ o.forkedFrom = NoPath => o.forkOffset = 0 /\ ~o.prefix
      /\ o.forkedFrom # NoPath => ~ForkRejected(meta, o)
      /\ PutSync(M, [op EXCEPT ![c] = n])
      /\ files' = [files EXCEPT ![births + 1] = g]
      /\ CancelWaits({}) /\ births' = births + 1 /\ UNCHANGED <<writes, crashes, acked, shut>>
  BY <1>2, <1>3, <1>4, <1>5, <1>6 DEF CreateStart
<1>8. o.forkedFrom # NoPath => meta[o.forkedFrom].exists
  BY <1>7 DEF ForkRejected
<1>9. /\ M \in [Path -> MetaRecord]
      /\ \A q \in Path : q # p => /\ SameStream(M[q], meta[q]) /\ M[q].tail = meta[q].tail
                                  /\ M[q].producers = meta[q].producers /\ M[q].closed = meta[q].closed
      /\ M[p].exists = TRUE /\ M[p].dir = births + 1
      /\ M[p].tail = Base(M[p]) + (IF o.prefix THEN 1 ELSE 0)
  <2>1. o.forkedFrom = NoPath => o.forkOffset = 0 /\ ~o.prefix
    BY <1>7
  <2> HIDE DEF n, g
  <2>2. Permanent /\ FileInv /\ births < MaxBirths /\ ~meta[p].exists
    BY <1>2
  <2>3. ChildOf(M, p, o)
    BY <1>5, <1>8, <2>1, <2>2, ChildTyped
  <2> QED
    BY <2>3 DEF ChildOf
<1>10. /\ \E T : F \in Seq(T)
       /\ Len(F) = (IF o.prefix THEN 1 ELSE 0)
       /\ \A k \in 1 .. Len(F) : F[k].by = NoHeaders
  BY <1>6, FirstFrames
<1>11. IsFile(g) /\ g.state \in {"none", "present"} /\ g.frames = F /\ g.synced = Len(F)
  <2>1. PICK T : F \in Seq(T)
    BY <1>10
  <2>2. Len(F) \in Nat
    BY <2>1
  <2>3. g \in FileRecord(T)
    BY <2>1, <2>2 DEF FileRecord
  <2> QED
    BY <2>3 DEF IsFile
<1>12. o.init \in {"none", "valid"} /\ o.closed \in BOOLEAN
  <2>1. "createFails" \notin Operations
    BY DEF Permanent
  <2>2. o.init \in {"none", "valid"}
    BY <2>1 DEF CreateRequest
  <2>3. o.closed \in {FALSE, "createClosed" \in Operations}
    BY DEF CreateRequest
  <2>4. o.closed = FALSE \/ o.closed = ("createClosed" \in Operations)
    BY <2>3
  <2>5. ("createClosed" \in Operations) = TRUE \/ ("createClosed" \in Operations) = FALSE
    OBVIOUS
  <2>6. o.closed \in BOOLEAN
    BY <2>4, <2>5
  <2> QED
    BY <2>2, <2>6
<1>13. /\ n \in OpRecord /\ n.kind = "create" /\ n.pc = "open" /\ n.path = p /\ n.streamMeta = M[p]
       /\ n.headers = NoHeaders /\ n.data = 0 /\ n.close = o.closed
  BY <1>9, <1>12, NamesTyped DEF OpRecord, IdleOp
<1> HIDE DEF n, g
<1>14. meta' = M /\ disk' = M /\ op' = [x \in Client |-> Flushed([op EXCEPT ![c] = n][x])]
  BY <1>7 DEF PutSync
<1>15. Flushed(n) = n /\ \A x \in Client : Flushed(op[x]) \in OpRecord
  BY <1>1, <1>13, FlushedTyped
<1>16. op' = [x \in Client |-> IF x = c THEN n ELSE Flushed(op[x])]
  BY <1>1, <1>14, <1>15
<1>17. op' \in [Client -> OpRecord] /\ op'[c] = n /\ OthersFlush(c)
  BY <1>13, <1>15, <1>16 DEF OthersFlush
<1>18. d \in Dir
  BY <1>1, <1>2, FileBounds DEF Dir
<1>19. files' = [e \in Dir |-> files'[e]] /\ files'[d] = g /\ \A e \in Dir : e # d => files'[e] = files[e]
  BY <1>1, <1>7, <1>18
<1>20. poll' = poll
  BY <1>1, <1>7 DEF CancelWaits, FileTypeOK, PollTypeOK
<1>21. meta'[p].tail = Base(meta'[p]) + Len(files'[d].frames)
  BY <1>9, <1>10, <1>11, <1>14, <1>19
<1>22. /\ IsFile(files'[d]) /\ files'[d].state \in {"none", "present"}
       /\ files'[d].synced = Len(files'[d].frames)
       /\ \A k \in 1 .. Len(files'[d].frames) : files'[d].frames[k].by = NoHeaders
  BY <1>10, <1>11, <1>19
<1>23. births' = d /\ UNCHANGED <<writes, crashes, acked, shut>>
  BY <1>7
<1>24. /\ meta' \in [Path -> MetaRecord] /\ disk' = meta' /\ meta'[p].exists /\ meta'[p].dir = d
       /\ \A q \in Path : q # p => /\ SameStream(meta'[q], meta[q]) /\ meta'[q].tail = meta[q].tail
                                   /\ meta'[q].producers = meta[q].producers
                                   /\ meta'[q].closed = meta[q].closed
       /\ op'[c].streamMeta = meta'[p]
  BY <1>9, <1>13, <1>14, <1>17
<1> QED
  BY <1>2, <1>13, <1>17, <1>18, <1>19, <1>20, <1>21, <1>22, <1>23, <1>24

\* An operation elsewhere, through a commit.
LEMMA OpElsewhere ==
  ASSUME NEW o \in OpRecord, NEW M, NEW M2, NEW F, NEW F2, OpPlaced(o, M), OpInStep(o, M, F),
         o.pc # "idle" => /\ SameStream(M2[o.path], M[o.path]) /\ M2[o.path].tail = M[o.path].tail
                          /\ F2[o.streamMeta.dir] = F[o.streamMeta.dir]
  PROVE  OpPlaced(Flushed(o), M2) /\ OpInStep(Flushed(o), M2, F2)
<1>1. OpPlaced(o, M2)
  BY DEF OpPlaced, SameStream
<1>2. Stored(o) => o.pc # "idle"
  BY DEF Stored, OpPlaced, IdleOp
<1>3. OpInStep(o, M2, F2)
  BY <1>2 DEF OpInStep, Held
<1>4. CASE o.pc # "put"
  BY <1>1, <1>3, <1>4, FlushedTyped
<1>5. CASE o.pc = "put"
  <2> DEFINE n == Flushed(o)
  <2>1. /\ n.pc = "committed" /\ n.kind = o.kind /\ n.path = o.path
        /\ n.streamMeta = o.streamMeta /\ n.headers = o.headers /\ n.data = o.data
    BY <1>5, FlushedTyped
  <2> HIDE DEF n
  <2>2. OpPlaced(n, M2)
    BY <1>1, <1>5, <2>1 DEF OpPlaced
  <2>3. Stored(n) => Stored(o)
    BY <1>5, <2>1 DEF Stored
  <2>4. OpInStep(n, M2, F2)
    BY <1>3, <2>1, <2>3 DEF OpInStep, PlaceOf, FrameOf
  <2> QED
    BY <2>2, <2>4 DEF n
<1> QED
  BY <1>4, <1>5

LEMMA CreateStartKeeps ==
  ASSUME Permanent, FileInv, NEW c \in Client, NEW p \in Path, NEW o \in CreateRequest,
         CreateStart(c, p, o)
  PROVE  FileInv'
<1>1. PICK d : d = births + 1
  OBVIOUS
<1>2. /\ op[c].pc = "idle" /\ ~meta[p].exists /\ d \in Dir /\ births' = d
      /\ meta' \in [Path -> MetaRecord] /\ disk' = meta'
      /\ \A q \in Path : q # p => SameStream(meta'[q], meta[q]) /\ meta'[q].tail = meta[q].tail
      /\ meta'[p].exists /\ meta'[p].dir = d
      /\ meta'[p].tail = Base(meta'[p]) + Len(files'[d].frames)
  BY <1>1, CreateStartEffect
<1>3. /\ op' \in [Client -> OpRecord] /\ OthersFlush(c)
      /\ op'[c].kind = "create" /\ op'[c].pc = "open" /\ op'[c].path = p
      /\ op'[c].streamMeta = meta'[p] /\ op'[c].data = 0
  BY <1>1, CreateStartEffect
<1>4. /\ files' = [e \in Dir |-> files'[e]] /\ \A e \in Dir : e # d => files'[e] = files[e]
      /\ IsFile(files'[d]) /\ files'[d].state \in {"none", "present"}
      /\ files'[d].synced = Len(files'[d].frames)
      /\ poll' = poll /\ UNCHANGED <<writes, crashes, acked, shut>>
  BY <1>1, CreateStartEffect
<1>5. /\ meta \in [Path -> MetaRecord] /\ op \in [Client -> OpRecord] /\ births \in Nat
      /\ \A e \in Dir : IsFile(files[e])
      /\ \A q \in Path : meta[q].exists => meta[q].dir \in Dir /\ meta[q].dir # d /\ meta[q].dir \in 1 .. births
      /\ \A q \in Path : Base(meta'[q]) \in Nat
  <2>1. /\ meta \in [Path -> MetaRecord] /\ op \in [Client -> OpRecord] /\ births \in Nat
        /\ \A e \in Dir : IsFile(files[e])
    BY FileBounds DEF FileInv, FileTypeOK
  <2>2. \A q \in Path : meta[q].exists => meta[q].dir \in 1 .. births
    BY DEF FileInv, Placed
  <2>3. \A q \in Path : meta[q].exists => meta[q].dir \in Dir /\ meta[q].dir # d
    BY <1>1, <1>2, <2>1, <2>2, FileBounds DEF FileInv, FileTypeOK, Dir
  <2>4. \A q \in Path : Base(meta'[q]) \in Nat
    BY <1>2, RecordFacts
  <2> QED
    BY <2>1, <2>2, <2>3, <2>4
<1>6. FileTypeOK'
  <2>1. \A e \in Dir : IsFile(files'[e])
    BY <1>4, <1>5
  <2>2. births' \in 0 .. MaxBirths
    BY <1>2, FileBounds DEF Dir
  <2> QED
    BY <1>2, <1>3, <1>4, <2>1, <2>2 DEF FileInv, FileTypeOK, PollTypeOK
<1>7. \A q \in Path : q # p => /\ meta'[q].exists = meta[q].exists /\ meta'[q].dir = meta[q].dir
                               /\ Base(meta'[q]) = Base(meta[q]) /\ meta'[q].tail = meta[q].tail
  BY <1>2 DEF SameStream, Base
<1>8. FinitelyMany'
  <2>1. {q \in Path : meta'[q].exists} = {q \in Path : meta[q].exists} \cup {p}
    BY <1>2, <1>7
  <2>2. IsFiniteSet({q \in Path : meta[q].exists})
    BY DEF FileInv, FinitelyMany
  <2> QED
    BY <2>1, <2>2, FS_AddElement DEF FinitelyMany
<1>9. Placed'
  <2>1. \A q \in Path : SameStream(disk'[q], meta'[q])
    BY <1>2 DEF SameStream
  <2>2. \A q \in Path : meta'[q].exists =>
           meta'[q].dir \in 1 .. births' /\ files'[meta'[q].dir].state \in {"none", "present"}
    <3> SUFFICES ASSUME NEW q \in Path, meta'[q].exists
                 PROVE  meta'[q].dir \in 1 .. births' /\ files'[meta'[q].dir].state \in {"none", "present"}
      OBVIOUS
    <3>1. CASE q = p
      BY <1>1, <1>2, <1>4, <1>5, <3>1
    <3>2. CASE q # p
      <4>1. meta[q].exists /\ meta'[q].dir = meta[q].dir
        BY <1>7, <3>2
      <4>2. files[meta[q].dir].state \in {"none", "present"}
        BY <4>1 DEF FileInv, Placed
      <4> QED
        BY <1>1, <1>2, <1>4, <1>5, <4>1, <4>2
    <3> QED
      BY <3>1, <3>2
  <2>3. \A q, r \in Path : meta'[q].exists /\ meta'[r].exists /\ q # r => meta'[q].dir # meta'[r].dir
    <3>1. \A q, r \in Path : meta[q].exists /\ meta[r].exists /\ q # r => meta[q].dir # meta[r].dir
      BY DEF FileInv, Placed
    <3> QED
      BY <1>2, <1>5, <1>7, <3>1
  <2>4. \A e \in Dir : files'[e].frames # <<>> => \E q \in Path : meta'[q].exists /\ meta'[q].dir = e
    <3> SUFFICES ASSUME NEW e \in Dir, files'[e].frames # <<>>
                 PROVE  \E q \in Path : meta'[q].exists /\ meta'[q].dir = e
      OBVIOUS
    <3>1. CASE e = d
      BY <1>2, <3>1
    <3>2. CASE e # d
      <4>1. PICK q \in Path : meta[q].exists /\ meta[q].dir = e
        BY <1>4, <3>2 DEF FileInv, Placed
      <4> QED
        BY <1>2, <1>7, <4>1
    <3> QED
      BY <3>1, <3>2
  <2> QED
    BY <2>1, <2>2, <2>3, <2>4 DEF Placed
<1>10. \A x \in Client : /\ op[x].pc # "idle" => /\ op[x].path \in Path /\ op[x].path # p
                                                 /\ op[x].streamMeta.dir \in Dir /\ op[x].streamMeta.dir # d
                         /\ OpPlaced(op[x], meta) /\ OpInStep(op[x], meta, files) /\ op[x] \in OpRecord
  <2> TAKE x \in Client
  <2>1. OpPlaced(op[x], meta) /\ OpInStep(op[x], meta, files) /\ op[x] \in OpRecord
    BY <1>5 DEF FileInv
  <2> QED
    BY <1>2, <1>5, <2>1 DEF OpPlaced, SameStream
<1>11. \A x \in Client : OpPlaced(op'[x], meta') /\ OpInStep(op'[x], meta', files')
  <2> TAKE x \in Client
  <2>1. CASE x = c
    <3>1. SameStream(op'[c].streamMeta, meta'[p])
      BY <1>3 DEF SameStream
    <3>2. OpPlaced(op'[c], meta')
      BY <1>2, <1>3, <3>1 DEF OpPlaced
    <3>3. OpInStep(op'[c], meta', files')
      BY <1>3 DEF OpInStep, Stored
    <3> QED
      BY <2>1, <3>2, <3>3
  <2>2. CASE x # c
    <3>1. op'[x] = Flushed(op[x])
      BY <1>3, <2>2 DEF OthersFlush
    <3>2. PICK M : M = meta
      OBVIOUS
    <3>3. PICK M2 : M2 = meta'
      OBVIOUS
    <3>4. PICK F2 : F2 = files'
      OBVIOUS
    <3>5. op[x].pc # "idle" => /\ SameStream(M2[op[x].path], meta[op[x].path])
                               /\ M2[op[x].path].tail = meta[op[x].path].tail
                               /\ F2[op[x].streamMeta.dir] = files[op[x].streamMeta.dir]
      BY <1>2, <1>4, <1>10, <3>3, <3>4
    <3>6. OpPlaced(Flushed(op[x]), M2) /\ OpInStep(Flushed(op[x]), M2, F2)
      BY <1>10, <3>5, OpElsewhere
    <3> QED
      BY <3>1, <3>3, <3>4, <3>6
  <2> QED
    BY <2>1, <2>2
<1>12. \A x \in Client \ {c} : /\ op'[x].path = op[x].path /\ op'[x].kind = op[x].kind
                               /\ op'[x].pc = op[x].pc \/ (op[x].pc = "put" /\ op'[x].pc = "committed")
  BY <1>3, <1>5, FlushedTyped DEF OthersFlush
<1>13. OneWriter'
  <2>1. \A x \in Client \ {c} : Writing(op'[x]) => Writing(op[x])
    BY <1>12 DEF Writing
  <2>2. ~Writing(op'[c])
    BY <1>3 DEF Writing
  <2> QED
    BY <1>12, <2>1, <2>2 DEF FileInv, OneWriter
<1>14. InStep'
  <2> SUFFICES ASSUME NEW q \in Path, meta'[q].exists, Unmoved(q)'
               PROVE  /\ Len(files'[meta'[q].dir].frames) = meta'[q].tail - Base(meta'[q])
                      /\ files'[meta'[q].dir].synced = Len(files'[meta'[q].dir].frames)
    BY DEF InStep
  <2>1. CASE q = p
    <3>1. Len(files'[d].frames) \in Nat
      BY <1>4, FileFacts
    <3> QED
      BY <1>2, <1>4, <1>5, <2>1, <3>1
  <2>2. CASE q # p
    <3>1. meta[q].exists /\ meta[q].dir \in Dir /\ meta[q].dir # d
      BY <1>5, <1>7, <2>2
    <3>2. Unmoved(q)
      <4>1. op[c].pc # "fsync"
        BY <1>2
      <4> QED
        BY <1>12, <4>1 DEF Unmoved
    <3>3. /\ Len(files[meta[q].dir].frames) = meta[q].tail - Base(meta[q])
          /\ files[meta[q].dir].synced = Len(files[meta[q].dir].frames)
      BY <3>1, <3>2 DEF FileInv, InStep
    <3>4. files'[meta[q].dir] = files[meta[q].dir] /\ meta'[q].dir = meta[q].dir
          /\ meta'[q].tail = meta[q].tail /\ Base(meta'[q]) = Base(meta[q])
      BY <1>4, <1>7, <2>2, <3>1
    <3> QED
      BY <3>3, <3>4
  <2> QED
    BY <2>1, <2>2
<1>15. AckedHeld'
  <2> SUFFICES ASSUME NEW a \in acked
               PROVE  /\ a \in AckRecord /\ a.dir <= births'
                      /\ \A q \in Path : meta'[q].exists /\ meta'[q].dir = a.dir =>
                           Held(files', a.dir, a.offset - Base(meta'[q]), [data |-> a.data, by |-> a.by])
    BY <1>4 DEF AckedHeld
  <2>1. /\ a \in AckRecord /\ a.dir <= births
        /\ \A q \in Path : meta[q].exists /\ meta[q].dir = a.dir =>
             Held(files, a.dir, a.offset - Base(meta[q]), [data |-> a.data, by |-> a.by])
    BY DEF FileInv, AckedHeld
  <2>2. a.dir \in Nat
    BY <2>1 DEF AckRecord
  <2>3. a.dir <= births' /\ a.dir # d
    BY <1>1, <1>2, <1>5, <2>1, <2>2
  <2>4. ASSUME NEW q \in Path, meta'[q].exists, meta'[q].dir = a.dir
        PROVE  Held(files', a.dir, a.offset - Base(meta'[q]), [data |-> a.data, by |-> a.by])
    <3>1. q # p
      BY <1>2, <2>3, <2>4
    <3>2. meta[q].exists /\ meta[q].dir = a.dir /\ a.dir \in Dir /\ Base(meta'[q]) = Base(meta[q])
      BY <1>5, <1>7, <2>4, <3>1
    <3>3. files'[a.dir] = files[a.dir]
      BY <1>4, <2>3, <3>2
    <3> QED
      BY <2>1, <3>2, <3>3 DEF Held
  <2> QED
    BY <2>1, <2>3, <2>4
<1> QED
  BY <1>6, <1>8, <1>9, <1>11, <1>13, <1>14, <1>15 DEF FileInv

----------------------------------------------------------------------------
(* Crash and recovery *)

\* Of a stream's file at most the last frame is not synced.
LEMMA SyncedFacts ==
  ASSUME FileInv, NEW p \in Path, meta[p].exists, NEW d, d = meta[p].dir
  PROVE  d \in Dir /\ files[d].synced <= Len(files[d].frames) /\ files[d].synced \in Nat
         /\ Len(files[d].frames) \in Nat
<1>1. d \in Dir
  BY FileBounds DEF FileInv, FileTypeOK, Placed, Dir
<1>2. files[d].synced \in Nat /\ Len(files[d].frames) \in Nat
  BY <1>1, FileFacts DEF FileInv, FileTypeOK
<1>3. CASE Unmoved(p)
  BY <1>1, <1>2, <1>3 DEF FileInv, InStep
<1>4. CASE ~Unmoved(p)
  <2>1. PICK c \in Client : op[c].path = p /\ op[c].pc = "fsync"
    BY <1>4 DEF Unmoved
  <2>2. OpPlaced(op[c], meta) /\ OpInStep(op[c], meta, files)
    BY DEF FileInv
  <2>3. op[c].streamMeta.dir = d
    BY <2>1, <2>2 DEF OpPlaced, SameStream
  <2>4. files[d].synced = Len(files[d].frames) - 1
    BY <2>1, <2>2, <2>3 DEF OpInStep
  <2> QED
    BY <1>1, <1>2, <2>4
<1> QED
  BY <1>3, <1>4

\* What a crash may leave of a file.
LEMMA FileCut ==
  ASSUME NEW f, IsFile(f), NEW g,
         \/ f.synced < Len(f.frames) /\ g = [f EXCEPT !.frames = SubSeq(f.frames, 1, f.synced)]
         \/ g = [f EXCEPT !.synced = Len(f.frames)]
  PROVE  /\ IsFile(g) /\ g.state = f.state /\ g.synced = Len(g.frames)
         /\ Len(g.frames) <= Len(f.frames) /\ (f.synced <= Len(f.frames) => f.synced <= Len(g.frames))
         /\ \A k \in 1 .. Len(g.frames) : g.frames[k] = f.frames[k]
<1>1. PICK T : f \in FileRecord(T)
  BY DEF IsFile
<1>2. f.frames \in Seq(T) /\ f.synced \in Nat /\ Len(f.frames) \in Nat
  BY <1>1 DEF FileRecord
<1>3. CASE f.synced < Len(f.frames) /\ g = [f EXCEPT !.frames = SubSeq(f.frames, 1, f.synced)]
  <2>1. PICK s : s = SubSeq(f.frames, 1, f.synced)
    OBVIOUS
  <2>2. s \in Seq(T) /\ Len(s) = f.synced /\ \A k \in 1 .. f.synced : s[k] = f.frames[k]
    <3>1. \A k \in 1 .. f.synced : f.frames[k] \in T
      BY <1>2, <1>3
    <3> QED
      BY <1>2, <1>3, <2>1, <3>1
  <2>3. g = [f EXCEPT !.frames = s]
    BY <1>3, <2>1
  <2>4. g \in FileRecord(T) /\ g.frames = s /\ g.synced = f.synced /\ g.state = f.state
    BY <1>1, <2>2, <2>3 DEF FileRecord
  <2>5. IsFile(g)
    BY <2>4 DEF IsFile
  <2> QED
    BY <1>2, <1>3, <2>2, <2>4, <2>5
<1>4. CASE g = [f EXCEPT !.synced = Len(f.frames)]
  <2>1. g \in FileRecord(T) /\ g.frames = f.frames /\ g.synced = Len(f.frames) /\ g.state = f.state
    BY <1>1, <1>2, <1>4 DEF FileRecord
  <2>2. IsFile(g)
    BY <2>1 DEF IsFile
  <2> QED
    BY <1>2, <2>1, <2>2
<1> QED
  BY <1>3, <1>4

\* With nothing to collect, recovery is the reconciliation and the recount.
LEMMA NothingCollected ==
  ASSUME NEW db, NEW F, NEW S, S = Recounted(Reconciled(db, F)),
         {p \in Path : S[p].softDeleted /\ S[p].refCount = 0} = {}
  PROVE  Recovered(db, F) = S
<1> DEFINE C == {p \in Path : S[p].softDeleted /\ S[p].refCount = 0}
           pick(s) == CHOOSE x \in s : TRUE
           body(f) == [s \in SUBSET C |->
                         IF s = {} THEN S ELSE DeleteWithCascade(f[s \ {pick(s)}], pick(s))]
           it == CHOOSE f : f = body(f)
<1>1. Recovered(db, F) = it[C]
  BY DEF Recovered, FoldSet, MapThenFoldSet
<1>2. C = {}
  OBVIOUS
<1> HIDE DEF C
<1>3. body([s \in SUBSET C |-> S]) = [s \in SUBSET C |-> S]
  BY <1>2
<1>4. \E f : f = body(f)
  BY <1>3
<1> HIDE DEF body
<1>5. it = body(it)
  BY <1>4, Zenon
<1>6. body(it)[{}] = S
  BY DEF body
<1> HIDE DEF it
<1> QED
  BY <1>1, <1>2, <1>5, <1>6

\* The record that recovery leaves of a stream whose file is there.
LEMMA RecoveredRecords ==
  ASSUME FileInv, NEW F, \A e \in Dir : IsFile(F[e]), NEW M, M = Recovered(disk, F)
  PROVE  /\ M \in [Path -> MetaRecord]
         /\ \A p \in Path : M[p].exists =>
              /\ SameStream(M[p], meta[p]) /\ F[M[p].dir].state = "present"
              /\ M[p].tail = Base(M[p]) + Len(F[M[p].dir].frames)
              /\ M[p].producers = disk[p].producers /\ M[p].closed = disk[p].closed
         /\ \A p \in Path : meta[p].exists /\ F[meta[p].dir].state = "present" => M[p].exists
<1>1. disk \in [Path -> MetaRecord] /\ meta \in [Path -> MetaRecord]
  BY DEF FileInv, FileTypeOK
<1>2. \A p \in Path : SameStream(disk[p], meta[p])
  BY DEF FileInv, Placed
<1>3. \A p \in Path : disk[p].exists => meta[p].exists /\ disk[p].dir \in Dir
  BY <1>2, FileBounds DEF FileInv, FileTypeOK, Placed, SameStream, Dir
<1>4. PICK R : R = Reconciled(disk, F)
  OBVIOUS
<1> DEFINE there(p) == disk[p].exists /\ F[disk[p].dir].state = "present"
           end(p) == Base(disk[p]) + Len(F[disk[p].dir].frames)
<1>5. \A p \in Path : R[p] = IF there(p) THEN [disk[p] EXCEPT !.tail = end(p)] ELSE NoMeta
  BY <1>4 DEF Reconciled
<1>6. \A p \in Path : there(p) => end(p) \in Nat
  <2> TAKE p \in Path
  <2>1. Base(disk[p]) \in Nat
    BY <1>1, RecordFacts
  <2>2. there(p) => Len(F[disk[p].dir].frames) \in Nat
    BY <1>3, FileFacts
  <2> QED
    BY <2>1, <2>2
<1> HIDE DEF there, end
<1>7. \A p \in Path : /\ R[p] \in MetaRecord /\ (R[p].exists <=> there(p))
                      /\ there(p) => /\ SameStream(R[p], disk[p]) /\ R[p].tail = end(p)
                                     /\ R[p].producers = disk[p].producers /\ R[p].closed = disk[p].closed
  <2> TAKE p \in Path
  <2>1. CASE there(p)
    <3>1. PICK s \in MetaRecord : s = disk[p]
      BY <1>1
    <3>2. PICK t \in Nat : t = end(p)
      BY <1>6, <2>1
    <3>3. R[p] = [s EXCEPT !.tail = t]
      BY <1>5, <2>1, <3>1, <3>2
    <3>4. R[p] \in MetaRecord /\ SameStream(R[p], s) /\ R[p].tail = t
          /\ R[p].producers = s.producers /\ R[p].closed = s.closed
      BY <3>3 DEF MetaRecord, SameStream
    <3>5. R[p].exists
      BY <2>1, <3>1, <3>4 DEF there, SameStream
    <3> QED
      BY <2>1, <3>1, <3>2, <3>4, <3>5
  <2>2. CASE ~there(p)
    <3>1. R[p] = NoMeta
      BY <1>5, <2>2
    <3>2. NoMeta \in MetaRecord
      BY NamesTyped
    <3>3. ~NoMeta.exists
      BY DEF NoMeta
    <3> QED
      BY <2>2, <3>1, <3>2, <3>3
  <2> QED
    BY <2>1, <2>2
<1>8. PICK S : S = Recounted(R)
  OBVIOUS
<1>9. \A p \in Path : Cardinality(ForksIn(R, p)) \in Nat
  <2> TAKE p \in Path
  <2>1. ForksIn(R, p) \subseteq {q \in Path : meta[q].exists}
    BY <1>3, <1>7 DEF ForksIn, there
  <2>2. IsFiniteSet(ForksIn(R, p))
    BY <2>1, FS_Subset DEF FileInv, FinitelyMany
  <2> QED
    BY <2>2, FS_CardinalityType
<1>10. S = [p \in Path |-> IF R[p].exists THEN [R[p] EXCEPT !.refCount = Cardinality(ForksIn(R, p))] ELSE R[p]]
  BY <1>8 DEF Recounted
<1>11. \A p \in Path : /\ S[p] \in MetaRecord /\ SameStream(S[p], R[p]) /\ S[p].tail = R[p].tail
                       /\ S[p].producers = R[p].producers /\ S[p].closed = R[p].closed
  <2> TAKE p \in Path
  <2>1. PICK k \in Nat : k = Cardinality(ForksIn(R, p))
    BY <1>9
  <2>2. PICK r \in MetaRecord : r = R[p]
    BY <1>7
  <2>3. S[p] = [r EXCEPT !.refCount = k] \/ S[p] = r
    BY <1>10, <2>1, <2>2
  <2>4. S[p] \in MetaRecord /\ SameStream(S[p], r) /\ S[p].tail = r.tail
        /\ S[p].producers = r.producers /\ S[p].closed = r.closed
    BY <2>3 DEF MetaRecord, SameStream
  <2> QED
    BY <2>2, <2>4
<1>12. S \in [Path -> MetaRecord]
  BY <1>10, <1>11
<1>13. {p \in Path : S[p].softDeleted /\ S[p].refCount = 0} = {}
  BY <1>11 DEF MetaRecord
<1>14. M = S
  <2>1. S = Recounted(Reconciled(disk, F))
    BY <1>4, <1>8
  <2> QED
    BY <1>13, <2>1, NothingCollected
<1>15. ASSUME NEW p \in Path, S[p].exists
       PROVE  /\ SameStream(S[p], meta[p]) /\ F[S[p].dir].state = "present"
              /\ S[p].tail = Base(S[p]) + Len(F[S[p].dir].frames)
              /\ S[p].producers = disk[p].producers /\ S[p].closed = disk[p].closed
  <2>1. there(p)
    BY <1>7, <1>11, <1>15 DEF SameStream
  <2>2. /\ SameStream(S[p], R[p]) /\ SameStream(R[p], disk[p]) /\ SameStream(disk[p], meta[p])
        /\ S[p].tail = end(p) /\ S[p].producers = disk[p].producers /\ S[p].closed = disk[p].closed
    BY <1>2, <1>7, <1>11, <2>1
  <2>3. SameStream(S[p], meta[p]) /\ S[p].dir = disk[p].dir /\ Base(S[p]) = Base(disk[p])
    BY <2>2 DEF SameStream, Base
  <2> QED
    BY <2>1, <2>2, <2>3 DEF there, end
<1>16. ASSUME NEW p \in Path, meta[p].exists, F[meta[p].dir].state = "present"
       PROVE  S[p].exists
  <2>1. there(p)
    BY <1>2, <1>16 DEF SameStream, there
  <2> QED
    BY <1>7, <1>11, <2>1 DEF SameStream
<1> QED
  BY <1>12, <1>14, <1>15, <1>16

LEMMA CrashEffect ==
  ASSUME FileInv, Crash
  PROVE  /\ meta' \in [Path -> MetaRecord] /\ disk' = meta'
         /\ \A p \in Path : meta'[p].exists =>
              /\ SameStream(meta'[p], meta[p]) /\ meta'[p].dir \in Dir
              /\ files'[meta'[p].dir].state = "present"
              /\ meta'[p].tail = Base(meta'[p]) + Len(files'[meta'[p].dir].frames)
              /\ files'[meta'[p].dir].synced = Len(files'[meta'[p].dir].frames)
              /\ files[meta'[p].dir].synced <= Len(files'[meta'[p].dir].frames)
              /\ meta'[p].producers = disk[p].producers /\ meta'[p].closed = disk[p].closed
         /\ files' = [d \in Dir |-> files'[d]]
         /\ \A d \in Dir : /\ IsFile(files'[d])
                           /\ files'[d].frames # <<>> => \E p \in Path : meta'[p].exists /\ meta'[p].dir = d
                           /\ Len(files'[d].frames) <= Len(files[d].frames)
                           /\ \A k \in 1 .. Len(files'[d].frames) : files'[d].frames[k] = files[d].frames[k]
         /\ op' = [c \in Client |-> IdleOp] /\ poll' = [w \in Waiter |-> IdlePoll]
         /\ crashes' = crashes + 1 /\ UNCHANGED <<births, writes, acked, shut>>
<1>1. PICK lost \in SUBSET {d \in Dir : files[d].synced < Len(files[d].frames)} :
        LET left == [d \in Dir |->
                       IF d \in lost
                       THEN [files[d] EXCEPT !.frames = SubSeq(@, 1, files[d].synced)]
                       ELSE [files[d] EXCEPT !.synced = Len(files[d].frames)]]
            M == Recovered(disk, left)
        IN /\ meta' = M /\ disk' = M
           /\ files' = [d \in Dir |-> IF \E p \in Path : M[p].exists /\ M[p].dir = d THEN left[d] ELSE Gone]
  BY DEF Crash
<1>2. PICK left : left = [d \in Dir |->
                            IF d \in lost
                            THEN [files[d] EXCEPT !.frames = SubSeq(files[d].frames, 1, files[d].synced)]
                            ELSE [files[d] EXCEPT !.synced = Len(files[d].frames)]]
  OBVIOUS
<1>3. /\ meta' = Recovered(disk, left) /\ disk' = meta'
      /\ files' = [d \in Dir |-> IF \E p \in Path : meta'[p].exists /\ meta'[p].dir = d THEN left[d] ELSE Gone]
  BY <1>1, <1>2
<1>4. \A d \in Dir : /\ IsFile(left[d]) /\ left[d].state = files[d].state /\ left[d].synced = Len(left[d].frames)
                     /\ Len(left[d].frames) <= Len(files[d].frames)
                     /\ files[d].synced <= Len(files[d].frames) => files[d].synced <= Len(left[d].frames)
                     /\ \A k \in 1 .. Len(left[d].frames) : left[d].frames[k] = files[d].frames[k]
  <2> TAKE d \in Dir
  <2>1. \/ /\ files[d].synced < Len(files[d].frames)
           /\ left[d] = [files[d] EXCEPT !.frames = SubSeq(files[d].frames, 1, files[d].synced)]
        \/ left[d] = [files[d] EXCEPT !.synced = Len(files[d].frames)]
    BY <1>1, <1>2
  <2>2. IsFile(files[d])
    BY DEF FileInv, FileTypeOK
  <2>3. PICK f : f = files[d]
    OBVIOUS
  <2>4. PICK g : g = left[d]
    OBVIOUS
  <2>5. /\ IsFile(g) /\ g.state = f.state /\ g.synced = Len(g.frames)
        /\ Len(g.frames) <= Len(f.frames) /\ (f.synced <= Len(f.frames) => f.synced <= Len(g.frames))
        /\ \A k \in 1 .. Len(g.frames) : g.frames[k] = f.frames[k]
    <3>1. \/ f.synced < Len(f.frames) /\ g = [f EXCEPT !.frames = SubSeq(f.frames, 1, f.synced)]
          \/ g = [f EXCEPT !.synced = Len(f.frames)]
      BY <2>1, <2>3, <2>4
    <3>2. IsFile(f)
      BY <2>2, <2>3
    <3> QED
      BY <3>1, <3>2, FileCut
  <2> QED
    BY <2>3, <2>4, <2>5
<1>5. PICK M : M = meta'
  OBVIOUS
<1>6. /\ M \in [Path -> MetaRecord]
      /\ \A p \in Path : M[p].exists =>
           /\ SameStream(M[p], meta[p]) /\ left[M[p].dir].state = "present"
           /\ M[p].tail = Base(M[p]) + Len(left[M[p].dir].frames)
           /\ M[p].producers = disk[p].producers /\ M[p].closed = disk[p].closed
  <2>1. M = Recovered(disk, left) /\ \A e \in Dir : IsFile(left[e])
    BY <1>3, <1>4, <1>5
  <2> QED
    BY <2>1, RecoveredRecords
<1>7. ASSUME NEW p \in Path, M[p].exists
      PROVE  M[p].dir \in Dir /\ files[M[p].dir].synced <= Len(files[M[p].dir].frames) /\ files'[M[p].dir] = left[M[p].dir]
  <2>1. meta[p].exists /\ meta[p].dir = M[p].dir
    BY <1>6, <1>7 DEF SameStream
  <2>2. PICK d : d = meta[p].dir
    OBVIOUS
  <2>3. d \in Dir /\ files[d].synced <= Len(files[d].frames)
    BY <2>1, <2>2, SyncedFacts
  <2>4. files'[d] = left[d]
    BY <1>3, <1>5, <1>7, <2>1, <2>2, <2>3
  <2> QED
    BY <2>1, <2>2, <2>3, <2>4
<1>8. \A p \in Path : M[p].exists =>
        /\ SameStream(M[p], meta[p]) /\ M[p].dir \in Dir /\ files'[M[p].dir].state = "present"
        /\ M[p].tail = Base(M[p]) + Len(files'[M[p].dir].frames)
        /\ files'[M[p].dir].synced = Len(files'[M[p].dir].frames)
        /\ files[M[p].dir].synced <= Len(files'[M[p].dir].frames)
        /\ M[p].producers = disk[p].producers /\ M[p].closed = disk[p].closed
  BY <1>4, <1>6, <1>7
<1>9. \A d \in Dir : /\ IsFile(files'[d])
                     /\ files'[d].frames # <<>> => \E p \in Path : meta'[p].exists /\ meta'[p].dir = d
                     /\ Len(files'[d].frames) <= Len(files[d].frames)
                     /\ \A k \in 1 .. Len(files'[d].frames) : files'[d].frames[k] = files[d].frames[k]
  <2> TAKE d \in Dir
  <2>1. CASE \E p \in Path : meta'[p].exists /\ meta'[p].dir = d
    <3>1. files'[d] = left[d]
      BY <1>3, <2>1
    <3> QED
      BY <1>4, <2>1, <3>1
  <2>2. CASE ~\E p \in Path : meta'[p].exists /\ meta'[p].dir = d
    <3>1. files'[d] = Gone
      BY <1>3, <2>2
    <3>2. Gone.frames = <<>> /\ IsFile(Gone)
      BY NamesTyped DEF Gone, NoFile
    <3>3. Len(files[d].frames) \in Nat /\ Len(<<>>) = 0
      BY FileFacts DEF FileInv, FileTypeOK
    <3> QED
      BY <3>1, <3>2, <3>3
  <2> QED
    BY <2>1, <2>2
<1>10. files' = [d \in Dir |-> files'[d]]
  BY <1>3
<1>11. /\ op' = [c \in Client |-> IdleOp] /\ poll' = [w \in Waiter |-> IdlePoll]
       /\ crashes' = crashes + 1 /\ UNCHANGED <<births, writes, acked, shut>>
  BY DEF Crash
<1> QED
  BY <1>3, <1>5, <1>6, <1>8, <1>9, <1>10, <1>11

LEMMA CrashKeeps ==
  ASSUME FileInv, Crash
  PROVE  FileInv'
<1>1. /\ meta' \in [Path -> MetaRecord] /\ disk' = meta'
      /\ \A p \in Path : meta'[p].exists =>
           /\ SameStream(meta'[p], meta[p]) /\ meta'[p].dir \in Dir
           /\ files'[meta'[p].dir].state = "present"
           /\ meta'[p].tail = Base(meta'[p]) + Len(files'[meta'[p].dir].frames)
           /\ files'[meta'[p].dir].synced = Len(files'[meta'[p].dir].frames)
           /\ files[meta'[p].dir].synced <= Len(files'[meta'[p].dir].frames)
  BY CrashEffect
<1>2. /\ files' = [d \in Dir |-> files'[d]]
      /\ \A d \in Dir : /\ IsFile(files'[d])
                        /\ files'[d].frames # <<>> => \E p \in Path : meta'[p].exists /\ meta'[p].dir = d
                        /\ \A k \in 1 .. Len(files'[d].frames) : files'[d].frames[k] = files[d].frames[k]
  BY CrashEffect
<1>3. /\ op' = [c \in Client |-> IdleOp] /\ poll' = [w \in Waiter |-> IdlePoll]
      /\ crashes' = crashes + 1 /\ UNCHANGED <<births, writes, acked, shut>>
  BY CrashEffect
<1>4. \A d \in Dir : Len(files'[d].frames) \in Nat /\ files'[d].synced \in Nat /\ files[d].synced \in Nat
  BY <1>2, FileFacts DEF FileInv, FileTypeOK
<1>5. \A p \in Path : meta'[p].exists => meta[p].exists /\ meta'[p].dir = meta[p].dir /\ Base(meta'[p]) = Base(meta[p])
  BY <1>1 DEF SameStream, Base
<1>6. FileTypeOK'
  <2>1. op' \in [Client -> OpRecord]
    BY <1>3, NamesTyped
  <2>2. PollTypeOK'
    BY <1>3, NamesTyped DEF PollTypeOK, IdlePoll
  <2>3. births' \in 0 .. MaxBirths /\ writes' \in Nat /\ crashes' \in Nat
    BY <1>3 DEF FileInv, FileTypeOK
  <2> QED
    BY <1>1, <1>2, <2>1, <2>2, <2>3 DEF FileTypeOK
<1>7. FinitelyMany'
  <2>1. {p \in Path : meta'[p].exists} \subseteq {p \in Path : meta[p].exists}
    BY <1>5
  <2> QED
    BY <2>1, FS_Subset DEF FileInv, FinitelyMany
<1>8. Placed'
  <2>1. \A p \in Path : SameStream(disk'[p], meta'[p])
    BY <1>1 DEF SameStream
  <2>2. \A p \in Path : meta'[p].exists => meta'[p].dir \in 1 .. births'
    BY <1>3, <1>5 DEF FileInv, Placed
  <2>3. \A p, q \in Path : meta'[p].exists /\ meta'[q].exists /\ p # q => meta'[p].dir # meta'[q].dir
    BY <1>5 DEF FileInv, Placed
  <2> QED
    BY <1>1, <1>2, <2>1, <2>2, <2>3 DEF Placed
<1>9. \A c \in Client : OpPlaced(op'[c], meta') /\ OpInStep(op'[c], meta', files')
  BY <1>3 DEF OpPlaced, OpInStep, Stored, IdleOp
<1>10. OneWriter'
  BY <1>3 DEF OneWriter, Writing, IdleOp
<1>11. InStep'
  <2> SUFFICES ASSUME NEW q \in Path, meta'[q].exists
               PROVE  /\ Len(files'[meta'[q].dir].frames) = meta'[q].tail - Base(meta'[q])
                      /\ files'[meta'[q].dir].synced = Len(files'[meta'[q].dir].frames)
    BY DEF InStep
  <2>1. Base(meta'[q]) \in Nat
    BY <1>1, RecordFacts
  <2> QED
    BY <1>1, <1>4, <2>1
<1>12. AckedHeld'
  <2> SUFFICES ASSUME NEW a \in acked
               PROVE  /\ a \in AckRecord /\ a.dir <= births
                      /\ \A q \in Path : meta'[q].exists /\ meta'[q].dir = a.dir =>
                           Held(files', a.dir, a.offset - Base(meta'[q]), [data |-> a.data, by |-> a.by])
    BY <1>3 DEF AckedHeld
  <2>1. /\ a \in AckRecord /\ a.dir <= births
        /\ \A q \in Path : meta[q].exists /\ meta[q].dir = a.dir =>
             Held(files, a.dir, a.offset - Base(meta[q]), [data |-> a.data, by |-> a.by])
    BY DEF FileInv, AckedHeld
  <2>2. ASSUME NEW q \in Path, meta'[q].exists, meta'[q].dir = a.dir
        PROVE  Held(files', a.dir, a.offset - Base(meta'[q]), [data |-> a.data, by |-> a.by])
    <3>1. meta[q].exists /\ meta[q].dir = a.dir /\ a.dir \in Dir /\ Base(meta'[q]) = Base(meta[q])
      BY <1>1, <1>5, <2>2
    <3>2. PICK k : k = a.offset - Base(meta[q])
      OBVIOUS
    <3>3. k \in 1 .. files[a.dir].synced /\ files[a.dir].frames[k] = [data |-> a.data, by |-> a.by]
      BY <2>1, <3>1, <3>2 DEF Held
    <3>4. /\ files[a.dir].synced <= files'[a.dir].synced
          /\ files'[a.dir].synced = Len(files'[a.dir].frames)
      BY <1>1, <2>2
    <3>5. k \in 1 .. files'[a.dir].synced
      BY <1>4, <3>1, <3>3, <3>4
    <3>6. files'[a.dir].frames[k] = files[a.dir].frames[k]
      BY <1>2, <3>1, <3>4, <3>5
    <3> QED
      BY <3>1, <3>2, <3>3, <3>5, <3>6 DEF Held
  <2> QED
    BY <2>1, <2>2
<1> QED
  BY <1>6, <1>7, <1>8, <1>9, <1>10, <1>11, <1>12 DEF FileInv

----------------------------------------------------------------------------
(* All steps *)

\* The steps that are left when nothing is deleted, rolled back or expired.
Step ==
    \/ \E c \in Client, p \in Path : \E o \in CreateRequest : CreateStart(c, p, o)
    \/ \E c \in Client, p \in Path : \E h \in Headers \cup {NoHeaders}, close \in BOOLEAN :
          AppendStart(c, p, h, close)
    \/ \E c \in Client, p \in Path : CloseStream(c, p)
    \/ \E c \in Client, p \in Path : \E h \in Headers : CloseStreamWithProducer(c, p, h)
    \/ \E c \in Client : \/ OpenDone(c) \/ InitialAppend(c) \/ InitialDone(c) \/ WriteDone(c)
                         \/ FsyncDone(c) \/ AppendDone(c) \/ CloseDone(c)
    \/ \E w \in Waiter : Timeout(w) \/ \E p \in Path : WaitForMessages(w, p)
    \/ Commit \/ Crash

LEMMA StepsLeft ==
  ASSUME Permanent, FileInv, Next
  PROVE  Step
<1>1. \A p \in Path : meta[p].due = FALSE /\ meta[p].expiry = "none"
  BY DEF FileInv, FileTypeOK, MetaRecord
<1>2. "delete" \notin Operations /\ "createFails" \notin Operations
  BY DEF Permanent
<1>3. \A c \in Client, p \in Path : ~Delete(c, p) /\ ~Lookup(c, p) /\ ~TouchAccess(c, p) /\ ~StreamAges(p)
  BY <1>1, <1>2 DEF Delete, Lookup, TouchAccess, StreamAges
<1>4. \A p \in Path : ~StreamAges(p)
  BY <1>1 DEF StreamAges
<1>5. \A c \in Client, p \in Path : \A o \in CreateRequest : ~CreateFails(c, p, o)
  BY <1>1 DEF CreateFails
<1>6. \A c \in Client : ~OpenFails(c)
  BY <1>2 DEF OpenFails
<1>7. \A c \in Client : ~AppendFails(c)
  <2> SUFFICES ASSUME NEW c \in Client, AppendFails(c) PROVE FALSE
    OBVIOUS
  <2>1. op[c].pc # "idle" /\ files[op[c].streamMeta.dir].state \in {"unlinked", "failed"}
    BY DEF AppendFails
  <2>2. files[op[c].streamMeta.dir].state \in {"none", "present"}
    BY <2>1, OpFacts
  <2> QED
    BY <2>1, <2>2
<1> QED
  BY <1>3, <1>4, <1>5, <1>6, <1>7 DEF Next, Step

LEMMA FileStutters ==
  ASSUME FileInv, UNCHANGED vars
  PROVE  FileInv'
  BY DEF vars, FileInv, FileTypeOK, PollTypeOK, FinitelyMany, Placed, OneWriter, InStep, Unmoved, AckedHeld

LEMMA FileStep ==
  ASSUME Permanent, FileInv, [Next]_vars
  PROVE  FileInv'
<1>1. CASE UNCHANGED vars
  BY <1>1, FileStutters
<1>2. CASE Next
  <2>0. Step
    BY <1>2, StepsLeft
  <2>1. ASSUME NEW c \in Client, NEW p \in Path, NEW o \in CreateRequest, CreateStart(c, p, o)
        PROVE  FileInv'
    BY <2>1, CreateStartKeeps
  <2>2. ASSUME NEW c \in Client, NEW p \in Path, NEW h \in Headers \cup {NoHeaders},
               NEW close \in BOOLEAN, AppendStart(c, p, h, close)
        PROVE  FileInv'
    BY <2>2, AppendStartKeeps
  <2>3. ASSUME NEW c \in Client, NEW p \in Path, CloseStream(c, p)
        PROVE  FileInv'
    BY <2>3, CloseStreamKeeps
  <2>4. ASSUME NEW c \in Client, NEW p \in Path, NEW h \in Headers, CloseStreamWithProducer(c, p, h)
        PROVE  FileInv'
    BY <2>4, CloseWithProducerKeeps
  <2>5. ASSUME NEW c \in Client, \/ OpenDone(c) \/ InitialAppend(c) \/ InitialDone(c) \/ WriteDone(c)
                                 \/ FsyncDone(c) \/ AppendDone(c) \/ CloseDone(c)
        PROVE  FileInv'
    BY <2>5, OpenDoneKeeps, InitialAppendKeeps, InitialDoneKeeps, WriteDoneKeeps, FsyncDoneKeeps,
       AppendDoneKeeps, CloseDoneKeeps
  <2>6. ASSUME NEW w \in Waiter, Timeout(w) \/ \E p \in Path : WaitForMessages(w, p)
        PROVE  FileInv'
    BY <2>6, PollStepKeeps
  <2> QED
    BY <2>0, <2>1, <2>2, <2>3, <2>4, <2>5, <2>6, CommitKeeps, CrashKeeps DEF Step
<1> QED
  BY <1>1, <1>2

\* The inductive invariant: types, the place of every stream and operation,
\* the append lock, what append() remembers between its awaits, and what was
\* answered for.
THEOREM FileInvariant == Permanent => (Spec => []FileInv)
<1> SUFFICES ASSUME Permanent PROVE Spec => []FileInv
  OBVIOUS
<1>1. Init => FileInv
  BY FileInitially
<1>2. FileInv /\ [Next]_vars => FileInv'
  BY FileStep
<1> QED
  BY <1>1, <1>2, PTL DEF Spec

LEMMA FileInvImplies ==
  ASSUME FileInv
  PROVE  OffsetsMatchFiles /\ AckedStaysPut
<1>1. OffsetsMatchFiles
  <2> SUFFICES ASSUME NEW p \in Path, meta[p].exists, ~Busy(meta[p].dir)
               PROVE  meta[p].tail = Base(meta[p]) + Len(files[meta[p].dir].frames)
    BY DEF OffsetsMatchFiles
  <2>1. Unmoved(p)
    <3> SUFFICES ASSUME NEW c \in Client, op[c].path = p, op[c].pc = "fsync" PROVE FALSE
      BY DEF Unmoved
    <3>1. op[c].streamMeta.dir = meta[p].dir
      BY DEF FileInv, OpPlaced, SameStream
    <3> QED
      BY <3>1 DEF Busy
  <2>2. Len(files[meta[p].dir].frames) = meta[p].tail - Base(meta[p])
    BY <2>1 DEF FileInv, InStep
  <2>3. meta[p].tail \in Nat /\ Base(meta[p]) \in Nat
    BY RecordFacts DEF FileInv, FileTypeOK
  <2> QED
    BY <2>2, <2>3
<1>2. AckedStaysPut
  <2> SUFFICES ASSUME NEW p \in Path, NEW a \in acked, meta[p].exists, meta[p].dir = a.dir
               PROVE  /\ a.offset - Base(meta[p]) \in DOMAIN files[a.dir].frames
                      /\ files[a.dir].frames[a.offset - Base(meta[p])] = [data |-> a.data, by |-> a.by]
    BY DEF AckedStaysPut
  <2>1. Held(files, a.dir, a.offset - Base(meta[p]), [data |-> a.data, by |-> a.by])
    BY DEF FileInv, AckedHeld
  <2>2. PICK k : k = a.offset - Base(meta[p])
    OBVIOUS
  <2>3. PICK d : d = meta[p].dir
    OBVIOUS
  <2>4. d \in Dir /\ files[d].synced <= Len(files[d].frames) /\ files[d].synced \in Nat
        /\ Len(files[d].frames) \in Nat
    BY <2>3, SyncedFacts
  <2>5. DOMAIN files[d].frames = 1 .. Len(files[d].frames)
    BY <2>4, FileFacts DEF FileInv, FileTypeOK
  <2>6. k \in 1 .. files[d].synced /\ files[d].frames[k] = [data |-> a.data, by |-> a.by]
    BY <2>1, <2>2, <2>3 DEF Held
  <2> QED
    BY <2>2, <2>3, <2>4, <2>5, <2>6
<1> QED
  BY <1>1, <1>2

\* Whenever no append is between its write and its sync, the offset that
\* append() and recover() put is the end of the segment file, through crashes
\* at any await.
THEOREM OffsetsStayExact == Permanent => (Spec => []OffsetsMatchFiles)
<1> SUFFICES ASSUME Permanent PROVE Spec => []OffsetsMatchFiles
  OBVIOUS
<1>1. FileInv => OffsetsMatchFiles
  BY FileInvImplies
<1> QED
  BY <1>1, FileInvariant, PTL

\* What append() and create() have answered for stays in the file at the
\* offset the client was told, whatever else is appended and whenever the
\* process dies.
THEOREM AnsweredStaysPut == Permanent => (Spec => []AckedStaysPut)
<1> SUFFICES ASSUME Permanent PROVE Spec => []AckedStaysPut
  OBVIOUS
<1>1. FileInv => AckedStaysPut
  BY FileInvImplies
<1> QED
  BY <1>1, FileInvariant, PTL

----------------------------------------------------------------------------
(* Long-polls are woken *)

\* The operation has put a new tail and is going to tell the long-polls of p.
Wakes(o, p) == Writing(o) /\ o.path = p /\ o.pc \in {"put", "committed"}

\* The operation has put closed and is going to tell the long-polls of p.
Closes(o, p) ==
    /\ o.path = p /\ o.pc \in {"put", "committed"}
    /\ o.kind = "close" \/ (o.kind = "append" /\ o.close)

PollFine(q, M, O) ==
    q.state = "waiting" =>
        /\ q.path \in Path /\ M[q.path].exists /\ M[q.path].dir = q.dir
        /\ q.offset \in Nat /\ q.offset <= M[q.path].tail
        /\ M[q.path].tail # q.offset => \E c \in Client : Wakes(O[c], q.path)
        /\ M[q.path].closed => \E c \in Client : Closes(O[c], q.path)

\* No PUT creates a closed stream, and an append starts from an open one.
OpOpen(o) ==
    /\ o.kind # "seal" /\ (o.kind = "create" => ~o.close)
    /\ o.pc \in {"write", "fsync"} => ~o.streamMeta.closed

PollInv ==
    /\ \A c \in Client : OpOpen(op[c])
    /\ \A w \in Waiter : PollFine(poll[w], meta, op)

LEMMA WakesFlushed ==
  ASSUME NEW o \in OpRecord
  PROVE  /\ \A p \in Path : Wakes(o, p) => Wakes(Flushed(o), p)
         /\ \A p \in Path : Closes(o, p) => Closes(Flushed(o), p)
         /\ OpOpen(o) => OpOpen(Flushed(o))
<1>1. PICK n : n = Flushed(o)
  OBVIOUS
<1>2. /\ n.pc = (IF o.pc = "put" THEN "committed" ELSE o.pc) /\ n.kind = o.kind /\ n.path = o.path
      /\ n.streamMeta = o.streamMeta /\ n.close = o.close
  BY <1>1, FlushedTyped
<1>3. /\ \A p \in Path : Wakes(o, p) => Wakes(n, p)
      /\ \A p \in Path : Closes(o, p) => Closes(n, p)
      /\ OpOpen(o) => OpOpen(n)
  BY <1>2 DEF Wakes, Closes, OpOpen, Writing
<1> QED
  BY <1>1, <1>3

\* What a step of operation c owes a long-poll that goes on waiting at p from
\* offset k.
StillOwed(c, p, k) ==
    /\ SameStream(meta'[p], meta[p]) /\ meta[p].tail <= meta'[p].tail
    /\ meta'[p].tail # k =>
         \/ Wakes(op'[c], p)
         \/ meta'[p].tail = meta[p].tail /\ (Wakes(op[c], p) => Wakes(op'[c], p))
    /\ meta'[p].closed =>
         \/ Closes(op'[c], p)
         \/ meta[p].closed /\ (Closes(op[c], p) => Closes(op'[c], p))

LEMMA PollsMove ==
  ASSUME FileInv, FileInv', PollInv, NEW c \in Client, OpOpen(op'[c]),
         \A x \in Client \ {c} : op'[x] = op[x] \/ op'[x] = Flushed(op[x]),
         \A w \in Waiter : poll'[w] = poll[w] \/ poll'[w].state # "waiting",
         \A w \in Waiter : (/\ poll[w].state = "waiting" /\ poll'[w] = poll[w]
                            /\ poll[w].path \in Path /\ meta[poll[w].path].exists)
                           => StillOwed(c, poll[w].path, poll[w].offset)
  PROVE  PollInv'
<1>1. \A x \in Client : op[x] \in OpRecord
  BY DEF FileInv, FileTypeOK
<1>2. \A x \in Client : OpOpen(op'[x])
  BY <1>1, WakesFlushed DEF PollInv
<1>3. \A x \in Client \ {c} : \A p \in Path : /\ Wakes(op[x], p) => Wakes(op'[x], p)
                                              /\ Closes(op[x], p) => Closes(op'[x], p)
  BY <1>1, WakesFlushed
<1>4. ASSUME NEW w \in Waiter, poll'[w].state = "waiting"
      PROVE  /\ poll'[w].path \in Path /\ meta'[poll'[w].path].exists
             /\ meta'[poll'[w].path].dir = poll'[w].dir
             /\ poll'[w].offset \in Nat /\ poll'[w].offset <= meta'[poll'[w].path].tail
             /\ meta'[poll'[w].path].tail # poll'[w].offset => \E x \in Client : Wakes(op'[x], poll'[w].path)
             /\ meta'[poll'[w].path].closed => \E x \in Client : Closes(op'[x], poll'[w].path)
  <2>1. PICK p : p = poll[w].path
    OBVIOUS
  <2>2. PICK k : k = poll[w].offset
    OBVIOUS
  <2>3. poll'[w] = poll[w] /\ poll[w].state = "waiting"
    BY <1>4
  <2>4. /\ p \in Path /\ meta[p].exists /\ meta[p].dir = poll[w].dir /\ k \in Nat /\ k <= meta[p].tail
        /\ meta[p].tail # k => \E x \in Client : Wakes(op[x], p)
        /\ meta[p].closed => \E x \in Client : Closes(op[x], p)
    BY <2>1, <2>2, <2>3 DEF PollInv, PollFine
  <2>5. StillOwed(c, p, k)
    BY <2>1, <2>2, <2>3, <2>4
  <2>6. meta[p].tail \in Nat /\ meta'[p].tail \in Nat
    BY <2>4, RecordFacts DEF FileInv, FileTypeOK
  <2>7. meta'[p].exists /\ meta'[p].dir = poll[w].dir /\ k <= meta'[p].tail
    BY <2>4, <2>5, <2>6 DEF StillOwed, SameStream
  <2>8. meta'[p].tail # k => \E x \in Client : Wakes(op'[x], p)
    BY <1>3, <2>4, <2>5 DEF StillOwed
  <2>9. meta'[p].closed => \E x \in Client : Closes(op'[x], p)
    BY <1>3, <2>4, <2>5 DEF StillOwed
  <2> QED
    BY <2>1, <2>2, <2>3, <2>4, <2>7, <2>8, <2>9
<1> QED
  BY <1>2, <1>4 DEF PollInv, PollFine

\* A step that leaves records and long-polls alone, of an operation that was not
\* about to tell anybody.
LEMMA PollsUnmoved ==
  ASSUME FileInv, FileInv', PollInv, NEW c \in Client, OpOpen(op'[c]),
         op[c].pc \notin {"put", "committed"},
         \A x \in Client \ {c} : op'[x] = op[x] \/ op'[x] = Flushed(op[x]),
         poll' = poll,
         \A p \in Path : meta[p].exists =>
            SameStream(meta'[p], meta[p]) /\ meta'[p].tail = meta[p].tail /\ meta'[p].closed = meta[p].closed
  PROVE  PollInv'
<1>1. \A p \in Path : ~Wakes(op[c], p) /\ ~Closes(op[c], p)
  BY DEF Wakes, Closes
<1>2. \A p \in Path : meta[p].exists => meta[p].tail \in Nat
  BY RecordFacts DEF FileInv, FileTypeOK
<1>3. \A w \in Waiter : poll[w].path \in Path /\ meta[poll[w].path].exists
                           => StillOwed(c, poll[w].path, poll[w].offset)
  BY <1>1, <1>2 DEF StillOwed
<1> QED
  BY <1>3, PollsMove

\* Who goes on waiting after notifyLongPolls has nothing to read, and after
\* notifyLongPollsClosed there is nobody.
LEMMA Notified ==
  ASSUME FileInv, NEW p \in Path, meta[p].exists, NEW b \in BOOLEAN, Notify(p, b)
  PROVE  /\ \A w \in Waiter : poll'[w] = poll[w] \/ poll'[w].state # "waiting"
         /\ \A w \in Waiter : poll[w].state = "waiting" /\ poll'[w] = poll[w] /\ poll[w].path = p =>
              ~b /\ meta[p].tail <= poll[w].offset
<1>1. \A w \in Waiter : poll[w].offset \in Nat
  BY DEF FileInv, FileTypeOK, PollTypeOK, PollRecord
<1>2. FileTypeOK /\ meta[p].closed \in BOOLEAN /\ meta[p].tail \in Nat
  BY RecordFacts DEF FileInv, FileTypeOK
<1>3. \A w \in Waiter : /\ OwnAfter(meta[p], poll[w].offset) \in Nat
                        /\ poll[w].offset < meta[p].tail => OwnAfter(meta[p], poll[w].offset) > 0
  BY <1>1, OwnAfterFacts
<1> DEFINE r(w) == Resolved(w, OwnAfter(meta[p], poll[w].offset), meta[p].closed)
<1>4. \A w \in Waiter : r(w).state = "done"
  BY <1>2, <1>3, ResolvedTyped
<1>5. \A w \in Waiter :
         poll'[w] = IF w \in Waiting(p) /\ (b \/ OwnAfter(meta[p], poll[w].offset) > 0) THEN r(w) ELSE poll[w]
  BY DEF Notify
<1> HIDE DEF r
<1>6. \A w \in Waiter : poll'[w] = poll[w] \/ poll'[w].state # "waiting"
  BY <1>4, <1>5
<1>7. \A w \in Waiter : poll[w].state = "waiting" /\ poll'[w] = poll[w] /\ poll[w].path = p =>
              ~b /\ meta[p].tail <= poll[w].offset
  BY <1>1, <1>2, <1>3, <1>4, <1>5 DEF Waiting
<1> QED
  BY <1>6, <1>7

LEMMA NotifiedClosed ==
  ASSUME FileInv, NEW p \in Path, NEW b \in BOOLEAN, NotifyClosed(p, b)
  PROVE  \A w \in Waiter : \/ poll'[w] = poll[w] /\ ~(poll[w].state = "waiting" /\ poll[w].path = p)
                           \/ poll'[w].state # "waiting"
<1>1. \A w \in Waiter : Resolved(w, 0, b).state = "done"
  BY ResolvedTyped DEF FileInv
<1> QED
  BY <1>1 DEF NotifyClosed, Waiting

LEMMA UpdatedCloses ==
  ASSUME FileTypeOK, NEW o \in OpRecord, o.path \in Path, UpdatedMeta(o).closed
  PROVE  o.streamMeta.closed \/ (o.kind = "append" /\ o.close)
<1>1. o.streamMeta \in MetaRecord /\ o.headers \in Headers \cup {NoHeaders}
  BY DEF OpRecord
<1>2. PICK s : s = Committed(o.streamMeta, o.headers)
  OBVIOUS
<1>3. s \in MetaRecord /\ s.closed = o.streamMeta.closed
  BY <1>1, <1>2, CommittedTyped
<1>4. PICK cl : cl = (s.closed \/ (o.kind = "append" /\ o.close))
  OBVIOUS
<1>5. PICK by : by = IF (o.kind = "append" /\ o.close) /\ HasProducer(o.headers) THEN o.headers ELSE s.closedBy
  OBVIOUS
<1>6. UpdatedMeta(o) = [s EXCEPT !.tail = s.tail + 1, !.closed = cl, !.closedBy = by, !.due = meta[o.path].due]
  BY <1>2, <1>3, <1>4, <1>5 DEF UpdatedMeta
<1>7. UpdatedMeta(o).closed = cl
  BY <1>3, <1>6 DEF MetaRecord
<1> QED
  BY <1>3, <1>4, <1>7

LEMMA CreateStartPolls ==
  ASSUME Permanent, "createClosed" \notin Operations, FileInv, FileInv', PollInv,
         NEW c \in Client, NEW p \in Path, NEW o \in CreateRequest, CreateStart(c, p, o)
  PROVE  PollInv'
<1>1. PICK d : d = births + 1
  OBVIOUS
<1>2. /\ op[c].pc = "idle" /\ ~meta[p].exists
      /\ \A q \in Path : q # p => /\ SameStream(meta'[q], meta[q]) /\ meta'[q].tail = meta[q].tail
                                  /\ meta'[q].closed = meta[q].closed
  BY <1>1, CreateStartEffect
<1>3. /\ OthersFlush(c) /\ op'[c].kind = "create" /\ op'[c].pc = "open" /\ op'[c].close = o.closed
      /\ poll' = poll
  BY <1>1, CreateStartEffect
<1>4. ~o.closed
  <2>1. o.closed \in {FALSE, "createClosed" \in Operations}
    BY DEF CreateRequest
  <2> QED
    BY <2>1
<1>5. OpOpen(op'[c])
  BY <1>3, <1>4 DEF OpOpen
<1> QED
  BY <1>2, <1>3, <1>5, PollsUnmoved DEF OthersFlush

LEMMA AppendStartPolls ==
  ASSUME FileInv, FileInv', PollInv, NEW c \in Client, NEW p \in Path,
         NEW h \in Headers \cup {NoHeaders}, NEW close \in BOOLEAN, AppendStart(c, p, h, close)
  PROVE  PollInv'
<1>1. FileTypeOK
  BY DEF FileInv
<1>2. /\ OthersStay(c) /\ op[c].pc = "idle" /\ ~meta[p].closed
      /\ op'[c].kind = "append" /\ op'[c].streamMeta = meta[p] /\ meta' = meta /\ poll' = poll
  BY <1>1, AppendStartEffect
<1>3. OpOpen(op'[c])
  BY <1>2 DEF OpOpen
<1> QED
  BY <1>2, <1>3, PollsUnmoved DEF OthersStay, SameStream

LEMMA CloseStreamPolls ==
  ASSUME FileInv, FileInv', PollInv, NEW c \in Client, NEW p \in Path, CloseStream(c, p)
  PROVE  PollInv'
<1>1. FileTypeOK
  BY DEF FileInv
<1>2. Reaped(meta, p) = meta /\ Found(meta, p) = meta[p].exists
  BY <1>1, LookupPlain
<1>3. PICK M : M = [meta EXCEPT ![p].closed = TRUE]
  OBVIOUS
<1>4. /\ op[c].pc = "idle" /\ meta' = M /\ op' = [x \in Client |-> Flushed(op[x])] /\ NotifyClosed(p, TRUE)
  BY <1>2, <1>3 DEF CloseStream, PutSync, Idle
<1>5. SameTails(M, meta) /\ \A q \in Path : q # p => M[q] = meta[q]
  BY <1>1, <1>3, ClosedRecord
<1>6. \A w \in Waiter : \/ poll'[w] = poll[w] /\ ~(poll[w].state = "waiting" /\ poll[w].path = p)
                        \/ poll'[w].state # "waiting"
  BY <1>4, NotifiedClosed
<1>7. \A q \in Path : meta[q].tail \in Nat
  BY RecordFacts DEF FileInv, FileTypeOK
<1>8. op[c] \in OpRecord /\ op'[c] = Flushed(op[c])
  BY <1>1, <1>4 DEF FileTypeOK
<1>9. /\ \A q \in Path : Wakes(op[c], q) => Wakes(op'[c], q)
      /\ \A q \in Path : Closes(op[c], q) => Closes(op'[c], q)
      /\ OpOpen(op'[c])
  BY <1>8, WakesFlushed DEF PollInv
<1>10. \A q \in Path : q # p => \A k : StillOwed(c, q, k)
  BY <1>4, <1>5, <1>7, <1>9 DEF StillOwed, SameTails
<1>11. \A w \in Waiter : poll'[w] = poll[w] \/ poll'[w].state # "waiting"
  BY <1>6
<1>12. \A w \in Waiter : (/\ poll[w].state = "waiting" /\ poll'[w] = poll[w]
                          /\ poll[w].path \in Path /\ meta[poll[w].path].exists)
                         => StillOwed(c, poll[w].path, poll[w].offset)
  BY <1>6, <1>10
<1> QED
  BY <1>4, <1>9, <1>11, <1>12, PollsMove

LEMMA CloseWithProducerPolls ==
  ASSUME FileInv, FileInv', PollInv, NEW c \in Client, NEW p \in Path, NEW h \in Headers,
         CloseStreamWithProducer(c, p, h)
  PROVE  PollInv'
<1>1. FileTypeOK
  BY DEF FileInv
<1>2. /\ OthersStay(c) /\ op[c].pc = "idle"
      /\ op'[c].kind = "close" /\ op'[c].pc = "put" /\ op'[c].path = p
      /\ SameTails(meta', meta) /\ (\A q \in Path : q # p => meta'[q] = meta[q]) /\ poll' = poll
  BY <1>1, CloseWithProducerEffect
<1>3. OpOpen(op'[c]) /\ Closes(op'[c], p) /\ \A q \in Path : ~Wakes(op[c], q) /\ ~Closes(op[c], q)
  BY <1>2 DEF OpOpen, Closes, Wakes
<1>4. \A q \in Path : meta[q].tail \in Nat
  BY RecordFacts DEF FileInv, FileTypeOK
<1>5. \A q \in Path : \A k : StillOwed(c, q, k)
  BY <1>2, <1>3, <1>4 DEF StillOwed, SameTails
<1> QED
  BY <1>2, <1>3, <1>5, PollsMove DEF OthersStay

\* The end of a create() that is not asked to close the stream.
LEMMA CreateTailPolls ==
  ASSUME FileInv, PollInv, NEW c \in Client, NEW answered, CreateTail(c, answered),
         op[c].kind = "create", op[c].pc \in {"open", "lock", "committed"}
  PROVE  OthersStay(c) /\ op'[c] = IdleOp /\ meta' = meta /\ OpOpen(op'[c])
<1>1. ~op[c].close
  BY DEF PollInv, OpOpen
<1>2. OthersStay(c) /\ op'[c] = IdleOp /\ meta' = meta
  BY <1>1, CreateTailEffect
<1> QED
  BY <1>2 DEF OpOpen, IdleOp

LEMMA OpenDonePolls ==
  ASSUME FileInv, FileInv', PollInv, NEW c \in Client, OpenDone(c)
  PROVE  PollInv'
<1>1. /\ op[c].pc = "open" /\ poll' = poll
      /\ IF op[c].init = "none" THEN CreateTail(c, {})
         ELSE op' = [op EXCEPT ![c].pc = "lock"] /\ meta' = meta
  BY DEF OpenDone
<1>2. op[c].kind = "create" /\ op[c] \in OpRecord /\ op \in [Client -> OpRecord]
  BY <1>1, OpFacts DEF OpPlaced, FileInv, FileTypeOK
<1>3. OthersStay(c) /\ meta' = meta /\ OpOpen(op'[c])
  <2>1. CASE op[c].init = "none"
    BY <1>1, <1>2, <2>1, CreateTailPolls
  <2>2. CASE op[c].init # "none"
    <3>1. PICK n : n = [op[c] EXCEPT !.pc = "lock"]
      OBVIOUS
    <3>2. n.kind = op[c].kind /\ n.close = op[c].close /\ n.pc = "lock"
      BY <1>2, <3>1 DEF OpRecord
    <3>3. op' = [op EXCEPT ![c] = n] /\ meta' = meta
      BY <1>1, <2>2, <3>1
    <3>4. op'[c] = n /\ OthersStay(c)
      BY <1>2, <3>3 DEF OthersStay
    <3> QED
      BY <3>2, <3>3, <3>4 DEF OpOpen, PollInv
  <2> QED
    BY <2>1, <2>2
<1> QED
  BY <1>1, <1>3, PollsUnmoved DEF OthersStay, SameStream

LEMMA InitialAppendPolls ==
  ASSUME FileInv, FileInv', PollInv, NEW c \in Client, InitialAppend(c)
  PROVE  PollInv'
<1>1. op[c].pc = "lock"
  BY InitialAppendEffect
<1>2. op[c].kind = "create" /\ op[c] \in OpRecord /\ op \in [Client -> OpRecord] /\ op[c].path \in Path
  BY <1>1, OpFacts DEF OpPlaced, FileInv, FileTypeOK
<1>3. OthersStay(c) /\ meta' = meta /\ poll' = poll /\ OpOpen(op'[c])
  <2>1. CASE CreateTail(c, {}) /\ UNCHANGED <<files, poll, births, writes, crashes>>
    BY <1>1, <1>2, <2>1, CreateTailPolls
  <2>2. CASE /\ ~meta[op[c].path].closed /\ OthersStay(c)
             /\ op'[c].kind = op[c].kind /\ op'[c].streamMeta = meta[op[c].path] /\ op'[c].close = op[c].close
             /\ meta' = meta /\ poll' = poll
    BY <1>2, <2>2 DEF OpOpen, PollInv
  <2> QED
    BY <2>1, <2>2, InitialAppendEffect
<1> QED
  BY <1>1, <1>3, PollsUnmoved DEF OthersStay, SameStream

LEMMA InitialDonePolls ==
  ASSUME FileInv, FileInv', PollInv, NEW c \in Client, InitialDone(c)
  PROVE  PollInv'
<1>1. op[c].kind = "create" /\ op[c].pc = "committed" /\ Notify(op[c].path, FALSE) /\ CreateTail(c, {Ack(op[c])})
  BY DEF InitialDone
<1>2. PICK p : p = op[c].path
  OBVIOUS
<1>3. p \in Path /\ meta[p].exists
  BY <1>1, <1>2, OpFacts
<1>4. OthersStay(c) /\ op'[c] = IdleOp /\ meta' = meta /\ OpOpen(op'[c])
  BY <1>1, CreateTailPolls
<1>5. /\ \A w \in Waiter : poll'[w] = poll[w] \/ poll'[w].state # "waiting"
      /\ \A w \in Waiter : poll[w].state = "waiting" /\ poll'[w] = poll[w] /\ poll[w].path = p =>
              meta[p].tail <= poll[w].offset
  BY <1>1, <1>2, <1>3, Notified
<1>6. \A q \in Path : ~Closes(op[c], q) /\ (q # p => ~Wakes(op[c], q))
  BY <1>1, <1>2 DEF Closes, Wakes
<1>7. \A q \in Path : meta[q].tail \in Nat
  BY RecordFacts DEF FileInv, FileTypeOK
<1>8. ASSUME NEW w \in Waiter, poll[w].state = "waiting", poll'[w] = poll[w],
             poll[w].path \in Path, meta[poll[w].path].exists
      PROVE  StillOwed(c, poll[w].path, poll[w].offset)
  <2>1. poll[w].offset \in Nat /\ poll[w].offset <= meta[poll[w].path].tail
    BY <1>8 DEF PollInv, PollFine
  <2>2. poll[w].path = p => meta[p].tail = poll[w].offset
    BY <1>5, <1>7, <1>8, <2>1
  <2> QED
    BY <1>4, <1>6, <1>7, <1>8, <2>2 DEF StillOwed, SameStream
<1> QED
  BY <1>4, <1>5, <1>8, PollsMove DEF OthersStay

LEMMA WriteDonePolls ==
  ASSUME FileInv, FileInv', PollInv, NEW c \in Client, WriteDone(c)
  PROVE  PollInv'
<1>1. op[c].pc = "write" /\ op' = [op EXCEPT ![c].pc = "fsync"] /\ meta' = meta /\ poll' = poll
  BY DEF WriteDone
<1>2. op \in [Client -> OpRecord] /\ op[c] \in OpRecord
  BY DEF FileInv, FileTypeOK
<1>3. PICK n : n = [op[c] EXCEPT !.pc = "fsync"]
  OBVIOUS
<1>4. n.kind = op[c].kind /\ n.close = op[c].close /\ n.streamMeta = op[c].streamMeta
  BY <1>2, <1>3 DEF OpRecord
<1>5. op' = [op EXCEPT ![c] = n]
  BY <1>1, <1>3
<1>6. op'[c] = n /\ OthersStay(c)
  BY <1>2, <1>5 DEF OthersStay
<1>7. OpOpen(op'[c])
  BY <1>1, <1>4, <1>6 DEF OpOpen, PollInv
<1> QED
  BY <1>1, <1>6, <1>7, PollsUnmoved DEF OthersStay, SameStream

LEMMA FsyncDonePolls ==
  ASSUME FileInv, FileInv', PollInv, NEW c \in Client, FsyncDone(c)
  PROVE  PollInv'
<1>1. PICK p : p = op[c].path
  OBVIOUS
<1>2. PICK d : d = op[c].streamMeta.dir
  OBVIOUS
<1>3. /\ op[c].pc = "fsync" /\ Writing(op[c]) /\ p \in Path /\ OthersStay(c)
      /\ op'[c].pc = "put" /\ op'[c].kind = op[c].kind /\ op'[c].path = p /\ op'[c].close = op[c].close
      /\ (\A q \in Path : SameStream(meta'[q], meta[q])) /\ (\A q \in Path : q # p => meta'[q] = meta[q])
      /\ meta'[p].tail = meta[p].tail + 1 /\ poll' = poll
  BY <1>1, <1>2, FsyncDoneEffect
<1>4. OpOpen(op'[c])
  BY <1>3 DEF OpOpen, PollInv
<1>5. Wakes(op'[c], p) /\ \A q \in Path : ~Wakes(op[c], q) /\ ~Closes(op[c], q)
  BY <1>3 DEF Wakes, Writing, Closes
<1>6. meta'[p].closed => Closes(op'[c], p)
  <2>1. op[c] \in OpRecord /\ FileTypeOK /\ meta \in [Path -> MetaRecord]
    BY DEF FileInv, FileTypeOK
  <2>2. meta'[p] = UpdatedMeta(op[c])
    BY <1>1, <1>3, <2>1 DEF FsyncDone
  <2>3. ~op[c].streamMeta.closed
    BY <1>3 DEF PollInv, OpOpen
  <2>4. meta'[p].closed => op[c].kind = "append" /\ op[c].close
    BY <1>1, <1>3, <2>1, <2>2, <2>3, UpdatedCloses
  <2> QED
    BY <1>3, <2>4 DEF Closes
<1>7. \A q \in Path : meta[q].tail \in Nat
  BY RecordFacts DEF FileInv, FileTypeOK
<1>8. \A q \in Path : \A k : StillOwed(c, q, k)
  BY <1>3, <1>5, <1>6, <1>7 DEF StillOwed
<1> QED
  BY <1>3, <1>4, <1>8, PollsMove DEF OthersStay

LEMMA AppendDonePolls ==
  ASSUME FileInv, FileInv', PollInv, NEW c \in Client, AppendDone(c)
  PROVE  PollInv'
<1>1. /\ op[c].kind = "append" /\ op[c].pc = "committed" /\ op' = [op EXCEPT ![c] = IdleOp]
      /\ Notify(op[c].path, op[c].close) /\ meta' = meta
  BY DEF AppendDone
<1>2. PICK p : p = op[c].path
  OBVIOUS
<1>3. p \in Path /\ meta[p].exists /\ op[c].close \in BOOLEAN
  BY <1>1, <1>2, OpFacts DEF OpRecord
<1>4. op'[c] = IdleOp /\ OthersStay(c)
  BY <1>1 DEF OthersStay, FileInv, FileTypeOK
<1>5. OpOpen(op'[c])
  BY <1>4 DEF OpOpen, IdleOp
<1>6. /\ \A w \in Waiter : poll'[w] = poll[w] \/ poll'[w].state # "waiting"
      /\ \A w \in Waiter : poll[w].state = "waiting" /\ poll'[w] = poll[w] /\ poll[w].path = p =>
              ~op[c].close /\ meta[p].tail <= poll[w].offset
  BY <1>1, <1>2, <1>3, Notified
<1>7. \A q \in Path : (~op[c].close => ~Closes(op[c], q)) /\ (q # p => ~Wakes(op[c], q) /\ ~Closes(op[c], q))
  BY <1>1, <1>2 DEF Closes, Wakes
<1>8. \A q \in Path : meta[q].tail \in Nat
  BY RecordFacts DEF FileInv, FileTypeOK
<1>9. ASSUME NEW w \in Waiter, poll[w].state = "waiting", poll'[w] = poll[w],
             poll[w].path \in Path, meta[poll[w].path].exists
      PROVE  StillOwed(c, poll[w].path, poll[w].offset)
  <2>1. poll[w].offset \in Nat /\ poll[w].offset <= meta[poll[w].path].tail
    BY <1>9 DEF PollInv, PollFine
  <2>2. poll[w].path = p => meta[p].tail = poll[w].offset /\ ~Closes(op[c], p)
    BY <1>3, <1>6, <1>7, <1>8, <1>9, <2>1
  <2> QED
    BY <1>1, <1>7, <1>8, <1>9, <2>2 DEF StillOwed, SameStream
<1> QED
  BY <1>4, <1>5, <1>6, <1>9, PollsMove DEF OthersStay

LEMMA CloseDonePolls ==
  ASSUME FileInv, FileInv', PollInv, NEW c \in Client, CloseDone(c)
  PROVE  PollInv'
<1>1. op[c].kind = "close"
  BY DEF CloseDone, PollInv, OpOpen
<1>2. /\ op[c].pc = "committed" /\ op' = [op EXCEPT ![c] = IdleOp]
      /\ NotifyClosed(op[c].path, meta[op[c].path].closed) /\ meta' = meta
  BY <1>1 DEF CloseDone
<1>3. PICK p : p = op[c].path
  OBVIOUS
<1>4. p \in Path /\ meta[p].exists /\ meta[p].closed \in BOOLEAN
  BY <1>2, <1>3, OpFacts, RecordFacts
<1>5. op'[c] = IdleOp /\ OthersStay(c)
  BY <1>2 DEF OthersStay, FileInv, FileTypeOK
<1>6. OpOpen(op'[c])
  BY <1>5 DEF OpOpen, IdleOp
<1>7. \A w \in Waiter : \/ poll'[w] = poll[w] /\ ~(poll[w].state = "waiting" /\ poll[w].path = p)
                        \/ poll'[w].state # "waiting"
  BY <1>2, <1>3, <1>4, NotifiedClosed
<1>8. \A q \in Path : q # p => ~Wakes(op[c], q) /\ ~Closes(op[c], q)
  BY <1>3 DEF Closes, Wakes
<1>9. \A q \in Path : meta[q].tail \in Nat
  BY RecordFacts DEF FileInv, FileTypeOK
<1>10. \A q \in Path : q # p => \A k : StillOwed(c, q, k)
  BY <1>2, <1>8, <1>9 DEF StillOwed, SameStream
<1>11. \A w \in Waiter : poll'[w] = poll[w] \/ poll'[w].state # "waiting"
  BY <1>7
<1>12. \A w \in Waiter : (/\ poll[w].state = "waiting" /\ poll'[w] = poll[w]
                          /\ poll[w].path \in Path /\ meta[poll[w].path].exists)
                         => StillOwed(c, poll[w].path, poll[w].offset)
  BY <1>7, <1>10
<1> QED
  BY <1>5, <1>6, <1>11, <1>12, PollsMove DEF OthersStay

LEMMA PollStepPolls ==
  ASSUME FileInv, PollInv, NEW w \in Waiter, Timeout(w) \/ \E p \in Path : WaitForMessages(w, p)
  PROVE  PollInv'
<1>1. meta' = meta /\ op' = op
  BY DEF Timeout, WaitForMessages
<1>2. poll \in [Waiter -> PollRecord] /\ FileTypeOK
  BY DEF FileInv, FileTypeOK, PollTypeOK
<1>3. (\A v \in Waiter : v # w => poll'[v] = poll[v]) /\ PollFine(poll'[w], meta, op)
  <2>1. CASE Timeout(w)
    <3>1. PICK r : r = Resolved(w, 0, meta[poll[w].path].closed)
      OBVIOUS
    <3>2. poll' = [poll EXCEPT ![w] = r]
      BY <2>1, <3>1 DEF Timeout
    <3>3. r.state = "done"
      BY <1>2, <3>1 DEF Resolved, PollRecord
    <3> QED
      BY <1>2, <3>2, <3>3 DEF PollFine
  <2>2. ASSUME NEW p \in Path, WaitForMessages(w, p)
        PROVE  (\A v \in Waiter : v # w => poll'[v] = poll[v]) /\ PollFine(poll'[w], meta, op)
    <3>1. PICK r : r = [IdlePoll EXCEPT !.state = "waiting", !.path = p, !.dir = meta[p].dir, !.offset = meta[p].tail]
      OBVIOUS
    <3>2. poll' = [poll EXCEPT ![w] = r] /\ meta[p].exists /\ ~meta[p].closed
      BY <1>2, <2>2, <3>1, LookupPlain DEF WaitForMessages
    <3>3. r.path = p /\ r.dir = meta[p].dir /\ r.offset = meta[p].tail
      BY <3>1 DEF IdlePoll
    <3>4. meta[p].tail \in Nat
      BY <1>2, RecordFacts DEF FileTypeOK
    <3>5. PollFine(r, meta, op)
      BY <3>2, <3>3, <3>4 DEF PollFine
    <3> QED
      BY <1>2, <3>2, <3>5
  <2> QED
    BY <2>1, <2>2
<1> QED
  BY <1>1, <1>3 DEF PollInv

LEMMA CommitPolls ==
  ASSUME FileInv, FileInv', PollInv, Commit
  PROVE  PollInv'
<1>1. PICK c \in Client : op[c].pc = "put"
  BY DEF Commit
<1>2. meta' = meta /\ op' = [x \in Client |-> Flushed(op[x])] /\ poll' = poll
  BY DEF Commit, PutSync
<1>3. op[c] \in OpRecord /\ op'[c] = Flushed(op[c])
  BY <1>2 DEF FileInv, FileTypeOK
<1>4. /\ \A q \in Path : Wakes(op[c], q) => Wakes(op'[c], q)
      /\ \A q \in Path : Closes(op[c], q) => Closes(op'[c], q)
      /\ OpOpen(op'[c])
  BY <1>3, WakesFlushed DEF PollInv
<1>5. \A q \in Path : meta[q].tail \in Nat
  BY RecordFacts DEF FileInv, FileTypeOK
<1>6. \A q \in Path : \A k : StillOwed(c, q, k)
  BY <1>2, <1>4, <1>5 DEF StillOwed, SameStream
<1> QED
  BY <1>2, <1>4, <1>6, PollsMove

LEMMA CrashPolls ==
  ASSUME FileInv, Crash
  PROVE  PollInv'
<1>1. op' = [c \in Client |-> IdleOp] /\ poll' = [w \in Waiter |-> IdlePoll]
  BY DEF Crash
<1> QED
  BY <1>1 DEF PollInv, OpOpen, PollFine, IdleOp, IdlePoll

LEMMA PollsStep ==
  ASSUME Permanent, "createClosed" \notin Operations, FileInv, FileInv', PollInv, [Next]_vars
  PROVE  PollInv'
<1>1. CASE UNCHANGED vars
  BY <1>1 DEF vars, PollInv
<1>2. CASE Next
  <2>0. Step
    BY <1>2, StepsLeft
  <2>1. ASSUME NEW c \in Client, NEW p \in Path, NEW o \in CreateRequest, CreateStart(c, p, o)
        PROVE  PollInv'
    BY <2>1, CreateStartPolls
  <2>2. ASSUME NEW c \in Client, NEW p \in Path, NEW h \in Headers \cup {NoHeaders},
               NEW close \in BOOLEAN, AppendStart(c, p, h, close)
        PROVE  PollInv'
    BY <2>2, AppendStartPolls
  <2>3. ASSUME NEW c \in Client, NEW p \in Path, CloseStream(c, p)
        PROVE  PollInv'
    BY <2>3, CloseStreamPolls
  <2>4. ASSUME NEW c \in Client, NEW p \in Path, NEW h \in Headers, CloseStreamWithProducer(c, p, h)
        PROVE  PollInv'
    BY <2>4, CloseWithProducerPolls
  <2>5. ASSUME NEW c \in Client, \/ OpenDone(c) \/ InitialAppend(c) \/ InitialDone(c) \/ WriteDone(c)
                                 \/ FsyncDone(c) \/ AppendDone(c) \/ CloseDone(c)
        PROVE  PollInv'
    BY <2>5, OpenDonePolls, InitialAppendPolls, InitialDonePolls, WriteDonePolls, FsyncDonePolls,
       AppendDonePolls, CloseDonePolls
  <2>6. ASSUME NEW w \in Waiter, Timeout(w) \/ \E p \in Path : WaitForMessages(w, p)
        PROVE  PollInv'
    BY <2>6, PollStepPolls
  <2> QED
    BY <2>0, <2>1, <2>2, <2>3, <2>4, <2>5, <2>6, CommitPolls, CrashPolls DEF Step
<1> QED
  BY <1>1, <1>2

\* notifyLongPolls and notifyLongPollsClosed come after the put is durable, and
\* a client may register, at the tail it sees, anywhere before: whatever it
\* waits for, the operation that put it is still on its way to wake it.  (A PUT
\* of a closed stream wakes nobody and is left out.)
THEOREM FilePollsAreWoken ==
    Permanent /\ "createClosed" \notin Operations => (Spec => []NoMissedWakeup)
<1> SUFFICES ASSUME Permanent, "createClosed" \notin Operations
             PROVE  Spec => []NoMissedWakeup
  OBVIOUS
<1>1. Init => FileInv /\ PollInv
  <2>1. Init => PollInv
    BY DEF Init, PollInv, OpOpen, PollFine, IdleOp, IdlePoll
  <2> QED
    BY <2>1, FileInitially
<1>2. FileInv /\ PollInv /\ [Next]_vars => (FileInv /\ PollInv)'
  BY FileStep, PollsStep
<1>3. FileInv /\ PollInv => NoMissedWakeup
  <2> SUFFICES ASSUME FileInv, PollInv, NEW w \in Waiter, poll[w].state = "waiting"
               PROVE  \/ \E c \in Client : op[c].path = poll[w].path /\ op[c].pc \in {"put", "committed"}
                      \/ ~meta[poll[w].path].closed /\ meta[poll[w].path].tail = poll[w].offset
    BY DEF NoMissedWakeup
  <2> QED
    BY DEF PollInv, PollFine, Wakes, Closes
<1> QED
  BY <1>1, <1>2, <1>3, PTL DEF Spec

----------------------------------------------------------------------------
(* Every message has a number of its own *)

\* Frame i of segment d came from a producer and carries message n.
Carries(F, d, i, n) ==
    /\ i \in 1 .. Len(F[d].frames)
    /\ HasProducer(F[d].frames[i].by) /\ F[d].frames[i].data = n

DataNumbered ==
    /\ \A d \in Dir : \A i, n : Carries(files, d, i, n) => n \in 1 .. writes
    /\ \A a \in acked : a.data \in 1 .. writes
    /\ \A c \in Client : op[c].data \in 0 .. writes /\ (Writing(op[c]) => op[c].data # 0)

\* No two operations have one message, and none has an answered one.
DataOwned ==
    /\ \A c \in Client : \A a \in acked : op[c].data # a.data
    /\ \A c, e \in Client : c # e /\ op[c].data # 0 => op[c].data # op[e].data

\* A message in hand is in no file but at its place, one answered for is
\* nowhere else either.
DataOnce ==
    /\ \A c \in Client : op[c].data # 0 => \A d \in Dir : \A i :
          Carries(files, d, i, op[c].data) =>
             op[c].pc # "write" /\ d = op[c].streamMeta.dir /\ i = PlaceOf(op[c])
    /\ \A a \in acked : \A p \in Path : meta[p].exists /\ meta[p].dir = a.dir => \A i :
          Carries(files, a.dir, i, a.data) => i = a.offset - Base(meta[p])

DataInv == DataNumbered /\ DataOwned /\ DataOnce

\* What a step makes of an operation: it goes on with its message, ends, or
\* takes the next one.
SameJob(n, o) ==
    /\ n.data = o.data /\ n.streamMeta = o.streamMeta
    /\ (n.pc = "write" => o.pc = "write") /\ (Writing(n) => Writing(o))
Quit(n) == n.data = 0 /\ ~Writing(n)
NewJob(n) == n.data = writes + 1 /\ writes' = writes + 1

LEMMA JobFlushed ==
  ASSUME NEW o \in OpRecord
  PROVE  SameJob(Flushed(o), o) /\ SameJob(o, o)
<1>1. PICK n : n = Flushed(o)
  OBVIOUS
<1>2. /\ n.pc = (IF o.pc = "put" THEN "committed" ELSE o.pc) /\ n.kind = o.kind
      /\ n.streamMeta = o.streamMeta /\ n.data = o.data
  BY <1>1, FlushedTyped
<1>3. SameJob(n, o) /\ SameJob(o, o)
  BY <1>2 DEF SameJob, Writing
<1> QED
  BY <1>1, <1>3

\* An operation with a message is about a stream that is there.
LEMMA JobPlace ==
  ASSUME FileInv, NEW c \in Client, op[c].data # 0, NEW p \in Path, meta[p].exists,
         meta[p].dir = op[c].streamMeta.dir
  PROVE  /\ op[c].pc # "idle" /\ p = op[c].path /\ Ack(op[c]).dir = meta[p].dir
         /\ Ack(op[c]).offset - Base(meta[p]) = PlaceOf(op[c])
<1>1. op[c].pc # "idle"
  BY DEF FileInv, OpPlaced, IdleOp
<1>2. /\ op[c].path \in Path /\ meta[op[c].path].exists /\ op[c].streamMeta \in MetaRecord
      /\ op[c].streamMeta.dir = meta[op[c].path].dir /\ Base(op[c].streamMeta) = Base(meta[op[c].path])
  BY <1>1, OpFacts DEF SameStream
<1>3. p = op[c].path
  BY <1>2 DEF FileInv, Placed
<1>4. op[c].streamMeta.tail \in Nat /\ Base(op[c].streamMeta) \in Nat
  BY <1>2, RecordFacts
<1>5. Ack(op[c]).offset = op[c].streamMeta.tail + 1 /\ Ack(op[c]).dir = op[c].streamMeta.dir
  BY DEF Ack
<1>6. Ack(op[c]).offset - Base(meta[p]) = PlaceOf(op[c])
  BY <1>2, <1>3, <1>4, <1>5 DEF PlaceOf
<1> QED
  BY <1>1, <1>2, <1>3, <1>5, <1>6

\* A step that adds no frame of a producer.
LEMMA DataMoves ==
  ASSUME FileInv, DataInv, NEW c \in Client, writes' \in {writes, writes + 1},
         \A d \in Dir : \A i, n : Carries(files', d, i, n) => Carries(files, d, i, n),
         \A x \in Client \ {c} : SameJob(op'[x], op[x]) \/ Quit(op'[x]),
         SameJob(op'[c], op[c]) \/ Quit(op'[c]) \/ NewJob(op'[c]),
         \A a \in acked' : a \in acked \/ (a = Ack(op[c]) /\ op[c].data # 0 /\ Quit(op'[c])),
         \A p \in Path : meta'[p].exists =>
            \/ meta[p].exists /\ meta'[p].dir = meta[p].dir /\ Base(meta'[p]) = Base(meta[p])
            \/ meta'[p].dir > births
  PROVE  DataInv'
<1>0. writes \in Nat /\ births \in Nat /\ writes' \in Nat /\ writes <= writes'
  BY FileBounds DEF FileInv, FileTypeOK
<1>1. \A a \in acked : a.dir \in Nat /\ a.dir <= births
  BY DEF FileInv, AckedHeld, AckRecord
<1>2. \A a \in acked' : a \in acked \/ (a.data = op[c].data /\ op[c].data # 0 /\ op'[c].data = 0)
  BY DEF Ack, Quit
<1>3. \A x \in Client : op'[x].data \in {op[x].data, 0} \/ (x = c /\ op'[c].data = writes + 1 /\ writes' = writes + 1)
  BY DEF SameJob, Quit, NewJob
<1>4. DataNumbered'
  <2>1. \A d \in Dir : \A i, n : Carries(files', d, i, n) => n \in 1 .. writes'
    BY <1>0 DEF DataInv, DataNumbered
  <2>2. \A a \in acked' : a.data \in 1 .. writes'
    BY <1>0, <1>2 DEF DataInv, DataNumbered
  <2>3. \A x \in Client : op'[x].data \in 0 .. writes'
    BY <1>0, <1>3 DEF DataInv, DataNumbered
  <2>4. \A x \in Client : Writing(op'[x]) => op'[x].data # 0
    BY <1>0 DEF DataInv, DataNumbered, SameJob, Quit, NewJob
  <2> QED
    BY <2>1, <2>2, <2>3, <2>4 DEF DataNumbered
<1>5. DataOwned'
  <2>1. \A x \in Client : \A a \in acked' : op'[x].data # a.data
    <3> TAKE x \in Client
    <3> TAKE a \in acked'
    <3>1. CASE a \in acked
      BY <1>0, <1>3, <3>1 DEF DataInv, DataNumbered, DataOwned
    <3>2. CASE a.data = op[c].data /\ op[c].data # 0 /\ op'[c].data = 0
      BY <1>0, <1>3, <3>2 DEF DataInv, DataNumbered, DataOwned
    <3> QED
      BY <1>2, <3>1, <3>2
  <2>2. \A x, y \in Client : x # y /\ op'[x].data # 0 => op'[x].data # op'[y].data
    BY <1>0, <1>3 DEF DataInv, DataNumbered, DataOwned
  <2> QED
    BY <2>1, <2>2 DEF DataOwned
<1>6. DataOnce'
  <2>1. ASSUME NEW x \in Client, op'[x].data # 0, NEW d \in Dir, NEW i, Carries(files', d, i, op'[x].data)
        PROVE  op'[x].pc # "write" /\ d = op'[x].streamMeta.dir /\ i = PlaceOf(op'[x])
    <3>1. op'[x].data \in 1 .. writes
      BY <2>1 DEF DataInv, DataNumbered
    <3>2. SameJob(op'[x], op[x])
      BY <1>0, <2>1, <3>1 DEF Quit, NewJob
    <3>3. op[x].pc # "write" /\ d = op[x].streamMeta.dir /\ i = PlaceOf(op[x])
      BY <2>1, <3>2 DEF DataInv, DataOnce, SameJob
    <3>4. op'[x].streamMeta = op[x].streamMeta
      BY <3>2 DEF SameJob
    <3>5. PlaceOf(op'[x]) = PlaceOf(op[x])
      BY <3>4, Zenon DEF PlaceOf
    <3> QED
      BY <3>2, <3>3, <3>5 DEF SameJob
  <2>2. ASSUME NEW a \in acked', NEW p \in Path, meta'[p].exists, meta'[p].dir = a.dir,
               NEW i, Carries(files', a.dir, i, a.data)
        PROVE  i = a.offset - Base(meta'[p])
    <3>1. CASE a \in acked
      <4>1. meta[p].exists /\ meta'[p].dir = meta[p].dir /\ Base(meta'[p]) = Base(meta[p])
        BY <1>0, <1>1, <2>2, <3>1
      <4>2. a.dir \in Dir
        BY <2>2, <4>1, FileBounds DEF FileInv, FileTypeOK, Placed, Dir
      <4> QED
        BY <2>2, <3>1, <4>1, <4>2 DEF DataInv, DataOnce
    <3>2. CASE a = Ack(op[c]) /\ op[c].data # 0
      <4>0. op[c].pc # "idle"
        BY <3>2 DEF FileInv, OpPlaced, IdleOp
      <4>1. a.dir = op[c].streamMeta.dir /\ a.dir \in Dir /\ a.data = op[c].data
        BY <3>2, <4>0, OpFacts DEF Ack
      <4>2. a.dir <= births
        BY <4>0, <4>1, OpFacts DEF FileInv, Placed, SameStream
      <4>3. meta[p].exists /\ meta'[p].dir = meta[p].dir /\ Base(meta'[p]) = Base(meta[p])
        BY <1>0, <2>2, <4>1, <4>2, FileBounds DEF Dir
      <4>4. a.offset - Base(meta[p]) = PlaceOf(op[c])
        BY <2>2, <3>2, <4>1, <4>3, JobPlace
      <4>5. Carries(files, a.dir, i, op[c].data)
        BY <2>2, <4>1
      <4>6. i = PlaceOf(op[c])
        BY <3>2, <4>1, <4>5 DEF DataInv, DataOnce
      <4> QED
        BY <4>3, <4>4, <4>6
    <3> QED
      BY <3>1, <3>2
  <2> QED
    BY <2>1, <2>2 DEF DataOnce
<1> QED
  BY <1>4, <1>5, <1>6 DEF DataInv

LEMMA CarriesSame ==
  ASSUME NEW F, NEW F2, SameFrames(F2, F)
  PROVE  \A d \in Dir : \A i, n : Carries(F2, d, i, n) => Carries(F, d, i, n)
  BY DEF SameFrames, Carries

\* The same for a step that leaves every file and the place of every stream.
LEMMA DataStays ==
  ASSUME FileInv, DataInv, NEW c \in Client, writes' \in {writes, writes + 1},
         SameFrames(files', files), SameTails(meta', meta),
         \A x \in Client \ {c} : op'[x] = op[x] \/ op'[x] = Flushed(op[x]),
         SameJob(op'[c], op[c]) \/ Quit(op'[c]) \/ NewJob(op'[c]),
         \A a \in acked' : a \in acked \/ (a = Ack(op[c]) /\ op[c].data # 0 /\ Quit(op'[c]))
  PROVE  DataInv'
<1>1. \A d \in Dir : \A i, n : Carries(files', d, i, n) => Carries(files, d, i, n)
  BY CarriesSame
<1>2. \A x \in Client \ {c} : SameJob(op'[x], op[x])
  BY JobFlushed DEF FileInv, FileTypeOK
<1>3. \A p \in Path : meta'[p].exists =>
        meta[p].exists /\ meta'[p].dir = meta[p].dir /\ Base(meta'[p]) = Base(meta[p])
  BY DEF SameTails, SameStream, Base
<1> QED
  BY <1>1, <1>2, <1>3, DataMoves

LEMMA CreateStartData ==
  ASSUME Permanent, FileInv, DataInv, NEW c \in Client, NEW p \in Path, NEW o \in CreateRequest,
         CreateStart(c, p, o)
  PROVE  DataInv'
<1>1. PICK d : d = births + 1
  OBVIOUS
<1>2. /\ d \in Dir /\ (\A q \in Path : q # p => SameStream(meta'[q], meta[q])) /\ meta'[p].dir = d
      /\ OthersFlush(c) /\ op'[c].pc = "open" /\ op'[c].data = 0
  BY <1>1, CreateStartEffect
<1>3. /\ \A e \in Dir : e # d => files'[e] = files[e]
      /\ \A k \in 1 .. Len(files'[d].frames) : files'[d].frames[k].by = NoHeaders
      /\ UNCHANGED <<writes, acked>>
  BY <1>1, CreateStartEffect
<1>4. \A e \in Dir : \A i, n : Carries(files', e, i, n) => Carries(files, e, i, n)
  <2>1. \A i, n : ~Carries(files', d, i, n)
    BY <1>3 DEF Carries, HasProducer, NoHeaders
  <2> QED
    BY <1>3, <2>1 DEF Carries
<1>5. \A x \in Client \ {c} : SameJob(op'[x], op[x])
  BY <1>2, JobFlushed DEF OthersFlush, FileInv, FileTypeOK
<1>6. Quit(op'[c])
  BY <1>2 DEF Quit, Writing
<1>7. \A q \in Path : meta'[q].exists =>
            \/ meta[q].exists /\ meta'[q].dir = meta[q].dir /\ Base(meta'[q]) = Base(meta[q])
            \/ meta'[q].dir > births
  <2>1. births \in Nat
    BY FileBounds DEF FileInv, FileTypeOK
  <2>2. meta'[p].dir > births
    BY <1>1, <1>2, <2>1
  <2> QED
    BY <1>2, <2>2 DEF SameStream, Base
<1>8. writes' \in {writes, writes + 1} /\ \A a \in acked' : a \in acked
  BY <1>3
<1> QED
  BY <1>4, <1>5, <1>6, <1>7, <1>8, DataMoves

LEMMA AppendStartData ==
  ASSUME FileInv, DataInv, NEW c \in Client, NEW p \in Path,
         NEW h \in Headers \cup {NoHeaders}, NEW close \in BOOLEAN, AppendStart(c, p, h, close)
  PROVE  DataInv'
<1>1. FileTypeOK
  BY DEF FileInv
<1>2. /\ OthersStay(c) /\ op'[c].data = writes + 1 /\ writes' = writes + 1
      /\ UNCHANGED <<meta, files, acked>>
  BY <1>1, AppendStartEffect
<1>3. SameFrames(files', files) /\ SameTails(meta', meta)
  BY <1>2, SameTailsRefl
<1>4. NewJob(op'[c])
  BY <1>2 DEF NewJob
<1> QED
  BY <1>2, <1>3, <1>4, DataStays DEF OthersStay

LEMMA CloseStreamData ==
  ASSUME FileInv, DataInv, NEW c \in Client, NEW p \in Path, CloseStream(c, p)
  PROVE  DataInv'
<1>1. FileTypeOK
  BY DEF FileInv
<1>2. Reaped(meta, p) = meta
  BY <1>1, LookupPlain
<1>3. PICK M : M = [meta EXCEPT ![p].closed = TRUE]
  OBVIOUS
<1>4. meta' = M /\ op' = [x \in Client |-> Flushed(op[x])] /\ UNCHANGED <<files, writes, acked>>
  BY <1>2, <1>3 DEF CloseStream, PutSync
<1>5. SameTails(M, meta)
  BY <1>1, <1>3, ClosedRecord
<1>6. SameJob(op'[c], op[c])
  BY <1>1, <1>4, JobFlushed DEF FileTypeOK
<1>7. SameFrames(files', files)
  BY <1>4, SameTailsRefl
<1> QED
  BY <1>4, <1>5, <1>6, <1>7, DataStays

LEMMA CloseWithProducerData ==
  ASSUME FileInv, DataInv, NEW c \in Client, NEW p \in Path, NEW h \in Headers,
         CloseStreamWithProducer(c, p, h)
  PROVE  DataInv'
<1>1. FileTypeOK
  BY DEF FileInv
<1>2. /\ OthersStay(c) /\ op'[c].kind = "close" /\ op'[c].data = 0
      /\ SameTails(meta', meta) /\ UNCHANGED <<files, writes, acked>>
  BY <1>1, CloseWithProducerEffect
<1>3. Quit(op'[c])
  BY <1>2 DEF Quit, Writing
<1>4. SameFrames(files', files)
  BY <1>2, SameTailsRefl
<1> QED
  BY <1>2, <1>3, <1>4, DataStays DEF OthersStay

\* The end of create(): the operation becomes the put of closed, or ends.
LEMMA CreateTailData ==
  ASSUME FileInv, DataInv, NEW c \in Client, NEW answered, CreateTail(c, answered),
         op[c].kind = "create", op[c].pc \in {"open", "lock", "committed"},
         \A a \in answered : a = Ack(op[c]) /\ op[c].data # 0,
         SameFrames(files', files), writes' = writes
  PROVE  DataInv'
<1>1. OthersStay(c) /\ SameTails(meta', meta)
  BY CreateTailEffect
<1>2. CASE op[c].close
  <2>1. /\ op'[c].kind = "seal" /\ op'[c].pc = "put" /\ op'[c].streamMeta = op[c].streamMeta
        /\ op'[c].data = op[c].data /\ acked' = acked
    BY <1>2, CreateTailEffect
  <2>2. SameJob(op'[c], op[c])
    BY <2>1 DEF SameJob, Writing
  <2> QED
    BY <1>1, <2>1, <2>2, DataStays DEF OthersStay
<1>3. CASE ~op[c].close
  <2>1. op'[c] = IdleOp /\ acked' = acked \cup answered
    BY <1>3, CreateTailEffect
  <2>2. Quit(op'[c])
    BY <2>1 DEF Quit, Writing, IdleOp
  <2> QED
    BY <1>1, <2>1, <2>2, DataStays DEF OthersStay
<1> QED
  BY <1>2, <1>3

LEMMA OpenDoneData ==
  ASSUME FileInv, DataInv, NEW c \in Client, OpenDone(c)
  PROVE  DataInv'
<1>1. /\ op[c].pc = "open" /\ writes' = writes
      /\ IF op[c].init = "none" THEN CreateTail(c, {})
         ELSE op' = [op EXCEPT ![c].pc = "lock"] /\ UNCHANGED <<meta, acked>>
  BY DEF OpenDone
<1>2. op[c].kind = "create" /\ op[c] \in OpRecord /\ op \in [Client -> OpRecord]
  BY <1>1, OpFacts DEF OpPlaced, FileInv, FileTypeOK
<1>3. SameFrames(files', files)
  BY OpenEffect
<1>4. CASE op[c].init = "none"
  BY <1>1, <1>2, <1>3, <1>4, CreateTailData
<1>5. CASE op[c].init # "none"
  <2>1. PICK n : n = [op[c] EXCEPT !.pc = "lock"]
    OBVIOUS
  <2>2. n.kind = op[c].kind /\ n.data = op[c].data /\ n.streamMeta = op[c].streamMeta /\ n.pc = "lock"
    BY <1>2, <2>1 DEF OpRecord
  <2>3. op' = [op EXCEPT ![c] = n] /\ UNCHANGED <<meta, acked>>
    BY <1>1, <1>5, <2>1
  <2>4. op'[c] = n /\ OthersStay(c)
    BY <1>2, <2>3 DEF OthersStay
  <2>5. SameJob(op'[c], op[c])
    BY <2>2, <2>4 DEF SameJob, Writing
  <2>6. SameTails(meta', meta)
    BY <2>3, SameTailsRefl
  <2> QED
    BY <1>1, <1>3, <2>3, <2>4, <2>5, <2>6, DataStays DEF OthersStay
<1> QED
  BY <1>4, <1>5

LEMMA InitialAppendData ==
  ASSUME FileInv, DataInv, NEW c \in Client, InitialAppend(c)
  PROVE  DataInv'
<1>1. op[c].pc = "lock"
  BY InitialAppendEffect
<1>2. op[c].kind = "create"
  BY <1>1, OpFacts DEF OpPlaced
<1>3. SameFrames(files, files) /\ SameTails(meta, meta)
  BY SameTailsRefl
<1>4. CASE CreateTail(c, {}) /\ UNCHANGED <<files, writes>>
  BY <1>1, <1>2, <1>3, <1>4, CreateTailData
<1>5. CASE /\ writes' = writes + 1 /\ OthersStay(c) /\ op'[c].data = writes + 1
           /\ UNCHANGED <<meta, files, acked>>
  <2>1. NewJob(op'[c])
    BY <1>5 DEF NewJob
  <2> QED
    BY <1>3, <1>5, <2>1, DataStays DEF OthersStay
<1> QED
  BY <1>4, <1>5, InitialAppendEffect

LEMMA DoneData ==
  ASSUME FileInv, DataInv, NEW c \in Client, AppendDone(c) \/ CloseDone(c) \/ InitialDone(c)
  PROVE  DataInv'
<1>1. SameFrames(files, files) /\ SameTails(meta, meta) /\ op \in [Client -> OpRecord]
  BY SameTailsRefl DEF FileInv, FileTypeOK
<1>2. Writing(op[c]) => op[c].data # 0
  BY DEF DataInv, DataNumbered
<1>3. CASE AppendDone(c) \/ CloseDone(c)
  <2>1. /\ op' = [op EXCEPT ![c] = IdleOp] /\ UNCHANGED <<meta, files, writes>>
        /\ \A a \in acked' : a \in acked \/ (a = Ack(op[c]) /\ op[c].data # 0)
    <3>1. AppendDone(c) => Writing(op[c])
      BY DEF AppendDone, Writing
    <3> QED
      BY <1>2, <1>3, <3>1 DEF AppendDone, CloseDone
  <2>2. op'[c] = IdleOp /\ OthersStay(c)
    BY <1>1, <2>1 DEF OthersStay
  <2>3. Quit(op'[c])
    BY <2>2 DEF Quit, Writing, IdleOp
  <2> QED
    BY <1>1, <2>1, <2>2, <2>3, DataStays DEF OthersStay
<1>4. CASE InitialDone(c)
  <2>1. op[c].kind = "create" /\ op[c].pc = "committed" /\ CreateTail(c, {Ack(op[c])}) /\ UNCHANGED <<files, writes>>
    BY <1>4 DEF InitialDone
  <2>2. op[c].data # 0
    BY <1>2, <2>1 DEF Writing
  <2> QED
    BY <1>1, <2>1, <2>2, CreateTailData
<1> QED
  BY <1>3, <1>4

LEMMA FsyncDoneData ==
  ASSUME FileInv, DataInv, NEW c \in Client, FsyncDone(c)
  PROVE  DataInv'
<1>1. PICK p : p = op[c].path
  OBVIOUS
<1>2. PICK d : d = op[c].streamMeta.dir
  OBVIOUS
<1>3. /\ Writing(op[c]) /\ OthersStay(c) /\ op'[c].pc = "put" /\ op'[c].streamMeta = op[c].streamMeta
      /\ op'[c].data = op[c].data /\ (\A q \in Path : SameStream(meta'[q], meta[q]))
      /\ UNCHANGED <<writes, acked>>
  BY <1>1, <1>2, FsyncDoneEffect
<1>4. \A e \in Dir : files'[e].frames = files[e].frames
  BY <1>1, <1>2, FsyncDoneEffect
<1>5. \A e \in Dir : \A i, n : Carries(files', e, i, n) => Carries(files, e, i, n)
  BY <1>4 DEF Carries
<1>6. SameJob(op'[c], op[c])
  BY <1>3 DEF SameJob
<1>7. \A x \in Client \ {c} : SameJob(op'[x], op[x])
  BY <1>3, JobFlushed DEF OthersStay, FileInv, FileTypeOK
<1>8. \A q \in Path : meta'[q].exists =>
        meta[q].exists /\ meta'[q].dir = meta[q].dir /\ Base(meta'[q]) = Base(meta[q])
  BY <1>3 DEF SameStream, Base
<1> QED
  BY <1>3, <1>5, <1>6, <1>7, <1>8, DataMoves

LEMMA CommitData ==
  ASSUME FileInv, DataInv, Commit
  PROVE  DataInv'
<1>1. PICK c \in Client : op[c].pc = "put"
  BY DEF Commit
<1>2. op' = [x \in Client |-> Flushed(op[x])] /\ UNCHANGED <<meta, files, writes, acked>>
  BY DEF Commit, PutSync
<1>3. SameJob(op'[c], op[c])
  BY <1>2, JobFlushed DEF FileInv, FileTypeOK
<1>4. SameFrames(files', files) /\ SameTails(meta', meta)
  BY <1>2, SameTailsRefl
<1> QED
  BY <1>2, <1>3, <1>4, DataStays

LEMMA WriteDoneData ==
  ASSUME FileInv, DataInv, NEW c \in Client, WriteDone(c)
  PROVE  DataInv'
<1>1. PICK d : d = op[c].streamMeta.dir
  OBVIOUS
<1>2. /\ op[c].pc = "write" /\ Writing(op[c]) /\ OthersStay(c)
      /\ op'[c].pc = "fsync" /\ op'[c].kind = op[c].kind /\ op'[c].streamMeta = op[c].streamMeta
      /\ op'[c].data = op[c].data /\ d \in Dir
      /\ UNCHANGED <<meta, writes, acked>>
  BY <1>1, WriteDoneEffect
<1>3. /\ \A e \in Dir : e # d => files'[e] = files[e]
      /\ Len(files[d].frames) \in Nat /\ Len(files[d].frames) = PlaceOf(op[c]) - 1
      /\ Len(files'[d].frames) = Len(files[d].frames) + 1
      /\ files'[d].frames[Len(files[d].frames) + 1] = FrameOf(op[c])
      /\ \A k \in 1 .. Len(files[d].frames) : files'[d].frames[k] = files[d].frames[k]
  <2>1. /\ \A e \in Dir : e # d => files'[e] = files[e]
        /\ Len(files[d].frames) \in Nat /\ Len(files[d].frames) = PlaceOf(op[c]) - 1
        /\ Len(files'[d].frames) = Len(files[d].frames) + 1
        /\ files'[d].frames[Len(files[d].frames) + 1] = FrameOf(op[c])
    BY <1>1, WriteDoneEffect
  <2>2. \A k \in 1 .. Len(files[d].frames) : files'[d].frames[k] = files[d].frames[k]
    BY <1>1, WriteDoneEffect
  <2> QED
    BY <2>1, <2>2
<1>4. PICK m \in Nat : m = op[c].data
  BY DEF FileInv, FileTypeOK, OpRecord
<1>5. m \in 1 .. writes /\ writes \in Nat
  BY <1>2, <1>4 DEF DataInv, DataNumbered, FileInv, FileTypeOK
<1>6. PlaceOf(op[c]) = Len(files[d].frames) + 1
  <2>1. op[c].streamMeta.tail \in Nat /\ Base(op[c].streamMeta) \in Nat
    BY RecordFacts DEF FileInv, FileTypeOK, OpRecord
  <2> QED
    BY <1>3, <2>1 DEF PlaceOf
<1>7. \A e \in Dir : \A i, n : Carries(files', e, i, n) =>
        Carries(files, e, i, n) \/ (e = d /\ i = PlaceOf(op[c]) /\ n = m)
  <2> SUFFICES ASSUME NEW e \in Dir, NEW i, NEW n, Carries(files', e, i, n)
               PROVE  Carries(files, e, i, n) \/ (e = d /\ i = PlaceOf(op[c]) /\ n = m)
    OBVIOUS
  <2>1. CASE e # d
    BY <1>3, <2>1 DEF Carries
  <2>2. CASE e = d
    <3>1. i \in 1 .. Len(files[d].frames) \/ i = Len(files[d].frames) + 1
      BY <1>3, <2>2 DEF Carries
    <3>2. CASE i \in 1 .. Len(files[d].frames)
      BY <1>3, <2>2, <3>2 DEF Carries
    <3>3. CASE i = Len(files[d].frames) + 1
      BY <1>3, <1>4, <1>6, <2>2, <3>3 DEF Carries, FrameOf
    <3> QED
      BY <3>1, <3>2, <3>3
  <2> QED
    BY <2>1, <2>2
<1>8. \A x \in Client : /\ op'[x].data = op[x].data /\ op'[x].streamMeta = op[x].streamMeta
                        /\ Writing(op'[x]) => Writing(op[x])
                        /\ x # c => op'[x] = op[x]
  BY <1>2 DEF OthersStay, Writing
<1>9. DataNumbered'
  <2>1. \A e \in Dir : \A i, n : Carries(files', e, i, n) => n \in 1 .. writes
    BY <1>5, <1>7 DEF DataInv, DataNumbered
  <2> QED
    BY <1>2, <1>8, <2>1 DEF DataInv, DataNumbered
<1>10. DataOwned'
  BY <1>2, <1>8 DEF DataInv, DataOwned
<1>11. DataOnce'
  <2>1. ASSUME NEW x \in Client, op'[x].data # 0, NEW e \in Dir, NEW i, Carries(files', e, i, op'[x].data)
        PROVE  op'[x].pc # "write" /\ e = op'[x].streamMeta.dir /\ i = PlaceOf(op'[x])
    <3>0. PlaceOf(op'[x]) = PlaceOf(op[x])
      BY <1>8, Zenon DEF PlaceOf
    <3>1. CASE x = c
      <4>1. CASE Carries(files, e, i, op[c].data)
        BY <1>2, <2>1, <3>1, <4>1 DEF DataInv, DataOnce
      <4>2. CASE e = d /\ i = PlaceOf(op[c])
        BY <1>1, <1>2, <3>0, <3>1, <4>2
      <4> QED
        BY <1>2, <1>7, <2>1, <3>1, <4>1, <4>2
    <3>2. CASE x # c
      <4>1. op[x].data # m
        BY <1>4, <1>8, <2>1, <3>2 DEF DataInv, DataOwned
      <4>2. Carries(files, e, i, op[x].data)
        BY <1>7, <1>8, <2>1, <4>1
      <4> QED
        BY <1>8, <2>1, <3>0, <3>2, <4>2 DEF DataInv, DataOnce
    <3> QED
      BY <3>1, <3>2
  <2>2. ASSUME NEW a \in acked, NEW p \in Path, meta[p].exists, meta[p].dir = a.dir,
               NEW i, Carries(files', a.dir, i, a.data)
        PROVE  i = a.offset - Base(meta[p])
    <3>1. a.dir \in Dir
      BY <2>2, FileBounds DEF FileInv, FileTypeOK, Placed, Dir
    <3>2. a.data # m
      BY <1>4 DEF DataInv, DataOwned
    <3>3. Carries(files, a.dir, i, a.data)
      BY <1>7, <2>2, <3>1, <3>2
    <3> QED
      BY <2>2, <3>3 DEF DataInv, DataOnce
  <2> QED
    BY <1>2, <2>1, <2>2 DEF DataOnce
<1> QED
  BY <1>9, <1>10, <1>11 DEF DataInv

LEMMA CrashData ==
  ASSUME FileInv, DataInv, Crash
  PROVE  DataInv'
<1>1. \A p \in Path : meta'[p].exists =>
        meta[p].exists /\ meta'[p].dir = meta[p].dir /\ Base(meta'[p]) = Base(meta[p]) /\ meta[p].dir \in Dir
  <2>1. \A p \in Path : meta'[p].exists => SameStream(meta'[p], meta[p]) /\ meta'[p].dir \in Dir
    BY CrashEffect
  <2> QED
    BY <2>1 DEF SameStream, Base
<1>2. \A d \in Dir : /\ Len(files'[d].frames) <= Len(files[d].frames)
                     /\ \A k \in 1 .. Len(files'[d].frames) : files'[d].frames[k] = files[d].frames[k]
                     /\ IsFile(files'[d])
  BY CrashEffect
<1>3. /\ \A c \in Client : op'[c].data = 0 /\ ~Writing(op'[c])
      /\ UNCHANGED <<writes, acked>>
  BY DEF Crash, IdleOp, Writing
<1>4. \A d \in Dir : \A i, n : Carries(files', d, i, n) => Carries(files, d, i, n)
  <2>1. \A d \in Dir : Len(files'[d].frames) \in Nat /\ Len(files[d].frames) \in Nat
    BY <1>2, FileFacts DEF FileInv, FileTypeOK
  <2> QED
    BY <1>2, <2>1 DEF Carries
<1>5. writes \in Nat
  BY DEF FileInv, FileTypeOK
<1>6. DataNumbered'
  BY <1>3, <1>4, <1>5 DEF DataInv, DataNumbered
<1>7. DataOwned'
  <2>1. \A a \in acked : a.data # 0
    BY <1>5 DEF DataInv, DataNumbered
  <2> QED
    BY <1>3, <2>1 DEF DataOwned
<1>8. DataOnce'
  <2>1. ASSUME NEW a \in acked, NEW p \in Path, meta'[p].exists, meta'[p].dir = a.dir,
               NEW i, Carries(files', a.dir, i, a.data)
        PROVE  i = a.offset - Base(meta'[p])
    BY <1>1, <1>4, <2>1 DEF DataInv, DataOnce
  <2> QED
    BY <1>3, <2>1 DEF DataOnce
<1> QED
  BY <1>6, <1>7, <1>8 DEF DataInv

LEMMA DataStep ==
  ASSUME Permanent, FileInv, DataInv, [Next]_vars
  PROVE  DataInv'
<1>1. CASE UNCHANGED vars
  BY <1>1 DEF vars, DataInv, DataNumbered, DataOwned, DataOnce
<1>2. CASE Next
  <2>0. Step
    BY <1>2, StepsLeft
  <2>1. ASSUME NEW c \in Client, NEW p \in Path, NEW o \in CreateRequest, CreateStart(c, p, o)
        PROVE  DataInv'
    BY <2>1, CreateStartData
  <2>2. ASSUME NEW c \in Client, NEW p \in Path, NEW h \in Headers \cup {NoHeaders},
               NEW close \in BOOLEAN, AppendStart(c, p, h, close)
        PROVE  DataInv'
    BY <2>2, AppendStartData
  <2>3. ASSUME NEW c \in Client, NEW p \in Path, CloseStream(c, p)
        PROVE  DataInv'
    BY <2>3, CloseStreamData
  <2>4. ASSUME NEW c \in Client, NEW p \in Path, NEW h \in Headers, CloseStreamWithProducer(c, p, h)
        PROVE  DataInv'
    BY <2>4, CloseWithProducerData
  <2>5. ASSUME NEW c \in Client, \/ OpenDone(c) \/ InitialAppend(c) \/ InitialDone(c) \/ WriteDone(c)
                                 \/ FsyncDone(c) \/ AppendDone(c) \/ CloseDone(c)
        PROVE  DataInv'
    BY <2>5, OpenDoneData, InitialAppendData, WriteDoneData, FsyncDoneData, DoneData
  <2>6. ASSUME NEW w \in Waiter, Timeout(w) \/ \E p \in Path : WaitForMessages(w, p)
        PROVE  DataInv'
    <3>1. UNCHANGED <<meta, files, op, writes, acked>>
      BY <2>6, PollStepKeeps
    <3> QED
      BY <3>1 DEF DataInv, DataNumbered, DataOwned, DataOnce
  <2> QED
    BY <2>0, <2>1, <2>2, <2>3, <2>4, <2>5, <2>6, CommitData, CrashData DEF Step
<1> QED
  BY <1>1, <1>2

----------------------------------------------------------------------------
(* The records know which requests were stored *)

\* A request that producer state st has seen.
Covers(st, h) == h.epoch < st.epoch \/ (h.epoch = st.epoch /\ h.seq <= st.lastSeq)

CoveredBy(P, h) == HasProducer(h) => h \in Headers /\ Covers(P[h.pid], h)
KnowsFrames(P, f, n) == \A i \in 1 .. n : CoveredBy(P, f.frames[i].by)
KnowsAcks(P, d, A) == \A a \in A : a.dir = d => CoveredBy(P, a.by)

\* Producer states P2 have seen whatever P have.
Grown(P2, P) == \A h : CoveredBy(P, h) => CoveredBy(P2, h)

\* A record knows the producers of every frame up to its tail until a put is
\* lost in a crash; of every answered frame it and the one on disk always do.
RecordKnows(s, t, f, A, k) ==
    /\ k = 0 => KnowsFrames(s.producers, f, s.tail - Base(s))
    /\ KnowsAcks(s.producers, s.dir, A) /\ KnowsAcks(t.producers, s.dir, A)

\* An append that writes has been accepted by a record that knows as much, and
\* the record it puts will know its own request.
OpKnows(o, M, D, F, A, k) ==
    /\ o.pc \in {"write", "fsync"} =>
         /\ Accepted(o.streamMeta, o.headers)
         /\ RecordKnows(o.streamMeta, o.streamMeta, F[o.streamMeta.dir], A, k)
    /\ Writing(o) /\ o.pc \in {"put", "committed"} =>
         /\ CoveredBy(M[o.path].producers, o.headers)
         /\ Len(F[o.streamMeta.dir].frames) = PlaceOf(o)
    /\ Writing(o) /\ o.pc = "committed" => CoveredBy(D[o.path].producers, o.headers)
    /\ o.kind \in {"create", "seal"} => o.headers = NoHeaders

KnowInv ==
    /\ \A p \in Path : meta[p].exists => RecordKnows(meta[p], disk[p], files[meta[p].dir], acked, crashes)
    /\ \A c \in Client : OpKnows(op[c], meta, disk, files, acked, crashes)

\* What an operation is answered with.
Answers(a, o) ==
    /\ a = Ack(o) /\ Stored(o) /\ o.data # 0
    /\ o.kind = "seal" \/ (Writing(o) /\ o.pc = "committed")

LEMMA CommitGrows ==
  ASSUME NEW s \in MetaRecord, NEW h \in Headers \cup {NoHeaders}, Accepted(s, h)
  PROVE  /\ Grown(Committed(s, h).producers, s.producers)
         /\ CoveredBy(Committed(s, h).producers, h)
         /\ HasProducer(h) => ~CoveredBy(s.producers, h)
<1>1. CASE HasProducer(h)
  <2>1. /\ h \in Headers /\ Committed(s, h).producers = [s.producers EXCEPT ![h.pid] = ProposedState(h.epoch, h.seq)]
    BY <1>1, CommittedTyped
  <2>2. h.pid \in Producer /\ h.epoch \in Nat /\ h.seq \in Nat
    BY <2>1, FileBounds DEF Headers
  <2>3. s.producers \in [Producer -> ProducerState]
    BY RecordFacts
  <2>4. PICK st \in ProducerState : st = s.producers[h.pid]
    BY <2>2, <2>3
  <2>5. st.epoch \in Int /\ st.lastSeq \in Int
    BY DEF ProducerState
  <2>6. ValidateProducer(st, h.epoch, h.seq) = "accepted"
    BY <1>1, <2>4 DEF Accepted
  <2>7. PICK new : new = ProposedState(h.epoch, h.seq)
    OBVIOUS
  <2>8. new.epoch = h.epoch /\ new.lastSeq = h.seq
    BY <2>7 DEF ProposedState
  <2>9. \/ st.epoch = -1
        \/ h.epoch > st.epoch
        \/ h.epoch = st.epoch /\ h.seq = st.lastSeq + 1
    BY <2>2, <2>5, <2>6 DEF ValidateProducer
  <2>10. ~Covers(st, h) /\ Covers(new, h)
    BY <2>2, <2>5, <2>8, <2>9 DEF Covers
  <2>11. \A g \in Headers : Covers(st, g) => Covers(new, g)
    <3> TAKE g \in Headers
    <3>1. g.epoch \in Nat /\ g.seq \in Nat
      BY FileBounds DEF Headers
    <3> QED
      BY <2>2, <2>5, <2>8, <2>9, <3>1 DEF Covers
  <2>12. PICK P : P = Committed(s, h).producers
    OBVIOUS
  <2>13. P[h.pid] = new /\ \A i \in Producer : i # h.pid => P[i] = s.producers[i]
    BY <2>1, <2>2, <2>3, <2>7, <2>12
  <2>14. \A g \in Headers : g.pid \in Producer
    BY DEF Headers
  <2>15. Grown(P, s.producers)
    BY <2>4, <2>11, <2>13, <2>14 DEF Grown, CoveredBy
  <2>16. CoveredBy(P, h) /\ ~CoveredBy(s.producers, h)
    BY <1>1, <2>1, <2>4, <2>10, <2>13 DEF CoveredBy
  <2> QED
    BY <2>12, <2>15, <2>16
<1>2. CASE ~HasProducer(h)
  <2>1. Committed(s, h) = s
    BY <1>2, CommittedTyped
  <2> QED
    BY <1>2, <2>1 DEF Grown, CoveredBy
<1> QED
  BY <1>1, <1>2

LEMMA KnownGrows ==
  ASSUME NEW P, NEW P2, Grown(P2, P)
  PROVE  /\ \A f, n : KnowsFrames(P, f, n) => KnowsFrames(P2, f, n)
         /\ \A d, A : KnowsAcks(P, d, A) => KnowsAcks(P2, d, A)
  BY DEF Grown, KnowsFrames, KnowsAcks

LEMMA OneSegment ==
  ASSUME FileInv
  PROVE  \A p, q \in Path : meta[p].exists /\ meta[q].exists /\ meta[p].dir = meta[q].dir => p = q
  BY DEF FileInv, Placed

\* An answer of operation o is known to the records of its stream.
LEMMA AnswerKnown ==
  ASSUME FileInv, KnowInv, NEW c \in Client, NEW a, Answers(a, op[c])
  PROVE  /\ op[c].path \in Path /\ a.dir = meta[op[c].path].dir /\ meta[op[c].path].exists
         /\ CoveredBy(meta[op[c].path].producers, a.by) /\ CoveredBy(disk[op[c].path].producers, a.by)
         /\ \A x \in Client : op[x].pc \in {"write", "fsync"} /\ op[x].streamMeta.dir = a.dir =>
              CoveredBy(op[x].streamMeta.producers, a.by)
<1>1. op[c].pc # "idle"
  BY DEF Answers, Stored, FileInv, OpPlaced, IdleOp
<1>2. /\ op[c].path \in Path /\ meta[op[c].path].exists /\ op[c].streamMeta.dir = meta[op[c].path].dir
  BY <1>1, OpFacts DEF SameStream
<1>3. a.dir = op[c].streamMeta.dir /\ a.by = op[c].headers
  BY DEF Answers, Ack
<1>4. OpKnows(op[c], meta, disk, files, acked, crashes)
  BY DEF KnowInv
<1>5. CASE op[c].kind = "seal"
  <2>1. ~HasProducer(a.by)
    BY <1>3, <1>4, <1>5 DEF OpKnows, HasProducer, NoHeaders
  <2> QED
    BY <1>2, <1>3, <2>1 DEF CoveredBy
<1>6. CASE Writing(op[c]) /\ op[c].pc = "committed"
  <2>1. CoveredBy(meta[op[c].path].producers, a.by) /\ CoveredBy(disk[op[c].path].producers, a.by)
    BY <1>3, <1>4, <1>6 DEF OpKnows
  <2>2. ASSUME NEW x \in Client, op[x].pc \in {"write", "fsync"}, op[x].streamMeta.dir = a.dir
        PROVE  FALSE
    <3>1. op[x].pc # "idle" /\ x # c
      BY <1>6, <2>2
    <3>2. op[x].path \in Path /\ meta[op[x].path].exists /\ op[x].streamMeta.dir = meta[op[x].path].dir
          /\ OpInStep(op[x], meta, files)
      BY <3>1, OpFacts DEF SameStream
    <3>3. op[x].path = op[c].path
      BY <1>2, <1>3, <2>2, <3>2, OneSegment
    <3>4. Writing(op[x])
      BY <2>2, <3>2 DEF OpInStep, Writing
    <3> QED
      BY <1>6, <3>1, <3>3, <3>4 DEF FileInv, OneWriter
  <2> QED
    BY <1>2, <1>3, <2>1, <2>2
<1> QED
  BY <1>5, <1>6 DEF Answers

\* A step that stores nothing and loses nothing: records grow, operation c
\* may be answered, the others at most see their puts committed.
LEMMA KnowMoves ==
  ASSUME FileInv, FileInv', KnowInv, NEW c \in Client, crashes' = crashes,
         \A d \in Dir : d <= births => files'[d].frames = files[d].frames,
         \A q \in Path : meta[q].exists =>
            /\ SameStream(meta'[q], meta[q]) /\ meta'[q].tail = meta[q].tail
            /\ Grown(meta'[q].producers, meta[q].producers),
         \A q \in Path : meta'[q].exists /\ ~meta[q].exists =>
            /\ meta'[q].dir > births
            /\ \A k \in 1 .. meta'[q].tail - Base(meta'[q]) : files'[meta'[q].dir].frames[k].by = NoHeaders,
         disk' = disk \/ disk' = meta',
         \A x \in Client \ {c} : op'[x] = op[x] \/ (op'[x] = Flushed(op[x]) /\ disk' = meta'),
         OpKnows(op'[c], meta', disk', files', acked', crashes'),
         \A a \in acked' : a \in acked \/ Answers(a, op[c])
  PROVE  KnowInv'
<1>0. births \in Nat /\ \A q \in Path : meta[q].exists => meta[q].dir \in Dir /\ meta[q].dir <= births
  BY FileBounds DEF FileInv, FileTypeOK, Placed, Dir
<1>1. \A a \in acked' : a.dir \in Nat /\ a.dir <= births
  <2>1. \A a \in acked : a.dir \in Nat /\ a.dir <= births
    BY DEF FileInv, AckedHeld, AckRecord
  <2>2. \A a : Answers(a, op[c]) => a.dir \in Nat /\ a.dir <= births
    BY <1>0, AnswerKnown, FileBounds DEF Dir
  <2> QED
    BY <2>1, <2>2
<1>2. \A q \in Path : meta[q].exists =>
        KnowsAcks(meta[q].producers, meta[q].dir, acked') /\ KnowsAcks(disk[q].producers, meta[q].dir, acked')
  <2> SUFFICES ASSUME NEW q \in Path, meta[q].exists, NEW a \in acked', a.dir = meta[q].dir
               PROVE  CoveredBy(meta[q].producers, a.by) /\ CoveredBy(disk[q].producers, a.by)
    BY DEF KnowsAcks
  <2>1. CASE a \in acked
    BY <2>1 DEF KnowInv, RecordKnows, KnowsAcks
  <2>2. CASE Answers(a, op[c])
    <3>1. /\ op[c].path \in Path /\ a.dir = meta[op[c].path].dir /\ meta[op[c].path].exists
          /\ CoveredBy(meta[op[c].path].producers, a.by) /\ CoveredBy(disk[op[c].path].producers, a.by)
      BY <2>2, AnswerKnown
    <3>2. op[c].path = q
      BY <3>1, OneSegment
    <3> QED
      BY <3>1, <3>2
  <2> QED
    BY <2>1, <2>2
<1>3. ASSUME NEW q \in Path, meta'[q].exists
      PROVE  RecordKnows(meta'[q], disk'[q], files'[meta'[q].dir], acked', crashes')
  <2>1. CASE meta[q].exists
    <3>1. /\ meta'[q].dir = meta[q].dir /\ Base(meta'[q]) = Base(meta[q]) /\ meta'[q].tail = meta[q].tail
          /\ Grown(meta'[q].producers, meta[q].producers) /\ files'[meta[q].dir].frames = files[meta[q].dir].frames
      BY <1>0, <2>1 DEF SameStream, Base
    <3>2. KnowsAcks(meta'[q].producers, meta[q].dir, acked')
      BY <1>2, <2>1, <3>1, KnownGrows
    <3>3. KnowsAcks(disk'[q].producers, meta[q].dir, acked')
      BY <1>2, <2>1, <3>2
    <3>4. crashes = 0 => KnowsFrames(meta'[q].producers, files[meta[q].dir], meta[q].tail - Base(meta[q]))
      BY <2>1, <3>1, KnownGrows DEF KnowInv, RecordKnows
    <3>5. crashes = 0 => KnowsFrames(meta'[q].producers, files'[meta[q].dir], meta[q].tail - Base(meta[q]))
      BY <3>1, <3>4 DEF KnowsFrames
    <3> QED
      BY <3>1, <3>2, <3>3, <3>5 DEF RecordKnows
  <2>2. CASE ~meta[q].exists
    <3>1. \A P : KnowsAcks(P, meta'[q].dir, acked')
      <4>1. meta'[q].dir \in Nat /\ meta'[q].dir > births
        BY <1>3, <2>2, RecordFacts DEF FileInv, FileTypeOK
      <4> QED
        BY <1>0, <1>1, <4>1 DEF KnowsAcks
    <3>2. KnowsFrames(meta'[q].producers, files'[meta'[q].dir], meta'[q].tail - Base(meta'[q]))
      BY <1>3, <2>2 DEF KnowsFrames, CoveredBy, HasProducer, NoHeaders
    <3> QED
      BY <3>1, <3>2 DEF RecordKnows
  <2> QED
    BY <2>1, <2>2
<1>4. ASSUME NEW x \in Client \ {c}
      PROVE  OpKnows(op'[x], meta', disk', files', acked', crashes')
  <2>1. PICK o : o = op[x]
    OBVIOUS
  <2>2. PICK n : n = op'[x]
    OBVIOUS
  <2>3. o \in OpRecord /\ OpKnows(o, meta, disk, files, acked, crashes)
    BY <2>1 DEF KnowInv, FileInv, FileTypeOK
  <2>4. /\ n.kind = o.kind /\ n.path = o.path /\ n.streamMeta = o.streamMeta /\ n.headers = o.headers
        /\ n.pc = o.pc \/ (o.pc = "put" /\ n.pc = "committed" /\ disk' = meta')
    BY <2>1, <2>2, <2>3, FlushedTyped
  <2>5. o.pc # "idle" => /\ o.path \in Path /\ meta[o.path].exists /\ o.streamMeta.dir = meta[o.path].dir
                         /\ files'[o.streamMeta.dir].frames = files[o.streamMeta.dir].frames
                         /\ Grown(meta'[o.path].producers, meta[o.path].producers)
    BY <1>0, <2>1, OpFacts DEF SameStream
  <2>6. n.pc \in {"write", "fsync"} =>
           /\ Accepted(n.streamMeta, n.headers)
           /\ RecordKnows(n.streamMeta, n.streamMeta, files'[n.streamMeta.dir], acked', crashes')
    <3> SUFFICES ASSUME o.pc \in {"write", "fsync"}
                 PROVE  /\ Accepted(o.streamMeta, o.headers)
                        /\ RecordKnows(o.streamMeta, o.streamMeta, files'[o.streamMeta.dir], acked', crashes')
      BY <2>4
    <3>1. Accepted(o.streamMeta, o.headers) /\ RecordKnows(o.streamMeta, o.streamMeta, files[o.streamMeta.dir], acked, crashes)
      BY <2>3 DEF OpKnows
    <3>2. KnowsAcks(o.streamMeta.producers, o.streamMeta.dir, acked')
      <4>1. \A a \in acked : a.dir = o.streamMeta.dir => CoveredBy(o.streamMeta.producers, a.by)
        BY <3>1 DEF RecordKnows, KnowsAcks
      <4>2. \A a : Answers(a, op[c]) /\ a.dir = o.streamMeta.dir => CoveredBy(o.streamMeta.producers, a.by)
        BY <2>1, AnswerKnown
      <4> QED
        BY <4>1, <4>2 DEF KnowsAcks
    <3>3. crashes = 0 => KnowsFrames(o.streamMeta.producers, files'[o.streamMeta.dir], o.streamMeta.tail - Base(o.streamMeta))
      BY <2>5, <3>1 DEF RecordKnows, KnowsFrames
    <3> QED
      BY <3>1, <3>2, <3>3 DEF RecordKnows
  <2>7. PlaceOf(n) = PlaceOf(o) /\ (Writing(n) => Writing(o))
    BY <2>4 DEF PlaceOf, Writing
  <2>8. Writing(n) /\ n.pc \in {"put", "committed"} =>
          CoveredBy(meta'[n.path].producers, n.headers) /\ Len(files'[n.streamMeta.dir].frames) = PlaceOf(n)
    BY <2>3, <2>4, <2>5, <2>7 DEF OpKnows, Grown
  <2>9. Writing(n) /\ n.pc = "committed" => CoveredBy(disk'[n.path].producers, n.headers)
    BY <2>3, <2>4, <2>7, <2>8 DEF OpKnows
  <2>10. n.kind \in {"create", "seal"} => n.headers = NoHeaders
    BY <2>3, <2>4 DEF OpKnows
  <2>11. OpKnows(n, meta', disk', files', acked', crashes')
    BY <2>6, <2>8, <2>9, <2>10 DEF OpKnows
  <2> QED
    BY <2>2, <2>11
<1>5. \A x \in Client : OpKnows(op'[x], meta', disk', files', acked', crashes')
  BY <1>4
<1> QED
  BY <1>3, <1>5 DEF KnowInv

LEMMA KnowStays ==
  ASSUME FileInv, FileInv', KnowInv, NEW c \in Client, crashes' = crashes,
         \A d \in Dir : files'[d].frames = files[d].frames,
         SameTails(meta', meta), \A q \in Path : Grown(meta'[q].producers, meta[q].producers),
         disk' = disk \/ disk' = meta',
         \A x \in Client \ {c} : op'[x] = op[x] \/ (op'[x] = Flushed(op[x]) /\ disk' = meta'),
         OpKnows(op'[c], meta', disk', files', acked', crashes'),
         \A a \in acked' : a \in acked \/ Answers(a, op[c])
  PROVE  KnowInv'
<1>1. \A q \in Path : SameStream(meta'[q], meta[q]) /\ meta'[q].tail = meta[q].tail
  BY DEF SameTails
<1>2. \A q \in Path : meta'[q].exists = meta[q].exists
  BY <1>1 DEF SameStream
<1> QED
  BY <1>1, <1>2, KnowMoves

\* An operation that is not writing.
LEMMA OpKnowsLittle ==
  ASSUME NEW o, NEW M, NEW D, NEW F, NEW A, NEW k, ~Writing(o), o.pc \notin {"write", "fsync"},
         o.kind \in {"create", "seal"} => o.headers = NoHeaders
  PROVE  OpKnows(o, M, D, F, A, k)
  BY DEF OpKnows

LEMMA GrownSame ==
  ASSUME NEW P
  PROVE  Grown(P, P)
  BY DEF Grown

LEMMA CreateStartKnows ==
  ASSUME Permanent, FileInv, FileInv', KnowInv, NEW c \in Client, NEW p \in Path, NEW o \in CreateRequest,
         CreateStart(c, p, o)
  PROVE  KnowInv'
<1>1. PICK d : d = births + 1
  OBVIOUS
<1>2. /\ ~meta[p].exists /\ d \in Dir /\ disk' = meta' /\ meta'[p].dir = d
      /\ meta'[p].tail = Base(meta'[p]) + Len(files'[d].frames) /\ meta' \in [Path -> MetaRecord]
      /\ OthersFlush(c) /\ op'[c].kind = "create" /\ op'[c].pc = "open" /\ op'[c].headers = NoHeaders
      /\ IsFile(files'[d]) /\ UNCHANGED <<crashes, acked>>
  BY <1>1, CreateStartEffect
<1>3. \A q \in Path : q # p => /\ SameStream(meta'[q], meta[q]) /\ meta'[q].tail = meta[q].tail
                               /\ meta'[q].producers = meta[q].producers
  BY <1>1, CreateStartEffect
<1>4. \A e \in Dir : e # d => files'[e] = files[e]
  BY <1>1, CreateStartEffect
<1>5. \A k \in 1 .. Len(files'[d].frames) : files'[d].frames[k].by = NoHeaders
  BY <1>1, CreateStartEffect
<1>6. births \in Nat
  BY FileBounds DEF FileInv, FileTypeOK
<1>7. \A e \in Dir : e <= births => files'[e].frames = files[e].frames
  BY <1>1, <1>4, <1>6, FileBounds DEF Dir
<1>8. \A q \in Path : meta[q].exists =>
            /\ SameStream(meta'[q], meta[q]) /\ meta'[q].tail = meta[q].tail
            /\ Grown(meta'[q].producers, meta[q].producers)
  BY <1>2, <1>3, GrownSame
<1>9. \A q \in Path : meta'[q].exists /\ ~meta[q].exists =>
            /\ meta'[q].dir > births
            /\ \A k \in 1 .. meta'[q].tail - Base(meta'[q]) : files'[meta'[q].dir].frames[k].by = NoHeaders
  <2>1. meta'[p].tail - Base(meta'[p]) = Len(files'[d].frames)
    <3>1. Base(meta'[p]) \in Nat /\ Len(files'[d].frames) \in Nat
      BY <1>2, RecordFacts, FileFacts
    <3> QED
      BY <1>2, <3>1
  <2>2. \A q \in Path : meta'[q].exists /\ ~meta[q].exists => q = p
    BY <1>3 DEF SameStream
  <2> QED
    BY <1>1, <1>2, <1>5, <1>6, <2>1, <2>2
<1>10. OpKnows(op'[c], meta', disk', files', acked', crashes')
  BY <1>2, OpKnowsLittle DEF Writing
<1>11. \A x \in Client \ {c} : op'[x] = Flushed(op[x])
  BY <1>2 DEF OthersFlush
<1> QED
  BY <1>2, <1>7, <1>8, <1>9, <1>10, <1>11, KnowMoves

\* append() remembers the record that accepts the request.
LEMMA TakenKnows ==
  ASSUME FileInv, KnowInv, NEW p \in Path, meta[p].exists, NEW o, o.pc = "write", o.streamMeta = meta[p],
         Accepted(meta[p], o.headers), o.kind \in {"create", "seal"} => o.headers = NoHeaders,
         NEW M, NEW D
  PROVE  OpKnows(o, M, D, files, acked, crashes)
<1>1. RecordKnows(meta[p], meta[p], files[meta[p].dir], acked, crashes)
  BY DEF KnowInv, RecordKnows
<1> QED
  BY <1>1 DEF OpKnows

LEMMA AppendStartKnows ==
  ASSUME FileInv, FileInv', KnowInv, NEW c \in Client, NEW p \in Path,
         NEW h \in Headers \cup {NoHeaders}, NEW close \in BOOLEAN, AppendStart(c, p, h, close)
  PROVE  KnowInv'
<1>1. FileTypeOK
  BY DEF FileInv
<1>2. /\ OthersStay(c) /\ meta[p].exists /\ Accepted(meta[p], h) /\ op'[c].kind = "append"
      /\ op'[c].pc = "write" /\ op'[c].streamMeta = meta[p] /\ op'[c].headers = h
      /\ UNCHANGED <<meta, disk, files, crashes, acked>>
  BY <1>1, AppendStartEffect
<1>3. OpKnows(op'[c], meta', disk', files', acked', crashes')
  BY <1>2, TakenKnows
<1>4. SameTails(meta', meta) /\ \A q \in Path : Grown(meta'[q].producers, meta[q].producers)
  BY <1>2, SameTailsRefl, GrownSame
<1> QED
  BY <1>2, <1>3, <1>4, KnowStays DEF OthersStay

LEMMA IdleKnows ==
  ASSUME NEW M, NEW D, NEW F, NEW A, NEW k
  PROVE  OpKnows(IdleOp, M, D, F, A, k)
  BY OpKnowsLittle DEF IdleOp, Writing

LEMMA CloseStreamKnows ==
  ASSUME FileInv, FileInv', KnowInv, NEW c \in Client, NEW p \in Path, CloseStream(c, p)
  PROVE  KnowInv'
<1>1. FileTypeOK /\ Reaped(meta, p) = meta
  BY LookupPlain DEF FileInv
<1>2. PICK M : M = [meta EXCEPT ![p].closed = TRUE]
  OBVIOUS
<1>3. /\ meta' = M /\ disk' = M /\ op' = [x \in Client |-> Flushed(op[x])] /\ op[c].pc = "idle"
      /\ UNCHANGED <<files, crashes, acked>>
  BY <1>1, <1>2 DEF CloseStream, PutSync, Idle
<1>4. SameTails(M, meta) /\ \A q \in Path : M[q].producers = meta[q].producers
  <2>1. FileTypeOK
    BY <1>1
  <2>2. SameTails(M, meta)
    BY <1>2, <2>1, ClosedRecord
  <2>3. \A q \in Path : M[q].producers = meta[q].producers
    BY <1>2, <2>1, ClosedRecord
  <2> QED
    BY <2>2, <2>3
<1>5. op'[c] = IdleOp
  <2>1. op[c] = IdleOp /\ op[c] \in OpRecord
    BY <1>3 DEF FileInv, FileTypeOK, OpPlaced
  <2> QED
    BY <1>3, <2>1, FlushedTyped
<1>6. OpKnows(op'[c], meta', disk', files', acked', crashes')
  BY <1>5, IdleKnows
<1>7. \A q \in Path : Grown(meta'[q].producers, meta[q].producers)
  BY <1>3, <1>4, GrownSame
<1> QED
  BY <1>3, <1>4, <1>6, <1>7, KnowStays

LEMMA CloseWithProducerKnows ==
  ASSUME FileInv, FileInv', KnowInv, NEW c \in Client, NEW p \in Path, NEW h \in Headers,
         CloseStreamWithProducer(c, p, h)
  PROVE  KnowInv'
<1>1. FileTypeOK
  BY DEF FileInv
<1>2. /\ OthersStay(c) /\ Accepted(meta[p], h) /\ op'[c].kind = "close" /\ op'[c].pc = "put"
      /\ SameTails(meta', meta) /\ meta'[p].producers = Committed(meta[p], h).producers
      /\ \A q \in Path : q # p => meta'[q] = meta[q]
      /\ UNCHANGED <<disk, files, crashes, acked>>
  BY <1>1, CloseWithProducerEffect
<1>3. h \in Headers \cup {NoHeaders} /\ meta[p] \in MetaRecord
  BY <1>1 DEF FileTypeOK
<1>4. Grown(meta'[p].producers, meta[p].producers)
  BY <1>2, <1>3, CommitGrows
<1>5. \A q \in Path : Grown(meta'[q].producers, meta[q].producers)
  BY <1>2, <1>4, GrownSame
<1>6. OpKnows(op'[c], meta', disk', files', acked', crashes')
  BY <1>2, OpKnowsLittle DEF Writing
<1> QED
  BY <1>2, <1>5, <1>6, KnowStays DEF OthersStay

LEMMA CreateTailKnows ==
  ASSUME FileInv, FileInv', KnowInv, NEW c \in Client, NEW answered, CreateTail(c, answered),
         op[c].kind = "create", op[c].pc \in {"open", "lock", "committed"},
         \A a \in answered : Answers(a, op[c]),
         \A d \in Dir : files'[d].frames = files[d].frames, crashes' = crashes
  PROVE  KnowInv'
<1>1. /\ OthersStay(c) /\ SameTails(meta', meta) /\ disk' = disk
      /\ \A q \in Path : meta'[q].producers = meta[q].producers
  BY CreateTailEffect
<1>2. op[c].headers = NoHeaders
  BY DEF KnowInv, OpKnows
<1>3. OpKnows(op'[c], meta', disk', files', acked', crashes') /\ \A a \in acked' : a \in acked \/ Answers(a, op[c])
  <2>1. CASE op[c].close
    <3>1. op'[c].kind = "seal" /\ op'[c].pc = "put" /\ op'[c].headers = NoHeaders /\ acked' = acked
      BY <1>2, <2>1, CreateTailEffect
    <3> QED
      BY <3>1, OpKnowsLittle DEF Writing
  <2>2. CASE ~op[c].close
    <3>1. op'[c] = IdleOp /\ acked' = acked \cup answered
      BY <2>2, CreateTailEffect
    <3> QED
      BY <3>1, IdleKnows
  <2> QED
    BY <2>1, <2>2
<1>4. \A q \in Path : Grown(meta'[q].producers, meta[q].producers)
  BY <1>1, GrownSame
<1> QED
  BY <1>1, <1>3, <1>4, KnowStays DEF OthersStay

LEMMA OpenDoneKnows ==
  ASSUME FileInv, FileInv', KnowInv, NEW c \in Client, OpenDone(c)
  PROVE  KnowInv'
<1>1. /\ op[c].pc = "open" /\ crashes' = crashes
      /\ IF op[c].init = "none" THEN CreateTail(c, {})
         ELSE op' = [op EXCEPT ![c].pc = "lock"] /\ UNCHANGED <<meta, disk, acked>>
  BY DEF OpenDone
<1>2. op[c].kind = "create" /\ op[c] \in OpRecord /\ op \in [Client -> OpRecord]
  BY <1>1, OpFacts DEF OpPlaced, FileInv, FileTypeOK
<1>3. \A d \in Dir : files'[d].frames = files[d].frames
  <2>1. SameFrames(files', files)
    BY OpenEffect
  <2> QED
    BY <2>1 DEF SameFrames
<1>4. CASE op[c].init = "none"
  <2>1. CreateTail(c, {}) /\ \A a \in {} : Answers(a, op[c])
    BY <1>1, <1>4
  <2> QED
    BY <1>1, <1>2, <1>3, <2>1, CreateTailKnows
<1>5. CASE op[c].init # "none"
  <2>1. PICK n : n = [op[c] EXCEPT !.pc = "lock"]
    OBVIOUS
  <2>2. n.kind = op[c].kind /\ n.headers = op[c].headers /\ n.pc = "lock"
    BY <1>2, <2>1 DEF OpRecord
  <2>3. op' = [op EXCEPT ![c] = n] /\ UNCHANGED <<meta, disk, acked>>
    BY <1>1, <1>5, <2>1
  <2>4. op'[c] = n /\ OthersStay(c)
    BY <1>2, <2>3 DEF OthersStay
  <2>5. n.headers = NoHeaders
    BY <1>2, <2>2 DEF KnowInv, OpKnows
  <2>6. OpKnows(op'[c], meta', disk', files', acked', crashes')
    BY <2>2, <2>4, <2>5, OpKnowsLittle DEF Writing
  <2>7. SameTails(meta', meta) /\ \A q \in Path : Grown(meta'[q].producers, meta[q].producers)
    BY <2>3, SameTailsRefl, GrownSame
  <2> QED
    BY <1>1, <1>3, <2>3, <2>4, <2>6, <2>7, KnowStays DEF OthersStay
<1> QED
  BY <1>4, <1>5

LEMMA InitialAppendKnows ==
  ASSUME FileInv, FileInv', KnowInv, NEW c \in Client, InitialAppend(c)
  PROVE  KnowInv'
<1>1. op[c].pc = "lock"
  BY InitialAppendEffect
<1>2. op[c].kind = "create" /\ op[c].path \in Path /\ meta[op[c].path].exists
  BY <1>1, OpFacts DEF OpPlaced
<1>3. op[c].headers = NoHeaders
  BY <1>2 DEF KnowInv, OpKnows
<1>4. CASE CreateTail(c, {}) /\ UNCHANGED <<files, crashes>>
  <2>1. CreateTail(c, {}) /\ \A a \in {} : Answers(a, op[c])
    BY <1>4
  <2> QED
    BY <1>1, <1>2, <1>4, <2>1, CreateTailKnows
<1>5. CASE /\ OthersStay(c) /\ op'[c].kind = op[c].kind /\ op'[c].pc = "write"
           /\ op'[c].streamMeta = meta[op[c].path] /\ op'[c].headers = op[c].headers
           /\ UNCHANGED <<meta, disk, files, crashes, acked>>
  <2>1. Accepted(meta[op[c].path], NoHeaders)
    BY DEF Accepted, HasProducer, NoHeaders
  <2>2. OpKnows(op'[c], meta', disk', files', acked', crashes')
    BY <1>2, <1>3, <1>5, <2>1, TakenKnows
  <2>3. SameTails(meta', meta) /\ \A q \in Path : Grown(meta'[q].producers, meta[q].producers)
    BY <1>5, SameTailsRefl, GrownSame
  <2> QED
    BY <1>5, <2>2, <2>3, KnowStays DEF OthersStay
<1> QED
  BY <1>4, <1>5, InitialAppendEffect

\* An operation that ends answers with what it stored.
LEMMA DoneAnswers ==
  ASSUME FileInv, DataInv, NEW c \in Client, AppendDone(c) \/ CloseDone(c) \/ InitialDone(c)
  PROVE  /\ AppendDone(c) \/ InitialDone(c) => Answers(Ack(op[c]), op[c])
         /\ \A a \in acked' : a \in acked \/ Answers(a, op[c])
<1>1. AppendDone(c) \/ InitialDone(c) => Answers(Ack(op[c]), op[c])
  <2> SUFFICES ASSUME AppendDone(c) \/ InitialDone(c) PROVE Answers(Ack(op[c]), op[c])
    OBVIOUS
  <2>1. op[c].kind \in {"append", "create"} /\ op[c].pc = "committed"
    BY DEF AppendDone, InitialDone
  <2>2. Writing(op[c]) /\ Stored(op[c])
    BY <2>1 DEF Writing, Stored
  <2>3. op[c].data # 0
    BY <2>2 DEF DataInv, DataNumbered
  <2> QED
    BY <2>1, <2>2, <2>3 DEF Answers
<1>2. CASE AppendDone(c)
  BY <1>1, <1>2 DEF AppendDone
<1>3. CASE InitialDone(c)
  BY <1>1, <1>3 DEF InitialDone, CreateTail
<1>4. CASE CloseDone(c)
  <2>1. op[c].kind = "close" => op[c].data = 0
    BY DEF FileInv, OpPlaced
  <2>2. op[c].kind = "seal" /\ op[c].data # 0 => Answers(Ack(op[c]), op[c])
    BY DEF Answers, Stored
  <2> QED
    BY <1>1, <1>4, <2>1, <2>2 DEF CloseDone
<1> QED
  BY <1>1, <1>2, <1>3, <1>4

LEMMA DoneKnows ==
  ASSUME FileInv, FileInv', DataInv, KnowInv, NEW c \in Client,
         AppendDone(c) \/ CloseDone(c) \/ InitialDone(c)
  PROVE  KnowInv'
<1>1. SameTails(meta, meta) /\ op \in [Client -> OpRecord] /\ \A q \in Path : Grown(meta[q].producers, meta[q].producers)
  BY SameTailsRefl, GrownSame DEF FileInv, FileTypeOK
<1>2. CASE AppendDone(c) \/ CloseDone(c)
  <2>1. op' = [op EXCEPT ![c] = IdleOp] /\ UNCHANGED <<meta, disk, files, crashes>>
    BY <1>2 DEF AppendDone, CloseDone
  <2>2. op'[c] = IdleOp /\ OthersStay(c)
    BY <1>1, <2>1 DEF OthersStay
  <2>3. OpKnows(op'[c], meta', disk', files', acked', crashes')
    BY <2>2, IdleKnows
  <2>4. \A a \in acked' : a \in acked \/ Answers(a, op[c])
    BY DoneAnswers
  <2> QED
    BY <1>1, <2>1, <2>2, <2>3, <2>4, KnowStays DEF OthersStay
<1>3. CASE InitialDone(c)
  <2>1. op[c].kind = "create" /\ op[c].pc = "committed" /\ CreateTail(c, {Ack(op[c])}) /\ UNCHANGED <<files, crashes>>
    BY <1>3 DEF InitialDone
  <2>2. \A a \in {Ack(op[c])} : Answers(a, op[c])
    BY <1>3, DoneAnswers
  <2> QED
    BY <2>1, <2>2, CreateTailKnows
<1> QED
  BY <1>2, <1>3

LEMMA CommitKnows ==
  ASSUME FileInv, FileInv', KnowInv, Commit
  PROVE  KnowInv'
<1>1. PICK c \in Client : op[c].pc = "put"
  BY DEF Commit
<1>2. /\ op' = [x \in Client |-> Flushed(op[x])] /\ disk' = meta /\ UNCHANGED <<meta, files, crashes, acked>>
  BY DEF Commit, PutSync
<1>3. PICK n : n = op'[c]
  OBVIOUS
<1>4. op[c] \in OpRecord /\ OpKnows(op[c], meta, disk, files, acked, crashes)
  BY DEF KnowInv, FileInv, FileTypeOK
<1>5. /\ n.kind = op[c].kind /\ n.path = op[c].path /\ n.streamMeta = op[c].streamMeta
      /\ n.headers = op[c].headers /\ n.pc = "committed"
  BY <1>1, <1>2, <1>3, <1>4, FlushedTyped
<1>6. (Writing(n) => Writing(op[c])) /\ PlaceOf(n) = PlaceOf(op[c])
  BY <1>1, <1>5 DEF Writing, PlaceOf
<1>7. OpKnows(n, meta, meta, files, acked, crashes)
  BY <1>1, <1>4, <1>5, <1>6 DEF OpKnows
<1>8. SameTails(meta', meta) /\ \A q \in Path : Grown(meta'[q].producers, meta[q].producers)
  BY <1>2, SameTailsRefl, GrownSame
<1> QED
  BY <1>2, <1>3, <1>7, <1>8, KnowStays

LEMMA OpKnowsKept ==
  ASSUME NEW o, NEW M, NEW M2, NEW D, NEW F, NEW F2, NEW A, NEW k, OpKnows(o, M, D, F, A, k),
         Writing(o) => M2[o.path].producers = M[o.path].producers,
         Writing(o) \/ o.pc \in {"write", "fsync"} => F2[o.streamMeta.dir].frames = F[o.streamMeta.dir].frames
  PROVE  OpKnows(o, M2, D, F2, A, k)
  BY DEF OpKnows, RecordKnows, KnowsFrames

\* The operations beside an append that writes the segment of its stream.
LEMMA OthersKnow ==
  ASSUME FileInv, KnowInv, NEW c \in Client, Writing(op[c]), op[c].pc # "idle",
         NEW M2, \A q \in Path : q # op[c].path => M2[q] = meta[q],
         NEW F2, \A d \in Dir : d # op[c].streamMeta.dir => F2[d].frames = files[d].frames,
         NEW x \in Client, x # c
  PROVE  OpKnows(op[x], M2, disk, F2, acked, crashes)
<1>1. OpKnows(op[x], meta, disk, files, acked, crashes)
  BY DEF KnowInv
<1>2. CASE op[x].path = op[c].path
  <2>1. ~Writing(op[x]) /\ op[x].pc \notin {"write", "fsync"}
    BY <1>2, OthersWait
  <2> QED
    BY <1>1, <2>1 DEF OpKnows
<1>3. CASE op[x].path # op[c].path
  <2>1. CASE op[x].pc = "idle"
    BY <1>1, <2>1 DEF OpKnows, Writing
  <2>2. CASE op[x].pc # "idle"
    <3>1. /\ op[x].path \in Path /\ meta[op[x].path].exists /\ op[x].streamMeta.dir \in Dir
          /\ op[x].streamMeta.dir = meta[op[x].path].dir
      BY <2>2, OpFacts DEF SameStream
    <3>2. /\ op[c].path \in Path /\ meta[op[c].path].exists /\ op[c].streamMeta.dir = meta[op[c].path].dir
      BY OpFacts DEF SameStream
    <3>3. op[x].streamMeta.dir # op[c].streamMeta.dir
      BY <1>3, <3>1, <3>2, OneSegment
    <3>4. /\ M2[op[x].path].producers = meta[op[x].path].producers
          /\ F2[op[x].streamMeta.dir].frames = files[op[x].streamMeta.dir].frames
      BY <1>3, <3>1, <3>3
    <3> QED
      BY <1>1, <3>4, OpKnowsKept
  <2> QED
    BY <2>1, <2>2
<1> QED
  BY <1>2, <1>3

LEMMA FsyncDoneKnows ==
  ASSUME FileInv, KnowInv, NEW c \in Client, FsyncDone(c)
  PROVE  KnowInv'
<1>1. PICK p : p = op[c].path
  OBVIOUS
<1>2. PICK d : d = op[c].streamMeta.dir
  OBVIOUS
<1>3. /\ op[c].pc = "fsync" /\ Writing(op[c]) /\ p \in Path /\ meta[p].exists /\ d = meta[p].dir
      /\ OthersStay(c) /\ op'[c].pc = "put" /\ op'[c].kind = op[c].kind /\ op'[c].path = p
      /\ op'[c].streamMeta = op[c].streamMeta /\ op'[c].headers = op[c].headers
      /\ d \in Dir /\ files'[d].frames = files[d].frames
  BY <1>1, <1>2, FsyncDoneEffect
<1>4. /\ Len(files[d].frames) = PlaceOf(op[c]) /\ Len(files[d].frames) \in Nat
      /\ files[d].frames[Len(files[d].frames)] = FrameOf(op[c])
      /\ op[c].streamMeta.tail = meta[p].tail /\ meta'[p].tail = meta[p].tail + 1
      /\ meta'[p].producers = Committed(op[c].streamMeta, op[c].headers).producers
      /\ UNCHANGED <<disk, crashes, acked>>
  BY <1>1, <1>2, FsyncDoneEffect
<1>5. /\ \A e \in Dir : e # d => files'[e] = files[e]
      /\ \A q \in Path : SameStream(meta'[q], meta[q])
      /\ \A q \in Path : q # p => meta'[q] = meta[q]
  BY <1>1, <1>2, FsyncDoneEffect
<1>6. PICK s \in MetaRecord : s = op[c].streamMeta
  BY <1>3, OpFacts
<1>7. PICK h \in Headers \cup {NoHeaders} : h = op[c].headers
  BY DEF FileInv, FileTypeOK, OpRecord
<1>8. Accepted(s, h) /\ RecordKnows(s, s, files[d], acked, crashes)
  BY <1>2, <1>3, <1>6, <1>7 DEF KnowInv, OpKnows
<1>9. PICK P : P = Committed(s, h).producers
  OBVIOUS
<1>10. Grown(P, s.producers) /\ CoveredBy(P, h)
  BY <1>8, <1>9, CommitGrows
<1>11. meta'[p].producers = P
  BY <1>4, <1>6, <1>7, <1>9
<1>12. PICK n \in Nat : n = Len(files[d].frames)
  BY <1>4
<1>13. s.tail \in Nat /\ Base(s) \in Nat /\ Base(meta'[p]) = Base(s) /\ n = s.tail + 1 - Base(s)
       /\ meta'[p].tail = s.tail + 1 /\ meta'[p].dir = d
  <2>1. Base(s) = Base(meta[p]) /\ s.tail \in Nat /\ Base(s) \in Nat
    BY <1>1, <1>3, <1>6, OpFacts, RecordFacts
  <2>2. Base(meta'[p]) = Base(meta[p]) /\ meta'[p].dir = meta[p].dir
    BY <1>3, <1>5 DEF SameStream, Base
  <2> QED
    BY <1>3, <1>4, <1>6, <1>12, <2>1, <2>2 DEF PlaceOf
<1>14. RecordKnows(meta'[p], disk[p], files'[d], acked, crashes)
  <2>1. KnowsAcks(P, d, acked) /\ KnowsAcks(disk[p].producers, d, acked)
    <3>1. s.dir = d /\ KnowsAcks(s.producers, d, acked)
      BY <1>2, <1>6, <1>8 DEF RecordKnows
    <3> QED
      BY <1>3, <1>10, <3>1, KnownGrows DEF KnowInv, RecordKnows
  <2>2. crashes = 0 => KnowsFrames(P, files'[d], n)
    <3> SUFFICES ASSUME crashes = 0, NEW i \in 1 .. n
                 PROVE  CoveredBy(P, files[d].frames[i].by)
      BY <1>3 DEF KnowsFrames
    <3>1. CASE i \in 1 .. s.tail - Base(s)
      BY <1>8, <1>10, <3>1 DEF RecordKnows, KnowsFrames, Grown
    <3>2. CASE i = n
      BY <1>4, <1>7, <1>10, <1>12, <3>2 DEF FrameOf
    <3> QED
      BY <1>13, <3>1, <3>2
  <2>3. meta'[p].tail - Base(meta'[p]) = n
    BY <1>13
  <2> QED
    BY <1>11, <1>13, <2>1, <2>2, <2>3 DEF RecordKnows
<1>15. \A q \in Path : meta'[q].exists => RecordKnows(meta'[q], disk[q], files'[meta'[q].dir], acked, crashes)
  <2> SUFFICES ASSUME NEW q \in Path, meta'[q].exists, q # p
               PROVE  RecordKnows(meta[q], disk[q], files'[meta[q].dir], acked, crashes)
    BY <1>5, <1>13, <1>14
  <2>1. meta[q].exists /\ meta[q].dir # d /\ meta[q].dir \in Dir
    BY <1>3, <1>5, OneSegment, FileBounds DEF FileInv, FileTypeOK, Placed, Dir
  <2>2. files'[meta[q].dir] = files[meta[q].dir]
    BY <1>5, <2>1
  <2> QED
    BY <2>1, <2>2 DEF KnowInv
<1>16. \A x \in Client : OpKnows(op'[x], meta', disk, files', acked, crashes)
  <2>1. ASSUME NEW x \in Client, x # c
        PROVE  OpKnows(op[x], meta', disk, files', acked, crashes)
    BY <1>1, <1>2, <1>3, <1>5, <2>1, OthersKnow
  <2>2. OpKnows(op'[c], meta', disk, files', acked, crashes)
    <3>1. PlaceOf(op'[c]) = PlaceOf(op[c])
      BY <1>3 DEF PlaceOf
    <3>2. op[c].kind \in {"create", "seal"} => op[c].headers = NoHeaders
      BY DEF KnowInv, OpKnows
    <3> QED
      BY <1>2, <1>3, <1>4, <1>7, <1>10, <1>11, <3>1, <3>2 DEF OpKnows
  <2> QED
    BY <1>3, <2>1, <2>2 DEF OthersStay
<1> QED
  BY <1>4, <1>15, <1>16 DEF KnowInv

LEMMA WriteDoneKnows ==
  ASSUME FileInv, KnowInv, NEW c \in Client, WriteDone(c)
  PROVE  KnowInv'
<1>1. PICK d : d = op[c].streamMeta.dir
  OBVIOUS
<1>2. /\ op[c].pc = "write" /\ Writing(op[c]) /\ OthersStay(c)
      /\ op'[c].pc = "fsync" /\ op'[c].kind = op[c].kind /\ op'[c].path = op[c].path
      /\ op'[c].streamMeta = op[c].streamMeta /\ op'[c].headers = op[c].headers /\ d \in Dir
      /\ UNCHANGED <<meta, disk, crashes, acked>>
  BY <1>1, WriteDoneEffect
<1>3. /\ \A e \in Dir : e # d => files'[e] = files[e]
      /\ \A k \in 1 .. Len(files[d].frames) : files'[d].frames[k] = files[d].frames[k]
  BY <1>1, WriteDoneEffect
<1>4. Len(files[d].frames) \in Nat /\ Len(files[d].frames) = PlaceOf(op[c]) - 1
  BY <1>1, WriteDoneEffect
<1>5. PICK p \in Path : p = op[c].path
  BY <1>2, OpFacts
<1>6. PICK s \in MetaRecord : s = op[c].streamMeta
  BY <1>2, OpFacts
<1>7. meta[p].exists /\ meta[p].dir = d /\ s.tail = meta[p].tail /\ Base(s) = Base(meta[p])
      /\ s.tail \in Nat /\ Base(s) \in Nat /\ s.dir = d
  BY <1>1, <1>2, <1>5, <1>6, OpFacts, RecordFacts DEF SameStream, OpInStep
<1>8. Len(files[d].frames) = s.tail - Base(s)
  BY <1>4, <1>6, <1>7 DEF PlaceOf
<1>9. \A P : KnowsFrames(P, files[d], s.tail - Base(s)) => KnowsFrames(P, files'[d], s.tail - Base(s))
  BY <1>3, <1>8 DEF KnowsFrames
<1>10. \A q \in Path : meta[q].exists => RecordKnows(meta[q], disk[q], files'[meta[q].dir], acked, crashes)
  <2> SUFFICES ASSUME NEW q \in Path, meta[q].exists
               PROVE  RecordKnows(meta[q], disk[q], files'[meta[q].dir], acked, crashes)
    OBVIOUS
  <2>0. RecordKnows(meta[q], disk[q], files[meta[q].dir], acked, crashes)
    BY DEF KnowInv
  <2>1. CASE q = p
    BY <1>7, <1>9, <2>0, <2>1 DEF RecordKnows
  <2>2. CASE q # p
    <3>1. meta[q].dir # d /\ meta[q].dir \in Dir
      BY <1>7, <2>2, OneSegment, FileBounds DEF FileInv, FileTypeOK, Placed, Dir
    <3> QED
      BY <1>3, <2>0, <3>1
  <2> QED
    BY <2>1, <2>2
<1>11. \A x \in Client : OpKnows(op'[x], meta, disk, files', acked, crashes)
  <2>1. ASSUME NEW x \in Client, x # c
        PROVE  OpKnows(op[x], meta, disk, files', acked, crashes)
    BY <1>1, <1>2, <1>3, <2>1, OthersKnow
  <2>2. OpKnows(op'[c], meta, disk, files', acked, crashes)
    <3>1. /\ Accepted(s, op[c].headers) /\ RecordKnows(s, s, files[d], acked, crashes)
          /\ op[c].kind \in {"create", "seal"} => op[c].headers = NoHeaders
      BY <1>1, <1>2, <1>6 DEF KnowInv, OpKnows
    <3>2. RecordKnows(s, s, files'[d], acked, crashes)
      BY <1>9, <3>1 DEF RecordKnows
    <3> QED
      BY <1>1, <1>2, <1>6, <3>1, <3>2 DEF OpKnows
  <2> QED
    BY <1>2, <2>1, <2>2 DEF OthersStay
<1> QED
  BY <1>2, <1>10, <1>11 DEF KnowInv

LEMMA CrashKnows ==
  ASSUME FileInv, KnowInv, Crash
  PROVE  KnowInv'
<1>1. \A p \in Path : meta'[p].exists => SameStream(meta'[p], meta[p]) /\ meta'[p].producers = disk[p].producers
  BY CrashEffect
<1>2. disk' = meta' /\ op' = [c \in Client |-> IdleOp] /\ crashes' = crashes + 1 /\ acked' = acked
  BY CrashEffect
<1>3. crashes' # 0
  BY <1>2 DEF FileInv, FileTypeOK
<1>4. \A p \in Path : meta'[p].exists => KnowsAcks(meta'[p].producers, meta'[p].dir, acked)
  BY <1>1 DEF SameStream, KnowInv, RecordKnows
<1>5. \A c \in Client : OpKnows(op'[c], meta', disk', files', acked', crashes')
  BY <1>2, IdleKnows
<1> QED
  BY <1>2, <1>3, <1>4, <1>5 DEF KnowInv, RecordKnows

LEMMA KnowStep ==
  ASSUME Permanent, FileInv, DataInv, KnowInv, [Next]_vars
  PROVE  KnowInv'
<1>0. FileInv'
  BY FileStep
<1>1. CASE UNCHANGED vars
  BY <1>1 DEF vars, KnowInv
<1>2. CASE Next
  <2>0. Step
    BY <1>2, StepsLeft
  <2>1. ASSUME NEW c \in Client, NEW p \in Path, NEW o \in CreateRequest, CreateStart(c, p, o)
        PROVE  KnowInv'
    BY <1>0, <2>1, CreateStartKnows
  <2>2. ASSUME NEW c \in Client, NEW p \in Path, NEW h \in Headers \cup {NoHeaders},
               NEW close \in BOOLEAN, AppendStart(c, p, h, close)
        PROVE  KnowInv'
    BY <1>0, <2>2, AppendStartKnows
  <2>3. ASSUME NEW c \in Client, NEW p \in Path, CloseStream(c, p)
        PROVE  KnowInv'
    BY <1>0, <2>3, CloseStreamKnows
  <2>4. ASSUME NEW c \in Client, NEW p \in Path, NEW h \in Headers, CloseStreamWithProducer(c, p, h)
        PROVE  KnowInv'
    BY <1>0, <2>4, CloseWithProducerKnows
  <2>5. ASSUME NEW c \in Client, \/ OpenDone(c) \/ InitialAppend(c) \/ InitialDone(c) \/ WriteDone(c)
                                 \/ FsyncDone(c) \/ AppendDone(c) \/ CloseDone(c)
        PROVE  KnowInv'
    BY <1>0, <2>5, OpenDoneKnows, InitialAppendKnows, WriteDoneKnows, FsyncDoneKnows, DoneKnows
  <2>6. ASSUME NEW w \in Waiter, Timeout(w) \/ \E p \in Path : WaitForMessages(w, p)
        PROVE  KnowInv'
    <3>1. UNCHANGED <<meta, disk, files, op, crashes, acked>>
      BY <2>6 DEF Timeout, WaitForMessages
    <3> QED
      BY <3>1 DEF KnowInv
  <2> QED
    BY <1>0, <2>0, <2>1, <2>2, <2>3, <2>4, <2>5, <2>6, CommitKnows, CrashKnows DEF Step
<1> QED
  BY <1>1, <1>2

----------------------------------------------------------------------------
(* Requests of producers are stored once *)

\* AckedOnce, one pair of frames at a time.
Twice(F, d, i, j) ==
    /\ i \in 1 .. Len(F[d].frames) /\ j \in 1 .. Len(F[d].frames) /\ i < j
    /\ HasProducer(F[d].frames[i].by) /\ F[d].frames[i].by = F[d].frames[j].by
Unanswered(F, d, i, A) == ~\E a \in A : a.dir = d /\ a.data = F[d].frames[i].data

LEMMA PairByPair ==
  ASSUME FileTypeOK
  PROVE  AckedOnce <=> \A d \in Dir : \A i, j :
                          Twice(files, d, i, j) => crashes > 0 /\ Unanswered(files, d, i, acked)
<1>1. \A d \in Dir : DOMAIN files[d].frames = 1 .. Len(files[d].frames)
  BY FileFacts DEF FileTypeOK
<1> QED
  BY <1>1 DEF AckedOnce, Twice, Unanswered

LEMMA PairsNext ==
  ASSUME FileTypeOK',
         \A d \in Dir : \A i, j :
            Twice(files', d, i, j) => crashes' > 0 /\ Unanswered(files', d, i, acked')
  PROVE  AckedOnce'
<1>1. \A d \in Dir : DOMAIN files'[d].frames = 1 .. Len(files'[d].frames)
  BY FileFacts DEF FileTypeOK
<1> QED
  BY <1>1 DEF AckedOnce, Twice, Unanswered

\* An answer is for the last frame of its segment, or for one of no producer.
LEMMA AnswerIsLast ==
  ASSUME FileInv, DataInv, KnowInv, NEW c \in Client, NEW a, Answers(a, op[c]),
         NEW d \in Dir, NEW i, NEW j, Twice(files, d, i, j), a.dir = d, a.data = files[d].frames[i].data
  PROVE  FALSE
<1>1. a.data = op[c].data /\ op[c].data # 0 /\ Stored(op[c])
  BY DEF Answers, Ack
<1>2. Carries(files, d, i, op[c].data)
  BY <1>1 DEF Carries, Twice
<1>3. d = op[c].streamMeta.dir /\ i = PlaceOf(op[c])
  BY <1>1, <1>2 DEF DataInv, DataOnce
<1>4. OpKnows(op[c], meta, disk, files, acked, crashes)
  BY DEF KnowInv
<1>5. CASE op[c].kind = "seal"
  <2>1. op[c].headers = NoHeaders
    BY <1>4, <1>5 DEF OpKnows
  <2>2. files[d].frames[i] = FrameOf(op[c])
    BY <1>1, <1>3 DEF FileInv, OpInStep, Held
  <2> QED
    BY <2>1, <2>2 DEF Twice, HasProducer, FrameOf, NoHeaders
<1>6. CASE Writing(op[c]) /\ op[c].pc = "committed"
  <2>1. Len(files[d].frames) = i
    BY <1>3, <1>4, <1>6 DEF OpKnows
  <2>2. Len(files[d].frames) \in Nat
    BY FileFacts DEF FileInv, FileTypeOK
  <2> QED
    BY <2>1, <2>2 DEF Twice
<1> QED
  BY <1>5, <1>6 DEF Answers

\* A step that adds no frame of a producer.
LEMMA OnceMoves ==
  ASSUME FileInv, FileInv', DataInv, KnowInv, AckedOnce, crashes > 0 => crashes' > 0,
         \A d \in Dir : \A i \in 1 .. Len(files'[d].frames) : HasProducer(files'[d].frames[i].by) =>
            i \in 1 .. Len(files[d].frames) /\ files'[d].frames[i] = files[d].frames[i],
         \A a \in acked' : a \in acked \/ \E c \in Client : Answers(a, op[c])
  PROVE  AckedOnce'
<1>1. FileTypeOK /\ FileTypeOK'
  BY DEF FileInv
<1>2. ASSUME NEW d \in Dir, NEW i, NEW j, Twice(files', d, i, j)
      PROVE  crashes' > 0 /\ Unanswered(files', d, i, acked')
  <2>1. Twice(files, d, i, j) /\ files'[d].frames[i].data = files[d].frames[i].data
    BY <1>2 DEF Twice
  <2>2. crashes > 0 /\ Unanswered(files, d, i, acked)
    BY <1>1, <2>1, PairByPair
  <2>3. ASSUME NEW a \in acked', a.dir = d, a.data = files'[d].frames[i].data
        PROVE  FALSE
    BY <2>1, <2>2, <2>3, AnswerIsLast DEF Unanswered
  <2> QED
    BY <2>2, <2>3 DEF Unanswered
<1> QED
  BY <1>1, <1>2, PairsNext

LEMMA WriteDoneOnce ==
  ASSUME FileInv, FileInv', DataInv, KnowInv, AckedOnce, NEW c \in Client, WriteDone(c)
  PROVE  AckedOnce'
<1>1. PICK e : e = op[c].streamMeta.dir
  OBVIOUS
<1>2. /\ op[c].pc = "write" /\ Writing(op[c]) /\ e \in Dir /\ UNCHANGED <<crashes, acked>>
      /\ Len(files[e].frames) \in Nat /\ Len(files[e].frames) = PlaceOf(op[c]) - 1
      /\ Len(files'[e].frames) = Len(files[e].frames) + 1
      /\ files'[e].frames[Len(files[e].frames) + 1] = FrameOf(op[c])
  <2>0. FileInv /\ c \in Client /\ WriteDone(c)
    OBVIOUS
  <2>1. op[c].pc = "write" /\ Writing(op[c]) /\ e \in Dir
    BY ONLY <1>1, <2>0, WriteDoneEffect
  <2>2. UNCHANGED <<crashes, acked>>
    BY ONLY <1>1, <2>0, WriteDoneEffect
  <2>3. Len(files[e].frames) \in Nat /\ Len(files[e].frames) = PlaceOf(op[c]) - 1
    BY ONLY <1>1, <2>0, WriteDoneEffect
  <2>4. Len(files'[e].frames) = Len(files[e].frames) + 1
    BY ONLY <1>1, <2>0, WriteDoneEffect
  <2>5. files'[e].frames[Len(files[e].frames) + 1] = FrameOf(op[c])
    BY ONLY <1>1, <2>0, WriteDoneEffect
  <2> QED
    BY <2>1, <2>2, <2>3, <2>4, <2>5
<1>3. /\ \A d \in Dir : d # e => files'[d] = files[d]
      /\ \A k \in 1 .. Len(files[e].frames) : files'[e].frames[k] = files[e].frames[k]
  BY <1>1, WriteDoneEffect
<1>4. PICK s \in MetaRecord : s = op[c].streamMeta
  BY <1>2, OpFacts
<1>5. PICK h \in Headers \cup {NoHeaders} : h = op[c].headers
  BY DEF FileInv, FileTypeOK, OpRecord
<1>6. PICK n \in Nat : n = Len(files[e].frames)
  BY <1>2
<1>7. n = s.tail - Base(s)
  <2>1. s.tail \in Nat /\ Base(s) \in Nat
    BY RecordFacts
  <2> QED
    BY <1>2, <1>4, <1>6, <2>1 DEF PlaceOf
<1>8. Accepted(s, h) /\ RecordKnows(s, s, files[e], acked, crashes)
  BY <1>1, <1>2, <1>4, <1>5 DEF KnowInv, OpKnows
<1>9. HasProducer(h) => ~CoveredBy(s.producers, h)
  BY <1>8, CommitGrows
<1>10. FileTypeOK /\ FileTypeOK' /\ crashes \in Nat
  BY DEF FileInv, FileTypeOK
<1>11. ASSUME NEW d \in Dir, NEW i, NEW j, Twice(files', d, i, j)
       PROVE  crashes > 0 /\ Unanswered(files', d, i, acked)
  <2>1. CASE Twice(files, d, i, j) /\ files'[d].frames[i] = files[d].frames[i]
    BY <1>10, <2>1, PairByPair DEF Unanswered
  <2>2. CASE d = e /\ j = n + 1
    <3>1. i \in 1 .. n /\ files'[e].frames[i] = files[e].frames[i]
      BY <1>2, <1>3, <1>6, <1>11, <2>2 DEF Twice
    <3>2. HasProducer(h) /\ files[e].frames[i].by = h
      BY <1>2, <1>5, <1>6, <1>11, <2>2, <3>1 DEF Twice, FrameOf
    <3>3. crashes # 0
      BY <1>7, <1>8, <1>9, <3>1, <3>2 DEF RecordKnows, KnowsFrames
    <3>4. ASSUME NEW a \in acked, a.dir = e, a.data = files[e].frames[i].data
          PROVE  FALSE
      <4>1. PICK p \in Path : p = op[c].path
        BY <1>2, OpFacts
      <4>2. meta[p].exists /\ meta[p].dir = e
        BY <1>1, <1>2, <4>1, OpFacts DEF SameStream
      <4>3. Carries(files, e, i, a.data)
        BY <1>6, <3>1, <3>2, <3>4 DEF Carries
      <4>4. i = a.offset - Base(meta[p])
        BY <3>4, <4>2, <4>3 DEF DataInv, DataOnce
      <4>5. Held(files, e, i, [data |-> a.data, by |-> a.by])
        BY <3>4, <4>2, <4>4 DEF FileInv, AckedHeld
      <4>6. a.by = h
        BY <3>2, <4>5 DEF Held
      <4>7. s.dir = e
        BY <1>1, <1>4
      <4> QED
        BY <1>8, <1>9, <3>2, <3>4, <4>6, <4>7 DEF RecordKnows, KnowsAcks
    <3> QED
      BY <1>10, <2>2, <3>1, <3>3, <3>4 DEF Unanswered
  <2>3. CASE d # e
    BY <1>3, <1>11, <2>1, <2>3 DEF Twice
  <2>4. CASE d = e /\ j # n + 1
    <3>1. i \in 1 .. n /\ j \in 1 .. n
      BY <1>2, <1>6, <1>11, <2>4 DEF Twice
    <3> QED
      BY <1>3, <1>6, <1>11, <2>1, <2>4, <3>1 DEF Twice
  <2> QED
    BY <2>2, <2>3, <2>4
<1>12. \A d \in Dir : \A i, j : Twice(files', d, i, j) => crashes' > 0 /\ Unanswered(files', d, i, acked')
  BY <1>2, <1>11
<1> QED
  BY <1>10, <1>12, PairsNext

LEMMA OnceStays ==
  ASSUME FileInv, FileInv', DataInv, KnowInv, AckedOnce, crashes' = crashes,
         \A d \in Dir : files'[d].frames = files[d].frames,
         \A a \in acked' : a \in acked \/ \E c \in Client : Answers(a, op[c])
  PROVE  AckedOnce'
  BY OnceMoves

LEMMA CreateStartOnce ==
  ASSUME Permanent, FileInv, FileInv', DataInv, KnowInv, AckedOnce,
         NEW c \in Client, NEW p \in Path, NEW o \in CreateRequest, CreateStart(c, p, o)
  PROVE  AckedOnce'
<1>1. PICK d : d = births + 1
  OBVIOUS
<1>2. /\ \A e \in Dir : e # d => files'[e] = files[e]
      /\ \A k \in 1 .. Len(files'[d].frames) : files'[d].frames[k].by = NoHeaders
      /\ UNCHANGED <<crashes, acked>>
  BY <1>1, CreateStartEffect
<1>3. \A e \in Dir : \A i \in 1 .. Len(files'[e].frames) : HasProducer(files'[e].frames[i].by) =>
        i \in 1 .. Len(files[e].frames) /\ files'[e].frames[i] = files[e].frames[i]
  <2> SUFFICES ASSUME NEW e \in Dir, NEW i \in 1 .. Len(files'[e].frames), HasProducer(files'[e].frames[i].by)
               PROVE  i \in 1 .. Len(files[e].frames) /\ files'[e].frames[i] = files[e].frames[i]
    OBVIOUS
  <2>1. e # d
    BY <1>2 DEF HasProducer, NoHeaders
  <2> QED
    BY <1>2, <2>1
<1> QED
  BY <1>2, <1>3, OnceMoves

LEMMA CrashOnce ==
  ASSUME FileInv, FileInv', DataInv, KnowInv, AckedOnce, Crash
  PROVE  AckedOnce'
<1>1. \A d \in Dir : /\ Len(files'[d].frames) <= Len(files[d].frames) /\ IsFile(files'[d])
                     /\ \A k \in 1 .. Len(files'[d].frames) : files'[d].frames[k] = files[d].frames[k]
  BY CrashEffect
<1>2. \A d \in Dir : Len(files'[d].frames) \in Nat /\ Len(files[d].frames) \in Nat
  BY <1>1, FileFacts DEF FileInv, FileTypeOK
<1>3. crashes' = crashes + 1 /\ acked' = acked /\ crashes \in Nat
  BY CrashEffect DEF FileInv, FileTypeOK
<1>4. \A d \in Dir : \A i \in 1 .. Len(files'[d].frames) : HasProducer(files'[d].frames[i].by) =>
        i \in 1 .. Len(files[d].frames) /\ files'[d].frames[i] = files[d].frames[i]
  BY <1>1, <1>2
<1> QED
  BY <1>3, <1>4, OnceMoves

LEMMA OpStepOnce ==
  ASSUME FileInv, FileInv', DataInv, KnowInv, AckedOnce, NEW c \in Client,
         \/ OpenDone(c) \/ InitialAppend(c) \/ InitialDone(c) \/ FsyncDone(c) \/ AppendDone(c) \/ CloseDone(c)
  PROVE  AckedOnce'
<1>1. CASE AppendDone(c) \/ CloseDone(c) \/ InitialDone(c)
  <2>1. UNCHANGED <<files, crashes>>
    BY <1>1 DEF AppendDone, CloseDone, InitialDone
  <2>2. \A a \in acked' : a \in acked \/ Answers(a, op[c])
    BY <1>1, DoneAnswers
  <2> QED
    BY <2>1, <2>2, OnceStays
<1>2. CASE OpenDone(c)
  <2>1. \A d \in Dir : files'[d].frames = files[d].frames
    <3>1. SameFrames(files', files)
      BY <1>2, OpenEffect
    <3> QED
      BY <3>1 DEF SameFrames
  <2>2. crashes' = crashes /\ \A a \in acked' : a \in acked
    BY <1>2 DEF OpenDone, CreateTail
  <2> QED
    BY <2>1, <2>2, OnceStays
<1>3. CASE InitialAppend(c)
  <2>1. UNCHANGED <<files, crashes>> /\ \A a \in acked' : a \in acked
    BY <1>3, InitialAppendEffect DEF CreateTail
  <2> QED
    BY <2>1, OnceStays
<1>4. CASE FsyncDone(c)
  <2>1. PICK p : p = op[c].path
    OBVIOUS
  <2>2. PICK d : d = op[c].streamMeta.dir
    OBVIOUS
  <2>3. \A e \in Dir : files'[e].frames = files[e].frames
    BY <1>4, <2>1, <2>2, FsyncDoneEffect
  <2>4. UNCHANGED <<crashes, acked>>
    BY <1>4 DEF FsyncDone
  <2> QED
    BY <2>3, <2>4, OnceStays
<1> QED
  BY <1>1, <1>2, <1>3, <1>4

LEMMA OnceStep ==
  ASSUME Permanent, FileInv, DataInv, KnowInv, AckedOnce, [Next]_vars
  PROVE  AckedOnce'
<1>0. FileInv'
  BY FileStep
<1>1. CASE UNCHANGED vars
  BY <1>1 DEF vars, AckedOnce
<1>2. CASE Next
  <2>0. Step
    BY <1>2, StepsLeft
  <2>1. ASSUME NEW c \in Client, NEW p \in Path, NEW o \in CreateRequest, CreateStart(c, p, o)
        PROVE  AckedOnce'
    BY <1>0, <2>1, CreateStartOnce
  <2>2. CASE UNCHANGED <<files, crashes, acked>>
    BY <1>0, <2>2, OnceStays
  <2>3. ASSUME NEW c \in Client, NEW p \in Path,
               \/ \E h \in Headers \cup {NoHeaders}, close \in BOOLEAN : AppendStart(c, p, h, close)
               \/ CloseStream(c, p)
               \/ \E h \in Headers : CloseStreamWithProducer(c, p, h)
        PROVE  UNCHANGED <<files, crashes, acked>>
    BY <2>3 DEF AppendStart, CloseStream, CloseStreamWithProducer
  <2>4. ASSUME NEW c \in Client, \/ OpenDone(c) \/ InitialAppend(c) \/ InitialDone(c) \/ WriteDone(c)
                                 \/ FsyncDone(c) \/ AppendDone(c) \/ CloseDone(c)
        PROVE  AckedOnce'
    BY <1>0, <2>4, OpStepOnce, WriteDoneOnce
  <2>5. ASSUME NEW w \in Waiter, Timeout(w) \/ \E p \in Path : WaitForMessages(w, p)
        PROVE  UNCHANGED <<files, crashes, acked>>
    BY <2>5 DEF Timeout, WaitForMessages
  <2>6. Commit => UNCHANGED <<files, crashes, acked>>
    BY DEF Commit
  <2> QED
    BY <1>0, <2>0, <2>1, <2>2, <2>3, <2>4, <2>5, <2>6, CrashOnce DEF Step
<1> QED
  BY <1>1, <1>2

LEMMA OnceInitially ==
  ASSUME Init
  PROVE  DataInv /\ KnowInv /\ AckedOnce
<1>1. /\ \A p \in Path : meta[p].exists = FALSE
      /\ \A c \in Client : op[c] = IdleOp
      /\ \A d \in Dir : files[d].frames = <<>>
      /\ acked = {} /\ writes = 0
  BY DEF Init, NoMeta, NoFile
<1>2. \A d \in Dir : \A i, n : ~Carries(files, d, i, n)
  BY <1>1 DEF Carries
<1>3. DataInv
  BY <1>1, <1>2 DEF DataInv, DataNumbered, DataOwned, DataOnce, IdleOp, Writing
<1>4. KnowInv
  BY <1>1, IdleKnows DEF KnowInv
<1>5. AckedOnce
  BY <1>1 DEF AckedOnce
<1> QED
  BY <1>3, <1>4, <1>5

\* append() stores a request of a producer a second time only when a crash
\* lost the put of the first and nobody was told of it: neither the interleaving
\* of appends and closes that put records read before an await, nor any
\* number of crashes makes an answered request appear twice.
THEOREM AnsweredStoredOnce == Permanent => (Spec => []AckedOnce)
<1> SUFFICES ASSUME Permanent PROVE Spec => []AckedOnce
  OBVIOUS
<1> DEFINE Inv == FileInv /\ DataInv /\ KnowInv /\ AckedOnce
<1>1. Init => Inv
  BY FileInitially, OnceInitially
<1>2. Inv /\ [Next]_vars => Inv'
  BY FileStep, DataStep, KnowStep, OnceStep
<1>3. Inv => AckedOnce
  OBVIOUS
<1> QED
  BY <1>1, <1>2, <1>3, PTL DEF Spec
=============================================================================
