----------------------------- MODULE FileStore -----------------------------
(***************************************************************************)
(* The file-backed store of the reference server, packages/server/src/     *)
(* file-store.ts (class FileBackedStreamStore).  A stream is a record of   *)
(* metadata in LMDB and an append-only segment file; an append writes the  *)
(* file, syncs it, and only then puts the metadata, awaiting each, so      *)
(* other operations run in between and the process may die in between.     *)
(*                                                                         *)
(* One action is one stretch of code between two awaits.  Operations that  *)
(* wait carry their local variables in op, in particular streamMeta, the   *)
(* metadata they read when they started.  Synchronous operations are       *)
(* issued by a client that is not waiting for anything, so with one client *)
(* the store is sequential.                                                *)
(*                                                                         *)
(* Offsets count frames: StreamStore is about bytes.  An append that is    *)
(* refused (content type, Stream-Seq, JSON, producer) changes nothing here *)
(* beyond the expiry that Lookup covers, for this store keeps producer     *)
(* states forever.                                                         *)
(***************************************************************************)
EXTENDS Integers, Sequences, FiniteSets, FiniteSetsExt, ProducerValidation

CONSTANTS
    Path, NoPath,
    Producer, NoProducer,
    Client,         \* requests in flight
    Waiter,         \* long-poll requests
    Operations,     \* which operations the clients use, a subset of Operation
    ForkSources,    \* paths that PUT may name in Stream-Forked-From
    Expiries,       \* expiry settings of a PUT
    MaxEpoch,       \* bound on Producer-Epoch
    MaxSeq,         \* bound on Producer-Seq
    MaxBirths,      \* bound: streams ever created
    MaxWrites,      \* bound: messages ever written
    MaxCrashes      \* bound: process crashes

Operation == {"append", "appendAndClose", "close", "closeWithProducer",
              "createClosed", "createFails", "delete"}

ASSUME FileNames ==
    /\ NoPath \notin Path /\ NoProducer \notin Producer
    /\ ForkSources \subseteq Path /\ Operations \subseteq Operation
    /\ Expiries \subseteq {"none", "ttl"}
    \* A resolve callback may reap an expired stream, in the middle of the
    \* operation that runs it: long-polls are modelled without expiry.
    /\ Waiter # {} => Expiries \subseteq {"none"}

ASSUME FileBounds ==
    /\ MaxEpoch \in Nat /\ MaxSeq \in Nat
    /\ MaxBirths \in Nat /\ MaxWrites \in Nat /\ MaxCrashes \in Nat

VARIABLES
    meta,      \* the metadata that db.get sees: [Path -> Meta]
    disk,      \* the metadata that LMDB has committed
    files,     \* the segment files, by directoryName
    op,        \* the operation each client has in flight
    poll,      \* long-poll requests; the waiting ones are pendingLongPolls
    births, writes, crashes,
    acked,     \* history: messages whose append was answered with success
    shut       \* history: streams whose close was answered with success

vars == <<meta, disk, files, op, poll, births, writes, crashes, acked, shut>>

----------------------------------------------------------------------------
(* Values *)

Dir == 1 .. MaxBirths

Headers == [pid : Producer, epoch : 0 .. MaxEpoch, seq : 0 .. MaxSeq]
NoHeaders == [pid |-> NoProducer, epoch |-> 0, seq |-> 0]

\* What is at a segment's path: nothing yet, the file ("present"), a file that
\* was "unlinked" or could not be opened ("failed"); its frames, each with its
\* data and the producer headers it came with, and how many of them are known
\* to be on disk.
NoFile == [state |-> "none", frames |-> <<>>, synced |-> 0]
Gone == [NoFile EXCEPT !.state = "unlinked"]

\* StreamMetadata.
NoMeta == [exists |-> FALSE, dir |-> 0, tail |-> 0,
           producers |-> [i \in Producer |-> NoProducerState],
           closed |-> FALSE, closedBy |-> NoHeaders,
           forkedFrom |-> NoPath, forkOffset |-> 0,
           refCount |-> 0, softDeleted |-> FALSE,
           expiry |-> "none", due |-> FALSE]

INSTANCE ForkGraph WITH NoStream <- NoMeta

\* What a waiting operation holds: its kind (append, create, seal, close),
\* where it is (open, lock, write, fsync, put, committed), the metadata it
\* started from, and its request.  A "create" is one whose initial append is
\* still to come or under way; "seal" is its last put, of closed = true.
IdleOp == [kind |-> "none", pc |-> "idle", path |-> NoPath,
           streamMeta |-> NoMeta, headers |-> NoHeaders, data |-> 0,
           init |-> "none", close |-> FALSE]

\* A long-poll: idle, waiting or done; got counts the messages it was given.
IdlePoll == [state |-> "idle", path |-> NoPath, dir |-> 0, offset |-> 0,
             got |-> 0, closed |-> FALSE]

CreateRequest ==
    [forkedFrom : ForkSources \cup {NoPath}, forkOffset : 0 .. MaxWrites,
     prefix : BOOLEAN, expiry : Expiries,
     init : {"none", "valid"} \cup
              (IF "createFails" \in Operations THEN {"bad"} ELSE {}),
     closed : {FALSE, "createClosed" \in Operations}]

Idle(c) == op[c].pc = "idle"
HasProducer(h) == h.pid # NoProducer

----------------------------------------------------------------------------
(* LMDB, from how the store uses it: db.put is visible to db.get at once     *)
(* (cache: true) and durable when its promise resolves; the Sync variants    *)
(* and transactions are durable when they return; writes are applied in the  *)
(* order in which they are issued.                                           *)

Flushed(o) == IF o.pc = "put" THEN [o EXCEPT !.pc = "committed"] ELSE o

\* A synchronous write: everything put before it is committed with it.
PutSync(M, ops) ==
    /\ meta' = M /\ disk' = M
    /\ op' = [c \in Client |-> Flushed(ops[c])]

\* The commit of the batch of puts under way.
Commit ==
    /\ \E c \in Client : op[c].pc = "put"
    /\ PutSync(meta, op)
    /\ UNCHANGED <<files, poll, births, writes, crashes, acked, shut>>

----------------------------------------------------------------------------
(* Long-polls *)

Base(s) == IF s.forkedFrom = NoPath THEN 0 ELSE s.forkOffset

\* Mutant: a client one message behind is taken to be at the tail.
OwnAfterOffByOne(s, offset) ==
    IF offset + 1 >= s.tail THEN 0
    ELSE Max({0, Base(s) + Len(files[s.dir].frames) - offset})

\* read(): how many of a stream's own messages lie past offset.  The tail only
\* decides whether the file is looked at; what is in the file is returned.
OwnAfter(s, offset) ==
    IF offset >= s.tail THEN 0
    ELSE Max({0, Base(s) + Len(files[s.dir].frames) - offset})

Waiting(p) == {w \in Waiter : poll[w].state = "waiting" /\ poll[w].path = p}

Resolved(w, got, closed) ==
    [poll[w] EXCEPT !.state = "done", !.got = got, !.closed = closed]

\* notifyLongPolls, then notifyLongPollsClosed if closing.  The callback
\* reports the stream's closed flag beside whatever messages there are.
Notify(p, closing) ==
    poll' = [w \in Waiter |->
               IF w \in Waiting(p)
                  /\ (closing \/ OwnAfter(meta[p], poll[w].offset) > 0)
               THEN Resolved(w, OwnAfter(meta[p], poll[w].offset),
                             meta[p].closed)
               ELSE poll[w]]

\* notifyLongPollsClosed alone, closed being what the callback finds: no
\* message is looked for.
NotifyClosed(p, closed) ==
    poll' = [w \in Waiter |->
               IF w \in Waiting(p) THEN Resolved(w, 0, closed) ELSE poll[w]]

\* cancelLongPollsForStream, for streams whose record is still there.
CancelWaits(ps) ==
    poll' = [w \in Waiter |->
               IF \E p \in ps : w \in Waiting(p)
               THEN Resolved(w, 0, meta[poll[w].path].closed)
               ELSE poll[w]]

\* handleRead waits only for a client that is at the tail.
WaitForMessages(w, p) ==
    /\ poll[w].state # "waiting"
    /\ Found(meta, p) /\ ~meta[p].softDeleted /\ ~meta[p].closed
    /\ poll' = [poll EXCEPT ![w] =
                  [IdlePoll EXCEPT !.state = "waiting", !.path = p,
                                   !.dir = meta[p].dir, !.offset = meta[p].tail]]
    /\ UNCHANGED <<meta, disk, files, op, births, writes, crashes, acked, shut>>

Timeout(w) ==
    /\ poll[w].state = "waiting"
    /\ poll' = [poll EXCEPT ![w] =
                  Resolved(w, 0, meta[poll[w].path].closed)]
    /\ UNCHANGED <<meta, disk, files, op, births, writes, crashes, acked, shut>>

----------------------------------------------------------------------------
(* Locks *)

\* Mutant: appends to one stream are not serialized.
AppendUnlocked(p) == TRUE

\* acquireStreamAppendLock, acquireProducerLock, withMutationLock: an operation
\* starts, from the code's point of view, when it has its locks.
AppendLockFree(p) ==
    \A c \in Client : ~(/\ op[c].kind \in {"append", "create"}
                        /\ op[c].path = p
                        /\ op[c].pc \in {"write", "fsync", "put", "committed"})

ProducerLockFree(p, h) ==
    HasProducer(h) =>
        \A c \in Client : ~(op[c].path = p /\ op[c].headers.pid = h.pid)

MutationLockFree == \A c \in Client : op[c].kind \notin {"create", "seal"}

----------------------------------------------------------------------------
(* append(), appendWithProducer() *)

Accepted(s, h) ==
    HasProducer(h) =>
        ValidateProducer(s.producers[h.pid], h.epoch, h.seq) = "accepted"

Committed(s, h) ==
    IF HasProducer(h)
    THEN [s EXCEPT !.producers[h.pid] = ProposedState(h.epoch, h.seq)]
    ELSE s

\* appendInner up to its first await: what append() checks, then the write.
AppendStart(c, p, h, close) ==
    /\ Idle(c) /\ writes < MaxWrites
    /\ (IF close THEN "appendAndClose" ELSE "append") \in Operations
    /\ AppendLockFree(p) /\ ProducerLockFree(p, h)
    /\ Found(meta, p)
    /\ LET s == Reaped(meta, p)[p] IN
       /\ ~s.softDeleted /\ ~s.closed /\ Accepted(s, h)
       /\ op' = [op EXCEPT ![c] =
                   [IdleOp EXCEPT !.kind = "append", !.pc = "write", !.path = p,
                                  !.streamMeta = s, !.headers = h,
                                  !.data = writes + 1, !.close = close]]
    /\ writes' = writes + 1
    /\ UNCHANGED <<meta, disk, files, poll, births, crashes, acked, shut>>

\* The frame reaches the kernel, once the file is open.  If the file has been
\* unlinked, the handle is still open and the frame is lost with it, or it is
\* gone too and getWriteStream opens a new file.
WriteDone(c) ==
    /\ op[c].pc = "write"
    /\ LET d == op[c].streamMeta.dir
           frame == [data |-> op[c].data, by |-> op[c].headers]
           written == [files EXCEPT ![d].frames = Append(@, frame),
                                    ![d].state = "present"]
       IN \/ files[d].state = "present" /\ files' = written
          \/ files[d].state = "unlinked" /\ files' \in {files, written}
    /\ op' = [op EXCEPT ![c].pc = "fsync"]
    /\ UNCHANGED <<meta, disk, poll, births, writes, crashes, acked, shut>>

\* updatedMeta: built on the metadata of the start, not on the current one.
\* (Whether the stream is due is a matter of the clock.)
UpdatedMeta(o) ==
    LET s == o.streamMeta
        closing == o.kind = "append" /\ o.close
    IN [Committed(s, o.headers) EXCEPT
          !.tail = @ + 1,
          !.closed = @ \/ closing,
          !.closedBy = IF closing /\ HasProducer(o.headers)
                       THEN o.headers ELSE @,
          !.due = meta[o.path].due]

\* Mutant: the metadata is put without waiting for the file.
FsyncSkipped(c) ==
    /\ op[c].pc = "fsync"
    /\ meta' = [meta EXCEPT ![op[c].path] = UpdatedMeta(op[c])]
    /\ op' = [op EXCEPT ![c].pc = "put"]
    /\ UNCHANGED <<disk, files, poll, births, writes, crashes, acked, shut>>

\* Everything in the file is on disk; the metadata is put.
FsyncDone(c) ==
    /\ op[c].pc = "fsync"
    /\ files' = [files EXCEPT ![op[c].streamMeta.dir].synced =
                   Len(files[op[c].streamMeta.dir].frames)]
    /\ meta' = [meta EXCEPT ![op[c].path] = UpdatedMeta(op[c])]
    /\ op' = [op EXCEPT ![c].pc = "put"]
    /\ UNCHANGED <<disk, poll, births, writes, crashes, acked, shut>>

Ack(o) == [dir |-> o.streamMeta.dir, offset |-> o.streamMeta.tail + 1,
           data |-> o.data, by |-> o.headers]

\* The put is durable: long-polls are told, then the client.
AppendDone(c) ==
    /\ op[c].kind = "append" /\ op[c].pc = "committed"
    /\ Notify(op[c].path, op[c].close)
    /\ op' = [op EXCEPT ![c] = IdleOp]
    /\ acked' = acked \cup {Ack(op[c])}
    /\ shut' = IF op[c].close THEN shut \cup {op[c].streamMeta.dir} ELSE shut
    /\ UNCHANGED <<meta, disk, files, births, writes, crashes>>

----------------------------------------------------------------------------
(* Reading the files *)

\* readMessagesFromSegmentFile: the messages of a file that lie past start and
\* not past cap, each with the offset of its end; base is where the file's
\* first frame starts.  A file that is not there has none.
ReadMessagesFromSegmentFile(d, start, base, cap) ==
    LET frames == files[d].frames
        from == Max({1, start + 1 - base})
        upTo == Min({Len(frames), cap - base})
    IN [i \in 1 .. Max({0, upTo - from + 1}) |->
          [data |-> frames[from + i - 1].data, offset |-> base + from + i - 1]]

\* Mutant: what a source has past the fork is read too.
ReadPastTheFork(S, source, start, cap) ==
    LET chain[p \in Path] ==
          IF ~S[p].exists THEN <<>>
          ELSE (IF S[p].forkedFrom # NoPath /\ start < S[p].forkOffset
                THEN chain[S[p].forkedFrom] ELSE <<>>)
               \o ReadMessagesFromSegmentFile(S[p].dir, start, Base(S[p]), cap)
    IN chain[source]

\* readForkedMessages, softDeleted or not.  The cap of a source that is itself
\* a fork is the least of the fork offsets on the way to it.
ReadForkedMessages(S, source, start, cap) ==
    LET chain[p \in Path, limit \in 0 .. MaxWrites + MaxBirths] ==
          IF ~S[p].exists THEN <<>>
          ELSE (IF S[p].forkedFrom # NoPath /\ start < S[p].forkOffset
                THEN chain[S[p].forkedFrom, Min({S[p].forkOffset, limit})]
                ELSE <<>>)
               \o ReadMessagesFromSegmentFile(S[p].dir, start, Base(S[p]),
                                              limit)
    IN chain[source, cap]

\* read(): inherited messages, then the stream's own, which nothing caps.  The
\* tail only decides whether the files are looked at.
Read(p, start) ==
    LET s == meta[p] IN
    IF start >= s.tail THEN <<>>
    ELSE (IF s.forkedFrom # NoPath /\ start < s.forkOffset
          THEN ReadForkedMessages(meta, s.forkedFrom, start, s.forkOffset)
          ELSE <<>>)
         \o ReadMessagesFromSegmentFile(s.dir, start, Base(s),
                                        Base(s) + Len(files[s.dir].frames))

----------------------------------------------------------------------------
(* create() *)

DirsRemoved(M) ==
    {meta[p].dir : p \in {q \in Path : meta[q].exists /\ ~M[q].exists}}
Unlinked(M) ==
    [d \in Dir |-> IF d \in DirsRemoved(M)
                   THEN Gone ELSE files[d]]

\* An expired stream at the path is deleted first: delete() keeps one that
\* has forks, soft-deleted, and create() then overwrites its record.
Cleared(p) == IF meta[p].exists THEN DeleteStream(meta, p) ELSE meta

ForkRejected(S, o) ==
    LET src == S[o.forkedFrom] IN
    \/ ~src.exists \/ src.softDeleted \/ src.due
    \/ src.tail < o.forkOffset
    \/ o.prefix /\ ReadForkedMessages(S, o.forkedFrom, o.forkOffset,
                                     src.tail) = <<>>

\* A fork without an expiry of its own takes its source's.
ResolveForkExpiry(S, o) ==
    IF o.forkedFrom # NoPath /\ o.expiry = "none"
    THEN S[o.forkedFrom].expiry ELSE o.expiry

\* The part of the source's next message that a sub-offset names: of message
\* n, the data is -n.
ResolveForkSubOffset(S, o) ==
    LET first == ReadForkedMessages(S, o.forkedFrom, o.forkOffset,
                                    S[o.forkedFrom].tail)[1]
    IN IF first.data < 0 THEN first.data ELSE -first.data

\* The frame of the prefix, written and synced before the metadata.
PrefixFrames(S, o) ==
    IF o.prefix
    THEN <<[data |-> ResolveForkSubOffset(S, o), by |-> NoHeaders]>>
    ELSE <<>>

NewMeta(S, o) ==
    [NoMeta EXCEPT
        !.exists = TRUE, !.dir = births + 1,
        !.tail = IF o.prefix THEN o.forkOffset + 1 ELSE o.forkOffset,
        !.forkedFrom = o.forkedFrom, !.forkOffset = o.forkOffset,
        !.expiry = ResolveForkExpiry(S, o)]

\* The transaction: the source gains a reference as the child appears.
ChildCommitted(S, p, o) ==
    LET M == IF o.forkedFrom = NoPath THEN S
             ELSE [S EXCEPT ![o.forkedFrom].refCount = @ + 1]
    IN [M EXCEPT ![p] = NewMeta(S, o)]

\* createInner up to the opening of the file.
CreateStart(c, p, o) ==
    /\ Idle(c) /\ MutationLockFree /\ births < MaxBirths
    /\ ~meta[p].exists \/ meta[p].due
    /\ LET S == Cleared(p)
           M == ChildCommitted(S, p, o)
           frames == PrefixFrames(S, o)
       IN /\ o.forkedFrom = NoPath => o.forkOffset = 0 /\ ~o.prefix
          /\ o.forkedFrom # NoPath => ~ForkRejected(S, o)
          /\ PutSync(M,
                     [op EXCEPT ![c] =
                        [IdleOp EXCEPT !.kind = "create", !.pc = "open",
                                       !.path = p, !.streamMeta = M[p],
                                       !.init = o.init, !.close = o.closed]])
          /\ files' = [Unlinked(S) EXCEPT ![births + 1] =
                         [state |-> IF o.prefix THEN "present" ELSE "none",
                          frames |-> frames, synced |-> Len(frames)]]
          /\ CancelWaits(IF meta[p].exists THEN {p} ELSE {})
    /\ births' = births + 1
    /\ UNCHANGED <<writes, crashes, acked, shut>>

\* A PUT that is refused after it has found an expired stream.
CreateFails(c, p, o) ==
    /\ Idle(c) /\ MutationLockFree
    /\ meta[p].exists /\ meta[p].due
    /\ o.forkedFrom # NoPath /\ ForkRejected(Cleared(p), o)
    /\ PutSync(Cleared(p), op)
    /\ files' = Unlinked(Cleared(p))
    /\ CancelWaits({p})
    /\ UNCHANGED <<births, writes, crashes, acked, shut>>

\* The end of create(): perhaps one more put, of closed, then the answer.  It
\* throws if the stream has been deleted in the meantime.
CreateTail(c, answered) ==
    LET p == op[c].path IN
    IF meta[p].exists /\ op[c].close
    THEN /\ meta' = [meta EXCEPT ![p].closed = TRUE]
         /\ op' = [op EXCEPT ![c].kind = "seal", ![c].pc = "put"]
         /\ UNCHANGED <<disk, acked, shut>>
    ELSE /\ op' = [op EXCEPT ![c] = IdleOp]
         /\ acked' = IF meta[p].exists THEN acked \cup answered ELSE acked
         /\ UNCHANGED <<meta, disk, shut>>

\* rollbackCreatedStream.
RolledBack(S, o) ==
    LET M == [S EXCEPT ![o.path] = NoMeta]
        parent == o.streamMeta.forkedFrom
    IN IF parent # NoPath /\ M[parent].exists
       THEN [M EXCEPT ![parent] = Unreferenced(@)] ELSE M

Rollback(c, S) ==
    /\ PutSync(RolledBack(S, op[c]), [op EXCEPT ![c] = IdleOp])
    /\ files' = [Unlinked(S) EXCEPT ![op[c].streamMeta.dir] =
                   IF op[c].pc = "open" THEN [Gone EXCEPT !.state = "failed"]
                   ELSE Gone]
    /\ UNCHANGED <<poll, births, writes, crashes, acked, shut>>

OpenDone(c) ==
    /\ op[c].pc = "open"
    /\ files' = [files EXCEPT ![op[c].streamMeta.dir].state =
                   IF @ = "none" THEN "present" ELSE @]
    /\ IF op[c].init = "none" THEN CreateTail(c, {})
       ELSE /\ op' = [op EXCEPT ![c].pc = "lock"]
            /\ UNCHANGED <<meta, disk, acked, shut>>
    /\ UNCHANGED <<poll, births, writes, crashes>>

OpenFails(c) ==
    op[c].pc = "open" /\ "createFails" \in Operations /\ Rollback(c, meta)

\* The initial append, once it has the append lock.  A stream that is gone, or
\* a body that is refused, makes it throw; one that was closed in the
\* meantime does not.
InitialAppend(c) ==
    LET p == op[c].path
        lost == ~Found(meta, p) \/ Reaped(meta, p)[p].softDeleted
    IN
    /\ op[c].pc = "lock" /\ AppendLockFree(p)
    /\ \/ lost /\ Rollback(c, Reaped(meta, p))
       \/ /\ ~lost /\ meta[p].closed
          /\ CreateTail(c, {})
          /\ UNCHANGED <<files, poll, births, writes, crashes>>
       \/ ~lost /\ ~meta[p].closed /\ op[c].init = "bad" /\ Rollback(c, meta)
       \/ /\ ~lost /\ ~meta[p].closed /\ op[c].init = "valid"
          /\ writes < MaxWrites /\ writes' = writes + 1
          /\ op' = [op EXCEPT ![c].pc = "write", ![c].streamMeta = meta[p],
                              ![c].data = writes + 1]
          /\ UNCHANGED <<meta, disk, files, poll, births, crashes, acked, shut>>

InitialDone(c) ==
    /\ op[c].kind = "create" /\ op[c].pc = "committed"
    /\ Notify(op[c].path, FALSE)
    /\ CreateTail(c, {Ack(op[c])})
    /\ UNCHANGED <<files, births, writes, crashes>>

\* The file could not be opened, or was closed and unlinked under an append:
\* the write fails, or fsyncFile no longer finds the handle.
AppendFails(c) ==
    /\ op[c].pc \in {"write", "fsync"}
    /\ files[op[c].streamMeta.dir].state \in {"unlinked", "failed"}
    /\ IF op[c].kind = "create" THEN Rollback(c, meta)
       ELSE /\ op' = [op EXCEPT ![c] = IdleOp]
            /\ UNCHANGED <<meta, disk, files, poll, births, writes, crashes,
                           acked, shut>>

----------------------------------------------------------------------------
(* closeStream(), closeStreamWithProducer() *)

\* Neither looks at softDeleted.
CloseStream(c, p) ==
    /\ Idle(c) /\ "close" \in Operations /\ Found(meta, p)
    /\ PutSync([Reaped(meta, p) EXCEPT ![p].closed = TRUE], op)
    /\ NotifyClosed(p, TRUE)
    /\ shut' = shut \cup {meta[p].dir}
    /\ UNCHANGED <<files, births, writes, crashes, acked>>

CloseStreamWithProducer(c, p, h) ==
    /\ Idle(c) /\ "closeWithProducer" \in Operations
    /\ ProducerLockFree(p, h)
    /\ Found(meta, p)
    /\ LET S == Reaped(meta, p)     \* a soft-deletion is put at once
           s == S[p]
           ops == IF S = meta THEN op ELSE [x \in Client |-> Flushed(op[x])]
       IN
       /\ ~s.closed /\ Accepted(s, h)
       /\ disk' = IF S = meta THEN disk ELSE S
       /\ meta' = [S EXCEPT ![p] =
                     [Committed(s, h) EXCEPT !.closed = TRUE, !.closedBy = h]]
       /\ op' = [ops EXCEPT ![c] =
                   [IdleOp EXCEPT !.kind = "close", !.pc = "put", !.path = p,
                                  !.streamMeta = s, !.headers = h]]
    /\ UNCHANGED <<files, poll, births, writes, crashes, acked, shut>>

\* Mutant: the close is answered before the put is durable.
CloseDoneEarly(c) ==
    /\ op[c].kind \in {"close", "seal"} /\ op[c].pc \in {"put", "committed"}
    /\ IF op[c].kind = "close"
       THEN NotifyClosed(op[c].path, meta[op[c].path].closed)
       ELSE UNCHANGED poll
    /\ op' = [op EXCEPT ![c] = IdleOp]
    /\ acked' = IF op[c].data # 0 THEN acked \cup {Ack(op[c])} ELSE acked
    /\ shut' = shut \cup {op[c].streamMeta.dir}
    /\ UNCHANGED <<meta, disk, files, births, writes, crashes>>

\* The put of closeStreamWithProducer or of create() is durable.
CloseDone(c) ==
    /\ op[c].kind \in {"close", "seal"} /\ op[c].pc = "committed"
    /\ IF op[c].kind = "close"
       THEN NotifyClosed(op[c].path, meta[op[c].path].closed)
       ELSE UNCHANGED poll
    /\ op' = [op EXCEPT ![c] = IdleOp]
    /\ acked' = IF op[c].data # 0 THEN acked \cup {Ack(op[c])} ELSE acked
    /\ shut' = shut \cup {op[c].streamMeta.dir}
    /\ UNCHANGED <<meta, disk, files, births, writes, crashes>>

----------------------------------------------------------------------------
(* delete(), lookups, time *)

\* handleDelete; the files go once their handles are closed.
Delete(c, p) ==
    /\ Idle(c) /\ "delete" \in Operations
    /\ meta[p].exists /\ ~meta[p].softDeleted
    /\ LET M == DeleteStream(Reaped(meta, p), p) IN
       /\ PutSync(M, op)
       /\ files' = Unlinked(M)
       /\ CancelWaits({p} \cup {q \in Path : meta[q].exists /\ ~M[q].exists})
    /\ UNCHANGED <<births, writes, crashes, acked, shut>>

\* get(), has(), read(), refused requests: getMetaIfNotExpired.
Lookup(c, p) ==
    /\ Idle(c) /\ meta[p].exists /\ meta[p].due
    /\ LET M == Reaped(meta, p) IN PutSync(M, op) /\ files' = Unlinked(M)
    /\ UNCHANGED <<poll, births, writes, crashes, acked, shut>>

TouchAccess(c, p) ==
    /\ Idle(c) /\ meta[p].exists /\ meta[p].due
    /\ PutSync([meta EXCEPT ![p].due = FALSE], op)
    /\ UNCHANGED <<files, poll, births, writes, crashes, acked, shut>>

StreamAges(p) ==
    /\ meta[p].exists /\ meta[p].expiry # "none" /\ ~meta[p].due
    /\ meta' = [meta EXCEPT ![p].due = TRUE]
    /\ disk' = [disk EXCEPT ![p].due = disk[p].exists]
    /\ UNCHANGED <<files, op, poll, births, writes, crashes, acked, shut>>

----------------------------------------------------------------------------
(* Crash and recovery *)

\* recover(): streams without a file go, offsets are taken from the files,
\* reference counts from the forks, and soft-deleted streams that no fork
\* needs are collected.
Reconciled(db, F) ==
    [p \in Path |->
        IF db[p].exists /\ F[db[p].dir].state = "present"
        THEN [db[p] EXCEPT !.tail = Base(db[p]) + Len(F[db[p].dir].frames)]
        ELSE NoMeta]

ForksIn(S, p) == {q \in Path : S[q].exists /\ S[q].forkedFrom = p}

\* Mutant: the reference counts are taken as they are found.
RecountNothing(S) == S

Recounted(S) ==
    [p \in Path |->
        IF S[p].exists THEN [S[p] EXCEPT !.refCount = Cardinality(ForksIn(S, p))]
        ELSE S[p]]

Recovered(db, F) ==
    LET S == Recounted(Reconciled(db, F))
        collectible == {p \in Path : S[p].softDeleted /\ S[p].refCount = 0}
    IN FoldSet(LAMBDA p, T : DeleteWithCascade(T, p), S, collectible)

\* The process dies and is started again.  Of each file, what was not synced
\* may be lost; under the append lock that is one frame.
Crash ==
    /\ crashes < MaxCrashes /\ crashes' = crashes + 1
    /\ \E lost \in SUBSET {d \in Dir : files[d].synced < Len(files[d].frames)} :
         LET left == [d \in Dir |->
                        IF d \in lost
                        THEN [files[d] EXCEPT
                                !.frames = SubSeq(@, 1, files[d].synced)]
                        ELSE [files[d] EXCEPT !.synced = Len(files[d].frames)]]
             M == Recovered(disk, left)
         IN /\ meta' = M /\ disk' = M
            /\ files' = [d \in Dir |->
                           IF \E p \in Path : M[p].exists /\ M[p].dir = d
                           THEN left[d]
                           ELSE Gone]
    /\ op' = [c \in Client |-> IdleOp]
    /\ poll' = [w \in Waiter |-> IdlePoll]
    /\ UNCHANGED <<births, writes, acked, shut>>

----------------------------------------------------------------------------
Init ==
    /\ meta = [p \in Path |-> NoMeta]
    /\ disk = [p \in Path |-> NoMeta]
    /\ files = [d \in Dir |-> NoFile]
    /\ op = [c \in Client |-> IdleOp]
    /\ poll = [w \in Waiter |-> IdlePoll]
    /\ births = 0 /\ writes = 0 /\ crashes = 0
    /\ acked = {} /\ shut = {}

Next ==
    \/ \E c \in Client, p \in Path :
        \/ \E o \in CreateRequest : CreateStart(c, p, o) \/ CreateFails(c, p, o)
        \/ \E h \in Headers \cup {NoHeaders}, close \in BOOLEAN :
             AppendStart(c, p, h, close)
        \/ CloseStream(c, p)
        \/ \E h \in Headers : CloseStreamWithProducer(c, p, h)
        \/ Delete(c, p) \/ Lookup(c, p) \/ TouchAccess(c, p)
    \/ \E c \in Client :
        \/ OpenDone(c) \/ OpenFails(c) \/ InitialAppend(c) \/ InitialDone(c)
        \/ WriteDone(c) \/ FsyncDone(c) \/ AppendFails(c) \/ AppendDone(c)
        \/ CloseDone(c)
    \/ \E p \in Path : StreamAges(p)
    \/ \E w \in Waiter : Timeout(w) \/ \E p \in Path : WaitForMessages(w, p)
    \/ Commit
    \/ Crash

Spec == Init /\ [][Next]_vars

----------------------------------------------------------------------------
(* Properties *)

Busy(d) == \E c \in Client : /\ op[c].streamMeta.dir = d
                             /\ op[c].pc \in {"write", "fsync"}

\* streamAppendLocks exists so that currentOffset "cannot drift behind the
\* file's actual byte position": whenever no append is under way the recorded
\* tail is the end of the file, across crashes too.
OffsetsMatchFiles ==
    \A p \in Path :
        (meta[p].exists /\ ~Busy(meta[p].dir)) =>
            meta[p].tail = Base(meta[p]) + Len(files[meta[p].dir].frames)

\* An append that was answered is in the file for as long as the stream lives,
\* at the offset the client was told, whatever crashes come after.
AckedStaysPut ==
    \A p \in Path : \A a \in acked :
        (meta[p].exists /\ meta[p].dir = a.dir) =>
            LET frames == files[a.dir].frames
                i == a.offset - Base(meta[p])
            IN i \in DOMAIN frames /\ frames[i] = [data |-> a.data, by |-> a.by]

\* A producer's request is stored a second time only if a crash came between
\* the first time and its answer.
AckedOnce ==
    \A d \in Dir : \A i, j \in DOMAIN files[d].frames :
        LET x == files[d].frames[i]
            y == files[d].frames[j]
        IN (i < j /\ HasProducer(x.by) /\ x.by = y.by) =>
             /\ crashes > 0
             /\ ~\E a \in acked : a.dir = d /\ a.data = x.data

\* StreamMetadata.closed: "Once set to true, this is permanent and durable."
CloseIsPermanent ==
    \A p \in Path :
        (meta[p].exists /\ meta[p].dir \in shut) => meta[p].closed

\* A waiting long-poll has missed nothing on its stream, unless the operation
\* that will wake it is about to.
NoMissedWakeup ==
    \A w \in Waiter : poll[w].state = "waiting" =>
        LET s == meta[poll[w].path] IN
        \/ \E c \in Client : /\ op[c].path = poll[w].path
                             /\ op[c].pc \in {"put", "committed"}
        \/ (s.exists /\ s.dir = poll[w].dir) =>
             ~s.closed /\ s.tail = poll[w].offset

\* handleRead answers a result with streamClosed by an empty end-of-stream
\* response at the client's own offset, so there must be nothing past it.
ClosedMeansDrained ==
    \A w \in Waiter :
        (poll[w].state = "done" /\ poll[w].closed) => poll[w].got = 0

\* A reader of a live stream that starts at any offset gets every message past
\* it once and in order, and of those before the fork the ones its source has,
\* soft-deleted or not, whatever was appended, deleted, rolled back or lost in
\* a crash since the fork.
ForkReadsStitch ==
    \A p \in Path : meta[p].exists => \A start \in 0 .. meta[p].tail :
        LET msgs == Read(p, start)
            s == meta[p]
        IN /\ \A i \in DOMAIN msgs : msgs[i].offset = start + i
           /\ start + Len(msgs) >= s.tail
           /\ \A i \in DOMAIN msgs : msgs[i].offset <= Base(s) =>
                /\ meta[s.forkedFrom].exists
                /\ msgs[i] \in Range(Read(s.forkedFrom, start))

\* The reference count of a stream is the number of its forks: no fork is left
\* without its source, and no stream is kept, soft-deleted, without a fork.
RefCountExact ==
    \A p \in Path :
        /\ meta[p].exists => meta[p].refCount = Cardinality(ForksIn(meta, p))
        /\ ~meta[p].exists => ForksIn(meta, p) = {}
        /\ meta[p].softDeleted => ForksIn(meta, p) # {}

\* With requests that come one after the other, a crash between any two steps of
\* one undoes nothing that was answered and leaves the forks with their sources:
\* recovery restores the counts, closes last, and reads stitch what was forked.
CrashesLeaveForks == RefCountExact /\ CloseIsPermanent /\ ForkReadsStitch
=============================================================================
