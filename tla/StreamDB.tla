------------------------------ MODULE StreamDB ------------------------------
(***************************************************************************)
(* The stream-backed database of packages/state/src/stream-db.ts: an       *)
(* EventDispatcher turns the change events of a stream into transactions   *)
(* on collections, and createStreamDB drives it from the batches of a      *)
(* StreamResponse.  MaterializedState (materialized-state.ts) is the       *)
(* reference: what the rows must be.                                       *)
(*                                                                         *)
(* The reader is what StreamReader shows of it: batches of any size, the   *)
(* last one upToDate, and messages that come again when an SSE connection  *)
(* ended before their control event.  A collection of TanStack DB is what  *)
(* the dispatcher uses of it: begin, write, commit, truncate.  Truncate is *)
(* part of a transaction: without an open one it throws, and what it does  *)
(* to the rows waits for the commit.                                       *)
(***************************************************************************)
EXTENDS Integers, Sequences, SequencesExt, FiniteSets

CONSTANTS
    DBLogs,          \* the streams it may be given
    DBTypes,         \* event types with a collection
    DBKeys,          \* the keys of the rows
    Preloads,        \* bound: calls of preload()
    MaxReplays       \* bound: batches that come again

NoTxid == "none"
NotAnObject == 0     \* an event.value that is no object; also: no row

DBEvent ==
    [op : {"insert", "update", "upsert", "delete", "reset", "snapshot-start",
           "snapshot-end"},
     type : STRING, key : DBKeys, val : Nat, txid : STRING]

ASSUME StreamDBConstants ==
    /\ MaxReplays \in Nat
    /\ \A l \in DBLogs : \A k \in DOMAIN l : l[k] \in DBEvent

VARIABLES
    dbLog, available,  \* the stream, and how much of it is there
    db,                \* the EventDispatcher and its collections
    session,           \* "none", "connecting", "doomed", "live", "broken", "over"
    aborted,           \* abortController.signal.aborted
    consumed,          \* events handed over: the next batch starts here
    replayTo,          \* events up to here come for a second time
    preloads,          \* the promises of preload(); "hanging": no session is left
                       \* that could settle it
    txWaits,           \* the promises of awaitTxId()
    replays

dbVars == <<dbLog, available, db, session, aborted, consumed, replayTo, preloads,
            txWaits, replays>>

Cells == DBTypes \X DBKeys
NoRows == [c \in Cells |-> NotAnObject]
Txids == {dbLog[k].txid : k \in DOMAIN dbLog} \ {NoTxid}
Control(e) == e.op \in {"reset", "snapshot-start", "snapshot-end"}

----------------------------------------------------------------------------
(* The reference: MaterializedState *)

\* apply() and clear(), over the first n events: the last one that touches a
\* row decides what it is.
Materialized(n) ==
    [c \in Cells |->
       LET touching == {k \in 1 .. n :
                          \/ dbLog[k].op = "reset"
                          \/ ~Control(dbLog[k]) /\ <<dbLog[k].type, dbLog[k].key>> = c}
           last == dbLog[Max(touching)]
       IN  IF touching = {} \/ last.op \in {"reset", "delete"} THEN NotAnObject
           ELSE last.val]

----------------------------------------------------------------------------
(* EventDispatcher *)

NewDispatcher ==
    [rows |-> NoRows,         \* what the collections show
     pending |-> {},          \* pendingHandlers: the types with a transaction to commit
     writes |-> <<>>,         \* what is written in those
     left |-> {},             \* the types with a transaction that stays open
     existingKeys |-> {}, upToDate |-> FALSE,
     pendingTxids |-> {}, seenTxids |-> {},
     upTo |-> 0,              \* history: events committed
     disturbed |-> FALSE,     \* history: a reset, or a value that is no object, was met
     threw |-> FALSE]         \* the batch

Object(e) == e.op = "delete" \/ e.val # NotAnObject

OperationAsWritten(d, e) ==
    IF e.op = "upsert"
    THEN IF <<e.type, e.key>> \in d.existingKeys THEN "update" ELSE "insert"
    ELSE e.op

\* An upsert is an insert or an update; an insert that was already synced, or
\* shows the same row, is an update.
Operation(d, e) ==
    LET cell  == <<e.type, e.key>>
        known == cell \in d.existingKeys
    IN  CASE e.op \in {"insert", "upsert"} /\ (known \/ d.rows[cell] = e.val) -> "update"
          [] e.op \in {"insert", "upsert"} /\ ~known /\ d.rows[cell] # e.val  -> "insert"
          [] OTHER -> e.op

\* External: a collection refuses to insert a row it has and does not delete in
\* the same transaction.
DuplicateKey(d, cell, op) ==
    /\ op = "insert" /\ d.rows[cell] # NotAnObject
    /\ \A k \in DOMAIN d.writes : d.writes[k].cell = cell => d.writes[k].op # "delete"

SeenWhenDispatched(d, e) ==
    LET cell == <<e.type, e.key>> IN
    IF e.type \notin DBTypes THEN [d EXCEPT !.seenTxids = @ \cup ({e.txid} \ {NoTxid})]
    ELSE [d EXCEPT !.seenTxids = @ \cup ({e.txid} \ {NoTxid}),
                   !.existingKeys = @ \cup {cell}, !.pending = @ \cup {e.type},
                   !.writes = Append(@, [cell |-> cell, op |-> e.op, val |-> e.val])]

\* The first write to a collection begins its transaction.
DispatchChange(d, e) ==
    LET cell == <<e.type, e.key>>
        tx == IF e.txid = NoTxid THEN d
              ELSE [d EXCEPT !.pendingTxids = @ \cup {e.txid}]
        op == Operation(d, e)
        begun == [tx EXCEPT
                    !.pending = @ \cup {e.type},
                    !.existingKeys = IF op = "delete" THEN @ \ {cell} ELSE @ \cup {cell}]
    IN  IF e.type \notin DBTypes THEN tx
        ELSE IF ~Object(e) THEN [tx EXCEPT !.threw = TRUE, !.disturbed = TRUE]
        ELSE IF DuplicateKey(d, cell, op) THEN [begun EXCEPT !.threw = TRUE]
        ELSE [begun EXCEPT
                !.writes = Append(@, [cell |-> cell, op |-> op,
                                      val |-> IF op = "delete" THEN NotAnObject ELSE e.val])]

\* External: truncate() of every collection finds an open transaction.
AllOpen(d) == DBTypes \subseteq d.pending \cup d.left

\* A reset truncates every collection, which throws where no transaction is open
\* and else drops what is written in it; that transaction is then forgotten, so
\* nobody commits it and the rows stay.
DispatchControl(d, e) ==
    IF e.op # "reset" THEN d
    ELSE IF ~AllOpen(d) THEN [d EXCEPT !.threw = TRUE, !.disturbed = TRUE]
    ELSE [d EXCEPT !.left = @ \cup d.pending, !.pending = {}, !.writes = <<>>,
                   !.existingKeys = {}, !.upToDate = FALSE, !.disturbed = TRUE]

Dispatch(d, e) ==
    IF d.threw THEN d
    ELSE IF Control(e) THEN DispatchControl(d, e) ELSE DispatchChange(d, e)

\* The batch, event by event.
DispatchBatch(from, to) ==
    LET after[n \in from .. to] ==
          IF n = from THEN [db EXCEPT !.threw = FALSE] ELSE Dispatch(after[n - 1], dbLog[n])
    IN  after[to]

CommitWrites(d) ==
    [c \in Cells |->
       LET ws == {k \in DOMAIN d.writes : d.writes[k].cell = c}
       IN  IF ws = {} THEN d.rows[c] ELSE d.writes[Max(ws)].val]

\* Commits what is open, then the txids of the batch count as seen.
MarkUpToDate(d, to) ==
    [d EXCEPT !.rows = CommitWrites(d), !.pending = {}, !.writes = <<>>,
              !.seenTxids = @ \cup d.pendingTxids, !.pendingTxids = {},
              !.upToDate = TRUE, !.upTo = Max({@, to})]

RejectNobody(waits) == waits

\* rejectAll.
Rejected(waits) == [w \in DOMAIN waits |->
                       IF waits[w] \in {"waiting", "hanging"} THEN "rejected" ELSE waits[w]]

\* No session is left that could settle these.
Stranded(waits, from) ==
    [w \in DOMAIN waits |-> IF waits[w] \in from THEN "hanging" ELSE waits[w]]

----------------------------------------------------------------------------
(* Calls of the user *)

\* preload(): the first one connects, whether close() was called before or not; each
\* one waits for upToDate.
Preload(c) ==
    /\ preloads[c] = "none"
    /\ preloads' = [preloads EXCEPT ![c] =
           IF session = "none" THEN "connecting"
           ELSE IF db.upToDate THEN "resolved"
           ELSE IF session \in {"broken", "over"} THEN "hanging" ELSE "waiting"]
    /\ session' = IF session = "none" THEN "connecting" ELSE session
    /\ UNCHANGED <<dbLog, available, db, aborted, consumed, replayTo, txWaits, replays>>

AwaitTxId(t) ==
    /\ txWaits[t] = "none"
    /\ txWaits' = [txWaits EXCEPT ![t] =
           IF t \in db.seenTxids THEN "resolved" ELSE "waiting"]
    /\ UNCHANGED <<dbLog, available, db, session, aborted, consumed, replayTo, preloads,
                   replays>>

AwaitTxIdTimesOut(t) ==
    /\ txWaits[t] = "waiting"
    /\ txWaits' = [txWaits EXCEPT ![t] = "rejected"]
    /\ UNCHANGED <<dbLog, available, db, session, aborted, consumed, replayTo, preloads,
                   replays>>

\* close(): reject, then abort.  The signal fires once, and is heard by a session and
\* by a stream() that has come as far as its first request.
DBClose ==
    /\ aborted' = TRUE
    /\ CASE ~aborted /\ session = "connecting" -> session' \in {"connecting", "doomed"}
         [] ~aborted /\ session = "live"       -> session' = "over"
         [] OTHER                              -> UNCHANGED session
    /\ preloads' = Rejected(preloads)
    /\ txWaits' = Rejected(txWaits)
    /\ UNCHANGED <<dbLog, available, db, consumed, replayTo, replays>>

----------------------------------------------------------------------------
(* The session *)

\* stream.stream() resolves; the preload that started it waits from now on.
Connected ==
    /\ session = "connecting" /\ session' = "live"
    /\ preloads' = [c \in DOMAIN preloads |->
           IF preloads[c] = "connecting" THEN "waiting" ELSE preloads[c]]
    /\ UNCHANGED <<dbLog, available, db, aborted, consumed, replayTo, txWaits, replays>>

\* ... or it had its answer when it was aborted: the session ends at once, and tells
\* nobody.
ConnectedTooLate ==
    /\ session = "doomed" /\ session' = "over"
    /\ preloads' = Stranded(preloads, {"connecting", "waiting"})
    /\ UNCHANGED <<dbLog, available, db, aborted, consumed, replayTo, txWaits, replays>>

\* stream.stream() rejects: so does the preload that started it.  consumerStarted
\* stays true and nobody else is told.
ConnectFails ==
    /\ session \in {"connecting", "doomed"} /\ session' = "broken"
    /\ preloads' = [c \in DOMAIN preloads |->
           IF preloads[c] = "connecting" THEN "rejected"
           ELSE Stranded(preloads, {"waiting"})[c]]
    /\ UNCHANGED <<dbLog, available, db, aborted, consumed, replayTo, txWaits, replays>>

\* streamResponse.closed rejects: once the signal is aborted every error is taken for
\* an abort, and is not passed on.
SessionFails ==
    /\ session = "live" /\ session' = "over"
    /\ IF aborted THEN preloads' = Stranded(preloads, {"waiting"}) /\ UNCHANGED txWaits
       ELSE preloads' = Rejected(preloads) /\ txWaits' = Rejected(txWaits)
    /\ UNCHANGED <<dbLog, available, db, aborted, consumed, replayTo, replays>>

StreamGrows ==
    /\ available < Len(dbLog)
    /\ available' = available + 1
    /\ UNCHANGED <<dbLog, db, session, aborted, consumed, replayTo, preloads, txWaits,
                   replays>>

\* The subscribeJson callback.  A batch is complete when it ends with its
\* control event; one that does not is never upToDate, and comes again.  A batch
\* that throws rejects everyone and aborts, which an aborted session does not hear.
BatchArrives(to, complete) ==
    \E d \in {DispatchBatch(consumed, to)} :
      \E committed \in {IF (complete /\ to = available) \/ d.upToDate
                       THEN MarkUpToDate(d, to) ELSE d} :
        /\ session = "live"
        /\ consumed < to \/ ~db.upToDate
        /\ ~complete => consumed < to /\ replays < MaxReplays
        /\ db' = IF d.threw THEN d ELSE committed
        /\ session' = IF d.threw /\ ~aborted THEN "over" ELSE session
        /\ aborted' = (aborted \/ d.threw)
        /\ preloads' = IF d.threw THEN Rejected(preloads)
                       ELSE [c \in DOMAIN preloads |->
                               IF preloads[c] = "waiting" /\ committed.upToDate
                               THEN "resolved" ELSE preloads[c]]
        /\ txWaits' = IF d.threw THEN Rejected(txWaits)
                      ELSE [t \in DOMAIN txWaits |->
                              IF txWaits[t] = "waiting" /\ t \in committed.seenTxids
                              THEN "resolved" ELSE txWaits[t]]
        /\ consumed' = IF complete THEN to ELSE consumed
        /\ replayTo' = IF complete THEN replayTo ELSE IF to > replayTo THEN to ELSE replayTo
        /\ replays' = IF complete THEN replays ELSE replays + 1
        /\ UNCHANGED <<dbLog, available>>

----------------------------------------------------------------------------

DBInit ==
    /\ dbLog \in DBLogs /\ available \in 0 .. Len(dbLog)
    /\ db = NewDispatcher /\ session = "none" /\ aborted = FALSE
    /\ consumed = 0 /\ replayTo = 0 /\ replays = 0
    /\ preloads = [c \in Preloads |-> "none"]
    /\ txWaits = [t \in Txids |-> "none"]

DBBatch ==
    \E to \in consumed .. available, complete \in BOOLEAN : BatchArrives(to, complete)

ConnectEnds == Connected \/ ConnectedTooLate \/ ConnectFails

DBNext ==
    \/ \E c \in Preloads : Preload(c)
    \/ \E t \in Txids : AwaitTxId(t) \/ AwaitTxIdTimesOut(t)
    \/ DBClose \/ Connected \/ ConnectedTooLate \/ ConnectFails \/ SessionFails
    \/ StreamGrows \/ DBBatch

\* The reader answers, and the session delivers what there is.
DBFairness ==
    /\ WF_dbVars(ConnectEnds)
    /\ WF_dbVars(\E to \in consumed .. available : BatchArrives(to, TRUE) /\ to = available)

DBSpec == DBInit /\ [][DBNext]_dbVars /\ DBFairness

----------------------------------------------------------------------------
(* Properties *)

\* The collections show what MaterializedState makes of the events committed
\* so far: with any batches and replayed inserts.  While a torn batch comes again
\* the rows may lag behind.  No collection is sent an insert it refuses: only a
\* value that is no object ends the session.  Both up to the first reset, or the
\* first such value: from then on the rows may be stale and refuse an insert.
RowsAreMaterialized ==
    /\ db.threw => db.disturbed
    /\ ~db.disturbed /\ consumed >= replayTo => db.rows = Materialized(db.upTo)

\* A resolved awaitTxId means that the rows it wrote are committed, or a reset
\* came after them.
TxidMeansCommitted ==
    \A t \in Txids : txWaits[t] = "resolved" =>
        \E k \in 1 .. db.upTo : dbLog[k].txid = t

\* The collections and the txids agree with the stream.
DBFollowsStream == RowsAreMaterialized /\ TxidMeansCommitted

\* A preload is settled when its own connection attempt fails, and when it waits
\* on a live session that reaches upToDate, fails or is closed.  Left to hang are
\* one that waits for another call's attempt, which fails or is aborted; one that
\* is called when the session has ended; and, after close(), one whose session
\* fails or had its answer when it was aborted.
PreloadSettles ==
    []<>(\A c \in Preloads : preloads[c] \notin {"connecting", "waiting"})
=============================================================================
