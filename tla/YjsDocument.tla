---------------------------- MODULE YjsDocument -----------------------------
(***************************************************************************)
(* One document of the Yjs server (y-durable-streams/src/server): its      *)
(* update stream, its snapshot streams and the index that names them, all  *)
(* of them streams of a durable-streams server, and the memory the Yjs     *)
(* server keeps about it.  Writes count towards a compaction, which reads  *)
(* the last snapshot and the updates after it, writes a new snapshot and   *)
(* deletes the old one; a reader asks for the snapshot, loads it and reads *)
(* on from there.  Every call to the durable-streams server is an await,   *)
(* so each of these runs interleaves with all the others.                  *)
(*                                                                         *)
(* An offset is a number of bytes, as in the update stream; -1 is both the *)
(* beginning of the stream and the offset of no snapshot.  An update is    *)
(* the document it was written to and the number of its write.             *)
(***************************************************************************)
EXTENDS Integers, Sequences, FiniteSets

CONSTANTS Readers,
          UpdateBytes,        \* size of a framed update
          CompactionThreshold,\* in bytes
          MaxUpdates,         \* writes that reach the stream
          MaxRetries,         \* writes repeated after their answer was lost
          MaxDeletes,
          MaxRestarts

\* incrementOffset adds one byte to an offset: the next update must be longer than that
ASSUME YjsAssumption == UpdateBytes \in Nat /\ UpdateBytes > 1 /\ CompactionThreshold \in Nat

VARIABLES born,         \* which document lives at the path; 0 when there is none
          births,       \* documents created so far
          log,          \* its updates
          snapshots,    \* snapshot streams: key (an offset) and content
          index,        \* the index stream: the offsets of the snapshots written
          mem,          \* documentStates: what the server remembers of the document
          uncounted,    \* writes that were answered and not yet counted
          compactions,  \* compactions at an await
          deletion,     \* the DELETE at an await
          reader,       \* the readers
          budget,       \* retries, deletions and restarts so far
          harm          \* history: the races that happened and that the code does not guard against

yjsVars == <<born, births, log, snapshots, index, mem, uncounted, compactions, deletion,
             reader, budget, harm>>

NoOffset == -1
EndOf(i) == i * UpdateBytes
LogEnd == EndOf(Len(log))
LogAfter(o) == {log[i] : i \in {k \in DOMAIN log : EndOf(k) > o}}

\* incrementOffset: the position from which the updates after a snapshot are read
IncrementOffset(o) == o + 1

From(o) == IF o = NoOffset THEN NoOffset ELSE IncrementOffset(o)

Stored(o) == \E s \in snapshots : s.at = o
Content(o) == UNION {s.has : s \in {x \in snapshots : x.at = o}}

\* the server's memory of the document; id tells one object from the next at the same key
NoState == [id |-> 0, snapshot |-> NoOffset, bytes |-> 0, compacting |-> FALSE]
Fresh(m) == IF m.id # 0 THEN m ELSE [m EXCEPT !.id = births + budget.deletes + 1]

Idle == [step |-> "idle", listed |-> {}]
Rest == [step |-> "idle", mem |-> 0, at |-> NoOffset, has |-> {}, end |-> NoOffset, born |-> 0]

(***************************************************************************)
(* Documents and writes.                                                   *)
(***************************************************************************)
\* PUT: the update stream, and with it the awareness stream
CreateDocument ==
  /\ born = 0 /\ births <= MaxDeletes
  /\ born' = births + 1 /\ births' = births + 1 /\ log' = <<>>
  /\ UNCHANGED <<snapshots, index, mem, uncounted, compactions, deletion, reader, budget>>

\* POST: the update is stored, and counted once the answer has been forwarded
Write ==
  /\ born # 0 /\ Len(log) < MaxUpdates
  /\ log' = Append(log, <<born, Len(log) + 1>>) /\ uncounted' = uncounted + 1
  /\ UNCHANGED <<born, births, snapshots, index, mem, compactions, deletion, reader, budget>>

\* the same POST again: the producer headers make it a duplicate, which is answered like a write
Rewrite ==
  /\ born # 0 /\ log # <<>> /\ budget.retries < MaxRetries
  /\ uncounted' = uncounted + 1 /\ budget' = [budget EXCEPT !.retries = @ + 1]
  /\ UNCHANGED <<born, births, log, snapshots, index, mem, compactions, deletion, reader>>

\* shouldTriggerCompaction and tryStartCompaction
Due(m) == ~m.compacting /\ m.bytes >= CompactionThreshold

\* the end of handleUpdateWrite
Count ==
  /\ uncounted > 0 /\ uncounted' = uncounted - 1
  /\ LET m == [Fresh(mem) EXCEPT !.bytes = @ + UpdateBytes]
     IN /\ mem' = [m EXCEPT !.compacting = @ \/ Due(m)]
        /\ compactions' = IF ~Due(m) THEN compactions
             ELSE compactions \cup {[mem |-> m.id, from |-> m.snapshot, has |-> {}, end |-> NoOffset,
                                     step |-> IF m.snapshot = NoOffset THEN "updates" ELSE "snapshot"]}
  /\ UNCHANGED <<born, births, log, snapshots, index, deletion, reader, budget>>

(***************************************************************************)
(* performCompaction.                                                      *)
(***************************************************************************)
Goes(c, d) == compactions' = (compactions \ {c}) \cup {d}

\* finally: setCompacting(false), by key, whatever object is there now
Ends(c, m) == compactions' = compactions \ {c} /\ mem' = [m EXCEPT !.compacting = FALSE]

\* the snapshot the state object names when it is asked: documentStates may hold another object by now
Named(c) == IF mem.id = c.mem THEN mem.snapshot ELSE c.from

\* a snapshot that is not found counts as an empty one; the updates are read after the one that is named now
LoadsSnapshot(c) ==
  /\ c.step = "snapshot"
  /\ Goes(c, [c EXCEPT !.step = "updates", !.has = Content(c.from), !.from = Named(c)])
  /\ UNCHANGED <<born, births, log, snapshots, index, mem, uncounted, deletion, reader, budget>>

ReadsUpdates(c) ==
  /\ c.step = "updates" /\ born # 0
  /\ Goes(c, [c EXCEPT !.step = "write", !.has = @ \cup LogAfter(From(c.from)), !.end = LogEnd])
  /\ UNCHANGED <<born, births, log, snapshots, index, mem, uncounted, deletion, reader, budget>>

\* the update stream is gone: the compaction fails
UpdatesMissing(c) ==
  /\ c.step = "updates" /\ born = 0
  /\ Ends(c, mem)
  /\ UNCHANGED <<born, births, log, snapshots, index, uncounted, deletion, reader, budget>>

\* A mutant: the snapshot is named after the tail there is when it is written.
SnapshotAtTail(c) ==
  /\ c.step = "write"
  /\ snapshots' = snapshots \cup (IF Stored(LogEnd) THEN {} ELSE {[at |-> LogEnd, has |-> c.has]})
  /\ Goes(c, [c EXCEPT !.step = "index", !.from = Named(c), !.end = LogEnd])
  /\ UNCHANGED <<born, births, log, index, mem, uncounted, deletion, reader, budget>>

\* PUT and POST of the snapshot stream; one that exists keeps what readers decode first
WritesSnapshot(c) ==
  /\ c.step = "write"
  /\ snapshots' = snapshots \cup (IF Stored(c.end) THEN {} ELSE {[at |-> c.end, has |-> c.has]})
  /\ Goes(c, [c EXCEPT !.step = "index", !.from = Named(c)])
  /\ UNCHANGED <<born, births, log, index, mem, uncounted, deletion, reader, budget>>

\* the new snapshot is published: in the index, then in memory, where the count begins again
WritesIndex(c) ==
  /\ c.step = "index"
  /\ index' = Append(index, c.end)
  /\ Goes(c, [c EXCEPT !.step = "publish"])
  /\ UNCHANGED <<born, births, log, snapshots, mem, uncounted, deletion, reader, budget>>

Publishes(c) ==
  /\ c.step = "publish"
  /\ mem' = IF mem.id = 0 THEN mem
            ELSE [mem EXCEPT !.snapshot = c.end, !.bytes = 0, !.compacting = FALSE]
  /\ compactions' = (compactions \ {c}) \cup
       (IF c.from = NoOffset THEN {} ELSE {[c EXCEPT !.step = "cleanup"]})
  /\ UNCHANGED <<born, births, log, snapshots, index, uncounted, deletion, reader, budget>>

\* deleteOldSnapshot, which nobody waits for
DeletesOld(c) ==
  /\ c.step = "cleanup"
  /\ snapshots' = {s \in snapshots : s.at # c.from}
  /\ compactions' = compactions \ {c}
  /\ UNCHANGED <<born, births, log, index, mem, uncounted, deletion, reader, budget>>

(***************************************************************************)
(* DELETE of the document and of the streams that belong to it.            *)
(***************************************************************************)
DeleteDocument ==
  /\ born # 0 /\ deletion = Idle /\ budget.deletes < MaxDeletes
  /\ born' = 0 /\ log' = <<>>
  /\ deletion' = [Idle EXCEPT !.step = "forget"]
  /\ budget' = [budget EXCEPT !.deletes = @ + 1]
  /\ UNCHANGED <<births, snapshots, index, mem, uncounted, compactions, reader>>

\* documentStates.delete, and the index is asked for the snapshots there are
Forget ==
  /\ deletion.step = "forget"
  /\ mem' = NoState
  /\ deletion' = [step |-> "cascade", listed |-> {index[i] : i \in DOMAIN index}]
  /\ UNCHANGED <<born, births, log, snapshots, index, uncounted, compactions, reader, budget>>

Cascade ==
  /\ deletion.step = "cascade"
  /\ snapshots' = {s \in snapshots : s.at \notin deletion.listed}
  /\ index' = <<>> /\ deletion' = Idle
  /\ UNCHANGED <<born, births, log, mem, uncounted, compactions, reader, budget>>

(***************************************************************************)
(* A reader: snapshot discovery, the snapshot, the updates after it.       *)
(***************************************************************************)
\* handleSnapshotDiscovery: HEAD finds the document
FindDocument(r) ==
  /\ reader[r].step = "idle" /\ born # 0
  /\ reader' = [reader EXCEPT ![r].step = "found", ![r].born = born]
  /\ UNCHANGED <<born, births, log, snapshots, index, mem, uncounted, compactions, deletion, budget>>

\* the offset in memory answers at once; otherwise the index is read
Discover(r) ==
  /\ reader[r].step = "found"
  /\ mem' = Fresh(mem)
  /\ reader' = [reader EXCEPT ![r].step = IF mem.snapshot = NoOffset THEN "index" ELSE "load",
                              ![r].mem = Fresh(mem).id, ![r].at = mem.snapshot]
  /\ UNCHANGED <<born, births, log, snapshots, index, uncounted, compactions, deletion, budget>>

\* loadSnapshotOffsetFromIndex: the last entry there was
LoadIndex(r) ==
  /\ reader[r].step = "index"
  /\ reader' = [reader EXCEPT ![r].step = "redirect",
                              ![r].at = IF index = <<>> THEN NoOffset ELSE index[Len(index)]]
  /\ UNCHANGED <<born, births, log, snapshots, index, mem, uncounted, compactions, deletion, budget>>

\* what was found is remembered, in the object the request holds, and the reader is sent there
Redirect(r) ==
  /\ reader[r].step = "redirect"
  /\ LET found == reader[r].at
         same  == mem.id = reader[r].mem
         at    == IF found # NoOffset THEN found ELSE IF same THEN mem.snapshot ELSE NoOffset
     IN /\ mem' = IF same /\ found # NoOffset THEN [mem EXCEPT !.snapshot = found] ELSE mem
        /\ reader' = [reader EXCEPT ![r].at = at,
                                    ![r].step = IF at = NoOffset THEN "read" ELSE "load"]
  /\ UNCHANGED <<born, births, log, snapshots, index, uncounted, compactions, deletion, budget>>

\* handleSnapshotRead; a snapshot that is gone sends the reader back to discovery
LoadSnapshot(r) ==
  /\ reader[r].step = "load"
  /\ reader' = [reader EXCEPT ![r] =
       IF Stored(@.at) THEN [@ EXCEPT !.step = "read", !.has = Content(reader[r].at)] ELSE Rest]
  /\ UNCHANGED <<born, births, log, snapshots, index, mem, uncounted, compactions, deletion, budget>>

\* handleUpdatesRead from the offset after the snapshot, up to the end; 404 when the document is gone
ReadUpdates(r) ==
  /\ reader[r].step = "read"
  /\ reader' = [reader EXCEPT ![r] =
       IF born = 0 THEN Rest
       ELSE [@ EXCEPT !.step = "done", !.has = reader[r].has \cup LogAfter(From(reader[r].at)),
                      !.end = LogEnd]]
  /\ UNCHANGED <<born, births, log, snapshots, index, mem, uncounted, compactions, deletion, budget>>

Leave(r) ==
  /\ reader[r].step = "done"
  /\ reader' = [reader EXCEPT ![r] = Rest]
  /\ UNCHANGED <<born, births, log, snapshots, index, mem, uncounted, compactions, deletion, budget>>

\* the Yjs server restarts: its memory and the requests it was handling are gone
Restart ==
  /\ budget.restarts < MaxRestarts /\ budget' = [budget EXCEPT !.restarts = @ + 1]
  /\ mem' = NoState /\ uncounted' = 0 /\ compactions' = {} /\ deletion' = Idle
  /\ reader' = [r \in Readers |-> Rest]
  /\ UNCHANGED <<born, births, log, snapshots, index>>

-----------------------------------------------------------------------------
YjsInit ==
  /\ born = 0 /\ births = 0 /\ log = <<>> /\ snapshots = {} /\ index = <<>>
  /\ mem = NoState /\ uncounted = 0 /\ compactions = {} /\ deletion = Idle
  /\ reader = [r \in Readers |-> Rest]
  /\ budget = [retries |-> 0, deletes |-> 0, restarts |-> 0]
  /\ harm = {}

YjsStep ==
  \/ CreateDocument \/ Write \/ Rewrite \/ Count \/ DeleteDocument \/ Forget \/ Cascade \/ Restart
  \/ \E c \in compactions : \/ LoadsSnapshot(c) \/ ReadsUpdates(c) \/ UpdatesMissing(c)
                            \/ WritesSnapshot(c) \/ WritesIndex(c) \/ Publishes(c) \/ DeletesOld(c)
  \/ \E r \in Readers : \/ FindDocument(r) \/ Discover(r) \/ LoadIndex(r) \/ Redirect(r) \/ LoadSnapshot(r)
                        \/ ReadUpdates(r) \/ Leave(r)

\* leftovers of a document survive its deletion when something else was under way, or when the cascade
\* was cut short and the path is used again
Overlap ==
  \/ deletion # Idle /\ \/ born # 0 \/ compactions # {} \/ uncounted > 0
                        \/ \E r \in Readers : reader[r].step \in {"found", "index", "redirect", "load"}
  \/ deletion = Idle /\ born = 0 /\ (snapshots # {} \/ index # <<>>)

\* The history: deletions that overlapped other work; compactions with nothing new to compact, whose old
\* snapshot is the new one; discoveries that put an older snapshot back into memory.
Harm ==
  harm \cup (IF Overlap' THEN {"overlap"} ELSE {})
       \cup (IF \E c \in compactions' : c.step = "cleanup" /\ c.from = c.end THEN {"self"} ELSE {})
       \cup (IF mem'.id = mem.id /\ mem'.snapshot < mem.snapshot THEN {"regress"} ELSE {})

\* A history with an overlapping deletion is followed only until the compactions it met have failed: no
\* property speaks of it.
YjsNext ==
  /\ "overlap" \in harm => \E c \in compactions : UpdatesMissing(c)
  /\ YjsStep /\ harm' = Harm

YjsSpec == YjsInit /\ [][YjsNext]_yjsVars

-----------------------------------------------------------------------------
\* what a reader of the document has when it is done: all updates up to the offset it reached
Complete(r) ==
  reader[r].step = "done" /\ reader[r].born = born =>
    \A i \in DOMAIN log : EndOf(i) <= reader[r].end => log[i] \in reader[r].has

\* A reader that loads the snapshot and reads on has every update of the document, whatever compactions,
\* restarts and deletions ran meanwhile (performCompaction, handleSnapshotDiscovery, handleDocumentDelete).
\* The histories of Harm are excepted: there the code loses updates.
HistoryServed == harm = {} => \A r \in Readers : Complete(r)
=============================================================================
