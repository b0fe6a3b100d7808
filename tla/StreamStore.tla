---------------------------- MODULE StreamStore ----------------------------
(***************************************************************************)
(* The in-memory store of the reference server, packages/server/src/       *)
(* store.ts (class StreamStore).  Every operation of the class runs to     *)
(* completion without yielding to the event loop (the producer lock of     *)
(* appendWithProducer and closeStreamWithProducer is only ever held across *)
(* synchronous code), so one operation is one action.                      *)
(*                                                                         *)
(* A stream is a record.  Its messages carry byte offsets: a message of    *)
(* size n ends at the previous end + FrameOverhead + n.  Offset strings    *)
(* are zero padded, so the code's lexicographic comparison is numeric      *)
(* comparison.  An offset of -1 is "from the beginning".                   *)
(*                                                                         *)
(* Time is abstracted to two flags: a stream's due says that its TTL or    *)
(* its Expires-At has passed since the last access, a producer state's     *)
(* stale says that PRODUCER_STATE_TTL_MS has.  The clock stands still      *)
(* within one synchronous operation.                                       *)
(***************************************************************************)
EXTENDS Integers, Sequences, FiniteSets, Functions, ProducerValidation

CONSTANTS
    Path,           \* stream paths
    NoPath,         \* "no forkedFrom"
    Producer,       \* producer ids
    NoProducer,     \* a request without producer headers
    Waiter,         \* concurrent long-poll requests
    Expiries,       \* expiry settings a PUT may carry, a subset of Expiry
    ContentTypes,   \* values of Content-Type, "inherit" when absent from a PUT
    Bodies,         \* kinds of request body in use, a subset of BodyKind
    ForkSources,    \* paths that PUT may name in Stream-Forked-From
    Sizes,          \* payload sizes of an append
    SubOffsets,     \* values of Stream-Fork-Sub-Offset, 0 when absent
    StreamSeqs,     \* values of Stream-Seq, -1 when absent
    Shutdown,       \* whether clear() and cancelAllWaits() are called
    FrameOverhead,  \* FRAME_OVERHEAD, 5 in the code
    MaxEpoch, MaxSeq,   \* bounds on the producer headers of a request
    MaxBirths,      \* bound: number of streams ever created
    MaxWrites,      \* bound: number of messages ever written
    MaxDrops        \* bound: number of producer states ever aged out

Expiry == {"none", "ttl", "at"}
ContentType == {"json", "bin"}
\* A body's fate in JSON mode: valid, an empty array, or not JSON.
BodyKind == {"valid", "empty", "bad"}

\* NoPath and NoProducer stand for absent values.
ASSUME NamesAssumption ==
    /\ NoPath \notin Path /\ NoProducer \notin Producer
    /\ ForkSources \subseteq Path

\* The requests carry what the code can parse.
ASSUME RequestAssumption ==
    /\ Expiries \subseteq Expiry
    /\ ContentTypes \subseteq ContentType \cup {"inherit"}
    /\ Bodies \subseteq BodyKind
    /\ Sizes \subseteq Nat \ {0} /\ SubOffsets \subseteq Nat
    /\ StreamSeqs \subseteq Int

ASSUME ShutdownAssumption == Shutdown \in BOOLEAN

ASSUME BoundsAssumption ==
    /\ FrameOverhead \in Nat /\ MaxEpoch \in Nat /\ MaxSeq \in Nat
    /\ MaxBirths \in Nat /\ MaxWrites \in Nat /\ MaxDrops \in Nat

VARIABLES
    streams,   \* StreamStore.streams: [Path -> Stream]
    pending,   \* StreamStore.pendingLongPolls; its order is abstracted
    poll,      \* the promise behind each long-poll request
    births,    \* number of streams created so far; stands for createdAt
    writes     \* number of messages written so far; names their data

vars == <<streams, pending, poll, births, writes>>

----------------------------------------------------------------------------
(* Values *)

\* The producer tuple of a request or of a message.  win is a history value:
\* it counts how often the producer's state had been aged out by then.
Tuple == [pid : Producer \cup {NoProducer}, epoch : Nat, seq : Nat, win : Nat]
NoTuple == [pid |-> NoProducer, epoch |-> 0, seq |-> 0, win |-> 0]

Message == [offset : Nat, size : Nat, data : Nat, by : Tuple]

ProducerEntry == [st : ProducerState, stale : BOOLEAN, drops : Nat]
NoEntry == [st |-> NoProducerState, stale |-> FALSE, drops |-> 0]

Stream == [exists : BOOLEAN, born : Nat, ctype : ContentType,
           messages : Seq(Message), tail : Nat, lastSeq : Int,
           expiry : Expiry, due : BOOLEAN,
           producers : [Producer -> ProducerEntry],
           closed : BOOLEAN, closedBy : Tuple,
           forkedFrom : Path \cup {NoPath}, forkOffset : Nat,
           refCount : Nat, softDeleted : BOOLEAN]

NoStream == [exists |-> FALSE, born |-> 0, ctype |-> "bin",
             messages |-> <<>>, tail |-> 0, lastSeq |-> -1,
             expiry |-> "none", due |-> FALSE,
             producers |-> [i \in Producer |-> NoEntry],
             closed |-> FALSE, closedBy |-> NoTuple,
             forkedFrom |-> NoPath, forkOffset |-> 0,
             refCount |-> 0, softDeleted |-> FALSE]

\* A long-poll request: waiting until its promise resolves, with a timer.
Poll == [state : {"idle", "waiting", "done"}, path : Path \cup {NoPath},
         offset : Nat, born : Nat, timer : BOOLEAN,
         messages : Seq(Message), closed : BOOLEAN, timedOut : BOOLEAN]

IdlePoll == [state |-> "idle", path |-> NoPath, offset |-> 0, born |-> 0,
             timer |-> FALSE, messages |-> <<>>, closed |-> FALSE,
             timedOut |-> FALSE]

\* The requests of handleAppend and handleCreate.  Sizes count bytes, or the
\* values of a JSON array.  forkOffset -1 is an absent Stream-Fork-Offset; the
\* others worth trying reach past the source's tail.
ProducerHeaders == [pid : Producer, epoch : 0 .. MaxEpoch, seq : 0 .. MaxSeq]
NoHeaders == [pid |-> NoProducer, epoch |-> 0, seq |-> 0]

\* What handleAppend lets through to the store: all three producer headers or
\* none, the numbers in decimal digits, and a close flag.  Anything else is a 400.
AppendRequest ==
    [headers : ProducerHeaders \cup {NoHeaders}, seq : StreamSeqs,
     ctype : ContentTypes \ {"inherit"}, kind : Bodies, size : Sizes,
     close : BOOLEAN]

\* What handleCreate lets through: a time to live or an expiry date but not both,
\* an offset and a sub-offset only with the source of a fork, whose content type
\* may be left to it.
CreateRequest(src) ==
    [ctype : ContentTypes, expiry : Expiries,
     closed : BOOLEAN, init : Bodies \cup {"none"}, size : Sizes,
     forkedFrom : {src},
     forkOffset : IF src = NoPath THEN {-1} ELSE -1 .. streams[src].tail + 1,
     sub : IF src = NoPath THEN {0} ELSE SubOffsets]

----------------------------------------------------------------------------
(* Reads *)

Least(a, b) == IF a < b THEN a ELSE b

\* readOwnMessages: a stream's own messages past offset.  The messages are in
\* the order of their offsets, so findOffsetIndex is the number of messages at
\* or before offset, plus one.
FindOffsetIndex(s, offset) ==
    Cardinality({i \in DOMAIN s.messages : s.messages[i].offset <= offset}) + 1

OwnAfter(s, offset) ==
    SubSeq(s.messages, FindOffsetIndex(s, offset), Len(s.messages))

\* The fork chain of q in S, at distance n: the pairs <<ancestor, cap>> that
\* readForkedMessages visits, cap being the least forkOffset on the way.
Lineage(S, q) ==
    LET chain[n \in Nat] ==
          IF n = 0 THEN {<<q, S[q].tail>>}
          ELSE {<<S[x[1]].forkedFrom, Least(x[2], S[x[1]].forkOffset)>> :
                  x \in {y \in chain[n - 1] :
                           /\ S[y[1]].forkedFrom # NoPath
                           /\ S[S[y[1]].forkedFrom].exists}}
    IN UNION {chain[n] : n \in 0 .. Cardinality(Path)}

\* The messages a read of q past offset returns, as a set (their offsets
\* order them): q's own and the inherited ones at or below each cap.
Visible(S, q, offset) ==
    LET lineage == Lineage(S, q) IN
    UNION {{m \in Range(S[r].messages) :
              /\ m.offset > offset
              /\ \E x \in lineage : x[1] = r /\ m.offset <= x[2]} :
           r \in Path}

----------------------------------------------------------------------------
(* Deletion and expiry: Doomed, DeleteWithCascade, DeleteStream, Reaped, Found *)

INSTANCE ForkGraph

----------------------------------------------------------------------------
(* Long-polls *)

\* The promise of a long-poll resolves; its timer is cleared.
Resolved(w, msgs, closed, timedOut) ==
    [poll[w] EXCEPT !.state = "done", !.timer = FALSE, !.messages = msgs,
                    !.closed = closed, !.timedOut = timedOut]

\* cancelLongPollsForStream for every path that is in the store before and not
\* after the step: its waiters resolve empty and leave the list.
Waiting(ps) == {w \in pending : poll[w].path \in ps}

Removed(S, T) == {p \in Path : S[p].exists /\ ~T[p].exists}

CancelWaits(ps) ==
    /\ poll' = [w \in Waiter |-> IF w \in Waiting(ps)
                                 THEN Resolved(w, <<>>, FALSE, FALSE)
                                 ELSE poll[w]]
    /\ pending' = pending \ Waiting(ps)

\* Mutant: the close event is sent first, and empty.
NotifyCloseFirst(p, s, closing) ==
    LET woken == {w \in Waiting({p}) :
                    closing \/ OwnAfter(s, poll[w].offset) # <<>>} IN
    /\ poll' = [w \in Waiter |->
                  IF w \in woken
                  THEN LET msgs == IF closing THEN <<>>
                                   ELSE OwnAfter(s, poll[w].offset) IN
                       Resolved(w, msgs, s.closed /\ msgs = <<>>, FALSE)
                  ELSE poll[w]]
    /\ pending' = pending \ woken

\* Mutant: a close without data wakes nobody.
NotifyMessagesOnly(p, s, closing) ==
    LET woken == {w \in Waiting({p}) : OwnAfter(s, poll[w].offset) # <<>>} IN
    /\ poll' = [w \in Waiter |->
                  IF w \in woken
                  THEN Resolved(w, OwnAfter(s, poll[w].offset), FALSE, FALSE)
                  ELSE poll[w]]
    /\ pending' = pending \ woken

\* notifyLongPolls(p), then notifyLongPollsClosed(p) if closing: waiters with
\* something to read resolve with it; a close resolves the others empty.  The
\* resolve callback reports the close only beside an empty batch.
NotifyWaits(p, s, closing) ==
    LET woken == {w \in Waiting({p}) :
                    closing \/ OwnAfter(s, poll[w].offset) # <<>>} IN
    /\ poll' = [w \in Waiter |->
                  IF w \in woken
                  THEN LET msgs == OwnAfter(s, poll[w].offset) IN
                       Resolved(w, msgs, s.closed /\ msgs = <<>>, FALSE)
                  ELSE poll[w]]
    /\ pending' = pending \ woken

\* The part of an operation before its early return: getIfNotExpired.
OnlyReap(p) ==
    /\ streams' = Reaped(streams, p)
    /\ CancelWaits(Removed(streams, Reaped(streams, p)))

----------------------------------------------------------------------------
(* create() *)

\* appendToStream: the message that goes on the end of s.
Framed(s, size, data, by) ==
    [offset |-> s.tail + FrameOverhead + size, size |-> size, data |-> data,
     by |-> by]

Appended(s, m) ==
    [s EXCEPT !.messages = Append(@, m), !.tail = m.offset]

\* The divergence point: given, or the source's tail.
ForkPoint(S, o) ==
    IF o.forkOffset = -1 THEN S[o.forkedFrom].tail ELSE o.forkOffset

\* resolveForkSubOffset reads the source past the fork point.
PastFork(S, o) == Visible(S, o.forkedFrom, ForkPoint(S, o))
IsFirst(m, ms) == m \in ms /\ \A n \in ms : m.offset <= n.offset
FirstPastFork(S, o) ==
    LET past == PastFork(S, o) IN CHOOSE m \in past : IsFirst(m, past)

ForkRejected(S, o) ==
    LET src == S[o.forkedFrom]
        past == PastFork(S, o)
    IN
    \/ ~src.exists \/ src.softDeleted \/ src.due
    \/ o.ctype # "inherit" /\ o.ctype # src.ctype
    \/ ForkPoint(S, o) < 0 \/ src.tail < ForkPoint(S, o)
    \/ /\ o.sub > 0
       /\ ~\E m \in past : IsFirst(m, past) /\ o.sub <= m.size

\* resolveForkExpiry: the fork's own setting, or the source's.
ForkExpiry(S, o) ==
    IF o.expiry # "none" THEN o.expiry ELSE S[o.forkedFrom].expiry

\* The new record, before its sub-offset prefix and initial data.
FreshStream(S, o) ==
    LET isFork == o.forkedFrom # NoPath IN
    [NoStream EXCEPT
        !.exists = TRUE,
        !.born = births + 1,
        !.ctype = IF isFork /\ o.ctype = "inherit"
                  THEN S[o.forkedFrom].ctype
                  ELSE IF o.ctype = "inherit" THEN "bin" ELSE o.ctype,
        !.tail = IF isFork THEN ForkPoint(S, o) ELSE 0,
        !.expiry = IF isFork THEN ForkExpiry(S, o) ELSE o.expiry,
        !.closed = o.closed,
        !.forkedFrom = o.forkedFrom,
        !.forkOffset = IF isFork THEN ForkPoint(S, o) ELSE 0]

\* Mutant: the prefix advances the tail by its payload alone.
WithPrefixUnframed(S, o) ==
    LET s == FreshStream(S, o) IN
    IF o.forkedFrom # NoPath /\ o.sub > 0
    THEN Appended(s, [Framed(s, o.sub, FirstPastFork(S, o).data, NoTuple)
                        EXCEPT !.offset = s.tail + o.sub])
    ELSE s

\* The sub-offset prefix becomes the fork's first own message.
WithPrefix(S, o) ==
    LET s == FreshStream(S, o) IN
    IF o.forkedFrom # NoPath /\ o.sub > 0
    THEN Appended(s, Framed(s, o.sub, FirstPastFork(S, o).data, NoTuple))
    ELSE s

\* processJsonAppend on the initial body: throws, or yields no message.
InitRejected(S, o) == FreshStream(S, o).ctype = "json" /\ o.init = "bad"
InitEmpty(S, o) ==
    \/ o.init = "none"
    \/ FreshStream(S, o).ctype = "json" /\ o.init = "empty"

WithInitialData(S, o) ==
    LET s == WithPrefix(S, o) IN
    IF InitEmpty(S, o) THEN s
    ELSE Appended(s, Framed(s, o.size, writes + 1, NoTuple))

\* A reference on the source of a fork.
Referenced(S, o) ==
    IF o.forkedFrom = NoPath THEN S
    ELSE [S EXCEPT ![o.forkedFrom].refCount = @ + 1]

\* What create() finds after it has dropped an expired stream at p: the map
\* entry alone is deleted, whatever its forks or its source.
Cleared(p) ==
    IF streams[p].exists THEN [streams EXCEPT ![p] = NoStream] ELSE streams

\* PUT on a path that holds an unexpired stream (soft-deleted or not) answers
\* without touching the store; otherwise the path is cleared and the request
\* either fails, leaving it cleared, or creates the stream.
CreateRejected(S, o) ==
    \/ o.forkedFrom # NoPath /\ ForkRejected(S, o)
    \/ InitRejected(S, o)

\* Mutant: the reference on the source is taken before the last check.
CreateFailsReferenced(p, o) ==
    /\ ~streams[p].exists \/ streams[p].due
    /\ CreateRejected(Cleared(p), o)
    /\ streams' = IF o.forkedFrom # NoPath /\ Cleared(p)[o.forkedFrom].exists
                  THEN Referenced(Cleared(p), o) ELSE Cleared(p)
    /\ CancelWaits(Removed(streams, Cleared(p)))
    /\ UNCHANGED <<births, writes>>

CreateFails(p, o) ==
    /\ ~streams[p].exists \/ streams[p].due
    /\ CreateRejected(Cleared(p), o)
    /\ streams' = Cleared(p)
    /\ CancelWaits(Removed(streams, Cleared(p)))
    /\ UNCHANGED <<births, writes>>

Create(p, o) ==
    /\ ~streams[p].exists \/ streams[p].due
    /\ LET S == Cleared(p) IN
       /\ ~CreateRejected(S, o)
       /\ births < MaxBirths
       /\ InitEmpty(S, o) \/ writes < MaxWrites
       /\ streams' = [Referenced(S, o) EXCEPT ![p] = WithInitialData(S, o)]
       /\ births' = births + 1
       /\ writes' = IF InitEmpty(S, o) THEN writes ELSE writes + 1
       /\ CancelWaits(Removed(streams, S))

----------------------------------------------------------------------------
(* append(), appendWithProducer() *)

\* cleanupExpiredProducers: drop every stale producer state.
CleanedEntry(e) ==
    IF e.stale THEN [NoEntry EXCEPT !.drops = e.drops + 1] ELSE e

Cleaned(s) ==
    [s EXCEPT !.producers = [i \in Producer |-> CleanedEntry(s.producers[i])]]

HasProducer(h) == h.pid # NoProducer

Stamp(s, h) ==
    IF HasProducer(h)
    THEN [pid |-> h.pid, epoch |-> h.epoch, seq |-> h.seq,
          win |-> s.producers[h.pid].drops]
    ELSE NoTuple

Validated(s, h) ==
    ValidateProducer(s.producers[h.pid].st, h.epoch, h.seq)

\* commitProducerState.
Committed(s, h) ==
    IF HasProducer(h)
    THEN [s EXCEPT !.producers[h.pid].st = ProposedState(h.epoch, h.seq),
                   !.producers[h.pid].stale = FALSE]
    ELSE s

\* The stream as append() sees it once the producer has been validated.
Seen(s, h) == IF HasProducer(h) THEN Cleaned(s) ELSE s

\* Mutant: append() forgets that the stream is closed.
StopUnlessClosed(s, r) == s.softDeleted \/ r.ctype # s.ctype

\* The early returns of append(), in the order of the code.
StopBeforeProducer(s, r) ==
    s.softDeleted \/ s.closed \/ r.ctype # s.ctype
StopAtProducer(s, r) ==
    HasProducer(r.headers) /\ Validated(Cleaned(s), r.headers) # "accepted"
StopAfterProducer(s, r) ==
    \/ r.seq # -1 /\ s.lastSeq # -1 /\ r.seq <= s.lastSeq
    \/ s.ctype = "json" /\ r.kind # "valid"

\* The stream an accepted append leaves.
AfterAppend(s, r) ==
    LET t == Seen(s, r.headers)
        by == Stamp(t, r.headers)
        u == Committed(Appended(t, Framed(t, r.size, writes + 1, by)),
                       r.headers)
    IN [u EXCEPT
          !.lastSeq = IF r.seq # -1 THEN r.seq ELSE @,
          !.closed = @ \/ r.close,
          !.closedBy = IF r.close /\ HasProducer(r.headers) THEN by ELSE @]

AppendAccepted(p, r) ==
    /\ writes < MaxWrites
    /\ Found(streams, p)
    /\ LET s == Reaped(streams, p)[p] IN
       /\ ~StopBeforeProducer(s, r)
       /\ ~StopAtProducer(s, r)
       /\ ~StopAfterProducer(s, r)
       /\ streams' = [streams EXCEPT ![p] = AfterAppend(s, r)]
       /\ NotifyWaits(p, AfterAppend(s, r), r.close)
    /\ writes' = writes + 1
    /\ UNCHANGED births

\* Rejected before the producer check: only the expiry has an effect.  This
\* includes the idempotent answer to a repeat of the closing request.
AppendStopped(p, r) ==
    /\ \/ ~Found(streams, p)
       \/ StopBeforeProducer(Reaped(streams, p)[p], r)
    /\ OnlyReap(p)
    /\ UNCHANGED <<births, writes>>

\* Mutant: the producer state is committed before Stream-Seq and the body have
\* been checked.
AppendRejectedCommitted(p, r) ==
    /\ Found(streams, p)
    /\ LET s == streams[p] IN
       /\ ~StopBeforeProducer(Reaped(streams, p)[p], r)
       /\ \/ /\ StopAtProducer(s, r)
             /\ streams' = [streams EXCEPT ![p] = Seen(s, r.headers)]
          \/ /\ ~StopAtProducer(s, r) /\ StopAfterProducer(s, r)
             /\ streams' = [streams EXCEPT
                              ![p] = Committed(Seen(s, r.headers), r.headers)]
    /\ UNCHANGED <<pending, poll, births, writes>>

\* Rejected at or after it: stale producer states have been cleaned up, the
\* producer's own state and the log are as they were.
AppendRejected(p, r) ==
    /\ Found(streams, p)
    /\ LET s == streams[p] IN
       /\ ~StopBeforeProducer(Reaped(streams, p)[p], r)
       /\ \/ StopAtProducer(s, r)
          \/ ~StopAtProducer(s, r) /\ StopAfterProducer(s, r)
       /\ streams' = [streams EXCEPT ![p] = Seen(s, r.headers)]
    /\ UNCHANGED <<pending, poll, births, writes>>

----------------------------------------------------------------------------
(* closeStream(), closeStreamWithProducer() *)

CloseStream(p) ==
    /\ IF Found(streams, p) /\ ~Reaped(streams, p)[p].softDeleted
       THEN LET s == [streams[p] EXCEPT !.closed = TRUE] IN
            /\ streams' = [streams EXCEPT ![p] = s]
            /\ NotifyWaits(p, s, TRUE)
       ELSE OnlyReap(p)
    /\ UNCHANGED <<births, writes>>

\* No check for softDeleted here, unlike in append() and closeStream().
CloseStreamWithProducer(p, h) ==
    /\ IF Found(streams, p) /\ ~streams[p].closed
       THEN LET s == Cleaned(Reaped(streams, p)[p]) IN
            IF Validated(s, h) = "accepted"
            THEN LET t == [Committed(s, h) EXCEPT !.closed = TRUE,
                                                  !.closedBy = Stamp(s, h)]
                 IN /\ streams' = [streams EXCEPT ![p] = t]
                    /\ NotifyWaits(p, t, TRUE)
            ELSE /\ streams' = [streams EXCEPT ![p] = s]
                 /\ UNCHANGED <<pending, poll>>
       ELSE OnlyReap(p)
    /\ UNCHANGED <<births, writes>>

----------------------------------------------------------------------------
(* delete(), get() and the other lookups, waitForMessages(), shutdown *)

\* handleDelete: get(), 410 for a soft-deleted stream, then delete().
Delete(p) ==
    /\ LET S == Reaped(streams, p)
           T == DeleteStream(S, p)
       IN streams' = T /\ CancelWaits(Removed(streams, T))
    /\ UNCHANGED <<births, writes>>

\* get(), has(), read(), getCurrentOffset(), getProducerEpoch(),
\* formatResponse(): lookups whose only effect is the expiry.
Lookup(p) ==
    /\ streams[p].exists /\ streams[p].due
    /\ OnlyReap(p)
    /\ UNCHANGED <<births, writes>>

\* touchAccess() restarts a TTL.  The handlers call it in the turn after an
\* operation, when the deadline may just have passed.
TouchAccess(p) ==
    /\ streams[p].exists /\ streams[p].expiry = "ttl" /\ streams[p].due
    /\ streams' = [streams EXCEPT ![p].due = FALSE]
    /\ UNCHANGED <<pending, poll, births, writes>>

\* waitForMessages at a stream with nothing past offset that is not a fork's
\* inherited range: the request is registered; every other case answers at
\* once.
WaitForMessages(w, p, offset) ==
    /\ poll[w].state # "waiting"
    /\ Found(streams, p)
    /\ LET s == streams[p] IN
       /\ s.forkedFrom # NoPath => offset >= s.forkOffset
       /\ OwnAfter(s, offset) = <<>>
       /\ ~(s.closed /\ offset = s.tail)
       /\ poll' = [poll EXCEPT ![w] =
                     [IdlePoll EXCEPT !.state = "waiting", !.path = p,
                                      !.offset = offset, !.born = s.born,
                                      !.timer = TRUE]]
    /\ pending' = pending \cup {w}
    /\ streams' = Reaped(streams, p)
    /\ UNCHANGED <<births, writes>>

\* The timer fires: the request leaves the list, then getIfNotExpired runs
\* (which may cancel the other waiters of an expired stream), and the
\* promise resolves as timed out.
Timeout(w) ==
    /\ poll[w].state = "waiting" /\ poll[w].timer
    /\ LET p == poll[w].path
           S == Reaped(streams, p)
           gone == Removed(streams, S)
       IN /\ streams' = S
          /\ poll' = [v \in Waiter |->
                        IF v = w
                        THEN Resolved(w, <<>>, Found(streams, p) /\ S[p].closed,
                                      TRUE)
                        ELSE IF v \in Waiting(gone)
                        THEN Resolved(v, <<>>, FALSE, FALSE)
                        ELSE poll[v]]
          /\ pending' = pending \ ({w} \cup Waiting(gone))
    /\ UNCHANGED <<births, writes>>

\* cancelAllWaits: the loop walks the array while each resolve callback
\* splices its entry out of it, so every second entry is passed over; then
\* the array is replaced by an empty one.  Any half of the requests may be at
\* the odd places.
EverySecond(ws) ==
    {half \in SUBSET ws : 2 * Cardinality(half) \in
                             {Cardinality(ws), Cardinality(ws) + 1}}

\* Mutant: every timer is cleared, whether the loop reaches it or not.
ResolveReachedClearAll(reached) ==
    /\ poll' = [w \in Waiter |->
                  IF w \in reached THEN Resolved(w, <<>>, FALSE, FALSE)
                  ELSE [poll[w] EXCEPT !.timer = FALSE]]
    /\ pending' = {}

ResolveReached(reached) ==
    /\ poll' = [w \in Waiter |->
                  IF w \in reached
                  THEN Resolved(w, <<>>, streams[poll[w].path].closed, FALSE)
                  ELSE poll[w]]
    /\ pending' = {}

\* A resolve callback would reap an expired stream in the middle of the loop:
\* shutdown is modelled while nobody waits on one.
NobodyWaitsOnDue == \A w \in pending : ~streams[poll[w].path].due

CancelAllWaits ==
    /\ Shutdown /\ NobodyWaitsOnDue
    /\ \E reached \in EverySecond(pending) : ResolveReached(reached)
    /\ UNCHANGED <<streams, births, writes>>

\* clear(): the same loop, then the map is emptied.
Clear ==
    /\ Shutdown /\ NobodyWaitsOnDue
    /\ \E reached \in EverySecond(pending) : ResolveReached(reached)
    /\ streams' = [p \in Path |-> NoStream]
    /\ UNCHANGED <<births, writes>>

----------------------------------------------------------------------------
(* Time *)

\* A stream's idle time exceeds its TTL, or its deadline passes.
StreamAges(p) ==
    /\ streams[p].exists /\ streams[p].expiry # "none" /\ ~streams[p].due
    /\ streams' = [streams EXCEPT ![p].due = TRUE]
    /\ UNCHANGED <<pending, poll, births, writes>>

\* A producer has been silent on a stream for PRODUCER_STATE_TTL_MS.
ProducerAges(p, i) ==
    LET e == streams[p].producers[i] IN
    /\ e.st.epoch # -1 /\ ~e.stale /\ e.drops < MaxDrops
    /\ streams' = [streams EXCEPT ![p].producers[i].stale = TRUE]
    /\ UNCHANGED <<pending, poll, births, writes>>

----------------------------------------------------------------------------
Init ==
    /\ streams = [p \in Path |-> NoStream]
    /\ pending = {}
    /\ poll = [w \in Waiter |-> IdlePoll]
    /\ births = 0
    /\ writes = 0

Next ==
    \/ \E p \in Path :
        \/ \E src \in ForkSources \cup {NoPath} :
             \E o \in CreateRequest(src) : Create(p, o) \/ CreateFails(p, o)
        \/ \E r \in AppendRequest :
             AppendAccepted(p, r) \/ AppendStopped(p, r) \/ AppendRejected(p, r)
        \/ CloseStream(p)
        \/ \E h \in ProducerHeaders : CloseStreamWithProducer(p, h)
        \/ Delete(p)
        \/ Lookup(p)
        \/ \E w \in Waiter, offset \in 0 .. streams[p].tail :
             WaitForMessages(w, p, offset)
        \/ TouchAccess(p)
        \/ StreamAges(p)
        \/ \E i \in Producer : ProducerAges(p, i)
    \/ \E w \in Waiter : Timeout(w)
    \/ CancelAllWaits
    \/ Clear

Spec == Init /\ [][Next]_vars

\* setTimeout: a timer that is not cleared fires.
FairSpec == Spec /\ \A w \in Waiter : WF_vars(Timeout(w))
----------------------------------------------------------------------------
(* Properties *)

\* Every variable of the store has its type.
TypeOK ==
    /\ streams \in [Path -> Stream]
    /\ pending \subseteq Waiter
    /\ poll \in [Waiter -> Poll]
    /\ births \in Nat
    /\ writes \in Nat

\* Where a stream's own data starts.
Base(s) == IF s.forkedFrom = NoPath THEN 0 ELSE s.forkOffset

\* Offsets are the protocol's only cursor: a stream's messages must tile the
\* byte range from its base to its tail, each ending FrameOverhead + size past
\* the one before, whatever mix of create, fork, sub-offset and append wrote
\* them.
Tiled(s) ==
    /\ \A i \in DOMAIN s.messages :
          LET from == IF i = 1 THEN Base(s) ELSE s.messages[i - 1].offset IN
          s.messages[i].offset = from + FrameOverhead + s.messages[i].size
    /\ s.tail = IF s.messages = <<>> THEN Base(s)
                ELSE s.messages[Len(s.messages)].offset

LogWellFormed == \A p \in Path : Tiled(streams[p])

Before(a, b) == a.epoch < b.epoch \/ (a.epoch = b.epoch /\ a.seq < b.seq)

Once(s) ==
    \A i, j \in DOMAIN s.messages :
        LET a == s.messages[i].by
            b == s.messages[j].by
        IN (i < j /\ a.pid # NoProducer /\ a.pid = b.pid /\ a.win = b.win)
           => Before(a, b)

\* Exactly once and in order: as long as a producer's state is not aged out,
\* no <<epoch, seq>> of it is in the log twice and none is behind a later one,
\* however requests are retried, reordered or fenced.
ExactlyOnce == \A p \in Path : Once(streams[p])

\* The request t of a producer took effect on s: its message is in the log, or
\* it is the close-only request that closed the stream.
TookEffect(s, t) ==
    \/ \E k \in DOMAIN s.messages : s.messages[k].by = t
    \/ s.closed /\ s.closedBy = t

Backed(s) ==
    \A i \in Producer :
        LET e == s.producers[i] IN
        e.st.epoch # -1 =>
            \A q \in 0 .. e.st.lastSeq :
                TookEffect(s, [pid |-> i, epoch |-> e.st.epoch, seq |-> q,
                               win |-> e.drops])

\* A "duplicate" answer tells the client that its data is in the stream: each
\* sequence number up to the producer's lastSeq, in its current epoch, took
\* effect.
DuplicateMeansStored == \A p \in Path : Backed(streams[p])

IsPrefix(a, b) == Len(a) <= Len(b) /\ a = SubSeq(b, 1, Len(a))

Continues(s, t) ==
    /\ IsPrefix(s.messages, t.messages)
    /\ s.closed => /\ t.closed
                   /\ t.messages = s.messages
                   /\ t.closedBy = s.closedBy

\* While a stream lives its log only grows, a close is final, and a closed
\* stream's log is frozen.
ClosedIsFinal ==
    [][\A p \in Path :
        (/\ streams[p].exists /\ streams'[p].exists
         /\ streams'[p].born = streams[p].born)
        => Continues(streams[p], streams'[p])]_vars

Forks(p) == {q \in Path : streams[q].exists /\ streams[q].forkedFrom = p}

\* PROTOCOL.md, "Reference Count": the number of forks that reference a stream
\* as their source.  A fork's source is in the store, and a soft-deleted
\* stream is kept only as long as a fork needs it.
RefCountExact ==
    \A p \in Path :
        /\ streams[p].exists => streams[p].refCount = Cardinality(Forks(p))
        /\ ~streams[p].exists => Forks(p) = {}
        /\ streams[p].softDeleted => Forks(p) # {}

\* No wake-up is missed: a registered long-poll waits on the incarnation of
\* the stream it asked for, which is still open with nothing past its offset.
NoMissedWakeup ==
    \A w \in pending :
        LET s == streams[poll[w].path] IN
        /\ poll[w].state = "waiting" /\ poll[w].timer
        /\ s.exists /\ s.born = poll[w].born
        /\ ~s.closed /\ s.tail = poll[w].offset

\* handleRead turns streamClosed into an end-of-stream answer at the client's
\* own offset: it must not be said while messages past that offset exist.
ClosedMeansDrained ==
    \A w \in Waiter :
        LET s == streams[poll[w].path] IN
        (/\ poll[w].state = "done" /\ poll[w].closed
         /\ s.exists /\ s.born = poll[w].born)
        => s.closed /\ s.tail = poll[w].offset

\* A long-poll request is always answered, also when cancelAllWaits passes it
\* over.
PollsAnswered ==
    \A w \in Waiter : []<>(poll[w].state # "waiting")
=============================================================================
