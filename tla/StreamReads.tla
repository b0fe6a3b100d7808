---------------------------- MODULE StreamReads ----------------------------
(***************************************************************************)
(* What readers of the in-memory store see: read() and readForkedMessages, *)
(* which stitch a fork's log together from its chain of sources, checked   *)
(* against the promise of DurableStreams.                                  *)
(***************************************************************************)
EXTENDS StreamStore

RECURSIVE ReadForkedMessages(_, _, _)

\* Mutant: the caller's cap is not carried up the chain.
ReadUncapped(source, offset, cap) ==
    LET s == streams[source] IN
    IF ~s.exists THEN <<>>
    ELSE (IF s.forkedFrom # NoPath /\ offset < s.forkOffset
          THEN ReadForkedMessages(s.forkedFrom, offset, s.forkOffset)
          ELSE <<>>)
         \o SelectSeq(s.messages,
                      LAMBDA m : m.offset > offset /\ m.offset <= cap)

\* readForkedMessages: source's inherited messages first, then its own, all
\* past offset and none past cap.
ReadForkedMessages(source, offset, cap) ==
    LET s == streams[source] IN
    IF ~s.exists THEN <<>>
    ELSE (IF s.forkedFrom # NoPath /\ offset < s.forkOffset
          THEN ReadForkedMessages(s.forkedFrom, offset,
                                  Least(s.forkOffset, cap))
          ELSE <<>>)
         \o SelectSeq(s.messages,
                      LAMBDA m : m.offset > offset /\ m.offset <= cap)

\* read() and readFromFork.
Read(p, offset) ==
    LET s == streams[p] IN
    (IF s.forkedFrom # NoPath /\ offset < s.forkOffset
     THEN ReadForkedMessages(s.forkedFrom, offset, s.forkOffset)
     ELSE <<>>) \o OwnAfter(s, offset)

\* The offsets a reader may resume from: the beginning, the tail, and every
\* offset it was given with a message.
ResumePoints(p) ==
    {-1, streams[p].tail} \cup {m.offset : m \in Visible(streams, p, -1)}

\* A reader that resumes at such an offset gets, in strictly increasing order
\* of offsets, exactly what the chain of sources makes visible past it:
\* stitching neither repeats, drops nor reorders.
ReadsStitch ==
    \A p \in Path : streams[p].exists =>
        \A offset \in ResumePoints(p) :
            LET msgs == Read(p, offset) IN
            /\ Range(msgs) = Visible(streams, p, offset)
            /\ \A i, j \in DOMAIN msgs :
                  i < j => msgs[i].offset < msgs[j].offset

\* The log a client sees at p.
ClientView(p) ==
    LET s == streams[p] IN
    IF s.exists /\ ~s.softDeleted
    THEN [live |-> TRUE, closed |-> s.closed, mortal |-> s.expiry # "none",
          items |-> {[offset |-> m.offset, size |-> m.size, data |-> m.data] :
                        m \in Range(Read(p, -1))}]
    ELSE [live |-> FALSE, closed |-> FALSE, mortal |-> FALSE, items |-> {}]

Promise == INSTANCE DurableStreams WITH
    log <- [p \in Path |-> ClientView(p)],
    Item <- [offset : Nat, size : Nat, data : Nat]

\* The store implements independent logs: no operation on one path, deletion
\* of a source included, changes what a reader of another path sees.
KeepsPromise == Promise!Spec
=============================================================================
