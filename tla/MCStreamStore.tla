--------------------------- MODULE MCStreamStore ---------------------------
(***************************************************************************)
(* Small instances of the in-memory store for TLC.                         *)
(***************************************************************************)
EXTENDS StreamReads, TLC

AnyPath == Path
Symmetry ==
    Permutations(Path) \cup Permutations(Producer) \cup Permutations(Waiter)

NoStreamSeq == {-1}
SomeStreamSeqs == {-1, 0}

\* Two scenes in one instance: producers that write to streams which close and
\* expire, and long-polls on empty streams of a store that is shut down.  A
\* Timeout never leads out of them, so its fairness means what it says.
InScene ==
    \/ pending = {} /\ \A w \in Waiter : poll[w] = IdlePoll
    \/ writes = 0 /\ \A p \in Path : streams[p].expiry = "none" /\ streams[p].ctype = "bin"
=============================================================================
