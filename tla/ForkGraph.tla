----------------------------- MODULE ForkGraph -----------------------------
(***************************************************************************)
(* Deletion and expiry in a graph of forks.  Both stores of the reference  *)
(* server keep a reference count and a soft-deleted flag per stream and    *)
(* share this logic: getIfNotExpired, delete and deleteWithCascade of      *)
(* store.ts, getMetaIfNotExpired, delete and deleteWithCascade of          *)
(* file-store.ts.  The operators map a store, a function from paths to     *)
(* records, to the store an operation leaves.                              *)
(***************************************************************************)
EXTENDS Integers

CONSTANTS
    Path,       \* stream paths
    NoPath,     \* "no forkedFrom"
    NoStream    \* the record of a path without a stream

\* Paths that deleteWithCascade(p) removes: p, its source if that is
\* soft-deleted and p is its last fork, and so on up the chain.
Doomed(S, p) ==
    {q \in Path :
        \A D \in SUBSET Path :
            (/\ p \in D
             /\ \A r \in D :
                  LET parent == S[r].forkedFrom IN
                  (/\ parent # NoPath
                   /\ S[parent].exists
                   /\ S[parent].softDeleted
                   /\ S[parent].refCount <= 1) => parent \in D)
            => q \in D}

\* Mutant: without the floor.
UnreferencedBelowZero(s) == [s EXCEPT !.refCount = @ - 1]

\* A reference less, never below zero.
Unreferenced(s) ==
    [s EXCEPT !.refCount = IF @ > 0 THEN @ - 1 ELSE 0]

DeleteWithCascade(S, p) ==
    LET gone == Doomed(S, p) IN
    [q \in Path |->
        IF q \in gone THEN NoStream
        ELSE IF S[q].exists /\ \E r \in gone : S[r].forkedFrom = q
        THEN Unreferenced(S[q])
        ELSE S[q]]

\* Mutant: a stream with forks is removed like any other.
DeleteDespiteForks(S, p) ==
    IF ~S[p].exists \/ S[p].softDeleted THEN S ELSE DeleteWithCascade(S, p)

\* delete(): soft-delete a stream with forks, remove one without.
DeleteStream(S, p) ==
    IF ~S[p].exists \/ S[p].softDeleted THEN S
    ELSE IF S[p].refCount > 0 THEN [S EXCEPT ![p].softDeleted = TRUE]
    ELSE DeleteWithCascade(S, p)

\* getIfNotExpired(), called first by every operation: the store it leaves.
Reaped(S, p) ==
    IF ~(S[p].exists /\ S[p].due) THEN S
    ELSE IF S[p].refCount > 0 THEN [S EXCEPT ![p].softDeleted = TRUE]
    ELSE DeleteStream(S, p)

\* ... and whether it returns a stream.
Found(S, p) == S[p].exists /\ (S[p].due => S[p].refCount > 0)
=============================================================================
