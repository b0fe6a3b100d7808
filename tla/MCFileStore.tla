---------------------------- MODULE MCFileStore ----------------------------
(***************************************************************************)
(* Small instances of the file-backed store for TLC.                       *)
(***************************************************************************)
EXTENDS FileStore, TLC

AnyPath == Path
Symmetry ==
    Permutations(Path) \cup Permutations(Client) \cup Permutations(Waiter)
=============================================================================
