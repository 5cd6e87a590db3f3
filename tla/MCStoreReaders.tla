--------------------------- MODULE MCStoreReaders ---------------------------
(* Small instances of StoreReaders for TLC. *)
EXTENDS StoreReaders, TLC

CONSTANTS p1, p2, a

Symmetry == Permutations(Procs)
=============================================================================
