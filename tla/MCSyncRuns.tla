----------------------------- MODULE MCSyncRuns -----------------------------
(* Small instances of SyncRuns for TLC. *)
EXTENDS SyncRuns, TLC

CONSTANTS p1, p2, c1, c2, m1, m2, a, b

(* c1 is cut into one chunk, every other body into two. *)
MCChunkCount == [content \in Contents |-> IF content = c1 THEN 1 ELSE 2]

(* c1 is an empty document, c2 is cut into two chunks. *)
MCChunkCountEmpty == [content \in Contents |-> IF content = c1 THEN 0 ELSE 2]

MCInitialSource ==
  [path \in Paths |->
     IF path = a THEN [content_hash |-> c1, metadata_hash |-> m1] ELSE Absent]

Symmetry == Permutations(Procs)
=============================================================================
