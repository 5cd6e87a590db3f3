------------------------- MODULE MCOverlappingSyncs -------------------------
(* Small instances of OverlappingSyncs for TLC. *)
EXTENDS OverlappingSyncs

CONSTANTS p1, p2, c1, c2, m1, m2

Item(content, meta) == [content_hash |-> content, metadata_hash |-> meta]

(* (c2, m2) is in no version: a row that shows it is a mixture.  Between   *)
(* them, the versions put each path into every category of diff_source.    *)
MCVersions ==
  {<<Item(c1, m1), Item(c1, m1)>>, <<Item(c2, m1), Item(c1, m2)>>,
   <<Item(c1, m2), Absent>>,       <<Absent, Item(c2, m1)>>}

MCInitialSource == <<Item(c1, m1), Item(c1, m1)>>
=============================================================================
