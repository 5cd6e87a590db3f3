------------------------- MODULE MCSourceSnapshots -------------------------
(* Small instances of SourceSnapshots for TLC. *)
EXTENDS SourceSnapshots, TLC

CONSTANTS c1, c2, m1

(* Two documents, an object of another type and one with an unsafe key;    *)
(* the manifest describes the first document, or both.                     *)
MCKind == <<"document", "document", "unsupported", "unsafe_unsupported">>

(* An S3 prefix with ETags that fits on one page, one without ETags that   *)
(* takes two, with the manifest on the second, and a folder.               *)
MCSetups ==
  {[local |-> FALSE, etags |-> TRUE, page |-> <<1, 1, 1, 1>>, manifest |-> 1],
   [local |-> FALSE, etags |-> FALSE, page |-> <<1, 2, 2, 2>>, manifest |-> 2],
   [local |-> TRUE, etags |-> FALSE, page |-> <<1, 2, 2, 2>>, manifest |-> 1]}

MCSize == [content \in Contents |-> IF content = c1 THEN 1 ELSE 2]
MCManifests == {1 :> m1, (1 :> m1) @@ (2 :> m1)}
MCInitial == [bodies |-> <<c1, c1, Absent, Absent>>, manifest |-> Absent]
=============================================================================
