---- MODULE MCRetrieval ----
(* A small instance of Retrieval: two documents of one or two chunks, two  *)
(* of them at the same distance of a query; mostly the first one is tagged, *)
(* sometimes only the second.                                              *)
EXTENDS Retrieval

CONSTANT t

MCTexts == {<<0>>, <<2, 0>>}
MCPoints == {0, 1}

MCDocuments(tags) == [text : MCTexts, tags : {tags}] \cup {Absent}

MCVersions ==
  {<<first, second>> : first \in MCDocuments({t}), second \in MCDocuments({})}
    \cup {<<[text |-> <<0>>, tags |-> {}], [text |-> <<2, 0>>, tags |-> {t}]>>}
====
