---------------------------- MODULE CorpusDiff ----------------------------
(***************************************************************************)
(* The incremental-ingestion plan: a scan of the source is compared with   *)
(* the document rows of the database and every path falls into one of five *)
(* categories (ragpipe/ingest/source_scanner.py, diff_source).             *)
(*                                                                         *)
(* A scan maps each supported path to its description, or to Absent.  The  *)
(* code hashes bodies with SHA-256; a body is identified with its digest,  *)
(* so Contents is both the set of bodies and the set of content hashes,    *)
(* and Metas both the metadata objects and their hashes.  The code keeps   *)
(* each category in path order; the sets leave the order open.             *)
(***************************************************************************)
CONSTANTS Paths,     \* source-relative document paths
          Contents,  \* document bodies, identified with their SHA-256 digests
          Metas,     \* metadata objects, identified with their digests
          Absent     \* no document at a path, no row in a table

ScannedDocument == [content_hash : Contents, metadata_hash : Metas]

ASSUME AbsentIsNoDocument == Absent \notin ScannedDocument

Scans == [Paths -> ScannedDocument \cup {Absent}]

NoScan == [path \in Paths |-> Absent]

(* The keys of a mapping by path. *)
Present(mapping) == {path \in Paths : mapping[path] # Absent}

(* Mutant of diff_source: new metadata makes a document a changed one.     *)
DiffReembedsMetadata(scanned, previous) ==
  LET both == Present(scanned) \cap Present(previous)
      same == {path \in both :
                 /\ previous[path].content_hash = scanned[path].content_hash
                 /\ previous[path].metadata_hash = scanned[path].metadata_hash}
  IN  [new              |-> Present(scanned) \ Present(previous),
       changed          |-> both \ same,
       metadata_changed |-> {},
       unchanged        |-> same,
       deleted          |-> Present(previous) \ Present(scanned)]

(* Mutant of diff_source: compares contents only, so that new metadata is  *)
(* never noticed.                                                          *)
DiffIgnoresMetadata(scanned, previous) ==
  LET both == Present(scanned) \cap Present(previous)
      same_content == {path \in both :
            previous[path].content_hash = scanned[path].content_hash}
  IN  [new              |-> Present(scanned) \ Present(previous),
       changed          |-> both \ same_content,
       metadata_changed |-> {},
       unchanged        |-> same_content,
       deleted          |-> Present(previous) \ Present(scanned)]

(* SourceDiff, as sets of paths.  previous[path] also carries the row's id. *)
diff_source(scanned, previous) ==
  LET both == Present(scanned) \cap Present(previous)
      same_content == {path \in both :
            previous[path].content_hash = scanned[path].content_hash}
      same_metadata == {path \in both :
            previous[path].metadata_hash = scanned[path].metadata_hash}
  IN  [new              |-> Present(scanned) \ Present(previous),
       changed          |-> both \ same_content,
       metadata_changed |-> same_content \ same_metadata,
       unchanged        |-> same_content \cap same_metadata,
       deleted          |-> Present(previous) \ Present(scanned)]

Diffs == [new : SUBSET Paths, changed : SUBSET Paths,
          metadata_changed : SUBSET Paths, unchanged : SUBSET Paths,
          deleted : SUBSET Paths]

NoDiff == [new |-> {}, changed |-> {}, metadata_changed |-> {},
           unchanged |-> {}, deleted |-> {}]
============================================================================
