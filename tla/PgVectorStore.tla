--------------------------- MODULE PgVectorStore ---------------------------
(***************************************************************************)
(* The relational state and the write operations of the PostgreSQL store   *)
(* (ragpipe/store/pgvector_store.py over migrations 0001-0005), as         *)
(* functions from one database state to the next.  A transaction is a      *)
(* sequence of these applied to a private copy; modules that extend this   *)
(* one decide when the copy becomes the committed state.                   *)
(*                                                                         *)
(*   documents  path -> row (path is UNIQUE), or Absent                    *)
(*   chunks     the rows of table chunks, keyed by (document_id,           *)
(*              chunk_index); "content" is the body the text was cut from  *)
(*   sync_runs  run id -> row (the primary key), or Absent                 *)
(*                                                                         *)
(* replace_document draws a fresh uuid4 for the document.  A run stores a  *)
(* path at most once, so the pair (run, path) stands for that uuid.        *)
(***************************************************************************)
EXTENDS CorpusDiff, Integers, FiniteSets

CONSTANTS MaxRuns,    \* bound: run ids are 1..MaxRuns
          ChunkCount  \* number of chunks the chunker cuts a body into

ASSUME MaxRunsIsNat == MaxRuns \in Nat
ASSUME ChunkCountIsNat == ChunkCount \in [Contents -> Nat]
ASSUME PathsFinite == IsFiniteSet(Paths)

Runs == 1 .. MaxRuns

DocumentIds == Runs \X Paths

DocumentState ==
  [id : DocumentIds, content_hash : Contents, metadata_hash : Metas]

ChunkRow == [document_id : DocumentIds, chunk_index : Nat, content : Contents]

Statuses == {"succeeded", "failed"}

Tally == [new_documents : Nat, changed_documents : Nat,
          metadata_changed_documents : Nat, deleted_documents : Nat,
          unchanged_documents : Nat, embedded_chunks : Nat,
          deleted_chunks : Nat]

ZeroTally == [new_documents |-> 0, changed_documents |-> 0,
              metadata_changed_documents |-> 0, deleted_documents |-> 0,
              unchanged_documents |-> 0, embedded_chunks |-> 0,
              deleted_chunks |-> 0]

RunRow == [status : Statuses, tally : Tally]

ASSUME AbsentIsNoRow == Absent \notin DocumentState \cup RunRow

Documents == [Paths -> DocumentState \cup {Absent}]

Databases == [documents : Documents, chunks : SUBSET ChunkRow,
              sync_runs : [Runs -> RunRow \cup {Absent}]]

EmptyDatabase == [documents |-> NoScan, chunks |-> {},
                  sync_runs |-> [run \in Runs |-> Absent]]

-----------------------------------------------------------------------------
document_states(d) == d.documents

ChunksOf(d, id) == {row \in d.chunks : row.document_id = id}

HasDocument(d, id) ==
  \E path \in Paths : d.documents[path] # Absent /\ d.documents[path].id = id

(* Mutant of delete_document: no ON DELETE CASCADE.                        *)
DeleteWithoutCascade(d, id) ==
  [d EXCEPT !.documents =
              [path \in Paths |->
                 IF d.documents[path] # Absent /\ d.documents[path].id = id
                 THEN Absent ELSE d.documents[path]]]

(* DELETE FROM documents WHERE id = ..., with ON DELETE CASCADE to chunks. *)
delete_document(d, id) ==
  [d EXCEPT !.documents =
              [path \in Paths |->
                 IF d.documents[path] # Absent /\ d.documents[path].id = id
                 THEN Absent ELSE d.documents[path]],
            !.chunks = @ \ ChunksOf(d, id)]

ChunkRows(id, content) ==
  {[document_id |-> id, chunk_index |-> i, content |-> content] :
     i \in 0 .. ChunkCount[content] - 1}

(* DELETE by path with its cascade, INSERT the document, INSERT its chunks. *)
replace_document(d, id, path, item, content) ==
  LET old == d.documents[path]
      kept == IF old = Absent THEN d.chunks ELSE d.chunks \ ChunksOf(d, old.id)
  IN  [d EXCEPT !.documents[path] = [id |-> id,
                                     content_hash |-> item.content_hash,
                                     metadata_hash |-> item.metadata_hash],
                !.chunks = kept \cup ChunkRows(id, content)]

(* UPDATE documents SET metadata ... WHERE id = ...; chunks are untouched. *)
update_document_metadata(d, id, metadata_hash) ==
  [d EXCEPT !.documents =
     [path \in Paths |->
        IF d.documents[path] # Absent /\ d.documents[path].id = id
        THEN [d.documents[path] EXCEPT !.metadata_hash = metadata_hash]
        ELSE d.documents[path]]]

(* Mutant of CanRecord: ON CONFLICT DO UPDATE.                             *)
CanRecordAgain(d, run) == TRUE

(* The primary key rejects a second row of the same run. *)
CanRecord(d, run) == d.sync_runs[run] = Absent

record_run(d, run, status, tally) ==
  [d EXCEPT !.sync_runs[run] = [status |-> status, tally |-> tally]]
=============================================================================
