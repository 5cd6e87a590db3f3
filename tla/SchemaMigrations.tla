-------------------------- MODULE SchemaMigrations --------------------------
(***************************************************************************)
(* The migrations of alembic/versions, run up and down while a program     *)
(* checks the schema (PgVectorStore.initialize), loads its embedding model *)
(* (LocalSentenceTransformerProvider) and synchronizes.                    *)
(*                                                                         *)
(* alembic/env.py runs a command in one transaction, so it is one step     *)
(* that applies every statement or none.  initialize() reads the catalog   *)
(* in three statements with three snapshots, so it is three.  A sync is    *)
(* one step, as SyncRuns shows.                                            *)
(***************************************************************************)
EXTENDS CorpusDiff, Integers, SequencesExt

CONSTANTS Empty,          \* the metadata object {}
          Dimensions,     \* dimensions of models and settings
          Dimension,      \* 384, the dimension in Vector(dim=384)
          MaxMigrations,  \* bound: alembic commands
          MaxEdits,       \* bound: edits of the source
          MaxSyncs        \* bound: syncs that commit

ASSUME OneDimension == Dimension \in Dimensions /\ Empty \in Metas

VARIABLES
  objects,    \* tables, columns, indexes and constraints
  version,    \* alembic_version: migrations applied, 0 for no row
  documents,  \* rows of documents, each with the vectors of its chunks
  conflict,   \* a migration was refused by PostgreSQL
  source,     \* what a scan would find
  app,        \* the program
  migrations, edits, syncs

vars == <<objects, version, documents, conflict, source, app,
          migrations, edits, syncs>>

-----------------------------------------------------------------------------
(* Statements.  An object is dropped with the table or column it is on.    *)
Create(name, on) == [do |-> "create", name |-> name, on |-> on]
CreateTable(name) == Create(name, "public")
Drop(name) == [do |-> "drop", name |-> name]
DropIfExists(name) == [do |-> "drop if exists", name |-> name]

Up1 == << CreateTable("documents"), Create("documents_hash_idx", "documents"),
          CreateTable("sync_runs"), CreateTable("chunks"),
          Create("embedding", "chunks"),
          Create("chunks_document_id_idx", "chunks") >>

Down1 == << Drop("chunks"), Drop("sync_runs"), Drop("documents") >>

Up2 == << Create("chunks_embedding_hnsw_idx", "embedding") >>
Down2 == << DropIfExists("chunks_embedding_hnsw_idx") >>

Up3 == << Create("metadata", "documents"),
          Create("metadata_hash", "documents"),
          Create("metadata_changed_documents", "sync_runs") >>
Down3 == << Drop("metadata_changed_documents"), Drop("metadata_hash"),
            Drop("metadata") >>

Up4 == << Create("documents_metadata_gin_idx", "metadata") >>
Down4 == << DropIfExists("documents_metadata_gin_idx") >>

Metrics == << "scanned_documents", "scanned_bytes", "embedding_batches",
              "embedding_duration_ms" >>
Checks == << "sync_runs_scanned_documents_check",
             "sync_runs_scanned_bytes_check",
             "sync_runs_embedding_batches_check",
             "sync_runs_embedding_duration_ms_check" >>

Up5 == [i \in DOMAIN Metrics |-> Create(Metrics[i], "sync_runs")]
       \o [i \in DOMAIN Checks |-> Create(Checks[i], Metrics[i])]
       \o << Create("sync_runs_finished_at_idx", "sync_runs") >>

(* Mutant of Down5: the index stays.                                       *)
Down5KeepsIndex == [i \in DOMAIN Checks |-> Drop(Reverse(Checks)[i])]
                   \o [i \in DOMAIN Metrics |-> Drop(Reverse(Metrics)[i])]

Down5 == << Drop("sync_runs_finished_at_idx") >>
         \o [i \in DOMAIN Checks |-> Drop(Reverse(Checks)[i])]
         \o [i \in DOMAIN Metrics |-> Drop(Reverse(Metrics)[i])]

Upgrades == << Up1, Up2, Up3, Up4, Up5 >>
Downgrades == << Down1, Down2, Down3, Down4, Down5 >>
Latest == Len(Upgrades)  \* EXPECTED_SCHEMA_REVISION

(* The statements of `alembic upgrade` or `alembic downgrade` to a target. *)
Script(target) ==
  IF target > version
  THEN FlattenSeq(SubSeq(Upgrades, version + 1, target))
  ELSE FlattenSeq(Reverse(SubSeq(Downgrades, target + 1, version)))

Names(objs) == {o.name : o \in objs}

Dependents(objs, name) ==
  LET direct == {o \in objs : o.on = name}
  IN  direct \cup {o \in objs : o.on \in Names(direct)}

EmptyHash == Empty  \* EMPTY_METADATA_HASH, the server default

(* What a statement does to the rows of documents: a column is filled with *)
(* its default, or gone.                                                   *)
Rewritten(statement, rows) ==
  LET Filled(default) ==
        [path \in Paths |->
           IF rows[path] = Absent THEN Absent
           ELSE [rows[path] EXCEPT ![statement.name] =
                   IF statement.do = "create" THEN default ELSE Absent]]
  IN  CASE statement.name = "documents" -> [path \in Paths |-> Absent]
        [] statement.name = "metadata" -> Filled(Empty)
        [] statement.name = "metadata_hash" -> Filled(EmptyHash)
        [] OTHER -> rows

(* One statement on [objects, documents, ok]; an error ends the script.    *)
Executed(db, statement) ==
  LET exists == statement.name \in Names(db.objects)
      gone == Dependents(db.objects, statement.name)
              \cup {o \in db.objects : o.name = statement.name}
      referenced == /\ statement.name = "documents"
                    /\ "chunks" \in Names(db.objects)
      done(objs) == [objects |-> objs, ok |-> TRUE,
                     documents |-> Rewritten(statement, db.documents)]
  IN  IF ~db.ok THEN db
      ELSE IF statement.do = "create"
      THEN IF exists \/ statement.on \notin Names(db.objects) \cup {"public"}
           THEN [db EXCEPT !.ok = FALSE]
           ELSE done(db.objects \cup
                     {[name |-> statement.name, on |-> statement.on]})
      ELSE IF ~exists /\ statement.do = "drop if exists" THEN db
      ELSE IF ~exists \/ referenced THEN [db EXCEPT !.ok = FALSE]
      ELSE done(db.objects \ gone)

(* An alembic command: all of its statements, or an error and none.        *)
Migrate ==
  /\ migrations < MaxMigrations
  /\ migrations' = migrations + 1
  /\ \E target \in (0 .. Latest) \ {version} :
       LET db == FoldLeft(Executed,
                   [objects |-> objects, documents |-> documents, ok |-> TRUE],
                   Script(target))
       IN  IF db.ok
           THEN /\ objects' = db.objects /\ documents' = db.documents
                /\ version' = target /\ UNCHANGED conflict
           ELSE conflict' = TRUE /\ UNCHANGED <<objects, documents, version>>
  /\ UNCHANGED <<source, app, edits, syncs>>

-----------------------------------------------------------------------------
(* The program: how far initialize() is, the dimension in its settings,    *)
(* the true one of its model, whether the model is cached, and the         *)
(* dimension of the vectors embed() returned last.                         *)
Off == [stage |-> "off"]

Init ==
  /\ objects = {}
  /\ version = 0
  /\ documents = [path \in Paths |-> Absent]
  /\ conflict = FALSE
  /\ source \in Scans
  /\ app = Off
  /\ migrations = 0 /\ edits = 0 /\ syncs = 0

EditSource ==
  /\ edits < MaxEdits
  /\ edits' = edits + 1
  /\ source' \in Scans
  /\ UNCHANGED <<objects, version, documents, conflict, app,
                 migrations, syncs>>

Rest == UNCHANGED <<objects, version, documents, conflict, source,
                    migrations, edits, syncs>>

Start ==
  /\ app.stage = "off"
  /\ \E settings, model \in Dimensions :
       app' = [stage |-> "tables", dimension |-> settings, model |-> model,
               loaded |-> FALSE]
  /\ Rest

Stop == app.stage # "off" /\ app' = Off /\ Rest

(* SchemaNotReadyError unless the condition holds.                         *)
Require(condition, stage) ==
  /\ app' = IF condition THEN [app EXCEPT !.stage = stage] ELSE Off
  /\ Rest

CheckTables ==
  /\ app.stage = "tables"
  /\ Require({"documents", "chunks", "sync_runs"} \subseteq Names(objects),
             "revision")

CheckRevision == app.stage = "revision" /\ Require(version = Latest, "vector")

TypeMatches(dimension) ==
  "embedding" \in Names(objects) /\ dimension = Dimension

CheckVector ==
  app.stage = "vector" /\ Require(TypeMatches(app.dimension), "ready")

(* Columns that document_states, replace_document and                      *)
(* update_document_metadata name, beyond those of the first migration.     *)
DocumentColumns == {"documents", "chunks", "metadata", "metadata_hash"}

(* Columns that record_run names.                                          *)
RunColumns == {"sync_runs", "metadata_changed_documents"} \cup Range(Metrics)

(* _load_model checks the dimension only when it loads the model, and      *)
(* keeps the model even if the check fails.                                *)
ModelRefused == ~app.loaded /\ app.model # app.dimension

(* vector(384) takes no other vectors.                                     *)
ColumnTakes(dimension) == dimension = Dimension

(* The rows after a sync; only new and changed documents are embedded.     *)
Synchronized(diff) ==
  [path \in Paths |->
     IF path \in diff.new \cup diff.changed
     THEN [content_hash |-> source[path].content_hash,
           metadata |-> source[path].metadata_hash,
           metadata_hash |-> source[path].metadata_hash,
           vector |-> [sync |-> syncs + 1, dimension |-> app.model]]
     ELSE IF path \in diff.metadata_changed
     THEN [documents[path] EXCEPT !.metadata = source[path].metadata_hash,
                                  !.metadata_hash = source[path].metadata_hash]
     ELSE IF path \in diff.deleted THEN Absent
     ELSE documents[path]]

(* A sync.  A statement that names a missing column is an error and rolls  *)
(* the transaction back; the plan itself needs metadata_hash.              *)
Sync ==
  /\ app.stage = "ready" /\ syncs < MaxSyncs
  /\ LET readable == DocumentColumns \subseteq Names(objects)
         diff == diff_source(source, documents)
         embeds == readable /\ diff.new \cup diff.changed # {}
         commits == /\ readable
                    /\ RunColumns \subseteq Names(objects)
                    /\ embeds => ~ModelRefused /\ ColumnTakes(app.model)
     IN  /\ documents' = IF commits THEN Synchronized(diff) ELSE documents
         /\ syncs' = IF commits THEN syncs + 1 ELSE syncs
         /\ app' = IF ~embeds THEN app ELSE [app EXCEPT !.loaded = TRUE]
  /\ UNCHANGED <<objects, version, conflict, source, migrations, edits>>

Next ==
  \/ Migrate \/ EditSource \/ Start \/ Stop
  \/ CheckTables \/ CheckRevision \/ CheckVector \/ Sync

Spec == Init /\ [][Next]_vars

-----------------------------------------------------------------------------
(* Types; the columns of a row are those of the schema, and a program that *)
(* has passed initialize() is configured for the column's dimension.       *)
TypeOK ==
  /\ version \in 0 .. Latest
  /\ conflict \in BOOLEAN
  /\ source \in Scans
  /\ app.stage \in {"off", "tables", "revision", "vector", "ready"}
  /\ app.stage = "ready" => app.dimension = Dimension
  /\ \A path \in Paths : documents[path] # Absent =>
       /\ "documents" \in Names(objects)
       /\ documents[path].content_hash \in Contents
       /\ documents[path].metadata \in
            IF "metadata" \in Names(objects) THEN Metas ELSE {Absent}

(* However a revision was reached, up or down, the schema is what the      *)
(* upgrades to it create: initialize() may trust the revision's name.      *)
SchemaMatchesRevision ==
  objects = {[name |-> s.name, on |-> s.on] :
               s \in UNION {Range(Upgrades[r]) : r \in 1 .. version}}

(* No sequence of upgrades and downgrades is refused by PostgreSQL for an  *)
(* object that is missing, still there, or still referenced.               *)
MigrationsApply == ~conflict

(* A row's metadata_hash is the digest of its metadata, also of the rows   *)
(* that 0003_document_metadata filled with server defaults.  The next plan *)
(* relies on it.                                                           *)
HashMatchesMetadata ==
  \A path \in Paths : documents[path] # Absent =>
    documents[path].metadata_hash = documents[path].metadata

(* 0003_document_metadata.py:24, "without rebuilding stored embeddings":   *)
(* while a document keeps its content, neither the migrations nor the sync *)
(* that restores its metadata touch its vectors.                           *)
VectorsSurvive ==
  [][\A path \in Paths :
       (/\ documents[path] # Absent /\ documents'[path] # Absent
        /\ documents'[path].content_hash = documents[path].content_hash)
       => documents'[path].vector = documents[path].vector]_vars

(* Every stored vector has the dimension of the column, although the       *)
(* provider's own check can be passed by a second call.                    *)
VectorsFit ==
  \A path \in Paths : documents[path] # Absent =>
    documents[path].vector.dimension = Dimension

(* The state invariant: a schema that is its revision's and a corpus that  *)
(* fits it.                                                                *)
SchemaInv == /\ TypeOK /\ MigrationsApply /\ SchemaMatchesRevision
             /\ HashMatchesMetadata /\ VectorsFit

(* A sync that commits leaves the corpus equal to the source, also when a  *)
(* downgrade has thrown the metadata away before.  And it commits under    *)
(* the required revision only: initialize() was passed once, and a         *)
(* migration may have followed.                                            *)
SyncRestoresMetadata ==
  [][syncs' # syncs =>
       /\ version = Latest
       /\ \A path \in Paths :
            IF source[path] = Absent THEN documents'[path] = Absent
            ELSE /\ documents'[path].content_hash = source[path].content_hash
                 /\ documents'[path].metadata = source[path].metadata_hash]_vars
=============================================================================
