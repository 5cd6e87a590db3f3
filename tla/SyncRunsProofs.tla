--------------------------- MODULE SyncRunsProofs ---------------------------
(***************************************************************************)
(* Theorems about SyncRuns for every value of its constants.  First what   *)
(* the plan and the store operations return, the types, and the safety     *)
(* properties, which follow from one inductive invariant, SyncInv.  Then   *)
(* what the tables contain: documents and chunks of one body each          *)
(* (ContentInv), a ledger that tells every run's outcome (LedgerInv) and   *)
(* whose counters add up to the corpus (AccountInv), and with it the       *)
(* refinement of AtomicCorpus.                                             *)
(***************************************************************************)
EXTENDS SyncRuns, SumTheorems

-----------------------------------------------------------------------------
(* The plan and the store operations.                                      *)

(* diff_source sorts every path that is in the scan or in the database     *)
(* into exactly one category (source_scanner.py:86-115).                   *)
THEOREM DiffPartitionsPaths ==
  ASSUME NEW scanned \in Scans, NEW previous \in Documents
  PROVE  LET d == diff_source(scanned, previous)
         IN  /\ d \in Diffs
             /\ d.new \cup d.changed \cup d.metadata_changed \cup d.unchanged
                  = Present(scanned)
             /\ d.deleted = Present(previous) \ Present(scanned)
             /\ d.new \cap Present(previous) = {}
             /\ d.changed \cap d.metadata_changed = {}
             /\ d.changed \cap d.unchanged = {}
             /\ d.metadata_changed \cap d.unchanged = {}
             /\ d.changed \cup d.metadata_changed \cup d.unchanged
                  \subseteq Present(previous)
BY DEF diff_source, Diffs, Present

(* The empty database has its type. *)
LEMMA EmptyDatabaseType == EmptyDatabase \in Databases /\ NoScan \in Documents
BY DEF EmptyDatabase, Databases, NoScan, Documents

(* Deleting a document leaves a database. *)
LEMMA DeleteType ==
  ASSUME NEW d \in Databases, NEW id
  PROVE  delete_document(d, id) \in Databases
BY DEF delete_document, Databases, Documents, ChunksOf

(* Deleting the document of a path takes that row away and no other, when  *)
(* no two rows share an id.                                                *)
LEMMA DeleteEffect ==
  ASSUME NEW d \in Databases, NEW path \in Paths,
         d.documents[path] # Absent,
         \A q \in Paths \ {path} :
           d.documents[q] # Absent => d.documents[q].id # d.documents[path].id
  PROVE  /\ delete_document(d, d.documents[path].id).documents
              = [d.documents EXCEPT ![path] = Absent]
         /\ delete_document(d, d.documents[path].id).sync_runs = d.sync_runs
BY DEF delete_document, Databases, Documents

(* Updating metadata leaves a database. *)
LEMMA UpdateType ==
  ASSUME NEW d \in Databases, NEW id, NEW hash \in Metas
  PROVE  update_document_metadata(d, id, hash) \in Databases
<1> DEFINE docs == [path \in Paths |->
        IF d.documents[path] # Absent /\ d.documents[path].id = id
        THEN [d.documents[path] EXCEPT !.metadata_hash = hash]
        ELSE d.documents[path]]
<1>1. d.documents \in Documents
  BY DEF Databases
<1>2. ASSUME NEW path \in Paths PROVE docs[path] \in DocumentState \cup {Absent}
  BY <1>1 DEF Documents, DocumentState
<1>3. docs \in Documents
  BY <1>2 DEF Documents
<1> QED
  BY <1>3 DEF update_document_metadata, Databases

(* Updating the metadata of a path changes that hash and nothing else.     *)
LEMMA UpdateEffect ==
  ASSUME NEW d \in Databases, NEW path \in Paths, NEW hash \in Metas,
         d.documents[path] # Absent,
         \A q \in Paths \ {path} :
           d.documents[q] # Absent => d.documents[q].id # d.documents[path].id
  PROVE  /\ update_document_metadata(d, d.documents[path].id, hash).documents
              = [d.documents EXCEPT ![path] =
                   [id |-> d.documents[path].id,
                    content_hash |-> d.documents[path].content_hash,
                    metadata_hash |-> hash]]
         /\ update_document_metadata(d, d.documents[path].id, hash).sync_runs
              = d.sync_runs
BY DEF update_document_metadata, Databases, Documents, DocumentState

(* The chunk rows of a body are rows of the table. *)
LEMMA ChunkRowsType ==
  ASSUME NEW id \in DocumentIds, NEW content \in Contents
  PROVE  ChunkRows(id, content) \in SUBSET ChunkRow
BY ChunkCountIsNat DEF ChunkRows, ChunkRow

(* A body is cut into finitely many chunks. *)
LEMMA ChunkRowsFinite ==
  ASSUME NEW id, NEW content \in Contents
  PROVE  IsFiniteSet(ChunkRows(id, content))
<1> DEFINE n == ChunkCount[content]
           row == [i \in 0 .. n - 1 |->
             [document_id |-> id, chunk_index |-> i, content |-> content]]
<1>1. n \in Nat
  BY ChunkCountIsNat
<1>2. IsFiniteSet(0 .. n - 1)
  BY <1>1, FS_Interval
<1>3. row \in Surjection(0 .. n - 1, ChunkRows(id, content))
  BY DEF Surjection, ChunkRows
<1> QED
  BY <1>2, <1>3, FS_Surjection

(* Storing a document leaves a database. *)
LEMMA ReplaceType ==
  ASSUME NEW d \in Databases, NEW id \in DocumentIds, NEW path \in Paths,
         NEW item \in ScannedDocument, NEW content \in Contents
  PROVE  replace_document(d, id, path, item, content) \in Databases
BY ChunkRowsType
   DEF replace_document, Databases, Documents, DocumentState, ScannedDocument,
       ChunksOf

(* Storing a document sets the row of its path and touches no other.       *)
LEMMA ReplaceEffect ==
  ASSUME NEW d \in Databases, NEW id, NEW path \in Paths, NEW item,
         NEW content
  PROVE  /\ replace_document(d, id, path, item, content).documents
              = [d.documents EXCEPT ![path] =
                   [id |-> id, content_hash |-> item.content_hash,
                    metadata_hash |-> item.metadata_hash]]
         /\ replace_document(d, id, path, item, content).sync_runs = d.sync_runs
BY DEF replace_document, Databases

(* No operation makes the table of chunks infinite. *)
LEMMA ChunksStayFinite ==
  ASSUME NEW d \in Databases, IsFiniteSet(d.chunks)
  PROVE  /\ \A id : IsFiniteSet(delete_document(d, id).chunks)
         /\ \A id, path, item : \A content \in Contents :
              IsFiniteSet(replace_document(d, id, path, item, content).chunks)
         /\ \A id, hash :
              update_document_metadata(d, id, hash).chunks = d.chunks
         /\ \A r, status, tally :
              record_run(d, r, status, tally).chunks = d.chunks
<1>1. ASSUME NEW id PROVE IsFiniteSet(d.chunks \ ChunksOf(d, id))
  BY FS_Difference
<1>2. ASSUME NEW id PROVE IsFiniteSet(delete_document(d, id).chunks)
  BY <1>1 DEF delete_document, Databases
<1>3. ASSUME NEW id, NEW path, NEW item, NEW content \in Contents
      PROVE  IsFiniteSet(replace_document(d, id, path, item, content).chunks)
  <2> DEFINE old == d.documents[path]
             kept == IF old = Absent THEN d.chunks
                     ELSE d.chunks \ ChunksOf(d, old.id)
  <2>1. IsFiniteSet(kept)
    BY <1>1
  <2>2. IsFiniteSet(kept \cup ChunkRows(id, content))
    BY <2>1, ChunkRowsFinite, FS_Union
  <2>3. replace_document(d, id, path, item, content).chunks
          = kept \cup ChunkRows(id, content)
    BY DEF replace_document, Databases
  <2> QED
    BY <2>2, <2>3
<1>4. \A id, hash : update_document_metadata(d, id, hash).chunks = d.chunks
  BY DEF update_document_metadata, Databases
<1>5. \A r, status, tally : record_run(d, r, status, tally).chunks = d.chunks
  BY DEF record_run, Databases
<1> QED
  BY <1>2, <1>3, <1>4, <1>5

(* The count that delete_document returns is a number. *)
LEMMA ChunkCountType ==
  ASSUME NEW d, NEW id, IsFiniteSet(d.chunks)
  PROVE  Cardinality(ChunksOf(d, id)) \in Nat
<1>1. IsFiniteSet(ChunksOf(d, id))
  BY FS_Subset DEF ChunksOf
<1> QED
  BY <1>1, FS_CardinalityType

(* Recording a run leaves a database. *)
LEMMA RecordType ==
  ASSUME NEW d \in Databases, NEW r \in Runs, NEW status \in Statuses,
         NEW tally \in Tally
  PROVE  record_run(d, r, status, tally) \in Databases
BY DEF record_run, Databases, RunRow

(* Recording a run adds its row and touches nothing else. *)
LEMMA RecordEffect ==
  ASSUME NEW d \in Databases, NEW r \in Runs, NEW status, NEW tally
  PROVE  /\ record_run(d, r, status, tally).documents = d.documents
         /\ record_run(d, r, status, tally).chunks = d.chunks
         /\ record_run(d, r, status, tally).sync_runs
              = [d.sync_runs EXCEPT ![r] = [status |-> status, tally |-> tally]]
BY DEF record_run, Databases

-----------------------------------------------------------------------------
(* Types.  The counters are numbers because chunks stay finite in number.  *)
ChunksFinite ==
  /\ IsFiniteSet(db.chunks)
  /\ \A p \in Procs : IsFiniteSet(work[p].txn.chunks)

(* What is still to be updated or stored was scanned.                      *)
PlanIsScanned(w) ==
  w.todo.new \cup w.todo.changed \cup w.todo.metadata_changed
    \subseteq Present(w.scanned)

PlansAreScanned ==
  \A p \in Procs : pc[p] = "writing" => PlanIsScanned(work[p])

(* A sync that has the lock has drawn a run id.                            *)
RunsAreDrawn == \A p \in Procs : pc[p] # "idle" => run[p] \in 1 .. next_run - 1

(* A scan is of a version the source has had. *)
VersionsExist == \A p \in Procs : work[p].scanned_at <= Len(history)

TypeInv ==
  TypeOK /\ ChunksFinite /\ PlansAreScanned /\ RunsAreDrawn /\ VersionsExist

(* The plan of a sync counts its documents in numbers. *)
LEMMA PlanTallyType ==
  ASSUME NEW diff \in Diffs
  PROVE  PlanTally(diff) \in Tally
<1>1. ASSUME NEW s \in SUBSET Paths PROVE Cardinality(s) \in Nat
  <2>1. IsFiniteSet(s)
    BY PathsFinite, FS_Subset
  <2> QED
    BY <2>1, FS_CardinalityType
<1>2. /\ Cardinality(diff.new) \in Nat
      /\ Cardinality(diff.changed) \in Nat
      /\ Cardinality(diff.metadata_changed) \in Nat
      /\ Cardinality(diff.deleted) \in Nat
      /\ Cardinality(diff.unchanged) \in Nat
  BY <1>1 DEF Diffs
<1> QED
  BY <1>2 DEF PlanTally, Tally, ZeroTally

(* A sync that has nothing in hand has work of the right type.             *)
LEMMA NoWorkType == NoWork \in Work /\ IsFiniteSet(NoWork.txn.chunks)
<1>1. NoWork \in Work
  BY EmptyDatabaseType
     DEF NoWork, Work, NoScan, Scans, Diffs, NoDiff, Tally, ZeroTally
<1>2. NoWork.txn.chunks = {}
  BY DEF NoWork, EmptyDatabase
<1> QED
  BY <1>1, <1>2, FS_EmptySet

(* A plan and counters in which a deletion is counted keep their types.    *)
LEMMA CountDeletedType ==
  ASSUME NEW tally \in Tally, NEW d, NEW id, IsFiniteSet(d.chunks)
  PROVE  CountDeleted(tally, d, id) \in Tally
BY ChunkCountType DEF CountDeleted, Tally

(* Storing one document keeps the transaction and the counters typed.      *)
LEMMA StoreType ==
  ASSUME NEW d \in Databases, IsFiniteSet(d.chunks), NEW tally \in Tally,
         NEW prior, NEW id \in DocumentIds, NEW path \in Paths,
         NEW item \in ScannedDocument, NEW content \in Contents
  PROVE  LET s == replace_document(DeletePrior(d, prior), id, path, item, content)
         IN  /\ s \in Databases
             /\ IsFiniteSet(s.chunks)
             /\ CountEmbedded(CountPrior(tally, d, prior), content) \in Tally
<1>1. /\ DeletePrior(d, prior) \in Databases
      /\ IsFiniteSet(DeletePrior(d, prior).chunks)
  BY DeleteType, ChunksStayFinite DEF DeletePrior
<1>2. CountPrior(tally, d, prior) \in Tally
  BY CountDeletedType DEF CountPrior
<1>3. ChunkCount[content] \in Nat
  BY ChunkCountIsNat
<1>4. CountEmbedded(CountPrior(tally, d, prior), content) \in Tally
  BY <1>2, <1>3 DEF CountEmbedded, Tally
<1> QED
  BY <1>1, <1>4, ReplaceType, ChunksStayFinite

(* The initial state has its types. *)
LEMMA InitTypeInv == Init => TypeInv
<1> SUFFICES ASSUME Init PROVE TypeInv
  OBVIOUS
<1>1. IsFiniteSet(EmptyDatabase.chunks)
  BY FS_EmptySet DEF EmptyDatabase
<1>2. ChunksFinite /\ PlansAreScanned
  BY <1>1, NoWorkType DEF Init, ChunksFinite, PlansAreScanned
<1>4. VersionsExist
  BY InitialSourceIsScan DEF Init, VersionsExist, NoWork
<1>3. TypeOK /\ RunsAreDrawn
  BY InitialSourceIsScan, MaxRunsIsNat, EmptyDatabaseType, NoWorkType
     DEF Init, TypeOK, RunsAreDrawn, Stages, Outcomes, Runs
<1> QED
  BY <1>2, <1>3, <1>4 DEF TypeInv

(* A step of process p that leaves its work typed leaves everything typed. *)
LEMMA StepFrame ==
  ASSUME TypeInv, NEW p \in Procs, NEW w \in Work, NEW stage \in Stages,
         IsFiniteSet(w.txn.chunks),
         w.scanned_at <= Len(history),
         stage = "writing" => PlanIsScanned(w),
         stage # "idle" => pc[p] # "idle",
         work' = [work EXCEPT ![p] = w],
         pc' = [pc EXCEPT ![p] = stage],
         db' \in Databases, IsFiniteSet(db'.chunks),
         published' \in 0 .. Len(history),
         lock' \in Procs \cup {NoProc},
         outcome' \in [Procs -> Outcomes],
         faults' \in Nat,
         UNCHANGED <<history, run, next_run>>
  PROVE  TypeInv'
<1>1. /\ work' \in [Procs -> Work]
      /\ \A q \in Procs : IsFiniteSet(work'[q].txn.chunks)
      /\ VersionsExist'
      /\ PlansAreScanned'
  BY DEF TypeInv, TypeOK, ChunksFinite, PlansAreScanned, VersionsExist
<1>2. pc' \in [Procs -> Stages] /\ RunsAreDrawn'
  BY DEF TypeInv, TypeOK, RunsAreDrawn
<1> QED
  BY <1>1, <1>2 DEF TypeInv, TypeOK, ChunksFinite

(* A step of a loop inside the transaction changes the work only.          *)
LEMMA LoopFrame ==
  ASSUME TypeInv, NEW p \in Procs, NEW w \in Work, IsFiniteSet(w.txn.chunks),
         w.scanned_at = work[p].scanned_at, PlanIsScanned(w),
         work' = [work EXCEPT ![p] = w],
         UNCHANGED <<history, db, lock, pc, run, next_run, outcome, faults,
                     published>>
  PROVE  TypeInv'
<1>1. /\ work' \in [Procs -> Work]
      /\ \A q \in Procs : IsFiniteSet(work'[q].txn.chunks)
      /\ VersionsExist'
      /\ PlansAreScanned'
  BY DEF TypeInv, TypeOK, ChunksFinite, PlansAreScanned, VersionsExist
<1> QED
  BY <1>1 DEF TypeInv, TypeOK, ChunksFinite, RunsAreDrawn

(* What TypeInv says of one process, unfolded. *)
LEMMA WorkTypes ==
  ASSUME TypeInv, NEW p \in Procs
  PROVE  /\ work[p] \in Work
         /\ work[p].scanned \in Scans
         /\ work[p].scanned_at \in 0 .. Len(history)
         /\ work[p].scanned_at <= Len(history)
         /\ work[p].previous \in Documents
         /\ work[p].txn \in Databases
         /\ work[p].todo \in Diffs
         /\ work[p].tally \in Tally
         /\ IsFiniteSet(work[p].txn.chunks)
         /\ pc[p] = "writing" => PlanIsScanned(work[p])
         /\ pc[p] \in Stages
         /\ pc[p] # "idle" => run[p] \in Runs
         /\ db \in Databases /\ db.documents \in Documents
         /\ IsFiniteSet(db.chunks)
         /\ published \in 0 .. Len(history)
         /\ lock \in Procs \cup {NoProc}
         /\ outcome \in [Procs -> Outcomes]
         /\ faults \in Nat
<1>1. work[p] \in Work
  BY DEF TypeInv, TypeOK
<1>2. Len(history) \in Nat
  BY DEF TypeInv, TypeOK
<1>3. pc[p] # "idle" => run[p] \in Runs
  BY MaxRunsIsNat DEF TypeInv, TypeOK, RunsAreDrawn, Runs
<1>4. db \in Databases /\ db.documents \in Documents
  BY DEF TypeInv, TypeOK, Databases
<1> QED
  BY <1>1, <1>2, <1>3, <1>4
     DEF TypeInv, TypeOK, ChunksFinite, PlansAreScanned, VersionsExist, Work

(* The current state of the source is a scan. *)
LEMMA SourceType ==
  ASSUME TypeInv
  PROVE  source \in Scans /\ Len(history) \in Nat \ {0}
BY DEF TypeInv, TypeOK, source

(* An edit appends a scan. *)
LEMMA EditType ==
  ASSUME TypeInv, EditSource
  PROVE  TypeInv'
<1>1. PICK path \in Paths, item \in ScannedDocument \cup {Absent} :
        history' = Append(history, [source EXCEPT ![path] = item])
  BY DEF EditSource
<1>2. [source EXCEPT ![path] = item] \in Scans
  BY SourceType DEF Scans
<1>3. /\ history' \in Seq(Scans) /\ history' # <<>>
      /\ Len(history') = Len(history) + 1 /\ Len(history) \in Nat
  BY <1>1, <1>2 DEF TypeInv, TypeOK
<1>4. VersionsExist'
  BY <1>3, WorkTypes DEF EditSource, VersionsExist
<1> QED
  BY <1>3, <1>4
     DEF EditSource, TypeInv, TypeOK, ChunksFinite, PlansAreScanned, RunsAreDrawn

(* The iterations of the loops inside the transaction keep types.          *)
LEMMA WritingType ==
  ASSUME TypeInv, NEW p \in Procs, NEW path \in Paths,
         \/ UpdateMetadata(p, path) \/ DeleteDocument(p, path)
         \/ StoreDocument(p, path) \/ LoadFails(p, path)
  PROVE  TypeInv'
<1> DEFINE w == work[p]
           id == w.previous[path].id
<1>1. pc[p] = "writing" /\ PlanIsScanned(w)
  BY WorkTypes DEF UpdateMetadata, DeleteDocument, StoreDocument, LoadFails
<1>2. path \in w.todo.new \cup w.todo.changed \cup w.todo.metadata_changed
        => w.scanned[path] \in ScannedDocument
  BY <1>1, WorkTypes DEF PlanIsScanned, Present, Scans
<1>3. CASE UpdateMetadata(p, path) /\ HasDocument(w.txn, id)
  <2> DEFINE updated == update_document_metadata(w.txn, id,
                          w.scanned[path].metadata_hash)
             new == [w EXCEPT !.todo.metadata_changed = @ \ {path},
                              !.txn = updated]
  <2>1. w.scanned[path].metadata_hash \in Metas
    BY <1>2, <1>3 DEF UpdateMetadata, ScannedDocument
  <2>2. updated \in Databases /\ IsFiniteSet(updated.chunks)
    BY <2>1, UpdateType, ChunksStayFinite, WorkTypes
  <2>3. /\ new \in Work
        /\ IsFiniteSet(new.txn.chunks)
        /\ PlanIsScanned(new)
        /\ new.scanned_at = w.scanned_at
    <3> HIDE DEF updated
    <3> QED
      BY <1>1, <2>2, WorkTypes DEF Work, Diffs, PlanIsScanned
  <2>4. work' = [work EXCEPT ![p] = new]
    BY <1>3 DEF UpdateMetadata
  <2> HIDE DEF new
  <2> QED
    BY <1>3, <2>3, <2>4, LoopFrame DEF UpdateMetadata
<1>4. CASE UpdateMetadata(p, path) /\ ~HasDocument(w.txn, id)
  BY <1>4 DEF UpdateMetadata, TypeInv, TypeOK, ChunksFinite, PlansAreScanned,
       RunsAreDrawn, VersionsExist, Stages
<1>5. CASE DeleteDocument(p, path)
  <2> DEFINE new == [w EXCEPT !.todo.deleted = @ \ {path},
                              !.txn = delete_document(@, id),
                              !.tally = CountDeleted(@, w.txn, id)]
  <2>3. /\ delete_document(w.txn, id) \in Databases
        /\ IsFiniteSet(delete_document(w.txn, id).chunks)
        /\ CountDeleted(w.tally, w.txn, id) \in Tally
    BY <1>1, DeleteType, ChunksStayFinite, CountDeletedType, WorkTypes
  <2>4. [w.todo EXCEPT !.deleted = @ \ {path}] \in Diffs
    BY <1>1, WorkTypes DEF Diffs
  <2>1. /\ new \in Work
        /\ IsFiniteSet(new.txn.chunks)
        /\ PlanIsScanned(new)
        /\ new.scanned_at = w.scanned_at
    BY <1>1, <2>3, <2>4, WorkTypes DEF Work, Diffs, PlanIsScanned
  <2>2. work' = [work EXCEPT ![p] = new]
    BY <1>5 DEF DeleteDocument
  <2> HIDE DEF new
  <2> QED
    BY <1>5, <2>1, <2>2, LoopFrame DEF DeleteDocument
<1>6. CASE StoreDocument(p, path)
  <2> DEFINE prior == w.previous[path]
             content == source[path].content_hash
             txn == replace_document(DeletePrior(w.txn, prior), <<run[p], path>>,
                                     path, w.scanned[path], content)
             tally == CountEmbedded(CountPrior(w.tally, w.txn, prior), content)
             new == [w EXCEPT !.todo.new = @ \ {path}, !.todo.changed = @ \ {path},
                              !.txn = txn, !.tally = tally]
  <2>1. w.scanned[path] \in ScannedDocument
    BY <1>2, <1>6 DEF StoreDocument, NextToStore
  <2>2. content \in Contents
    BY <1>6, SourceType DEF StoreDocument, CanLoad, Scans, ScannedDocument
  <2>3. <<run[p], path>> \in DocumentIds
    BY <1>1, WorkTypes DEF DocumentIds
  <2>6. txn \in Databases /\ IsFiniteSet(txn.chunks) /\ tally \in Tally
    BY <2>1, <2>2, <2>3, StoreType, WorkTypes
  <2>4. /\ new \in Work
        /\ IsFiniteSet(new.txn.chunks)
        /\ PlanIsScanned(new)
        /\ new.scanned_at = w.scanned_at
    <3> DEFINE todo == [w.todo EXCEPT !.new = @ \ {path}, !.changed = @ \ {path}]
    <3>1. todo \in Diffs
      BY WorkTypes DEF Diffs
    <3>2. todo.new \cup todo.changed \cup todo.metadata_changed
            \subseteq Present(w.scanned)
      BY <1>1, WorkTypes DEF Diffs, PlanIsScanned
    <3> HIDE DEF txn, tally
    <3>3. new = [w EXCEPT !.todo = todo, !.txn = txn, !.tally = tally]
      BY WorkTypes DEF Work
    <3> HIDE DEF new, todo
    <3> QED
      BY <2>6, <3>1, <3>2, <3>3, WorkTypes DEF Work, PlanIsScanned
  <2>5. work' = [work EXCEPT ![p] = new]
    BY <1>6 DEF StoreDocument
  <2> HIDE DEF new
  <2> QED
    BY <1>6, <2>4, <2>5, LoopFrame DEF StoreDocument
<1>7. CASE LoadFails(p, path)
  BY <1>7 DEF LoadFails, TypeInv, TypeOK, ChunksFinite, PlansAreScanned,
       RunsAreDrawn, VersionsExist, Stages
<1> QED
  BY <1>3, <1>4, <1>5, <1>6, <1>7

(* The stages before and after the loops keep types. *)
LEMMA StageType ==
  ASSUME TypeInv, NEW p \in Procs,
         \/ Scan(p) \/ BeginTransaction(p) \/ RecordRun(p) \/ Commit(p)
         \/ RecordFailure(p) \/ Unlock(p)
  PROVE  TypeInv'
<1> DEFINE w == work[p]
<1> USE WorkTypes
<1>1. CASE Scan(p)
  <2> DEFINE new == [w EXCEPT !.scanned = source, !.scanned_at = Len(history)]
  <2>1. /\ new \in Work /\ IsFiniteSet(new.txn.chunks)
        /\ new.scanned_at <= Len(history)
    <3>1. source \in Scans /\ Len(history) \in Nat /\ Len(history) <= Len(history)
      BY SourceType
    <3> HIDE DEF w
    <3>2. w \in Work /\ IsFiniteSet(w.txn.chunks)
      BY DEF w
    <3> QED
      BY <3>1, <3>2 DEF Work
  <2>2. work' = [work EXCEPT ![p] = new]
    BY <1>1 DEF Scan
  <2> HIDE DEF new
  <2> QED
    BY <1>1, <2>1, <2>2, StepFrame DEF Scan, Stages
<1>2. CASE BeginTransaction(p)
  <2> DEFINE diff == diff_source(w.scanned, db.documents)
             new == [w EXCEPT !.previous = db.documents, !.txn = db,
                              !.todo = diff, !.tally = PlanTally(diff)]
  <2>1. diff \in Diffs
    BY DiffPartitionsPaths
  <2>2. diff.new \cup diff.changed \cup diff.metadata_changed
          \subseteq Present(w.scanned)
    BY DiffPartitionsPaths
  <2>3. PlanTally(diff) \in Tally
    BY <2>1, PlanTallyType
  <2>4. /\ new \in Work /\ IsFiniteSet(new.txn.chunks) /\ PlanIsScanned(new)
        /\ new.scanned_at <= Len(history)
    <3> HIDE DEF diff
    <3> QED
      BY <2>1, <2>2, <2>3 DEF Work, PlanIsScanned
  <2>5. work' = [work EXCEPT ![p] = new]
    BY <1>2 DEF BeginTransaction, document_states
  <2> HIDE DEF new
  <2> QED
    BY <1>2, <2>4, <2>5, StepFrame DEF BeginTransaction, Stages
<1>3. CASE RecordRun(p) /\ CanRecord(w.txn, run[p])
  <2> DEFINE txn == record_run(w.txn, run[p], "succeeded", w.tally)
             new == [w EXCEPT !.txn = txn]
  <2>4. run[p] \in Runs /\ "succeeded" \in Statuses
    BY <1>3 DEF RecordRun, Statuses
  <2>5. txn \in Databases
    BY <2>4, RecordType
  <2>6. txn.chunks = w.txn.chunks
    BY ChunksStayFinite
  <2>1. txn \in Databases /\ IsFiniteSet(txn.chunks)
    BY <2>5, <2>6
  <2>2. /\ new \in Work /\ IsFiniteSet(new.txn.chunks)
        /\ new.scanned_at <= Len(history)
    <3> HIDE DEF txn
    <3> QED
      BY <2>1 DEF Work
  <2>3. work' = [work EXCEPT ![p] = new]
    BY <1>3 DEF RecordRun
  <2> HIDE DEF new
  <2> QED
    BY <1>3, <2>2, <2>3, StepFrame DEF RecordRun, Stages
<1>4. CASE RecordRun(p) /\ ~CanRecord(w.txn, run[p])
  BY <1>4 DEF RecordRun, TypeInv, TypeOK, ChunksFinite,
       PlansAreScanned, RunsAreDrawn, VersionsExist, Stages
<1>5. CASE Commit(p)
  <2>1. outcome' \in [Procs -> Outcomes]
    BY <1>5 DEF Commit, Outcomes
  <2>2. NoWork.scanned_at <= Len(history)
    BY SourceType DEF NoWork
  <2> QED
    BY <1>5, <2>1, <2>2, NoWorkType, StepFrame DEF Commit, Publish, Stages
<1>6. CASE RecordFailure(p)
  <2>1. FailedTally(w.tally) \in Tally
    BY DEF FailedTally, Tally
  <2> DEFINE recorded == record_run(db, run[p], "failed", FailedTally(w.tally))
  <2>5. run[p] \in Runs /\ "failed" \in Statuses
    BY <1>6 DEF RecordFailure, Statuses
  <2>6. recorded \in Databases
    BY <2>1, <2>5, RecordType
  <2>7. recorded.chunks = db.chunks
    BY ChunksStayFinite
  <2>8. db' \in {db, recorded}
    BY <1>6 DEF RecordFailure
  <2>2. db' \in Databases /\ IsFiniteSet(db'.chunks)
    BY <2>6, <2>7, <2>8
  <2>3. outcome' \in [Procs -> Outcomes]
    BY <1>6 DEF RecordFailure, Failed, Outcomes
  <2>4. NoWork.scanned_at <= Len(history)
    BY SourceType DEF NoWork
  <2> QED
    BY <1>6, <2>2, <2>3, <2>4, NoWorkType, StepFrame
       DEF RecordFailure, Failed, Stages
<1>7. CASE Unlock(p)
  BY <1>7 DEF Unlock, TypeInv, TypeOK, ChunksFinite, PlansAreScanned,
       RunsAreDrawn, VersionsExist, Stages
<1> QED
  BY <1>1, <1>2, <1>3, <1>4, <1>5, <1>6, <1>7

(* Taking the lock, and whatever goes wrong, keep types. *)
LEMMA TroubleType ==
  ASSUME TypeInv, NEW p \in Procs, AcquireLock(p) \/ Busy(p) \/ Trouble(p)
  PROVE  TypeInv'
<1> USE WorkTypes
<1>1. CASE AcquireLock(p)
  <2>1. next_run \in Runs /\ next_run' = next_run + 1 /\ next_run' \in 1 .. MaxRuns + 1
    BY <1>1, MaxRunsIsNat DEF AcquireLock, Runs
  <2>2. run' \in [Procs -> Runs \cup {0}] /\ RunsAreDrawn'
    BY <1>1, <2>1, MaxRunsIsNat
       DEF AcquireLock, TypeInv, TypeOK, RunsAreDrawn, Runs
  <2>3. outcome' \in [Procs -> Outcomes] /\ pc' \in [Procs -> Stages]
    BY <1>1 DEF AcquireLock, TypeInv, TypeOK, Outcomes, Stages
  <2> QED
    BY <1>1, <2>1, <2>2, <2>3
       DEF AcquireLock, TypeInv, TypeOK, ChunksFinite, PlansAreScanned,
           VersionsExist
<1>2. CASE Busy(p)
  BY <1>2 DEF Busy, TypeInv, TypeOK, ChunksFinite, PlansAreScanned,
       RunsAreDrawn, VersionsExist, Outcomes
<1>3. CASE AcquireFails(p)
  BY <1>3 DEF AcquireFails, TypeInv, TypeOK, ChunksFinite, PlansAreScanned,
       RunsAreDrawn, VersionsExist, Outcomes
<1>4. CASE Fault(p)
  BY <1>4 DEF Fault, TypeInv, TypeOK, ChunksFinite, PlansAreScanned,
       RunsAreDrawn, VersionsExist, Stages
<1>5. CASE CommitAckLost(p)
  BY <1>5 DEF CommitAckLost, Publish, TypeInv, TypeOK, ChunksFinite,
       PlansAreScanned, RunsAreDrawn, VersionsExist, Stages
<1>6. CASE UnlockFails(p)
  BY <1>6 DEF UnlockFails, TypeInv, TypeOK, ChunksFinite, PlansAreScanned,
       RunsAreDrawn, VersionsExist, Stages, Outcomes
<1>7. NoWork.scanned_at <= Len(history)
  BY SourceType DEF NoWork
<1>8. CASE RecordFailureFails(p)
  <2>1. outcome' \in [Procs -> Outcomes] /\ faults' \in Nat
    BY <1>8 DEF RecordFailureFails, Failed, Outcomes
  <2> QED
    BY <1>7, <1>8, <2>1, NoWorkType, StepFrame
       DEF RecordFailureFails, Failed, Stages
<1>9. CASE Crash(p)
  <2>1. outcome' \in [Procs -> Outcomes] /\ faults' \in Nat
    BY <1>9 DEF Crash, Outcomes
  <2>2. /\ db' \in Databases /\ IsFiniteSet(db'.chunks)
        /\ published' \in 0 .. Len(history)
    BY <1>9 DEF Crash, Publish
  <2> QED
    BY <1>7, <1>9, <2>1, <2>2, NoWorkType, StepFrame DEF Crash, Stages
<1> QED
  BY <1>1, <1>2, <1>3, <1>4, <1>5, <1>6, <1>8, <1>9 DEF Trouble

(* Every step keeps types. *)
LEMMA NextTypeInv == TypeInv /\ [Next]_vars => TypeInv'
<1> SUFFICES ASSUME TypeInv, [Next]_vars PROVE TypeInv'
  OBVIOUS
<1>1. CASE EditSource
  BY <1>1, EditType
<1>2. ASSUME NEW p \in Procs, AcquireLock(p) \/ Busy(p) \/ Trouble(p)
      PROVE  TypeInv'
  BY <1>2, TroubleType
<1>3. ASSUME NEW p \in Procs, Step(p)
      PROVE  TypeInv'
  BY <1>3, StageType, WritingType DEF Step
<1>4. CASE UNCHANGED vars
  BY <1>4 DEF vars, TypeInv, TypeOK, ChunksFinite, PlansAreScanned,
       RunsAreDrawn, VersionsExist
<1> QED
  BY <1>1, <1>2, <1>3, <1>4 DEF Next, Rest

(* The type invariant of SyncRuns, with the finiteness, the plan and the   *)
(* run ids it needs, holds of every run of the system.                     *)
THEOREM TypeInvariant == Spec => []TypeInv
<1>1. Init => TypeInv
  BY InitTypeInv
<1>2. TypeInv /\ [Next]_vars => TypeInv'
  BY NextTypeInv
<1> QED
  BY <1>1, <1>2, PTL DEF Spec

(* Every variable keeps its type, for any number of processes, documents,  *)
(* edits, runs and faults.                                                 *)
THEOREM TypeCorrect == Spec => []TypeOK
<1>1. TypeInv => TypeOK
  BY DEF TypeInv
<1> QED
  BY <1>1, TypeInvariant, PTL

-----------------------------------------------------------------------------
(* A row's id names its path, so no two rows share an id. *)
IdsNamePaths(documents) ==
  \A path \in Present(documents) : documents[path].id[2] = path

Undone(todo) == todo.new \cup todo.changed \cup todo.metadata_changed \cup todo.deleted

(* How far the plan of run r has been carried out: what is left is planned *)
(* against rows nobody has touched, and what is done agrees with the scan. *)
PlanHolds(w, r) ==
  /\ PlanIsScanned(w)
  /\ w.todo.new \cap Present(w.previous) = {}
  /\ w.todo.changed \cup w.todo.metadata_changed \subseteq Present(w.previous)
  /\ w.todo.deleted \subseteq Present(w.previous) \ Present(w.scanned)
  /\ w.todo.changed \cap w.todo.metadata_changed = {}
  /\ \A path \in w.todo.metadata_changed :
       w.previous[path].content_hash = w.scanned[path].content_hash
  /\ \A path \in Undone(w.todo) : w.txn.documents[path] = w.previous[path]
  /\ \A path \in Paths \ Undone(w.todo) :
       Hashes(w.txn.documents[path]) = w.scanned[path]
  /\ IdsNamePaths(w.txn.documents)
  /\ \A path \in Present(w.txn.documents) :
       \/ w.txn.documents[path].id[1] = r
       \/ /\ w.previous[path] # Absent
          /\ w.txn.documents[path].id = w.previous[path].id

-----------------------------------------------------------------------------
(* The plan holds when diff_source has just made it. *)
LEMMA PlanStarts ==
  ASSUME NEW w \in Work, NEW r, IdsNamePaths(w.previous),
         w.todo = diff_source(w.scanned, w.previous),
         w.txn.documents = w.previous
  PROVE  PlanHolds(w, r)
<1>1. w.scanned \in Scans /\ w.previous \in Documents
  BY DEF Work
<1>2. ASSUME NEW path \in Paths \ Undone(w.todo)
      PROVE  Hashes(w.txn.documents[path]) = w.scanned[path]
  <2>1. CASE path \in Present(w.scanned)
    <3>1. path \in Present(w.previous)
      BY <1>2, <2>1 DEF Undone, diff_source
    <3>2. /\ w.previous[path].content_hash = w.scanned[path].content_hash
          /\ w.previous[path].metadata_hash = w.scanned[path].metadata_hash
      BY <1>2, <2>1, <3>1 DEF Undone, diff_source
    <3>3. w.scanned[path] \in ScannedDocument
      BY <1>1, <2>1 DEF Present, Scans
    <3> QED
      BY <3>1, <3>2, <3>3 DEF Hashes, Present, ScannedDocument
  <2>2. CASE path \notin Present(w.scanned)
    BY <1>2, <2>2 DEF Undone, diff_source, Present, Hashes
  <2> QED
    BY <2>1, <2>2
<1>3. \A path \in w.todo.metadata_changed :
        w.previous[path].content_hash = w.scanned[path].content_hash
  BY DEF diff_source
<1>4. \A path \in Present(w.txn.documents) :
        w.previous[path] # Absent /\ w.txn.documents[path].id = w.previous[path].id
  BY DEF Present
<1> QED
  BY <1>1, <1>2, <1>3, <1>4, DiffPartitionsPaths
     DEF PlanHolds, PlanIsScanned, Undone

(* Rows with ids of their own paths have different ids. *)
LEMMA IdsDiffer ==
  ASSUME NEW documents, IdsNamePaths(documents), NEW path \in Paths,
         documents[path] # Absent
  PROVE  \A q \in Paths \ {path} :
           documents[q] # Absent => documents[q].id # documents[path].id
BY DEF IdsNamePaths, Present

(* The plan was carried out for one path: its row in the transaction is    *)
(* now "row", which agrees with the scan, and nothing else is different.   *)
Advances(w, new, r, path, row) ==
  /\ new.scanned = w.scanned
  /\ new.previous = w.previous
  /\ new.todo.new \subseteq w.todo.new
  /\ new.todo.changed \subseteq w.todo.changed
  /\ new.todo.metadata_changed \subseteq w.todo.metadata_changed
  /\ new.todo.deleted \subseteq w.todo.deleted
  /\ Undone(new.todo) = Undone(w.todo) \ {path}
  /\ new.txn.documents = [w.txn.documents EXCEPT ![path] = row]
  /\ Hashes(row) = w.scanned[path]
  /\ row # Absent =>
       /\ row.id[2] = path
       /\ \/ row.id[1] = r
          \/ w.previous[path] # Absent /\ row.id = w.previous[path].id

(* That leaves the rest of the plan as it was.                             *)
LEMMA PlanAdvances ==
  ASSUME NEW w \in Work, NEW new \in Work, NEW r, NEW path \in Paths, NEW row,
         PlanHolds(w, r), Advances(w, new, r, path, row)
  PROVE  PlanHolds(new, r)
<1> USE DEF Advances
<1>1. w.txn.documents \in Documents /\ new.todo \in Diffs /\ w.todo \in Diffs
  BY DEF Work, Databases
<1>2. new.txn.documents[path] = row
  BY <1>1 DEF Documents
<1>3. \A q \in Paths \ {path} : new.txn.documents[q] = w.txn.documents[q]
  BY <1>1 DEF Documents
<1>4. /\ PlanIsScanned(new)
      /\ new.todo.new \cap Present(new.previous) = {}
      /\ new.todo.changed \cup new.todo.metadata_changed \subseteq Present(new.previous)
      /\ new.todo.deleted \subseteq Present(new.previous) \ Present(new.scanned)
      /\ new.todo.changed \cap new.todo.metadata_changed = {}
  BY DEF PlanHolds, PlanIsScanned
<1>5. \A q \in new.todo.metadata_changed :
        new.previous[q].content_hash = new.scanned[q].content_hash
  BY DEF PlanHolds
<1>6. \A q \in Undone(new.todo) : new.txn.documents[q] = new.previous[q]
  <2>1. Undone(w.todo) \subseteq Paths
    BY <1>1 DEF Undone, Diffs
  <2> QED
    BY <1>3, <2>1 DEF PlanHolds
<1>7. \A q \in Paths \ Undone(new.todo) :
        Hashes(new.txn.documents[q]) = new.scanned[q]
  BY <1>2, <1>3 DEF PlanHolds
<1>8. IdsNamePaths(new.txn.documents)
  <2>1. \A q \in Paths : w.txn.documents[q] # Absent => w.txn.documents[q].id[2] = q
    BY DEF PlanHolds, IdsNamePaths, Present
  <2>2. row # Absent => row.id[2] = path
    OBVIOUS
  <2> HIDE DEF Advances
  <2> QED
    BY <1>2, <1>3, <2>1, <2>2 DEF IdsNamePaths, Present
<1>9. \A q \in Present(new.txn.documents) :
        \/ new.txn.documents[q].id[1] = r
        \/ /\ new.previous[q] # Absent
           /\ new.txn.documents[q].id = new.previous[q].id
  <2>1. \A q \in Present(w.txn.documents) :
          \/ w.txn.documents[q].id[1] = r
          \/ /\ w.previous[q] # Absent
             /\ w.txn.documents[q].id = w.previous[q].id
    BY DEF PlanHolds
  <2>2. row # Absent => \/ row.id[1] = r
                        \/ w.previous[path] # Absent /\ row.id = w.previous[path].id
    OBVIOUS
  <2>3. new.previous = w.previous
    OBVIOUS
  <2> HIDE DEF Advances
  <2> QED
    BY <1>2, <1>3, <2>1, <2>2, <2>3 DEF Present
<1> QED
  BY <1>4, <1>5, <1>6, <1>7, <1>8, <1>9 DEF PlanHolds

(* The categories of a plan that holds do not overlap. *)
LEMMA PlanDisjoint ==
  ASSUME NEW w \in Work, NEW r, PlanHolds(w, r)
  PROVE  /\ w.todo.metadata_changed \cap
              (w.todo.new \cup w.todo.changed \cup w.todo.deleted) = {}
         /\ w.todo.deleted \cap
              (w.todo.new \cup w.todo.changed \cup w.todo.metadata_changed) = {}
         /\ Undone(w.todo) \subseteq Paths
<1>1. w.todo \in Diffs
  BY DEF Work
<1>2. Undone(w.todo) \subseteq Paths
  BY <1>1 DEF Undone, Diffs
<1> QED
  BY <1>2 DEF PlanHolds, PlanIsScanned

(* Updating by the id that the row of a path has updates that row only.    *)
LEMMA UpdateOwnRow ==
  ASSUME NEW d \in Databases, IdsNamePaths(d.documents), NEW path \in Paths,
         NEW old, old # Absent, d.documents[path] = old, NEW hash \in Metas
  PROVE  update_document_metadata(d, old.id, hash).documents
           = [d.documents EXCEPT ![path] =
                [id |-> old.id, content_hash |-> old.content_hash,
                 metadata_hash |-> hash]]
<1>1. \A q \in Paths \ {path} :
        d.documents[q] # Absent => d.documents[q].id # d.documents[path].id
  BY IdsDiffer
<1>2. update_document_metadata(d, d.documents[path].id, hash).documents
        = [d.documents EXCEPT ![path] =
             [id |-> d.documents[path].id,
              content_hash |-> d.documents[path].content_hash,
              metadata_hash |-> hash]]
  BY <1>1, UpdateEffect
<1> QED
  BY <1>2

(* Updating the metadata of one path carries the plan on. *)
LEMMA PlanUpdate ==
  ASSUME NEW w \in Work, NEW new \in Work, NEW r, PlanHolds(w, r),
         NEW path \in w.todo.metadata_changed,
         new.scanned = w.scanned, new.previous = w.previous,
         new.todo = [w.todo EXCEPT !.metadata_changed = @ \ {path}],
         new.txn = update_document_metadata(w.txn, w.previous[path].id,
                                            w.scanned[path].metadata_hash)
  PROVE  PlanHolds(new, r)
<1> DEFINE row == w.txn.documents[path]
           item == w.scanned[path]
           newRow == [id |-> row.id, content_hash |-> row.content_hash,
                      metadata_hash |-> item.metadata_hash]
<1>1. /\ w.scanned \in Scans /\ w.previous \in Documents
      /\ w.txn \in Databases /\ w.txn.documents \in Documents /\ w.todo \in Diffs
  BY DEF Work, Databases
<1>2. path \in Paths /\ path \in Undone(w.todo)
  BY <1>1 DEF Diffs, Undone
<1>3. row = w.previous[path] /\ row # Absent /\ row \in DocumentState
  BY <1>1, <1>2 DEF PlanHolds, Present, Documents
<1>4. item \in ScannedDocument
  BY <1>1, <1>2 DEF PlanHolds, PlanIsScanned, Present, Scans
<1>5. item.metadata_hash \in Metas /\ IdsNamePaths(w.txn.documents)
  BY <1>4 DEF ScannedDocument, PlanHolds
<1>6. new.txn.documents = [w.txn.documents EXCEPT ![path] = newRow]
  <2> DEFINE updated ==
        update_document_metadata(w.txn, row.id, item.metadata_hash)
  <2>1. updated.documents = [w.txn.documents EXCEPT ![path] = newRow]
    BY <1>1, <1>2, <1>3, <1>5, UpdateOwnRow
  <2>2. new.txn = updated
    BY <1>3
  <2> HIDE DEF updated, newRow
  <2> QED
    BY <2>1, <2>2
<1>7. newRow \in DocumentState /\ newRow # Absent
  BY <1>3, <1>4, AbsentIsNoRow DEF DocumentState, ScannedDocument
<1>8. row.content_hash = item.content_hash
  BY <1>3 DEF PlanHolds
<1>9. Hashes(newRow) = item
  BY <1>4, <1>7, <1>8 DEF Hashes, ScannedDocument
<1>10. row.id[2] = path
  BY <1>2, <1>3 DEF PlanHolds, IdsNamePaths, Present
<1>11. /\ new.todo.new = w.todo.new /\ new.todo.changed = w.todo.changed
       /\ new.todo.deleted = w.todo.deleted
       /\ new.todo.metadata_changed = w.todo.metadata_changed \ {path}
  BY <1>1 DEF Diffs
<1>12. Undone(new.todo) = Undone(w.todo) \ {path}
  BY <1>11, PlanDisjoint DEF Undone
<1>13. newRow.id[2] = path /\ newRow.id = w.previous[path].id
  BY <1>3, <1>10
<1> HIDE DEF newRow
<1>14. Advances(w, new, r, path, newRow)
  BY <1>3, <1>6, <1>9, <1>11, <1>12, <1>13 DEF Advances
<1> QED
  BY <1>2, <1>14, PlanAdvances

(* Deleting by the id that the row of a path has deletes that row only.    *)
LEMMA DeleteOwnRow ==
  ASSUME NEW d \in Databases, IdsNamePaths(d.documents), NEW path \in Paths,
         NEW old, old # Absent, d.documents[path] = old
  PROVE  delete_document(d, old.id).documents = [d.documents EXCEPT ![path] = Absent]
<1>1. \A q \in Paths \ {path} :
        d.documents[q] # Absent => d.documents[q].id # d.documents[path].id
  BY IdsDiffer
<1>2. delete_document(d, d.documents[path].id).documents
        = [d.documents EXCEPT ![path] = Absent]
  BY <1>1, DeleteEffect
<1> QED
  BY <1>2

(* Deleting one document carries the plan on. *)
LEMMA PlanDelete ==
  ASSUME NEW w \in Work, NEW new \in Work, NEW r, PlanHolds(w, r),
         NEW path \in w.todo.deleted,
         new.scanned = w.scanned, new.previous = w.previous,
         new.todo = [w.todo EXCEPT !.deleted = @ \ {path}],
         new.txn = delete_document(w.txn, w.previous[path].id)
  PROVE  PlanHolds(new, r)
<1>1. /\ w.scanned \in Scans /\ w.previous \in Documents
      /\ w.txn \in Databases /\ w.txn.documents \in Documents /\ w.todo \in Diffs
  BY DEF Work, Databases
<1>2. path \in Paths /\ path \in Undone(w.todo)
  BY <1>1 DEF Diffs, Undone
<1>3. w.txn.documents[path] = w.previous[path] /\ w.previous[path] # Absent
  BY <1>2 DEF PlanHolds, Present
<1>4. w.scanned[path] = Absent
  BY <1>2 DEF PlanHolds, Present
<1>9. IdsNamePaths(w.txn.documents)
  BY DEF PlanHolds
<1>5. new.txn.documents = [w.txn.documents EXCEPT ![path] = Absent]
  BY <1>1, <1>2, <1>3, <1>9, DeleteOwnRow
<1>6. /\ new.todo.new = w.todo.new /\ new.todo.changed = w.todo.changed
      /\ new.todo.deleted = w.todo.deleted \ {path}
      /\ new.todo.metadata_changed = w.todo.metadata_changed
  BY <1>1 DEF Diffs
<1>7. Undone(new.todo) = Undone(w.todo) \ {path}
  BY <1>6, PlanDisjoint DEF Undone
<1>8. Hashes(Absent) = w.scanned[path]
  BY <1>4 DEF Hashes
<1>10. Advances(w, new, r, path, Absent)
  BY <1>5, <1>6, <1>7, <1>8 DEF Advances
<1> QED
  BY <1>2, <1>10, PlanAdvances

(* Storing one document carries the plan on. *)
Stores(w, new, r, path, content) ==
  /\ path \in w.todo.new \cup w.todo.changed
  /\ w.todo.metadata_changed = {} /\ w.todo.deleted = {}
  /\ new.scanned = w.scanned /\ new.previous = w.previous
  /\ new.todo = [w.todo EXCEPT !.new = @ \ {path}, !.changed = @ \ {path}]
  /\ new.txn = replace_document(DeletePrior(w.txn, w.previous[path]),
                                <<r, path>>, path, w.scanned[path], content)

LEMMA PlanStore ==
  ASSUME NEW w \in Work, NEW new \in Work, NEW r \in Runs, PlanHolds(w, r),
         NEW path, NEW content \in Contents, Stores(w, new, r, path, content)
  PROVE  PlanHolds(new, r)
<1> USE DEF Stores
<1> DEFINE item == w.scanned[path]
           id == <<r, path>>
           newRow == [id |-> id, content_hash |-> item.content_hash,
                      metadata_hash |-> item.metadata_hash]
           cleared == DeletePrior(w.txn, w.previous[path])
<1>1. /\ w.scanned \in Scans /\ w.previous \in Documents
      /\ w.txn \in Databases /\ w.txn.documents \in Documents /\ w.todo \in Diffs
  BY DEF Work, Databases
<1>2. path \in Paths /\ path \in Undone(w.todo)
  BY <1>1 DEF Diffs, Undone
<1>3. w.txn.documents[path] = w.previous[path]
  BY <1>2 DEF PlanHolds
<1>4. item \in ScannedDocument
  BY <1>1, <1>2 DEF PlanHolds, PlanIsScanned, Present, Scans
<1>5. /\ cleared \in Databases
      /\ cleared.documents = [w.txn.documents EXCEPT ![path] = Absent]
  <2>1. CASE w.previous[path] = Absent
    BY <1>1, <1>2, <1>3, <2>1 DEF DeletePrior, Documents
  <2>2. CASE w.previous[path] # Absent
    <3>1. IdsNamePaths(w.txn.documents)
      BY DEF PlanHolds
    <3>2. delete_document(w.txn, w.previous[path].id) \in Databases
      BY <1>1, DeleteType
    <3>3. delete_document(w.txn, w.previous[path].id).documents
            = [w.txn.documents EXCEPT ![path] = Absent]
      BY <1>1, <1>2, <1>3, <2>2, <3>1, DeleteOwnRow
    <3> QED
      BY <2>2, <3>2, <3>3 DEF DeletePrior
  <2> QED
    BY <2>1, <2>2
<1>6. new.txn.documents = [w.txn.documents EXCEPT ![path] = newRow]
  <2> DEFINE stored == replace_document(cleared, id, path, item, content)
  <2>1. stored.documents = [cleared.documents EXCEPT ![path] = newRow]
    <3> HIDE DEF cleared, item, id
    <3> QED
      BY <1>5 DEF replace_document, Databases
  <2> QED
    BY <1>1, <1>5, <2>1 DEF Documents
<1>7. newRow \in DocumentState /\ newRow # Absent
  BY <1>2, <1>4, AbsentIsNoRow DEF DocumentState, ScannedDocument, DocumentIds
<1>8. Hashes(newRow) = item
  BY <1>4, <1>7 DEF Hashes, ScannedDocument
<1>9. /\ new.todo.new = w.todo.new \ {path}
      /\ new.todo.changed = w.todo.changed \ {path}
      /\ new.todo.deleted = w.todo.deleted
      /\ new.todo.metadata_changed = w.todo.metadata_changed
  BY <1>1 DEF Diffs
<1>10. Undone(new.todo) = Undone(w.todo) \ {path}
  BY <1>9 DEF Undone
<1>11. newRow.id[2] = path /\ newRow.id[1] = r
  OBVIOUS
<1> HIDE DEF newRow
<1>12. Advances(w, new, r, path, newRow)
  BY <1>6, <1>8, <1>9, <1>10, <1>11 DEF Advances
<1> QED
  BY <1>2, <1>12, PlanAdvances

-----------------------------------------------------------------------------
InTransaction == {"writing", "committing"}

Over == {"idle", "failing", "unlocking"}

ScansAreVersions ==
  \A p \in Procs : pc[p] \in {"beginning", "writing", "committing"} =>
    work[p].scanned_at # 0 /\ work[p].scanned = history[work[p].scanned_at]

PlansHold ==
  \A p \in Procs : pc[p] \in InTransaction => PlanHolds(work[p], run[p])

PlansAreDone ==
  \A p \in Procs : pc[p] = "committing" =>
    /\ AllStored(work[p].todo)
    /\ work[p].txn.sync_runs[run[p]] # Absent
    /\ work[p].txn.sync_runs[run[p]].status = "succeeded"

RunsAreFresh ==
  /\ \A r \in Runs : r >= next_run => db.sync_runs[r] = Absent
  /\ \A p \in Procs : pc[p] \notin Over => db.sync_runs[run[p]] = Absent

(* What holds of the database and of the open transaction. *)
DataInv ==
  /\ TransactionIsolated
  /\ IdsNamePaths(db.documents)
  /\ DocumentsComeFromSucceededRuns
  /\ CorpusIsPublishedScan
  /\ ScansAreVersions
  /\ PlansHold
  /\ PlansAreDone
  /\ RunsAreFresh

SyncInv == TypeInv /\ OneWriter /\ DataInv

(* The lock is taken when a process enters and free when it leaves.        *)
LEMMA NextOneWriter ==
  ASSUME TypeInv, OneWriter, [Next]_vars
  PROVE  OneWriter'
<1>1. CASE EditSource
  BY <1>1 DEF EditSource, OneWriter
<1>2. ASSUME NEW p \in Procs, AcquireLock(p) PROVE OneWriter'
  BY <1>2, NoProcIsNoProcess DEF AcquireLock, LockIsFree, OneWriter, TypeInv, TypeOK
<1>3. ASSUME NEW p \in Procs, Busy(p) \/ AcquireFails(p) PROVE OneWriter'
  BY <1>3 DEF Busy, AcquireFails, OneWriter
<1>4. ASSUME NEW p \in Procs, Unlock(p) \/ UnlockFails(p) \/ Crash(p)
      PROVE  OneWriter'
  BY <1>4, NoProcIsNoProcess
     DEF Unlock, UnlockFails, Crash, OneWriter, TypeInv, TypeOK
<1>5. ASSUME NEW p \in Procs,
             \/ Scan(p) \/ BeginTransaction(p) \/ RecordRun(p) \/ Commit(p)
             \/ CommitAckLost(p) \/ Fault(p) \/ RecordFailure(p)
             \/ RecordFailureFails(p)
      PROVE  OneWriter'
  BY <1>5 DEF Scan, BeginTransaction, RecordRun, Commit, CommitAckLost, Fault,
       RecordFailure, RecordFailureFails, Failed, OneWriter, TypeInv, TypeOK
<1>6. ASSUME NEW p \in Procs, NEW path \in Paths,
             \/ UpdateMetadata(p, path) \/ DeleteDocument(p, path)
             \/ StoreDocument(p, path) \/ LoadFails(p, path)
      PROVE  OneWriter'
  BY <1>6 DEF UpdateMetadata, DeleteDocument, StoreDocument, LoadFails,
       OneWriter, TypeInv, TypeOK
<1>7. CASE UNCHANGED vars
  BY <1>7 DEF vars, OneWriter
<1> QED
  BY <1>1, <1>2, <1>3, <1>4, <1>5, <1>6, <1>7 DEF Next, Step, Trouble, Rest

(* Only one process is anywhere else than at rest. *)
LEMMA OthersAreIdle ==
  ASSUME OneWriter, NEW p \in Procs, pc[p] # "idle"
  PROVE  \A q \in Procs \ {p} : pc[q] = "idle"
BY DEF OneWriter

(* A process that gives up, or is done, changes nothing that matters.      *)
LEMMA QuitKeepsData ==
  ASSUME TypeInv, OneWriter, DataInv, NEW p \in Procs, NEW stage \in Over,
         pc' = [pc EXCEPT ![p] = stage],
         \A q \in Procs \ {p} : work'[q] = work[q],
         UNCHANGED <<history, db, run, next_run, published>>
  PROVE  DataInv'
<1>1. \A q \in Procs : pc'[q] \notin Over =>
        q # p /\ pc'[q] = pc[q] /\ work'[q] = work[q]
  BY DEF TypeInv, TypeOK
<1> QED
  BY <1>1 DEF DataInv, TransactionIsolated, DocumentsComeFromSucceededRuns,
       CorpusIsPublishedScan, PublishedScan, ScansAreVersions, PlansHold,
       PlansAreDone, RunsAreFresh, InTransaction, Over

(* A step of a loop that carries the plan on.                              *)
LEMMA LoopKeepsData ==
  ASSUME TypeInv, OneWriter, DataInv, NEW p \in Procs, NEW new \in Work,
         pc[p] = "writing",
         work' = [work EXCEPT ![p] = new],
         PlanHolds(new, run[p]),
         new.scanned = work[p].scanned, new.scanned_at = work[p].scanned_at,
         new.previous = work[p].previous,
         new.txn.sync_runs = work[p].txn.sync_runs,
         UNCHANGED <<history, db, pc, run, next_run, published>>
  PROVE  DataInv'
<1>1. work'[p] = new /\ \A q \in Procs \ {p} : work'[q] = work[q]
  BY DEF TypeInv, TypeOK
<1>2. TransactionIsolated' /\ ScansAreVersions' /\ PlansHold' /\ PlansAreDone'
  BY <1>1 DEF DataInv, TransactionIsolated, ScansAreVersions, PlansHold,
       PlansAreDone, InTransaction
<1> QED
  BY <1>2 DEF DataInv, DocumentsComeFromSucceededRuns, CorpusIsPublishedScan,
       PublishedScan, RunsAreFresh

(* A plan that is done has made the rows equal to the scan.                *)
LEMMA PlanDone ==
  ASSUME NEW w \in Work, NEW r, PlanHolds(w, r), AllStored(w.todo)
  PROVE  Corpus(w.txn) = w.scanned
<1>1. Undone(w.todo) = {}
  BY DEF Undone, AllStored
<1>2. \A path \in Paths : Hashes(w.txn.documents[path]) = w.scanned[path]
  BY <1>1 DEF PlanHolds
<1>3. w.scanned \in Scans
  BY DEF Work
<1> QED
  BY <1>2, <1>3 DEF Corpus, Scans

(* Committing the transaction: a new scan is published, in full.           *)
LEMMA PublishKeepsData ==
  ASSUME TypeInv, OneWriter, DataInv, NEW p \in Procs, NEW stage \in Over,
         pc[p] = "committing",
         Publish(p),
         pc' = [pc EXCEPT ![p] = stage],
         \A q \in Procs \ {p} : work'[q] = work[q],
         UNCHANGED <<history, run, next_run>>
  PROVE  DataInv'
<1> DEFINE w == work[p]
<1>1. /\ w \in Work /\ w.txn \in Databases /\ db \in Databases
      /\ run[p] \in Runs /\ w.txn.documents \in Documents
      /\ db.documents \in Documents
  BY WorkTypes DEF Databases
<1>2. \A q \in Procs : pc'[q] \in Over
  BY OthersAreIdle DEF TypeInv, TypeOK, Over
<1>3. PlanHolds(w, run[p]) /\ AllStored(w.todo)
  BY DEF DataInv, PlansHold, PlansAreDone, InTransaction
<1>4. IdsNamePaths(db'.documents)
  BY <1>3 DEF PlanHolds, Publish
<1>5. CorpusIsPublishedScan'
  <2>1. w.scanned_at # 0 /\ w.scanned = history[w.scanned_at]
    BY DEF DataInv, ScansAreVersions
  <2>2. Corpus(w.txn) = w.scanned
    BY <1>1, <1>3, PlanDone
  <2> QED
    BY <2>1, <2>2 DEF CorpusIsPublishedScan, PublishedScan, Publish
<1>6. /\ w.previous = db.documents
      /\ \A r \in Runs \ {run[p]} : w.txn.sync_runs[r] = db.sync_runs[r]
      /\ db.sync_runs[run[p]] = Absent
      /\ w.txn.sync_runs[run[p]] # Absent
      /\ w.txn.sync_runs[run[p]].status = "succeeded"
  BY DEF DataInv, TransactionIsolated, RunsAreFresh, PlansAreDone, Over
<1>7. DocumentsComeFromSucceededRuns'
  <2> SUFFICES ASSUME NEW path \in Present(w.txn.documents)
               PROVE  /\ w.txn.sync_runs[w.txn.documents[path].id[1]] # Absent
                      /\ w.txn.sync_runs[w.txn.documents[path].id[1]].status
                           = "succeeded"
    BY DEF DocumentsComeFromSucceededRuns, Publish
  <2>1. CASE w.txn.documents[path].id[1] = run[p]
    BY <1>6, <2>1
  <2>2. CASE /\ w.previous[path] # Absent
             /\ w.txn.documents[path].id = w.previous[path].id
    <3> DEFINE r == db.documents[path].id[1]
    <3>1. path \in Present(db.documents) /\ w.txn.documents[path].id[1] = r
      BY <1>6, <2>2 DEF Present
    <3>2. db.sync_runs[r] # Absent /\ db.sync_runs[r].status = "succeeded"
      BY <3>1 DEF DataInv, DocumentsComeFromSucceededRuns
    <3>3. r \in Runs
      <4>1. db.documents[path] \in DocumentState
        BY <1>1, <3>1 DEF Documents, Present
      <4> QED
        BY <4>1 DEF DocumentState, DocumentIds
    <3>4. r # run[p]
      BY <1>6, <3>2
    <3> QED
      BY <1>6, <3>1, <3>2, <3>3, <3>4
  <2> QED
    <3>1. \/ w.txn.documents[path].id[1] = run[p]
          \/ /\ w.previous[path] # Absent
             /\ w.txn.documents[path].id = w.previous[path].id
      BY <1>3 DEF PlanHolds
    <3> QED
      BY <2>1, <2>2, <3>1
<1>8. RunsAreFresh'
  <2>1. ASSUME NEW r \in Runs, r >= next_run PROVE db'.sync_runs[r] = Absent
    <3>1. run[p] < next_run
      BY DEF TypeInv, TypeOK, RunsAreDrawn, Runs
    <3>2. r # run[p] /\ db.sync_runs[r] = Absent
      BY <2>1, <3>1, <1>1, MaxRunsIsNat DEF DataInv, RunsAreFresh, Runs, TypeInv, TypeOK
    <3> QED
      BY <1>6, <3>2 DEF Publish
  <2> QED
    BY <1>2, <2>1 DEF RunsAreFresh
<1>9. TransactionIsolated' /\ ScansAreVersions' /\ PlansHold' /\ PlansAreDone'
  BY <1>2 DEF TransactionIsolated, ScansAreVersions, PlansHold, PlansAreDone,
       InTransaction, Over
<1> QED
  BY <1>4, <1>5, <1>7, <1>8, <1>9 DEF DataInv

(* An edit adds a version and leaves the earlier ones as they were.        *)
LEMMA EditKeepsData ==
  ASSUME TypeInv, OneWriter, DataInv, EditSource
  PROVE  DataInv'
<1>1. \A i \in 1 .. Len(history) : history'[i] = history[i]
  <2>1. PICK path \in Paths, item \in ScannedDocument \cup {Absent} :
          history' = Append(history, [source EXCEPT ![path] = item])
    BY DEF EditSource
  <2> QED
    BY <2>1 DEF TypeInv, TypeOK
<1>2. CorpusIsPublishedScan'
  BY <1>1 DEF EditSource, DataInv, CorpusIsPublishedScan, PublishedScan, TypeInv, TypeOK
<1>3. ScansAreVersions'
  BY <1>1, WorkTypes DEF EditSource, DataInv, ScansAreVersions
<1> QED
  BY <1>2, <1>3
     DEF EditSource, DataInv, TransactionIsolated, DocumentsComeFromSucceededRuns,
         PlansHold, PlansAreDone, RunsAreFresh

(* Entering: the run is new to the ledger. *)
LEMMA AcquireKeepsData ==
  ASSUME TypeInv, OneWriter, DataInv, NEW p \in Procs, AcquireLock(p)
  PROVE  DataInv'
<1>1. lock = NoProc /\ \A q \in Procs : pc[q] = "idle"
  BY NoProcIsNoProcess DEF AcquireLock, LockIsFree, OneWriter
<1>2. /\ pc'[p] = "scanning" /\ run'[p] = next_run
      /\ \A q \in Procs \ {p} : pc'[q] = "idle"
  BY <1>1 DEF AcquireLock, TypeInv, TypeOK
<1>3. RunsAreFresh'
  <2>1. next_run \in Runs /\ next_run' = next_run + 1 /\ next_run \in Nat
    BY MaxRunsIsNat DEF AcquireLock, Runs
  <2>2. \A r \in Runs : r >= next_run' => r >= next_run
    BY <2>1, MaxRunsIsNat DEF Runs
  <2> QED
    BY <1>2, <2>1, <2>2 DEF AcquireLock, DataInv, RunsAreFresh, Over
<1> QED
  BY <1>2, <1>3
     DEF AcquireLock, DataInv, TransactionIsolated, DocumentsComeFromSucceededRuns,
         CorpusIsPublishedScan, PublishedScan, ScansAreVersions, PlansHold,
         PlansAreDone, InTransaction

(* Scanning describes the current version.                                 *)
LEMMA ScanKeepsData ==
  ASSUME TypeInv, OneWriter, DataInv, NEW p \in Procs, Scan(p)
  PROVE  DataInv'
<1>1. \A q \in Procs \ {p} : pc[q] = "idle" /\ pc'[q] = "idle"
  BY OthersAreIdle DEF Scan, TypeInv, TypeOK
<1>2. /\ pc'[p] = "beginning"
      /\ work'[p].scanned = source /\ work'[p].scanned_at = Len(history)
  BY WorkTypes DEF Scan, TypeInv, TypeOK, Work
<1>3. ScansAreVersions'
  BY <1>1, <1>2, SourceType DEF ScansAreVersions, Scan, source
<1>4. RunsAreFresh'
  BY <1>1, <1>2 DEF Scan, DataInv, RunsAreFresh, Over
<1> QED
  BY <1>1, <1>2, <1>3, <1>4
     DEF Scan, DataInv, TransactionIsolated, DocumentsComeFromSucceededRuns,
         CorpusIsPublishedScan, PublishedScan, PlansHold, PlansAreDone,
         InTransaction

(* Making the plan. *)
LEMMA BeginKeepsData ==
  ASSUME TypeInv, OneWriter, DataInv, TypeInv', NEW p \in Procs,
         BeginTransaction(p)
  PROVE  DataInv'
<1> DEFINE w == work[p]
           new == work'[p]
<1>1. \A q \in Procs \ {p} : pc[q] = "idle" /\ pc'[q] = "idle"
  BY OthersAreIdle DEF BeginTransaction, TypeInv, TypeOK
<1>2. w \in Work /\ new \in Work /\ pc'[p] = "writing" /\ pc[p] = "beginning"
  BY DEF BeginTransaction, TypeInv, TypeOK
<1>3. /\ new.scanned = w.scanned /\ new.scanned_at = w.scanned_at
      /\ new.previous = db.documents /\ new.txn = db
      /\ new.todo = diff_source(new.scanned, new.previous)
  BY <1>2 DEF BeginTransaction, document_states, Work, TypeInv, TypeOK
<1>4. PlanHolds(new, run[p])
  BY <1>2, <1>3, PlanStarts DEF DataInv
<1>7. UNCHANGED <<history, db, run>>
  BY DEF BeginTransaction
<1> HIDE DEF new
<1>8. TransactionIsolated' /\ PlansHold' /\ PlansAreDone'
  BY <1>1, <1>2, <1>3, <1>4, <1>7
     DEF new, TransactionIsolated, PlansHold, PlansAreDone, InTransaction
<1>9. w.scanned_at # 0 /\ w.scanned = history[w.scanned_at]
  BY <1>2 DEF DataInv, ScansAreVersions
<1>5. ScansAreVersions'
  BY <1>1, <1>3, <1>7, <1>9 DEF new, ScansAreVersions
<1>6. RunsAreFresh'
  BY <1>1, <1>2 DEF BeginTransaction, DataInv, RunsAreFresh, Over
<1> QED
  BY <1>5, <1>6, <1>8
     DEF BeginTransaction, DataInv, DocumentsComeFromSucceededRuns,
         CorpusIsPublishedScan, PublishedScan

(* What one metadata update changes in the work of its process.            *)
LEMMA UpdateFields ==
  ASSUME TypeInv, NEW p \in Procs, NEW path \in Paths,
         UpdateMetadata(p, path),
         HasDocument(work[p].txn, work[p].previous[path].id)
  PROVE  LET w == work[p]
             new == work'[p]
         IN  /\ path \in w.todo.metadata_changed
             /\ new.scanned = w.scanned /\ new.scanned_at = w.scanned_at
             /\ new.previous = w.previous /\ new.tally = w.tally
             /\ new.todo = [w.todo EXCEPT !.metadata_changed = @ \ {path}]
             /\ new.txn = update_document_metadata(w.txn, w.previous[path].id,
                            w.scanned[path].metadata_hash)
             /\ work' = [work EXCEPT ![p] = new]
<1>1. work[p] \in Work
  BY WorkTypes
<1> QED
  BY <1>1 DEF UpdateMetadata, TypeInv, TypeOK, Work

(* What one deletion changes.                                              *)
LEMMA DeleteFields ==
  ASSUME TypeInv, NEW p \in Procs, NEW path \in Paths, DeleteDocument(p, path)
  PROVE  LET w == work[p]
             new == work'[p]
             id == w.previous[path].id
         IN  /\ path \in w.todo.deleted
             /\ new.scanned = w.scanned /\ new.scanned_at = w.scanned_at
             /\ new.previous = w.previous
             /\ new.tally = CountDeleted(w.tally, w.txn, id)
             /\ new.todo = [w.todo EXCEPT !.deleted = @ \ {path}]
             /\ new.txn = delete_document(w.txn, id)
             /\ work' = [work EXCEPT ![p] = new]
<1>1. work[p] \in Work
  BY WorkTypes
<1> QED
  BY <1>1 DEF DeleteDocument, TypeInv, TypeOK, Work

(* What loading and storing one document changes.                          *)
LEMMA StoreFields ==
  ASSUME TypeInv, NEW p \in Procs, NEW path \in Paths, StoreDocument(p, path)
  PROVE  LET w == work[p]
             new == work'[p]
             content == source[path].content_hash
         IN  /\ Stores(w, new, run[p], path, content)
             /\ new.scanned_at = w.scanned_at
             /\ new.tally = CountEmbedded(
                              CountPrior(w.tally, w.txn, w.previous[path]), content)
             /\ work' = [work EXCEPT ![p] = new]
             /\ content \in Contents
             /\ VerifyOnLoad => content = w.scanned[path].content_hash
<1> DEFINE w == work[p]
           new == work'[p]
           content == source[path].content_hash
           txn == replace_document(DeletePrior(w.txn, w.previous[path]),
                                   <<run[p], path>>, path, w.scanned[path], content)
           tally == CountEmbedded(
                      CountPrior(w.tally, w.txn, w.previous[path]), content)
           next == [w EXCEPT !.todo.new = @ \ {path},
                             !.todo.changed = @ \ {path},
                             !.txn = txn, !.tally = tally]
<1> SUFFICES /\ Stores(w, new, run[p], path, content)
             /\ new.scanned_at = w.scanned_at
             /\ new.tally = tally
             /\ work' = [work EXCEPT ![p] = new]
             /\ content \in Contents
             /\ VerifyOnLoad => content = w.scanned[path].content_hash
  OBVIOUS
<1>1. work' = [work EXCEPT ![p] = next]
  BY DEF StoreDocument
<1>2. new = next /\ work' = [work EXCEPT ![p] = new]
  <2> HIDE DEF next
  <2> QED
    BY <1>1 DEF TypeInv, TypeOK
<1>3. w \in Work
  BY WorkTypes
<1>4. /\ path \in w.todo.new \cup w.todo.changed
      /\ w.todo.metadata_changed = {} /\ w.todo.deleted = {}
  BY DEF StoreDocument, NextToStore
<1>5. /\ content \in Contents
      /\ VerifyOnLoad => content = w.scanned[path].content_hash
  BY SourceType DEF StoreDocument, CanLoad, Scans, ScannedDocument
<1>6. next.txn = txn /\ next.tally = tally
  <2> HIDE DEF txn, tally
  <2> QED
    BY <1>3 DEF Work
<1> HIDE DEF txn, tally
<1>7. /\ next.scanned = w.scanned /\ next.scanned_at = w.scanned_at
      /\ next.previous = w.previous
  BY <1>3 DEF Work
<1>8. next.todo = [w.todo EXCEPT !.new = @ \ {path}, !.changed = @ \ {path}]
  BY <1>3 DEF Work
<1> HIDE DEF next, w, new, content
<1>9. Stores(w, new, run[p], path, content)
  BY <1>2, <1>4, <1>6, <1>7, <1>8 DEF Stores, txn
<1>10. new.scanned_at = w.scanned_at /\ new.tally = tally
  BY <1>2, <1>6, <1>7
<1>11. work' = [work EXCEPT ![p] = new]
  BY <1>2
<1> QED
  BY <1>5, <1>9, <1>10, <1>11

(* The loops carry out the plan.                                           *)
LEMMA WritingKeepsData ==
  ASSUME TypeInv, OneWriter, DataInv, TypeInv', NEW p \in Procs,
         NEW path \in Paths,
         \/ UpdateMetadata(p, path) \/ DeleteDocument(p, path)
         \/ StoreDocument(p, path) \/ LoadFails(p, path)
  PROVE  DataInv'
<1> DEFINE w == work[p]
           new == work'[p]
           id == w.previous[path].id
<1>1. pc[p] = "writing" /\ PlanHolds(w, run[p]) /\ run[p] \in Runs
  BY WorkTypes DEF UpdateMetadata, DeleteDocument, StoreDocument, LoadFails, DataInv,
       PlansHold, InTransaction
<1>2. w \in Work /\ new \in Work /\ w.txn \in Databases /\ w.scanned \in Scans
  BY WorkTypes DEF TypeInv, TypeOK
<1>3. CASE UpdateMetadata(p, path) /\ HasDocument(w.txn, id)
  <2>1. /\ path \in w.todo.metadata_changed
        /\ new.scanned = w.scanned /\ new.scanned_at = w.scanned_at
        /\ new.previous = w.previous
        /\ new.todo = [w.todo EXCEPT !.metadata_changed = @ \ {path}]
        /\ new.txn = update_document_metadata(w.txn, id,
                       w.scanned[path].metadata_hash)
        /\ work' = [work EXCEPT ![p] = new]
    BY <1>3, UpdateFields
  <2>2. PlanHolds(new, run[p])
    BY <1>1, <1>2, <2>1, PlanUpdate
  <2>3. new.txn.sync_runs = w.txn.sync_runs
    BY <1>2, <2>1 DEF update_document_metadata, Databases
  <2> QED
    BY <1>1, <1>2, <1>3, <2>1, <2>2, <2>3, LoopKeepsData DEF UpdateMetadata
<1>4. CASE DeleteDocument(p, path)
  <2>1. /\ path \in w.todo.deleted
        /\ new.scanned = w.scanned /\ new.scanned_at = w.scanned_at
        /\ new.previous = w.previous
        /\ new.todo = [w.todo EXCEPT !.deleted = @ \ {path}]
        /\ new.txn = delete_document(w.txn, id)
        /\ work' = [work EXCEPT ![p] = new]
    BY <1>4, DeleteFields
  <2>2. PlanHolds(new, run[p])
    BY <1>1, <1>2, <2>1, PlanDelete
  <2>3. new.txn.sync_runs = w.txn.sync_runs
    BY <1>2, <2>1 DEF delete_document, Databases
  <2> QED
    BY <1>1, <1>2, <1>4, <2>1, <2>2, <2>3, LoopKeepsData DEF DeleteDocument
<1>5. CASE StoreDocument(p, path)
  <2> DEFINE content == source[path].content_hash
             cleared == DeletePrior(w.txn, w.previous[path])
  <2>1. /\ Stores(w, new, run[p], path, content)
        /\ new.scanned_at = w.scanned_at
        /\ work' = [work EXCEPT ![p] = new]
        /\ content \in Contents
    BY <1>5, StoreFields
  <2> HIDE DEF content
  <2>2. /\ new.scanned = w.scanned /\ new.previous = w.previous
        /\ new.txn = replace_document(cleared, <<run[p], path>>, path,
                                      w.scanned[path], content)
    BY <2>1 DEF Stores
  <2>3. PlanHolds(new, run[p])
    <3> HIDE DEF w, new
    <3> QED
      BY <1>1, <1>2, <2>1, PlanStore
  <2>4. cleared \in Databases /\ cleared.sync_runs = w.txn.sync_runs
    <3>1. delete_document(w.txn, id) \in Databases
      BY <1>2, DeleteType
    <3>2. delete_document(w.txn, id).sync_runs = w.txn.sync_runs
      BY <1>2 DEF delete_document, Databases
    <3> QED
      BY <1>2, <3>1, <3>2 DEF DeletePrior
  <2>5. new.txn.sync_runs = w.txn.sync_runs
    <3> HIDE DEF cleared
    <3> QED
      BY <2>2, <2>4 DEF replace_document, Databases
  <2> QED
    BY <1>1, <1>2, <1>5, <2>1, <2>2, <2>3, <2>5, LoopKeepsData DEF StoreDocument
<1>6. CASE LoadFails(p, path) \/ (UpdateMetadata(p, path) /\ ~HasDocument(w.txn, id))
  BY <1>6, QuitKeepsData DEF LoadFails, UpdateMetadata, Over
<1> QED
  BY <1>3, <1>4, <1>5, <1>6

(* The succeeded run is recorded next to the documents, which stay.        *)
LEMMA RecordRunKeepsData ==
  ASSUME TypeInv, OneWriter, DataInv, TypeInv', NEW p \in Procs, RecordRun(p)
  PROVE  DataInv'
<1> DEFINE w == work[p]
           new == work'[p]
<1>1. CASE CanRecord(w.txn, run[p])
  <2>1. /\ w \in Work /\ new \in Work /\ w.txn \in Databases
        /\ pc[p] = "writing" /\ AllStored(w.todo) /\ run[p] \in Runs
        /\ PlanHolds(w, run[p])
    BY WorkTypes DEF RecordRun, TypeInv, TypeOK, DataInv, PlansHold, InTransaction
  <2>2. /\ new = [w EXCEPT !.txn =
                    record_run(w.txn, run[p], "succeeded", w.tally)]
        /\ pc'[p] = "committing"
        /\ \A q \in Procs \ {p} : pc'[q] = "idle"
    BY <1>1, OthersAreIdle DEF RecordRun, TypeInv, TypeOK
  <2> DEFINE txn == record_run(w.txn, run[p], "succeeded", w.tally)
  <2>3. /\ txn.documents = w.txn.documents
        /\ txn.sync_runs = [w.txn.sync_runs EXCEPT ![run[p]] =
                              [status |-> "succeeded", tally |-> w.tally]]
    BY <2>1 DEF record_run, Databases
  <2> HIDE DEF txn
  <2>4. /\ new.scanned = w.scanned /\ new.scanned_at = w.scanned_at
        /\ new.previous = w.previous /\ new.todo = w.todo /\ new.txn = txn
    BY <2>1, <2>2 DEF Work, txn
  <2>5. /\ txn.sync_runs[run[p]] = [status |-> "succeeded", tally |-> w.tally]
        /\ txn.sync_runs[run[p]] # Absent
        /\ \A r \in Runs \ {run[p]} : txn.sync_runs[r] = w.txn.sync_runs[r]
    <3>1. txn.sync_runs[run[p]] = [status |-> "succeeded", tally |-> w.tally]
      BY <2>1, <2>3 DEF Databases
    <3>2. txn.sync_runs[run[p]] \in RunRow
      BY <3>1, WorkTypes DEF RunRow, Statuses
    <3> QED
      BY <2>1, <2>3, <3>1, <3>2, AbsentIsNoRow DEF Databases
  <2> HIDE DEF w, new
  <2>6. UNCHANGED <<history, db, run, next_run, published>>
    BY DEF RecordRun
  <2>7. PlanHolds(new, run[p])
    BY <2>1, <2>3, <2>4 DEF PlanHolds, PlanIsScanned
  <2>8. PlansHold'
    BY <2>2, <2>6, <2>7 DEF PlansHold, InTransaction, new
  <2>12. PlansAreDone'
    <3>1. /\ AllStored(new.todo)
          /\ new.txn.sync_runs[run[p]] # Absent
          /\ new.txn.sync_runs[run[p]].status = "succeeded"
      BY <2>1, <2>4, <2>5
    <3>2. \A q \in Procs : pc'[q] = "committing" => q = p
      BY <2>2
    <3> QED
      BY <2>6, <3>1, <3>2 DEF PlansAreDone, new
  <2>9. TransactionIsolated'
    <3>1. /\ w.previous = db.documents
          /\ \A r \in Runs \ {run[p]} : w.txn.sync_runs[r] = db.sync_runs[r]
      BY <2>1 DEF DataInv, TransactionIsolated, w
    <3>2. /\ new.previous = db.documents
          /\ \A r \in Runs \ {run[p]} : new.txn.sync_runs[r] = db.sync_runs[r]
      BY <2>4, <2>5, <3>1
    <3>3. \A q \in Procs \ {p} : pc'[q] \notin {"writing", "committing"}
      BY <2>2
    <3> QED
      BY <2>6, <3>2, <3>3 DEF TransactionIsolated, new
  <2>10. ScansAreVersions'
    <3>1. w.scanned_at # 0 /\ w.scanned = history[w.scanned_at]
      BY <2>1 DEF DataInv, ScansAreVersions, w
    <3> QED
      BY <2>2, <2>4, <2>6, <3>1 DEF ScansAreVersions, new
  <2>11. RunsAreFresh'
    BY <2>1, <2>2, <2>6 DEF DataInv, RunsAreFresh, Over
  <2> QED
    BY <2>6, <2>8, <2>9, <2>10, <2>11, <2>12
       DEF DataInv, DocumentsComeFromSucceededRuns, CorpusIsPublishedScan,
           PublishedScan
<1>2. CASE ~CanRecord(w.txn, run[p])
  BY <1>2, QuitKeepsData DEF RecordRun, Over
<1> QED
  BY <1>1, <1>2

(* A failed run is recorded on its own; no document came from it.          *)
LEMMA RecordFailureKeepsData ==
  ASSUME TypeInv, OneWriter, DataInv, NEW p \in Procs, RecordFailure(p)
  PROVE  DataInv'
<1>1. \A q \in Procs : pc'[q] \in Over
  BY OthersAreIdle DEF RecordFailure, Failed, TypeInv, TypeOK, Over
<1>2. CASE CanRecord(db, run[p])
  <2> DEFINE row == [status |-> "failed", tally |-> FailedTally(work[p].tally)]
  <2>1. db \in Databases /\ run[p] \in Runs /\ run[p] < next_run
    BY WorkTypes, MaxRunsIsNat
       DEF RecordFailure, TypeInv, TypeOK, RunsAreDrawn, Runs
  <2>2. /\ db'.documents = db.documents
        /\ db'.sync_runs = [db.sync_runs EXCEPT ![run[p]] = row]
    BY <1>2, <2>1 DEF RecordFailure, record_run, Databases
  <2> HIDE DEF row
  <2>3. \A r \in Runs \ {run[p]} : db'.sync_runs[r] = db.sync_runs[r]
    BY <2>1, <2>2 DEF Databases
  <2>4. UNCHANGED <<history, run, next_run, published>>
    BY DEF RecordFailure
  <2>5. DocumentsComeFromSucceededRuns'
    <3> SUFFICES ASSUME NEW path \in Present(db.documents)
                 PROVE  LET r == db.documents[path].id[1]
                        IN  db'.sync_runs[r] # Absent
                              /\ db'.sync_runs[r].status = "succeeded"
      BY <2>2 DEF DocumentsComeFromSucceededRuns
    <3> DEFINE r == db.documents[path].id[1]
    <3>1. db.sync_runs[r] # Absent /\ db.sync_runs[r].status = "succeeded"
      BY DEF DataInv, DocumentsComeFromSucceededRuns
    <3>2. r \in Runs
      <4>1. db.documents[path] \in DocumentState
        BY <2>1 DEF Databases, Documents, Present
      <4> QED
        BY <4>1 DEF DocumentState, DocumentIds
    <3>3. r # run[p]
      BY <1>2, <3>1 DEF CanRecord
    <3> QED
      BY <2>3, <3>1, <3>2, <3>3
  <2>6. RunsAreFresh'
    <3>1. \A r \in Runs : r >= next_run => r # run[p]
      BY <2>1, MaxRunsIsNat DEF Runs, TypeInv, TypeOK
    <3> QED
      BY <1>1, <2>3, <2>4, <3>1 DEF DataInv, RunsAreFresh
  <2>7. TransactionIsolated' /\ ScansAreVersions' /\ PlansHold' /\ PlansAreDone'
    BY <1>1 DEF TransactionIsolated, ScansAreVersions, PlansHold,
         PlansAreDone, InTransaction, Over
  <2>8. CorpusIsPublishedScan' /\ IdsNamePaths(db.documents)'
    BY <2>2, <2>4 DEF DataInv, CorpusIsPublishedScan, PublishedScan, Corpus,
         IdsNamePaths
  <2> QED
    BY <2>5, <2>6, <2>7, <2>8 DEF DataInv
<1>3. CASE ~CanRecord(db, run[p])
  <2>1. \A q \in Procs \ {p} : work'[q] = work[q]
    BY DEF RecordFailure, Failed, TypeInv, TypeOK
  <2> QED
    BY <1>3, <2>1, QuitKeepsData DEF RecordFailure, Failed, Over
<1> QED
  BY <1>2, <1>3

(* What goes wrong leaves the rows alone, or has them all committed.       *)
LEMMA TroubleKeepsData ==
  ASSUME TypeInv, OneWriter, DataInv, NEW p \in Procs, Trouble(p) \/ Unlock(p)
  PROVE  DataInv'
<1>1. CASE AcquireFails(p)
  BY <1>1 DEF AcquireFails, DataInv, TransactionIsolated,
       DocumentsComeFromSucceededRuns, CorpusIsPublishedScan, PublishedScan,
       ScansAreVersions, PlansHold, PlansAreDone, RunsAreFresh
<1>2. CASE CommitAckLost(p)
  BY <1>2, PublishKeepsData DEF CommitAckLost, Over
<1>3. CASE Fault(p) \/ UnlockFails(p) \/ Unlock(p)
  BY <1>3, QuitKeepsData DEF Fault, UnlockFails, Unlock, Over
<1>4. CASE RecordFailureFails(p)
  <2>1. \A q \in Procs \ {p} : work'[q] = work[q]
    BY <1>4 DEF RecordFailureFails, Failed, TypeInv, TypeOK
  <2> QED
    BY <1>4, <2>1, QuitKeepsData DEF RecordFailureFails, Failed, Over
<1>5. CASE Crash(p)
  <2>1. \A q \in Procs \ {p} : work'[q] = work[q]
    BY <1>5 DEF Crash, TypeInv, TypeOK
  <2>2. pc' = [pc EXCEPT ![p] = "idle"] /\ "idle" \in Over
        /\ UNCHANGED <<history, run, next_run>>
    BY <1>5 DEF Crash, Over
  <2>3. CASE UNCHANGED <<db, published>>
    BY <2>1, <2>2, <2>3, QuitKeepsData
  <2>4. CASE pc[p] = "committing" /\ Publish(p)
    BY <2>1, <2>2, <2>4, PublishKeepsData
  <2> QED
    BY <1>5, <2>3, <2>4 DEF Crash
<1> QED
  BY <1>1, <1>2, <1>3, <1>4, <1>5 DEF Trouble

(* Every step keeps the invariant. *)
LEMMA NextSyncInv == SyncInv /\ [Next]_vars => SyncInv'
<1> SUFFICES ASSUME TypeInv, OneWriter, DataInv, [Next]_vars
             PROVE  TypeInv' /\ OneWriter' /\ DataInv'
  BY DEF SyncInv
<1>1. TypeInv' /\ OneWriter'
  BY NextTypeInv, NextOneWriter
<1>2. ASSUME EditSource PROVE DataInv'
  BY <1>2, EditKeepsData
<1>3. ASSUME NEW p \in Procs, AcquireLock(p)
      PROVE  DataInv'
  BY <1>3, AcquireKeepsData
<1>4. ASSUME NEW p \in Procs, Step(p)
      PROVE  DataInv'
  <2>1. CASE Commit(p)
    <3>1. \A q \in Procs \ {p} : work'[q] = work[q]
      BY <2>1 DEF Commit, TypeInv, TypeOK
    <3> QED
      BY <2>1, <3>1, PublishKeepsData DEF Commit, Over
  <2> QED
    BY <1>1, <1>4, <2>1, ScanKeepsData, BeginKeepsData, WritingKeepsData,
       RecordRunKeepsData, RecordFailureKeepsData, TroubleKeepsData DEF Step
<1>5. ASSUME NEW p \in Procs, Trouble(p)
      PROVE  DataInv'
  BY <1>5, TroubleKeepsData
<1>6. ASSUME UNCHANGED vars \/ \E p \in Procs : Busy(p)
      PROVE  DataInv'
  <2>1. UNCHANGED <<history, db, pc, run, next_run, work, published>>
    BY <1>6 DEF vars, Busy
  <2>2. UNCHANGED <<DocumentsComeFromSucceededRuns, CorpusIsPublishedScan>>
    BY <2>1 DEF DocumentsComeFromSucceededRuns, CorpusIsPublishedScan,
         PublishedScan
  <2>3. UNCHANGED <<TransactionIsolated, ScansAreVersions, RunsAreFresh>>
    BY <2>1 DEF TransactionIsolated, ScansAreVersions, RunsAreFresh
  <2>4. UNCHANGED <<PlansHold, PlansAreDone>>
    BY <2>1 DEF PlansHold, PlansAreDone, InTransaction
  <2>5. UNCHANGED IdsNamePaths(db.documents)
    BY <2>1
  <2> QED
    BY <2>2, <2>3, <2>4, <2>5 DEF DataInv
<1> QED
  BY <1>1, <1>2, <1>3, <1>4, <1>5, <1>6 DEF Next, Rest

(* It holds at first: no row, no run, nobody inside. *)
LEMMA InitSyncInv == Init => SyncInv
<1> SUFFICES ASSUME Init PROVE SyncInv
  OBVIOUS
<1>1. TypeInv
  BY InitTypeInv
<1>2. OneWriter
  BY NoProcIsNoProcess DEF Init, OneWriter
<1>3. /\ Present(db.documents) = {}
      /\ \A path \in Paths : db.documents[path] = Absent
      /\ \A r \in Runs : db.sync_runs[r] = Absent
  BY DEF Init, EmptyDatabase, NoScan, Present
<1>4. Corpus(db) = NoScan
  BY <1>3 DEF Corpus, Hashes, NoScan
<1>5. DataInv
  BY <1>3, <1>4
     DEF Init, DataInv, TransactionIsolated, IdsNamePaths,
         DocumentsComeFromSucceededRuns, CorpusIsPublishedScan, PublishedScan,
         ScansAreVersions, PlansHold, PlansAreDone, RunsAreFresh,
         InTransaction, Over
<1> QED
  BY <1>1, <1>2, <1>5 DEF SyncInv

-----------------------------------------------------------------------------
(* The inductive invariant of synchronization holds of every behaviour.    *)
THEOREM SyncInvariant == Spec => []SyncInv
BY InitSyncInv, NextSyncInv, PTL DEF Spec

(* sync_lock (pgvector_store.py:121): at most one process is between the   *)
(* acquisition and the release of the advisory lock.                       *)
THEOREM MutualExclusion == Spec => []OneWriter
<1>1. SyncInv => OneWriter
  BY DEF SyncInv
<1> QED
  BY <1>1, SyncInvariant, PTL

(* From document_states() to the commit nobody else changes a row          *)
(* (pipeline.py:107-240).                                                  *)
THEOREM TransactionsAreIsolated == Spec => []TransactionIsolated
<1>1. SyncInv => TransactionIsolated
  BY DEF SyncInv, DataInv
<1> QED
  BY <1>1, SyncInvariant, PTL

(* Whatever fails, the document rows are one complete scan of the source,  *)
(* that of the last commit (pipeline.py:107-240, README.md).               *)
THEOREM CorpusIsAtomic == Spec => []CorpusIsPublishedScan
<1>1. SyncInv => CorpusIsPublishedScan
  BY DEF SyncInv, DataInv
<1> QED
  BY <1>1, SyncInvariant, PTL

(* Only a run recorded as succeeded leaves documents (pipeline.py:217-288). *)
THEOREM DocumentsHaveSucceededRuns == Spec => []DocumentsComeFromSucceededRuns
<1>1. SyncInv => DocumentsComeFromSucceededRuns
  BY DEF SyncInv, DataInv
<1> QED
  BY <1>1, SyncInvariant, PTL

-----------------------------------------------------------------------------
(* A document has all chunks of one body, which with a verifying source is *)
(* the one its content hash names.                                         *)
HasBody(d, row) ==
  \E content \in Contents :
    /\ ChunksOf(d, row.id) = ChunkRows(row.id, content)
    /\ VerifyOnLoad => content = row.content_hash

(* Every document has, and no chunk is left over.                          *)
Indexed(d) ==
  /\ \A path \in Present(d.documents) : HasBody(d, d.documents[path])
  /\ \A chunk \in d.chunks : HasDocument(d, chunk.document_id)

(* A document that d and e have with one content has one row identity and  *)
(* the same chunks in both.                                                *)
KeepsChunks(d, e) ==
  \A path \in Present(d.documents) \cap Present(e.documents) :
    LET old == d.documents[path]
        new == e.documents[path]
    IN  old.content_hash = new.content_hash =>
          /\ old.id = new.id
          /\ ChunksOf(d, old.id) = ChunksOf(e, new.id)

(* Only a document whose content is another one is planned as changed.     *)
ReloadsChanged(w) ==
  \A path \in w.todo.changed :
    w.previous[path].content_hash # w.scanned[path].content_hash

(* An open transaction keeps both.                                         *)
WorkIndexed(w) ==
  /\ Indexed(w.txn)
  /\ KeepsChunks(db, w.txn)
  /\ ReloadsChanged(w)

ContentInv ==
  /\ Indexed(db)
  /\ \A p \in Procs : pc[p] \in InTransaction => WorkIndexed(work[p])

(* e is d with "row" at the path, and with other chunks for that path only: *)
(* all chunks of one body if there is a row, else none.                    *)
Rewrites(d, e, path, row) ==
  /\ e.documents = [d.documents EXCEPT ![path] = row]
  /\ \A id \in DocumentIds : id[2] # path => ChunksOf(e, id) = ChunksOf(d, id)
  /\ row # Absent => row.id[2] = path /\ HasBody(e, row)
  /\ \A chunk \in e.chunks :
       chunk.document_id[2] = path =>
         row # Absent /\ chunk.document_id = row.id

-----------------------------------------------------------------------------
(* A row of the table of documents, and a chunk, have ids.                 *)
LEMMA IdTypes ==
  ASSUME NEW d \in Databases
  PROVE  /\ d.documents \in Documents
         /\ \A path \in Present(d.documents) : d.documents[path].id \in DocumentIds
         /\ \A chunk \in d.chunks : chunk.document_id \in DocumentIds
BY DEF Databases, Documents, DocumentState, ChunkRow, Present

(* Rewriting one path leaves every other document as it was.               *)
LEMMA RewriteElsewhere ==
  ASSUME NEW d \in Databases, NEW e, NEW path \in Paths, NEW row,
         IdsNamePaths(d.documents), Rewrites(d, e, path, row)
  PROVE  /\ e.documents[path] = row
         /\ \A q \in Paths \ {path} : e.documents[q] = d.documents[q]
         /\ \A q \in Present(d.documents) \ {path} :
              ChunksOf(e, d.documents[q].id) = ChunksOf(d, d.documents[q].id)
<1>1. /\ e.documents[path] = row
      /\ \A q \in Paths \ {path} : e.documents[q] = d.documents[q]
  BY IdTypes DEF Rewrites, Documents
<1>2. ASSUME NEW q \in Present(d.documents) \ {path}
      PROVE  ChunksOf(e, d.documents[q].id) = ChunksOf(d, d.documents[q].id)
  <2>1. d.documents[q].id \in DocumentIds /\ d.documents[q].id[2] # path
    BY IdTypes DEF IdsNamePaths
  <2> QED
    BY <2>1 DEF Rewrites
<1> QED
  BY <1>1, <1>2

(* Rewriting one path keeps the chunks those of the documents.             *)
LEMMA RewriteIndexed ==
  ASSUME NEW d \in Databases, NEW e \in Databases, NEW path \in Paths, NEW row,
         IdsNamePaths(d.documents), Indexed(d), Rewrites(d, e, path, row)
  PROVE  Indexed(e)
<1>0. e.documents[path] = row
  BY RewriteElsewhere
<1>1. ASSUME NEW q \in Present(e.documents)
      PROVE  HasBody(e, e.documents[q])
  <2>1. CASE q = path
    BY <1>0, <2>1 DEF Rewrites, Present
  <2>2. CASE q # path
    <3>1. /\ e.documents[q] = d.documents[q] /\ q \in Present(d.documents)
          /\ ChunksOf(e, d.documents[q].id) = ChunksOf(d, d.documents[q].id)
      BY <2>2, RewriteElsewhere DEF Present
    <3>2. HasBody(d, d.documents[q])
      BY <3>1 DEF Indexed
    <3> QED
      BY <3>1, <3>2 DEF HasBody
  <2> QED
    BY <2>1, <2>2
<1>2. ASSUME NEW chunk \in e.chunks
      PROVE  HasDocument(e, chunk.document_id)
  <2>1. CASE chunk.document_id[2] = path
    BY <1>0, <2>1 DEF Rewrites, HasDocument
  <2>2. CASE chunk.document_id[2] # path
    <3>1. chunk \in ChunksOf(e, chunk.document_id)
      BY DEF ChunksOf
    <3>2. ChunksOf(e, chunk.document_id) = ChunksOf(d, chunk.document_id)
      BY <2>2, IdTypes DEF Rewrites
    <3>3. HasDocument(d, chunk.document_id)
      BY <3>1, <3>2 DEF Indexed, ChunksOf
    <3>4. PICK q \in Paths :
            d.documents[q] # Absent /\ d.documents[q].id = chunk.document_id
      BY <3>3 DEF HasDocument
    <3>5. q # path
      BY <2>2, <3>4 DEF IdsNamePaths, Present
    <3> QED
      BY <3>4, <3>5, RewriteElsewhere DEF HasDocument
  <2> QED
    BY <2>1, <2>2
<1> QED
  BY <1>1, <1>2 DEF Indexed

(* Rewriting one path keeps the chunks of documents that keep their        *)
(* content, if it does so at that path.                                    *)
LEMMA RewriteKeeps ==
  ASSUME NEW b \in Databases, NEW d \in Databases, NEW e, NEW path \in Paths,
         NEW row, IdsNamePaths(d.documents), KeepsChunks(b, d),
         Rewrites(d, e, path, row),
         (/\ b.documents[path] # Absent /\ row # Absent
          /\ b.documents[path].content_hash = row.content_hash)
           => /\ b.documents[path].id = row.id
              /\ ChunksOf(b, row.id) = ChunksOf(e, row.id)
  PROVE  KeepsChunks(b, e)
<1> SUFFICES ASSUME NEW q \in Present(b.documents) \cap Present(e.documents),
                    b.documents[q].content_hash = e.documents[q].content_hash
             PROVE  /\ b.documents[q].id = e.documents[q].id
                    /\ ChunksOf(b, b.documents[q].id)
                         = ChunksOf(e, e.documents[q].id)
  BY DEF KeepsChunks
<1>1. CASE q = path
  BY <1>1, RewriteElsewhere DEF Present
<1>2. CASE q # path
  <2>1. /\ e.documents[q] = d.documents[q] /\ q \in Present(d.documents)
        /\ ChunksOf(e, d.documents[q].id) = ChunksOf(d, d.documents[q].id)
    BY <1>2, RewriteElsewhere DEF Present
  <2> QED
    BY <2>1 DEF KeepsChunks
<1> QED
  BY <1>1, <1>2

-----------------------------------------------------------------------------
(* A chunk of a document with an id of a path is of that path's document.  *)
LEMMA ChunkOfPath ==
  ASSUME NEW d \in Databases, IdsNamePaths(d.documents), Indexed(d),
         NEW chunk \in d.chunks
  PROVE  LET path == chunk.document_id[2]
         IN  d.documents[path] # Absent /\ chunk.document_id = d.documents[path].id
<1>1. PICK q \in Paths :
        d.documents[q] # Absent /\ d.documents[q].id = chunk.document_id
  BY DEF Indexed, HasDocument
<1> QED
  BY <1>1 DEF IdsNamePaths, Present

(* UPDATE ... SET metadata rewrites one row and no chunk.                  *)
LEMMA UpdateRewrites ==
  ASSUME NEW d \in Databases, IdsNamePaths(d.documents), Indexed(d),
         NEW path \in Paths, NEW old, old # Absent, d.documents[path] = old,
         NEW hash \in Metas
  PROVE  /\ Rewrites(d, update_document_metadata(d, old.id, hash), path,
                     [id |-> old.id, content_hash |-> old.content_hash,
                      metadata_hash |-> hash])
         /\ update_document_metadata(d, old.id, hash).chunks = d.chunks
<1> DEFINE e == update_document_metadata(d, old.id, hash)
           row == [id |-> old.id, content_hash |-> old.content_hash,
                   metadata_hash |-> hash]
<1>1. e.documents = [d.documents EXCEPT ![path] = row]
  BY UpdateOwnRow
<1>2. e.chunks = d.chunks
  BY DEF update_document_metadata, Databases
<1> HIDE DEF e
<1>3. old.id[2] = path
  BY DEF IdsNamePaths, Present
<1>4. HasBody(d, old)
  BY DEF Indexed, Present
<1>5. HasBody(e, row)
  BY <1>2, <1>4 DEF HasBody, ChunksOf
<1>6. \A chunk \in e.chunks :
        chunk.document_id[2] = path => chunk.document_id = old.id
  BY <1>2, ChunkOfPath
<1>7. row # Absent
  <2>1. old \in DocumentState
    BY IdTypes DEF Documents
  <2>2. row \in DocumentState
    BY <2>1 DEF DocumentState
  <2> QED
    BY <2>2, AbsentIsNoRow
<1>8. row.id = old.id
  OBVIOUS
<1> HIDE DEF row
<1>9. Rewrites(d, e, path, row)
  BY <1>1, <1>2, <1>3, <1>5, <1>6, <1>7, <1>8 DEF Rewrites, ChunksOf
<1> QED
  BY <1>2, <1>9 DEF e, row

(* DELETE takes one row away, and its chunks with it.                      *)
LEMMA DeleteRewrites ==
  ASSUME NEW d \in Databases, IdsNamePaths(d.documents), Indexed(d),
         NEW path \in Paths, NEW old, old # Absent, d.documents[path] = old
  PROVE  Rewrites(d, delete_document(d, old.id), path, Absent)
<1> DEFINE e == delete_document(d, old.id)
<1>1. e.documents = [d.documents EXCEPT ![path] = Absent]
  BY DeleteOwnRow
<1>2. e.chunks = d.chunks \ ChunksOf(d, old.id)
  BY DEF delete_document, Databases
<1> HIDE DEF e
<1>3. old.id[2] = path
  BY DEF IdsNamePaths, Present
<1>4. \A chunk \in e.chunks : chunk.document_id[2] # path
  BY <1>2, ChunkOfPath DEF ChunksOf
<1> QED
  BY <1>1, <1>2, <1>3, <1>4 DEF Rewrites, ChunksOf, e

(* INSERT of a document and its chunks where there is none.                *)
LEMMA StoreRewrites ==
  ASSUME NEW d \in Databases, IdsNamePaths(d.documents), Indexed(d),
         NEW path \in Paths, d.documents[path] = Absent, NEW r \in Runs,
         NEW item \in ScannedDocument, NEW content \in Contents,
         VerifyOnLoad => content = item.content_hash
  PROVE  Rewrites(d, replace_document(d, <<r, path>>, path, item, content), path,
                  [id |-> <<r, path>>, content_hash |-> item.content_hash,
                   metadata_hash |-> item.metadata_hash])
<1> DEFINE id == <<r, path>>
           e == replace_document(d, id, path, item, content)
           row == [id |-> id, content_hash |-> item.content_hash,
                   metadata_hash |-> item.metadata_hash]
<1>1. e.documents = [d.documents EXCEPT ![path] = row]
  BY DEF replace_document, Databases
<1>2. e.chunks = d.chunks \cup ChunkRows(id, content)
  BY DEF replace_document, Databases
<1> HIDE DEF e
<1>3. \A chunk \in d.chunks : chunk.document_id[2] # path
  BY ChunkOfPath
<1>4. \A chunk \in ChunkRows(id, content) : chunk.document_id = id
  BY DEF ChunkRows
<1>5. id[2] = path /\ row.id = id
  OBVIOUS
<1>6. ChunksOf(e, id) = ChunkRows(id, content)
  BY <1>2, <1>3, <1>4, <1>5 DEF ChunksOf
<1>7. \A other \in DocumentIds :
        other[2] # path => ChunksOf(e, other) = ChunksOf(d, other)
  BY <1>2, <1>4, <1>5 DEF ChunksOf
<1>8. HasBody(e, row)
  BY <1>6 DEF HasBody
<1> HIDE DEF row, id
<1>9. \A chunk \in e.chunks :
        chunk.document_id[2] = path => chunk.document_id = row.id
  BY <1>2, <1>3, <1>4, <1>5
<1>10. row # Absent
  <2>1. row \in DocumentState
    BY DEF row, id, DocumentState, DocumentIds, ScannedDocument
  <2> QED
    BY <2>1, AbsentIsNoRow
<1>11. Rewrites(d, e, path, row)
  BY <1>1, <1>5, <1>7, <1>8, <1>9, <1>10 DEF Rewrites
<1> QED
  BY <1>11 DEF e, row, id

-----------------------------------------------------------------------------
(* A process that gives up, or is done, leaves the chunks alone.           *)
LEMMA QuitKeepsContents ==
  ASSUME TypeInv, ContentInv, NEW p \in Procs, NEW stage \in Over,
         pc' = [pc EXCEPT ![p] = stage],
         \A q \in Procs \ {p} : work'[q] = work[q],
         UNCHANGED db
  PROVE  ContentInv'
<1>1. \A q \in Procs : pc'[q] \in InTransaction =>
        q # p /\ pc'[q] = pc[q] /\ work'[q] = work[q]
  BY DEF TypeInv, TypeOK, InTransaction, Over
<1> QED
  BY <1>1 DEF ContentInv, WorkIndexed

(* A step inside the transaction that leaves it indexed.                   *)
LEMMA LoopKeepsContents ==
  ASSUME TypeInv, OneWriter, ContentInv, NEW p \in Procs, NEW new \in Work,
         NEW stage \in InTransaction,
         pc[p] # "idle",
         pc' = [pc EXCEPT ![p] = stage],
         work' = [work EXCEPT ![p] = new],
         WorkIndexed(new),
         UNCHANGED db
  PROVE  ContentInv'
<1>1. work'[p] = new
  BY DEF TypeInv, TypeOK
<1>2. \A q \in Procs \ {p} : pc'[q] \notin InTransaction
  BY OthersAreIdle DEF TypeInv, TypeOK, InTransaction
<1> QED
  BY <1>1, <1>2 DEF ContentInv, WorkIndexed

(* Committing makes the indexed transaction the corpus.                    *)
LEMMA PublishKeepsContents ==
  ASSUME TypeInv, OneWriter, ContentInv, NEW p \in Procs, NEW stage \in Over,
         pc[p] = "committing", Publish(p),
         pc' = [pc EXCEPT ![p] = stage]
  PROVE  ContentInv' /\ KeepsChunks(db, db')
<1>1. \A q \in Procs : pc'[q] \notin InTransaction
  BY OthersAreIdle DEF TypeInv, TypeOK, InTransaction, Over
<1>2. Indexed(work[p].txn) /\ KeepsChunks(db, work[p].txn)
  BY DEF ContentInv, WorkIndexed, InTransaction
<1> QED
  BY <1>1, <1>2 DEF ContentInv, Publish

(* Making the plan: the transaction starts as the corpus.                  *)
LEMMA BeginKeepsContents ==
  ASSUME TypeInv, OneWriter, ContentInv, TypeInv', NEW p \in Procs,
         BeginTransaction(p)
  PROVE  ContentInv'
<1> DEFINE new == work'[p]
<1>1. work[p] \in Work /\ new \in Work
  BY DEF TypeInv, TypeOK
<1>2. /\ new.txn = db
      /\ new.todo = diff_source(new.scanned, new.previous)
      /\ work' = [work EXCEPT ![p] = new]
  BY <1>1 DEF BeginTransaction, document_states, Work, TypeInv, TypeOK
<1> HIDE DEF new
<1>3. ReloadsChanged(new)
  BY <1>2 DEF ReloadsChanged, diff_source
<1>4. KeepsChunks(db, db)
  BY DEF KeepsChunks
<1>5. WorkIndexed(new)
  BY <1>2, <1>3, <1>4 DEF WorkIndexed, ContentInv
<1> QED
  BY <1>1, <1>2, <1>5, LoopKeepsContents DEF BeginTransaction, InTransaction

(* A metadata update keeps every chunk.                                    *)
LEMMA UpdateKeepsContents ==
  ASSUME SyncInv, ContentInv, TypeInv', NEW p \in Procs, NEW path \in Paths,
         UpdateMetadata(p, path),
         HasDocument(work[p].txn, work[p].previous[path].id)
  PROVE  ContentInv'
<1> DEFINE w == work[p]
           new == work'[p]
           old == w.previous[path]
           hash == w.scanned[path].metadata_hash
           row == [id |-> old.id, content_hash |-> old.content_hash,
                   metadata_hash |-> hash]
<1>1. /\ pc[p] = "writing" /\ PlanHolds(w, run[p]) /\ WorkIndexed(w)
      /\ old = db.documents[path]
  BY DEF UpdateMetadata, SyncInv, DataInv, PlansHold, InTransaction, ContentInv,
       WorkIndexed, TransactionIsolated
<1>2. /\ w \in Work /\ new \in Work /\ w.txn \in Databases /\ db \in Databases
      /\ w.scanned \in Scans /\ new.txn \in Databases
  BY WorkTypes DEF SyncInv, TypeInv, TypeOK, Work
<1>3. /\ path \in w.todo.metadata_changed
      /\ new.scanned = w.scanned /\ new.previous = w.previous
      /\ new.todo = [w.todo EXCEPT !.metadata_changed = @ \ {path}]
      /\ new.txn = update_document_metadata(w.txn, old.id, hash)
      /\ work' = [work EXCEPT ![p] = new]
  BY UpdateFields DEF SyncInv
<1>4. /\ old # Absent /\ w.txn.documents[path] = old
      /\ IdsNamePaths(w.txn.documents) /\ path \in Present(w.scanned)
  BY <1>1, <1>3 DEF PlanHolds, PlanIsScanned, Undone, Present
<1>5. hash \in Metas
  BY <1>2, <1>4 DEF Scans, ScannedDocument, Present
<1>6. new.todo.changed = w.todo.changed
  BY <1>2, <1>3 DEF Work, Diffs
<1>7. UNCHANGED <<db, pc>>
  BY DEF UpdateMetadata
<1> HIDE DEF w, new, old, hash
<1>8. Indexed(w.txn) /\ KeepsChunks(db, w.txn)
  BY <1>1 DEF WorkIndexed
<1>9. Rewrites(w.txn, new.txn, path, row) /\ new.txn.chunks = w.txn.chunks
  BY <1>2, <1>3, <1>4, <1>5, <1>8, UpdateRewrites
<1>10. Indexed(new.txn)
  BY <1>2, <1>4, <1>8, <1>9, RewriteIndexed
<1>11. row.id = old.id
  OBVIOUS
<1> HIDE DEF row
<1>12. old # Absent => ChunksOf(db, row.id) = ChunksOf(new.txn, row.id)
  BY <1>1, <1>4, <1>8, <1>9, <1>11 DEF KeepsChunks, Present, ChunksOf
<1>13. KeepsChunks(db, new.txn)
  BY <1>1, <1>2, <1>4, <1>8, <1>9, <1>11, <1>12, RewriteKeeps
<1>14. ReloadsChanged(new)
  BY <1>1, <1>3, <1>6 DEF WorkIndexed, ReloadsChanged
<1>15. WorkIndexed(new)
  BY <1>10, <1>13, <1>14 DEF WorkIndexed
<1>16. pc' = [pc EXCEPT ![p] = "writing"]
  BY <1>1, <1>7 DEF SyncInv, TypeInv, TypeOK
<1> QED
  BY <1>1, <1>2, <1>3, <1>7, <1>15, <1>16, LoopKeepsContents
     DEF InTransaction, SyncInv

(* A deletion takes the chunks of its document along.                      *)
LEMMA DeleteKeepsContents ==
  ASSUME SyncInv, ContentInv, TypeInv', NEW p \in Procs, NEW path \in Paths,
         DeleteDocument(p, path)
  PROVE  ContentInv'
<1> DEFINE w == work[p]
           new == work'[p]
           old == w.previous[path]
<1>1. /\ pc[p] = "writing" /\ PlanHolds(w, run[p]) /\ WorkIndexed(w)
  BY DEF DeleteDocument, SyncInv, DataInv, PlansHold, InTransaction, ContentInv,
       WorkIndexed
<1>2. /\ w \in Work /\ new \in Work /\ w.txn \in Databases /\ db \in Databases
      /\ new.txn \in Databases
  BY WorkTypes DEF SyncInv, TypeInv, TypeOK, Work
<1>3. /\ path \in w.todo.deleted
      /\ new.scanned = w.scanned /\ new.previous = w.previous
      /\ new.todo = [w.todo EXCEPT !.deleted = @ \ {path}]
      /\ new.txn = delete_document(w.txn, old.id)
      /\ work' = [work EXCEPT ![p] = new]
  BY DeleteFields DEF SyncInv
<1>4. /\ old # Absent /\ w.txn.documents[path] = old
      /\ IdsNamePaths(w.txn.documents)
  BY <1>1, <1>3 DEF PlanHolds, Undone, Present
<1>5. new.todo.changed = w.todo.changed
  BY <1>2, <1>3 DEF Work, Diffs
<1>6. UNCHANGED <<db, pc>>
  BY DEF DeleteDocument
<1> HIDE DEF w, new, old
<1>7. Indexed(w.txn) /\ KeepsChunks(db, w.txn)
  BY <1>1 DEF WorkIndexed
<1>8. Rewrites(w.txn, new.txn, path, Absent)
  BY <1>2, <1>3, <1>4, <1>7, DeleteRewrites
<1>9. Indexed(new.txn)
  BY <1>2, <1>4, <1>7, <1>8, RewriteIndexed
<1>10. KeepsChunks(db, new.txn)
  BY <1>2, <1>4, <1>7, <1>8, RewriteKeeps
<1>11. ReloadsChanged(new)
  BY <1>1, <1>3, <1>5 DEF WorkIndexed, ReloadsChanged
<1>12. WorkIndexed(new)
  BY <1>9, <1>10, <1>11 DEF WorkIndexed
<1>13. pc' = [pc EXCEPT ![p] = "writing"]
  BY <1>1, <1>6 DEF SyncInv, TypeInv, TypeOK
<1> QED
  BY <1>1, <1>2, <1>3, <1>6, <1>12, <1>13, LoopKeepsContents
     DEF InTransaction, SyncInv

(* Deleting what a path had before leaves the transaction indexed.         *)
LEMMA ClearedContents ==
  ASSUME NEW b \in Databases, NEW d \in Databases, NEW path \in Paths, NEW prior,
         IdsNamePaths(d.documents), Indexed(d), KeepsChunks(b, d),
         d.documents[path] = prior
  PROVE  LET cleared == DeletePrior(d, prior)
         IN  /\ cleared \in Databases
             /\ cleared.documents[path] = Absent
             /\ IdsNamePaths(cleared.documents)
             /\ Indexed(cleared)
             /\ KeepsChunks(b, cleared)
<1>1. CASE prior = Absent
  BY <1>1 DEF DeletePrior
<1>2. CASE prior # Absent
  <2> DEFINE cleared == delete_document(d, prior.id)
  <2>1. cleared \in Databases
    BY DeleteType
  <2>2. Rewrites(d, cleared, path, Absent)
    BY <1>2, DeleteRewrites
  <2>3. DeletePrior(d, prior) = cleared
    BY <1>2 DEF DeletePrior
  <2> HIDE DEF cleared
  <2>4. Indexed(cleared) /\ KeepsChunks(b, cleared)
    BY <2>1, <2>2, RewriteIndexed, RewriteKeeps
  <2>5. /\ cleared.documents[path] = Absent
        /\ \A q \in Paths \ {path} : cleared.documents[q] = d.documents[q]
    BY <2>2, RewriteElsewhere
  <2>6. IdsNamePaths(cleared.documents)
    BY <2>5 DEF IdsNamePaths, Present
  <2> QED
    BY <2>1, <2>3, <2>4, <2>5, <2>6
<1> QED
  BY <1>1, <1>2

(* What is loaded and stored is one body: of a document that is new, or    *)
(* whose content is another one than before.                               *)
LEMMA StoreKeepsContents ==
  ASSUME SyncInv, ContentInv, TypeInv', NEW p \in Procs, NEW path \in Paths,
         StoreDocument(p, path)
  PROVE  ContentInv'
<1> DEFINE w == work[p]
           new == work'[p]
           prior == w.previous[path]
           item == w.scanned[path]
           content == source[path].content_hash
           cleared == DeletePrior(w.txn, prior)
           row == [id |-> <<run[p], path>>, content_hash |-> item.content_hash,
                   metadata_hash |-> item.metadata_hash]
<1>1. /\ pc[p] = "writing" /\ PlanHolds(w, run[p]) /\ WorkIndexed(w)
      /\ prior = db.documents[path]
  BY DEF StoreDocument, SyncInv, DataInv, PlansHold, InTransaction, ContentInv,
       WorkIndexed, TransactionIsolated
<1>2. /\ w \in Work /\ new \in Work /\ w.txn \in Databases /\ db \in Databases
      /\ w.scanned \in Scans /\ new.txn \in Databases /\ run[p] \in Runs
  BY <1>1, WorkTypes DEF SyncInv, TypeInv, TypeOK, Work
<1>3. /\ Stores(w, new, run[p], path, content)
      /\ work' = [work EXCEPT ![p] = new]
      /\ content \in Contents
      /\ VerifyOnLoad => content = item.content_hash
  BY StoreFields DEF SyncInv
<1>4. UNCHANGED <<db, pc>>
  BY DEF StoreDocument
<1> HIDE DEF w, new, prior, item, content
<1>5. /\ path \in w.todo.new \cup w.todo.changed
      /\ new.scanned = w.scanned /\ new.previous = w.previous
      /\ new.todo = [w.todo EXCEPT !.new = @ \ {path}, !.changed = @ \ {path}]
      /\ new.txn = replace_document(cleared, <<run[p], path>>, path, item, content)
  BY <1>3 DEF Stores, prior, item
<1>6. /\ w.txn.documents[path] = prior
      /\ IdsNamePaths(w.txn.documents)
      /\ path \in Present(w.scanned)
  BY <1>1, <1>5 DEF PlanHolds, PlanIsScanned, Undone, Present, prior
<1>7. item \in ScannedDocument
  BY <1>2, <1>6 DEF Scans, Present, item
<1>8. Indexed(w.txn) /\ KeepsChunks(db, w.txn)
  BY <1>1 DEF WorkIndexed
<1>9. /\ cleared \in Databases
      /\ cleared.documents[path] = Absent
      /\ IdsNamePaths(cleared.documents)
      /\ Indexed(cleared)
      /\ KeepsChunks(db, cleared)
  BY <1>2, <1>6, <1>8, ClearedContents
<1> HIDE DEF cleared
<1>10. Rewrites(cleared, new.txn, path, row)
  BY <1>2, <1>3, <1>5, <1>7, <1>9, StoreRewrites
<1>11. row.content_hash = item.content_hash
  OBVIOUS
<1> HIDE DEF row
<1>12. Indexed(new.txn)
  BY <1>2, <1>9, <1>10, RewriteIndexed
<1>13. prior # Absent => prior.content_hash # row.content_hash
  <2>1. path \in w.todo.new => prior = Absent
    BY <1>1, <1>6 DEF PlanHolds, Present, prior
  <2>2. path \in w.todo.changed => prior.content_hash # item.content_hash
    BY <1>1 DEF WorkIndexed, ReloadsChanged, prior, item
  <2> QED
    BY <1>5, <1>11, <2>1, <2>2
<1>14. KeepsChunks(db, new.txn)
  BY <1>1, <1>2, <1>9, <1>10, <1>13, RewriteKeeps
<1>15. new.todo.changed \subseteq w.todo.changed
  BY <1>2, <1>5 DEF Work, Diffs
<1>16. ReloadsChanged(new)
  BY <1>1, <1>5, <1>15 DEF WorkIndexed, ReloadsChanged
<1>17. WorkIndexed(new)
  BY <1>12, <1>14, <1>16 DEF WorkIndexed
<1>18. pc' = [pc EXCEPT ![p] = "writing"]
  BY <1>1, <1>4 DEF SyncInv, TypeInv, TypeOK
<1> QED
  BY <1>1, <1>2, <1>3, <1>4, <1>17, <1>18, LoopKeepsContents
     DEF InTransaction, SyncInv

(* Recording the succeeded run touches no document and no chunk.           *)
LEMMA RecordRunKeepsContents ==
  ASSUME SyncInv, ContentInv, TypeInv', NEW p \in Procs, RecordRun(p)
  PROVE  ContentInv'
<1> DEFINE w == work[p]
           new == work'[p]
<1>1. /\ pc[p] = "writing" /\ WorkIndexed(w) /\ UNCHANGED db
  BY DEF RecordRun, ContentInv, WorkIndexed, InTransaction
<1>2. w \in Work /\ w.txn \in Databases /\ new \in Work
  BY WorkTypes DEF SyncInv, TypeInv, TypeOK
<1>3. CASE CanRecord(w.txn, run[p])
  <2> DEFINE txn == record_run(w.txn, run[p], "succeeded", w.tally)
  <2>1. /\ new = [w EXCEPT !.txn = txn]
        /\ pc' = [pc EXCEPT ![p] = "committing"]
        /\ work' = [work EXCEPT ![p] = new]
    BY <1>3 DEF RecordRun, SyncInv, TypeInv, TypeOK
  <2>2. txn.documents = w.txn.documents /\ txn.chunks = w.txn.chunks
    BY <1>2 DEF record_run, Databases
  <2> HIDE DEF txn
  <2>3. /\ new.txn = txn /\ new.scanned = w.scanned /\ new.previous = w.previous
        /\ new.todo = w.todo
    BY <1>2, <2>1 DEF Work
  <2> HIDE DEF new, w
  <2>4. WorkIndexed(new)
    BY <1>1, <2>2, <2>3 DEF WorkIndexed, Indexed, HasBody, HasDocument,
         KeepsChunks, ReloadsChanged, ChunksOf
  <2> QED
    BY <1>1, <1>2, <2>1, <2>4, LoopKeepsContents DEF InTransaction, SyncInv
<1>4. CASE ~CanRecord(w.txn, run[p])
  BY <1>4, QuitKeepsContents DEF RecordRun, Over, SyncInv
<1> QED
  BY <1>3, <1>4

(* Nor does recording a failed one.                                        *)
LEMMA RecordFailureKeepsContents ==
  ASSUME SyncInv, ContentInv, NEW p \in Procs, RecordFailure(p)
  PROVE  /\ ContentInv'
         /\ db'.documents = db.documents /\ db'.chunks = db.chunks
<1>1. \A q \in Procs : pc'[q] \notin InTransaction
  BY OthersAreIdle DEF RecordFailure, Failed, SyncInv, TypeInv, TypeOK, InTransaction
<1>2. db \in Databases
  BY DEF SyncInv, TypeInv, TypeOK
<1>3. db'.documents = db.documents /\ db'.chunks = db.chunks
  BY <1>2 DEF RecordFailure, record_run, Databases
<1> QED
  BY <1>1, <1>3 DEF ContentInv, Indexed, HasBody, HasDocument, ChunksOf

(* A step changes documents and chunks by committing an indexed            *)
(* transaction, or not at all.                                             *)
LEMMA NextContentInv ==
  ASSUME SyncInv, ContentInv, [Next]_vars
  PROVE  /\ ContentInv'
         /\ \/ KeepsChunks(db, db')
            \/ db'.documents = db.documents /\ db'.chunks = db.chunks
<1>1. TypeInv' /\ TypeInv /\ OneWriter
  BY NextTypeInv DEF SyncInv
<1>2. ASSUME EditSource \/ UNCHANGED vars \/ \E p \in Procs : Busy(p) \/ AcquireFails(p)
      PROVE  ContentInv' /\ UNCHANGED db
  <2>1. UNCHANGED <<db, pc, work>>
    BY <1>2 DEF EditSource, vars, Busy, AcquireFails
  <2> QED
    BY <2>1 DEF ContentInv, WorkIndexed
<1>3. ASSUME NEW p \in Procs,
             AcquireLock(p) \/ Scan(p)
      PROVE  ContentInv' /\ UNCHANGED db
  <2>1. \A q \in Procs : pc'[q] \in InTransaction =>
          pc[q] \in InTransaction /\ work'[q] = work[q]
    BY <1>1, <1>3 DEF AcquireLock, Scan, TypeInv, TypeOK, InTransaction
  <2>2. UNCHANGED db
    BY <1>3 DEF AcquireLock, Scan
  <2> QED
    BY <2>1, <2>2 DEF ContentInv, WorkIndexed
<1>4. ASSUME NEW p \in Procs, BeginTransaction(p) \/ RecordRun(p)
      PROVE  ContentInv' /\ UNCHANGED db
  BY <1>1, <1>4, BeginKeepsContents, RecordRunKeepsContents
     DEF BeginTransaction, RecordRun
<1>5. ASSUME NEW p \in Procs, NEW path \in Paths,
             \/ UpdateMetadata(p, path) \/ DeleteDocument(p, path)
             \/ StoreDocument(p, path) \/ LoadFails(p, path)
      PROVE  ContentInv' /\ UNCHANGED db
  <2>1. UNCHANGED db
    BY <1>5 DEF UpdateMetadata, DeleteDocument, StoreDocument, LoadFails
  <2>2. CASE /\ UpdateMetadata(p, path)
             /\ HasDocument(work[p].txn, work[p].previous[path].id)
    BY <1>1, <2>1, <2>2, UpdateKeepsContents
  <2>3. CASE \/ LoadFails(p, path)
             \/ /\ UpdateMetadata(p, path)
                /\ ~HasDocument(work[p].txn, work[p].previous[path].id)
    BY <1>1, <2>1, <2>3, QuitKeepsContents DEF LoadFails, UpdateMetadata, Over
  <2> QED
    BY <1>1, <1>5, <2>1, <2>2, <2>3, DeleteKeepsContents, StoreKeepsContents
<1>6. ASSUME NEW p \in Procs,
             \/ Fault(p) \/ RecordFailureFails(p)
             \/ Unlock(p) \/ UnlockFails(p) \/ (Crash(p) /\ UNCHANGED db)
      PROVE  ContentInv' /\ UNCHANGED db
  <2>1. \A q \in Procs \ {p} : work'[q] = work[q]
    BY <1>1, <1>6 DEF Fault, RecordFailureFails, Failed, Unlock, UnlockFails, Crash,
         TypeInv, TypeOK
  <2>2. PICK stage \in Over : pc' = [pc EXCEPT ![p] = stage]
    BY <1>6 DEF Fault, RecordFailureFails, Failed, Unlock, UnlockFails, Crash, Over
  <2>3. UNCHANGED db
    BY <1>6 DEF Fault, RecordFailureFails, Unlock, UnlockFails
  <2> QED
    BY <1>1, <2>1, <2>2, <2>3, QuitKeepsContents
<1>7. ASSUME NEW p \in Procs, pc[p] = "committing", Publish(p),
             Commit(p) \/ CommitAckLost(p) \/ Crash(p)
      PROVE  ContentInv' /\ KeepsChunks(db, db')
  <2>1. PICK stage \in Over : pc' = [pc EXCEPT ![p] = stage]
    BY <1>7 DEF Commit, CommitAckLost, Crash, Over
  <2> QED
    BY <1>1, <1>7, <2>1, PublishKeepsContents
<1>8. ASSUME NEW p \in Procs, RecordFailure(p)
      PROVE  ContentInv' /\ db'.documents = db.documents /\ db'.chunks = db.chunks
  BY <1>8, RecordFailureKeepsContents
<1>9. ASSUME NEW p \in Procs, Commit(p) \/ CommitAckLost(p) \/ Crash(p)
      PROVE  \/ (Crash(p) /\ UNCHANGED db)
             \/ pc[p] = "committing" /\ Publish(p)
  BY <1>9 DEF Commit, CommitAckLost, Crash
<1> QED
  <2> DEFINE Kept == \/ KeepsChunks(db, db')
                     \/ db'.documents = db.documents /\ db'.chunks = db.chunks
  <2>1. UNCHANGED db => Kept
    OBVIOUS
  <2>2. ASSUME NEW p \in Procs, Commit(p) \/ CommitAckLost(p) \/ Crash(p)
        PROVE  ContentInv' /\ Kept
    BY <1>6, <1>7, <1>9, <2>1, <2>2
  <2> HIDE DEF Kept
  <2>3. ASSUME NEW p \in Procs, Step(p) \/ Trouble(p)
        PROVE  ContentInv' /\ Kept
    <3>1. CASE AcquireFails(p) \/ Scan(p) \/ BeginTransaction(p) \/ RecordRun(p)
      BY <1>2, <1>3, <1>4, <2>1, <3>1
    <3>2. CASE \E path \in Paths :
                 \/ UpdateMetadata(p, path) \/ DeleteDocument(p, path)
                 \/ StoreDocument(p, path) \/ LoadFails(p, path)
      BY <1>5, <2>1, <3>2
    <3>3. CASE Fault(p) \/ RecordFailureFails(p) \/ Unlock(p) \/ UnlockFails(p)
      BY <1>6, <2>1, <3>3
    <3>4. CASE RecordFailure(p)
      BY <1>8, <3>4 DEF Kept
    <3> QED
      BY <2>2, <2>3, <3>1, <3>2, <3>3, <3>4 DEF Step, Trouble
  <2>4. ASSUME EditSource \/ UNCHANGED vars
               \/ \E p \in Procs : Busy(p) \/ AcquireLock(p)
        PROVE  ContentInv' /\ Kept
    BY <1>2, <1>3, <2>1, <2>4
  <2>5. ContentInv' /\ Kept
    BY <2>3, <2>4 DEF Next, Rest
  <2> QED
    BY <2>5 DEF Kept

(* At first there is nothing.                                              *)
LEMMA InitContentInv == Init => ContentInv
BY DEF Init, ContentInv, Indexed, EmptyDatabase, NoScan, Present, InTransaction

-----------------------------------------------------------------------------
(* The inductive invariant of the chunks holds of every behaviour.         *)
THEOREM ContentInvariant == Spec => [](SyncInv /\ ContentInv)
<1>1. Init => SyncInv /\ ContentInv
  BY InitSyncInv, InitContentInv
<1>2. SyncInv /\ ContentInv /\ [Next]_vars => (SyncInv /\ ContentInv)'
  BY NextSyncInv, NextContentInv
<1> QED
  BY <1>1, <1>2, PTL DEF Spec

(* The chunks of a document are a complete cut of one single body, and no  *)
(* chunk is without its document, whatever the source does between scan    *)
(* and load (pipeline.py:133-196, pgvector_store.py:263-343).              *)
THEOREM DocumentsAreWhole == Spec => []NoMixedDocument
<1>1. ContentInv => NoMixedDocument
  BY DEF ContentInv, Indexed, HasBody, NoMixedDocument
<1> QED
  BY <1>1, ContentInvariant, PTL

(* A source that checks the hash of what it loads, as the S3 source does   *)
(* (s3_source.py:104-111), gives an index of exactly the bodies that the   *)
(* content hashes name.                                                    *)
THEOREM VerifiedBodiesMatchHashes ==
  ASSUME VerifyOnLoad
  PROVE  Spec => []IndexedBodiesMatchHashes
<1>1. ASSUME SyncInv, ContentInv
      PROVE  IndexedBodiesMatchHashes
  <2> DEFINE rows(path) == ChunkRows(db.documents[path].id,
                                     db.documents[path].content_hash)
  <2>1. \A path \in Present(db.documents) :
          ChunksOf(db, db.documents[path].id) = rows(path)
    BY <1>1 DEF ContentInv, Indexed, HasBody
  <2>2. \A chunk \in db.chunks : \E path \in Present(db.documents) :
          chunk \in ChunksOf(db, db.documents[path].id)
    BY <1>1 DEF ContentInv, Indexed, HasDocument, ChunksOf, Present
  <2>3. \A path \in Present(db.documents) :
          ChunksOf(db, db.documents[path].id) \subseteq db.chunks
    BY DEF ChunksOf
  <2> QED
    BY <2>1, <2>2, <2>3 DEF IndexedBodiesMatchHashes
<1> QED
  BY <1>1, ContentInvariant, PTL

(* A document that keeps its content keeps its identity and its chunks:    *)
(* it is never embedded again (pipeline.py:117-126).                       *)
THEOREM SameContentIsKept == Spec => SameContentKeepsChunks
<1>1. ASSUME SyncInv, ContentInv, [Next]_vars
      PROVE  KeepsChunks(db, db')
  BY <1>1, NextContentInv DEF KeepsChunks, ChunksOf
<1>2. SyncInv /\ ContentInv /\ [Next]_vars =>
        [\A path \in Present(db.documents) \cap Present(db'.documents) :
           LET old == db.documents[path]
               new == db'.documents[path]
           IN  old.content_hash = new.content_hash =>
                 /\ old.id = new.id
                 /\ ChunksOf(db, old.id) = ChunksOf(db', new.id)]_vars
  BY <1>1 DEF KeepsChunks
<1> QED
  BY <1>2, ContentInvariant, PTL DEF Spec, SameContentKeepsChunks

-----------------------------------------------------------------------------
(* A caller told "succeeded" still knows a run id, and finds that run.     *)
SuccessIsLogged ==
  \A p \in Procs : outcome[p] = "succeeded" =>
    /\ run[p] \in Runs
    /\ db.sync_runs[run[p]] # Absent
    /\ db.sync_runs[run[p]].status = "succeeded"

(* Without a fault, a run that only has to unlock is in the ledger.        *)
UnlockingIsLogged ==
  faults = 0 =>
    \A p \in Procs : pc[p] = "unlocking" => db.sync_runs[run[p]] # Absent

(* No version later than the one a sync has scanned has been published.    *)
ScansAreRecent ==
  \A p \in Procs : pc[p] \in {"beginning", "writing", "committing"} =>
    published <= work[p].scanned_at

LedgerInv ==
  SuccessIsLogged /\ UnlockingIsLogged /\ EveryRunIsLogged /\ ScansAreRecent

-----------------------------------------------------------------------------
(* What the commit of p does to the database: the corpus becomes the scan  *)
(* of p, and the ledger gains its succeeded run and nothing else.          *)
LEMMA PublishEffect ==
  ASSUME SyncInv, NEW p \in Procs, pc[p] = "committing", Publish(p)
  PROVE  /\ run[p] \in Runs
         /\ Corpus(db') = history[work[p].scanned_at]
         /\ work[p].scanned_at \in 1 .. Len(history)
         /\ published' = work[p].scanned_at
         /\ db.sync_runs[run[p]] = Absent
         /\ db'.sync_runs[run[p]] # Absent
         /\ db'.sync_runs[run[p]].status = "succeeded"
         /\ \A r \in Runs \ {run[p]} : db'.sync_runs[r] = db.sync_runs[r]
<1>1. /\ work[p] \in Work /\ run[p] \in Runs
      /\ work[p].scanned_at \in 0 .. Len(history)
  BY WorkTypes DEF SyncInv
<1>2. PlanHolds(work[p], run[p]) /\ AllStored(work[p].todo)
  BY DEF SyncInv, DataInv, PlansHold, PlansAreDone, InTransaction
<1>3. Corpus(work[p].txn) = work[p].scanned
  BY <1>1, <1>2, PlanDone
<1>4. work[p].scanned_at # 0 /\ work[p].scanned = history[work[p].scanned_at]
  BY DEF SyncInv, DataInv, ScansAreVersions
<1>5. /\ db.sync_runs[run[p]] = Absent
      /\ work[p].txn.sync_runs[run[p]] # Absent
      /\ work[p].txn.sync_runs[run[p]].status = "succeeded"
      /\ \A r \in Runs \ {run[p]} : work[p].txn.sync_runs[r] = db.sync_runs[r]
  BY DEF SyncInv, DataInv, RunsAreFresh, PlansAreDone, TransactionIsolated, Over
<1>6. Len(history) \in Nat
  BY SourceType DEF SyncInv
<1> QED
  BY <1>1, <1>3, <1>4, <1>5, <1>6 DEF Publish

(* What recording a failure does to it: the ledger gains a failed run, or  *)
(* had one of that id before.                                              *)
LEMMA RecordFailureEffect ==
  ASSUME SyncInv, NEW p \in Procs, RecordFailure(p)
  PROVE  /\ run[p] \in Runs
         /\ db'.documents = db.documents /\ db'.chunks = db.chunks
         /\ db'.sync_runs[run[p]] # Absent
         /\ \A r \in Runs \ {run[p]} : db'.sync_runs[r] = db.sync_runs[r]
         /\ db.sync_runs[run[p]] # Absent => db' = db
         /\ db.sync_runs[run[p]] = Absent =>
              db'.sync_runs[run[p]].status = "failed"
<1>1. run[p] \in Runs /\ db \in Databases /\ work[p].tally \in Tally
  BY WorkTypes DEF RecordFailure, SyncInv
<1>2. CASE CanRecord(db, run[p])
  <2> DEFINE row == [status |-> "failed", tally |-> FailedTally(work[p].tally)]
  <2>1. row \in RunRow
    BY <1>1 DEF RunRow, Statuses, FailedTally, Tally
  <2>2. row # Absent
    BY <2>1, AbsentIsNoRow
  <2>3. row.status = "failed"
    OBVIOUS
  <2> HIDE DEF row
  <2>4. /\ db'.documents = db.documents /\ db'.chunks = db.chunks
        /\ db'.sync_runs = [db.sync_runs EXCEPT ![run[p]] = row]
    BY <1>1, <1>2 DEF RecordFailure, record_run, Databases, row
  <2>5. db.sync_runs \in [Runs -> RunRow \cup {Absent}]
    BY <1>1 DEF Databases
  <2> QED
    BY <1>1, <1>2, <2>2, <2>3, <2>4, <2>5 DEF CanRecord
<1>3. CASE ~CanRecord(db, run[p])
  BY <1>1, <1>3 DEF RecordFailure, CanRecord
<1> QED
  BY <1>2, <1>3

(* A step changes the database by a commit, by recording a failure, or not *)
(* at all.                                                                 *)
Commits(p) == pc[p] = "committing" /\ Publish(p)

LEMMA DatabaseSteps ==
  ASSUME [Next]_vars
  PROVE  \/ UNCHANGED <<db, published>>
         \/ \E p \in Procs :
              \/ RecordFailure(p)
              \/ Commits(p) /\ (Commit(p) \/ CommitAckLost(p) \/ Crash(p))
<1>1. ASSUME NEW p \in Procs, Commit(p) \/ CommitAckLost(p) \/ Crash(p)
      PROVE  UNCHANGED <<db, published>> \/ Commits(p)
  BY <1>1 DEF Commit, CommitAckLost, Crash, Commits
<1>2. ASSUME NEW p \in Procs,
             \/ Scan(p) \/ BeginTransaction(p) \/ RecordRun(p) \/ Unlock(p)
             \/ AcquireFails(p) \/ Fault(p) \/ RecordFailureFails(p)
             \/ UnlockFails(p) \/ AcquireLock(p) \/ Busy(p)
      PROVE  UNCHANGED <<db, published>>
  BY <1>2 DEF Scan, BeginTransaction, RecordRun, Unlock, AcquireFails, Fault,
       RecordFailureFails, UnlockFails, AcquireLock, Busy
<1>3. ASSUME NEW p \in Procs, NEW path \in Paths,
             \/ UpdateMetadata(p, path) \/ DeleteDocument(p, path)
             \/ StoreDocument(p, path) \/ LoadFails(p, path)
      PROVE  UNCHANGED <<db, published>>
  BY <1>3 DEF UpdateMetadata, DeleteDocument, StoreDocument, LoadFails
<1>4. ASSUME EditSource \/ UNCHANGED vars PROVE UNCHANGED <<db, published>>
  BY <1>4 DEF EditSource, vars
<1> QED
  BY <1>1, <1>2, <1>3, <1>4 DEF Next, Step, Trouble, Rest

(* The ledger only grows. *)
LEMMA LedgerGrows ==
  ASSUME SyncInv, [Next]_vars
  PROVE  \A r \in Runs :
           db.sync_runs[r] # Absent => db'.sync_runs[r] = db.sync_runs[r]
<1>1. ASSUME NEW p \in Procs, Commits(p)
      PROVE  \A r \in Runs :
               db.sync_runs[r] # Absent => db'.sync_runs[r] = db.sync_runs[r]
  BY <1>1, PublishEffect DEF Commits
<1>2. ASSUME NEW p \in Procs, RecordFailure(p)
      PROVE  \A r \in Runs :
               db.sync_runs[r] # Absent => db'.sync_runs[r] = db.sync_runs[r]
  BY <1>2, RecordFailureEffect
<1> QED
  BY <1>1, <1>2, DatabaseSteps

-----------------------------------------------------------------------------
(* Only a commit that is heard of makes a caller hear "succeeded".         *)
LEMMA SuccessSteps ==
  ASSUME TypeInv, [Next]_vars, NEW p \in Procs, outcome'[p] = "succeeded"
  PROVE  Commit(p) \/ (outcome[p] = "succeeded" /\ run'[p] = run[p])
<1>1. ASSUME NEW q \in Procs,
             \/ AcquireLock(q) \/ Busy(q) \/ AcquireFails(q) \/ UnlockFails(q)
             \/ Crash(q) \/ RecordFailure(q) \/ RecordFailureFails(q)
      PROVE  outcome[p] = "succeeded" /\ run'[p] = run[p]
  BY <1>1 DEF AcquireLock, Busy, AcquireFails, UnlockFails, Crash, RecordFailure,
       RecordFailureFails, Failed, TypeInv, TypeOK
<1>2. ASSUME NEW q \in Procs,
             \/ Scan(q) \/ BeginTransaction(q) \/ RecordRun(q) \/ Unlock(q)
             \/ Fault(q) \/ CommitAckLost(q)
      PROVE  outcome[p] = "succeeded" /\ run'[p] = run[p]
  BY <1>2 DEF Scan, BeginTransaction, RecordRun, Unlock, Fault, CommitAckLost
<1>3. ASSUME NEW q \in Procs, NEW path \in Paths,
             \/ UpdateMetadata(q, path) \/ DeleteDocument(q, path)
             \/ StoreDocument(q, path) \/ LoadFails(q, path)
      PROVE  outcome[p] = "succeeded" /\ run'[p] = run[p]
  BY <1>3 DEF UpdateMetadata, DeleteDocument, StoreDocument, LoadFails
<1>4. ASSUME NEW q \in Procs, Commit(q), q # p
      PROVE  outcome[p] = "succeeded" /\ run'[p] = run[p]
  BY <1>4 DEF Commit, TypeInv, TypeOK
<1>5. ASSUME EditSource \/ UNCHANGED vars
      PROVE  outcome[p] = "succeeded" /\ run'[p] = run[p]
  BY <1>5 DEF EditSource, vars
<1> QED
  BY <1>1, <1>2, <1>3, <1>4, <1>5 DEF Next, Step, Trouble, Rest

(* A success that was reported stays in the ledger.                        *)
LEMMA NextSuccessIsLogged ==
  ASSUME SyncInv, SuccessIsLogged, [Next]_vars
  PROVE  SuccessIsLogged'
<1> SUFFICES ASSUME NEW p \in Procs, outcome'[p] = "succeeded"
             PROVE  /\ run'[p] \in Runs
                    /\ db'.sync_runs[run'[p]] # Absent
                    /\ db'.sync_runs[run'[p]].status = "succeeded"
  BY DEF SuccessIsLogged
<1>1. CASE Commit(p)
  <2>1. pc[p] = "committing" /\ Publish(p) /\ run' = run
    BY <1>1 DEF Commit
  <2> QED
    BY <2>1, PublishEffect
<1>2. CASE outcome[p] = "succeeded" /\ run'[p] = run[p]
  BY <1>2, LedgerGrows DEF SuccessIsLogged
<1> QED
  BY <1>1, <1>2, SuccessSteps DEF SyncInv

(* Without a fault, a process comes to unlock by a commit or a recorded    *)
(* failure, and leaves by unlocking; only the lock gives a new run.        *)
LEMMA FaultlessSteps ==
  ASSUME TypeInv, [Next]_vars, faults' = 0
  PROVE  /\ faults = 0
         /\ \A p \in Procs : pc'[p] = "unlocking" =>
              \/ Commit(p) \/ RecordFailure(p)
              \/ pc[p] = "unlocking" /\ run'[p] = run[p]
         /\ \A p \in Procs : pc[p] # "idle" /\ pc'[p] = "idle" => Unlock(p)
         /\ \/ next_run' = next_run /\ run' = run
            \/ \E p \in Procs : AcquireLock(p)
<1> DEFINE Goal == /\ faults = 0
                   /\ \A p \in Procs : pc'[p] = "unlocking" =>
                        \/ Commit(p) \/ RecordFailure(p)
                        \/ pc[p] = "unlocking" /\ run'[p] = run[p]
                   /\ \A p \in Procs : pc[p] # "idle" /\ pc'[p] = "idle" => Unlock(p)
                   /\ \/ next_run' = next_run /\ run' = run
                      \/ \E p \in Procs : AcquireLock(p)
<1>1. ASSUME NEW q \in Procs, Trouble(q)
      PROVE  FALSE
  <2>1. faults' = faults + 1
    BY <1>1 DEF Trouble, AcquireFails, CommitAckLost, Fault, RecordFailureFails,
         UnlockFails, Crash
  <2> QED
    BY <2>1 DEF TypeInv, TypeOK
<1>2. ASSUME NEW q \in Procs, AcquireLock(q)
      PROVE  Goal
  BY <1>2 DEF AcquireLock, TypeInv, TypeOK
<1>3. ASSUME NEW q \in Procs, Scan(q) \/ BeginTransaction(q) \/ RecordRun(q)
      PROVE  Goal
  BY <1>3 DEF Scan, BeginTransaction, RecordRun, TypeInv, TypeOK
<1>4. ASSUME NEW q \in Procs, NEW path \in Paths,
             \/ UpdateMetadata(q, path) \/ DeleteDocument(q, path)
             \/ StoreDocument(q, path) \/ LoadFails(q, path)
      PROVE  Goal
  BY <1>4 DEF UpdateMetadata, DeleteDocument, StoreDocument, LoadFails, TypeInv, TypeOK
<1>5. ASSUME NEW q \in Procs, Commit(q) \/ RecordFailure(q)
      PROVE  Goal
  <2>1. \A p \in Procs \ {q} : pc'[p] = pc[p]
    BY <1>5 DEF Commit, RecordFailure, Failed, TypeInv, TypeOK
  <2>2. pc'[q] = "unlocking" /\ UNCHANGED <<faults, run, next_run>>
    BY <1>5 DEF Commit, RecordFailure, Failed, TypeInv, TypeOK
  <2> QED
    BY <1>5, <2>1, <2>2
<1>6. ASSUME NEW q \in Procs, Unlock(q)
      PROVE  Goal
  <2>1. \A p \in Procs \ {q} : pc'[p] = pc[p]
    BY <1>6 DEF Unlock, TypeInv, TypeOK
  <2>2. pc'[q] = "idle" /\ UNCHANGED <<faults, run, next_run>>
    BY <1>6 DEF Unlock, TypeInv, TypeOK
  <2> QED
    BY <1>6, <2>1, <2>2
<1>7. ASSUME EditSource \/ UNCHANGED vars \/ \E q \in Procs : Busy(q)
      PROVE  Goal
  BY <1>7 DEF EditSource, vars, Busy
<1> HIDE DEF Goal
<1>8. Goal
  BY <1>1, <1>2, <1>3, <1>4, <1>5, <1>6, <1>7 DEF Next, Step, Rest
<1> QED
  BY <1>8 DEF Goal

(* A run that only has to unlock stays logged.                             *)
LEMMA NextUnlockingIsLogged ==
  ASSUME SyncInv, UnlockingIsLogged, [Next]_vars
  PROVE  UnlockingIsLogged'
<1> SUFFICES ASSUME faults' = 0, NEW p \in Procs, pc'[p] = "unlocking"
             PROVE  db'.sync_runs[run'[p]] # Absent
  BY DEF UnlockingIsLogged
<1>1. TypeInv /\ faults = 0
  BY FaultlessSteps DEF SyncInv
<1>2. CASE Commit(p)
  <2>1. pc[p] = "committing" /\ Publish(p) /\ run' = run
    BY <1>2 DEF Commit
  <2> QED
    BY <2>1, PublishEffect
<1>3. CASE RecordFailure(p)
  <2>1. run' = run
    BY <1>3 DEF RecordFailure
  <2> QED
    BY <1>3, <2>1, RecordFailureEffect
<1>4. CASE pc[p] = "unlocking" /\ run'[p] = run[p]
  <2>1. run[p] \in Runs /\ db.sync_runs[run[p]] # Absent
    BY <1>1, <1>4, WorkTypes DEF UnlockingIsLogged
  <2> QED
    BY <1>4, <2>1, LedgerGrows
<1> QED
  BY <1>1, <1>2, <1>3, <1>4, FaultlessSteps

(* No run is forgotten. *)
LEMMA NextEveryRunIsLogged ==
  ASSUME SyncInv, UnlockingIsLogged, EveryRunIsLogged, [Next]_vars
  PROVE  EveryRunIsLogged'
<1> SUFFICES ASSUME faults' = 0, NEW r \in 1 .. next_run' - 1
             PROVE  \/ db'.sync_runs[r] # Absent
                    \/ \E p \in Procs : pc'[p] # "idle" /\ run'[p] = r
  BY DEF EveryRunIsLogged
<1>1. TypeInv /\ OneWriter /\ faults = 0 /\ next_run \in 1 .. MaxRuns + 1
  BY FaultlessSteps DEF SyncInv, TypeInv, TypeOK
<1>2. \A s \in 1 .. next_run - 1 :
        \/ db.sync_runs[s] # Absent
        \/ \E p \in Procs : pc[p] # "idle" /\ run[p] = s
  BY <1>1 DEF EveryRunIsLogged
<1>3. \A s \in 1 .. next_run - 1 : s \in Runs
  BY <1>1, MaxRunsIsNat DEF Runs
<1>4. CASE \E p \in Procs : AcquireLock(p)
  <2>1. PICK p \in Procs : AcquireLock(p)
    BY <1>4
  <2>2. /\ pc'[p] = "scanning" /\ run'[p] = next_run /\ next_run' = next_run + 1
        /\ db' = db /\ \A q \in Procs : pc[q] = "idle"
    BY <1>1, <2>1, NoProcIsNoProcess
       DEF AcquireLock, LockIsFree, OneWriter, TypeInv, TypeOK
  <2>3. r = next_run \/ r \in 1 .. next_run - 1
    BY <1>1, <2>2, MaxRunsIsNat
  <2> QED
    BY <1>2, <2>2, <2>3
<1>5. CASE next_run' = next_run /\ run' = run
  <2>1. r \in 1 .. next_run - 1 /\ r \in Runs
    BY <1>3, <1>5
  <2>2. CASE db.sync_runs[r] # Absent
    BY <2>1, <2>2, LedgerGrows
  <2>3. ASSUME NEW p \in Procs, pc[p] # "idle", run[p] = r, pc'[p] = "idle"
        PROVE  db'.sync_runs[r] # Absent
    <3>1. Unlock(p)
      BY <1>1, <2>3, FaultlessSteps
    <3> QED
      BY <1>1, <2>3, <3>1 DEF Unlock, UnlockingIsLogged
  <2> QED
    BY <1>2, <1>5, <2>1, <2>2, <2>3
<1> QED
  BY <1>1, <1>4, <1>5, FaultlessSteps

(* A sync between its scan and its commit has just scanned, or goes on     *)
(* with the scan it has.                                                   *)
LEMMA ScanSteps ==
  ASSUME SyncInv, TypeInv', [Next]_vars, NEW p \in Procs,
         pc'[p] \in {"beginning", "writing", "committing"}
  PROVE  \/ Scan(p)
         \/ /\ pc[p] \in {"beginning", "writing", "committing"}
            /\ work'[p].scanned_at = work[p].scanned_at
<1> DEFINE Goal == /\ pc[p] \in {"beginning", "writing", "committing"}
                   /\ work'[p].scanned_at = work[p].scanned_at
<1>1. TypeInv /\ OneWriter /\ work[p] \in Work /\ pc'[p] \notin Over
  BY WorkTypes DEF SyncInv, Over
<1>2. ASSUME NEW q \in Procs, q # p, Step(q) \/ Trouble(q) \/ AcquireLock(q) \/ Busy(q)
      PROVE  Goal
  <2>1. CASE \E path \in Paths :
               \/ UpdateMetadata(q, path) \/ DeleteDocument(q, path)
               \/ StoreDocument(q, path) \/ LoadFails(q, path)
    <3>1. pc'[p] = pc[p] /\ work'[p] = work[p]
      BY <1>1, <1>2, <2>1 DEF UpdateMetadata, DeleteDocument, StoreDocument,
           LoadFails, TypeInv, TypeOK
    <3> QED
      BY <3>1
  <2>2. CASE \/ AcquireLock(q) \/ Busy(q) \/ Scan(q) \/ BeginTransaction(q)
             \/ RecordRun(q) \/ Commit(q) \/ RecordFailure(q) \/ Unlock(q)
             \/ Trouble(q)
    <3>1. pc'[p] = pc[p] /\ work'[p] = work[p]
      BY <1>1, <1>2, <2>2 DEF AcquireLock, Busy, Scan, BeginTransaction, RecordRun,
           Commit, RecordFailure, Unlock, Trouble, AcquireFails, CommitAckLost,
           Fault, RecordFailureFails, Failed, UnlockFails, Crash, TypeInv, TypeOK
    <3> QED
      BY <3>1
  <2> QED
    BY <1>2, <2>1, <2>2 DEF Step
<1>3. CASE BeginTransaction(p) \/ RecordRun(p)
  <2>1. pc[p] \in {"beginning", "writing", "committing"}
    BY <1>3 DEF BeginTransaction, RecordRun
  <2>2. work'[p].scanned_at = work[p].scanned_at
    BY <1>1, <1>3 DEF BeginTransaction, RecordRun, TypeInv, TypeOK, Work
  <2> QED
    BY <2>1, <2>2
<1>4. ASSUME NEW path \in Paths,
             \/ UpdateMetadata(p, path) \/ DeleteDocument(p, path)
             \/ StoreDocument(p, path) \/ LoadFails(p, path)
      PROVE  Goal
  <2>1. pc[p] = "writing"
    BY <1>4 DEF UpdateMetadata, DeleteDocument, StoreDocument, LoadFails
  <2>2. work'[p].scanned_at = work[p].scanned_at
    BY <1>1, <1>4, UpdateFields, DeleteFields, StoreFields
       DEF UpdateMetadata, LoadFails
  <2> QED
    BY <2>1, <2>2
<1>5. ASSUME \/ AcquireLock(p) \/ Commit(p) \/ RecordFailure(p) \/ Unlock(p)
             \/ Fault(p) \/ CommitAckLost(p) \/ RecordFailureFails(p)
             \/ UnlockFails(p) \/ Crash(p)
      PROVE  FALSE
  BY <1>1, <1>5 DEF AcquireLock, Commit, RecordFailure, Unlock, Fault, CommitAckLost,
       RecordFailureFails, Failed, UnlockFails, Crash, Over, TypeInv, TypeOK
<1>6. CASE EditSource \/ UNCHANGED vars \/ Busy(p) \/ AcquireFails(p)
  BY <1>6 DEF EditSource, vars, Busy, AcquireFails
<1> HIDE DEF Goal
<1>7. Scan(p) \/ Goal
  <2>1. CASE EditSource \/ UNCHANGED vars
    BY <1>6, <2>1 DEF Goal
  <2>2. ASSUME AcquireLock(p) \/ Busy(p) \/ Step(p) \/ Trouble(p)
        PROVE  Scan(p) \/ Goal
    BY <1>3, <1>4, <1>5, <1>6, <2>2 DEF Step, Trouble, Goal
  <2>3. ASSUME NEW q \in Procs, AcquireLock(q) \/ Busy(q) \/ Step(q) \/ Trouble(q)
        PROVE  Scan(p) \/ Goal
    BY <1>2, <2>2, <2>3
  <2> QED
    BY <2>1, <2>3 DEF Next, Rest
<1> QED
  BY <1>7 DEF Goal

(* What is published is never later than what a sync has scanned: scans    *)
(* follow each other under the lock.                                       *)
LEMMA NextScansAreRecent ==
  ASSUME SyncInv, SyncInv', ScansAreRecent, [Next]_vars
  PROVE  ScansAreRecent'
<1> SUFFICES ASSUME NEW p \in Procs,
                    pc'[p] \in {"beginning", "writing", "committing"}
             PROVE  published' <= work'[p].scanned_at
  BY DEF ScansAreRecent
<1>1. TypeInv /\ TypeInv' /\ OneWriter /\ OneWriter' /\ published \in 0 .. Len(history)
  BY DEF SyncInv, TypeInv, TypeOK
<1>2. CASE Scan(p)
  <2>1. work'[p].scanned_at = Len(history)
    BY <1>1, <1>2, WorkTypes DEF Scan, TypeInv, TypeOK, Work
  <2> QED
    BY <1>1, <1>2, <2>1, SourceType DEF Scan
<1>3. CASE /\ pc[p] \in {"beginning", "writing", "committing"}
           /\ work'[p].scanned_at = work[p].scanned_at
  <2>1. published' = published
    <3>1. ASSUME NEW q \in Procs, Commits(q),
                 Commit(q) \/ CommitAckLost(q) \/ Crash(q)
          PROVE  FALSE
      <4>1. q = p
        BY <1>1, <1>3, <3>1, OthersAreIdle DEF Commits
      <4> QED
        BY <1>1, <3>1, <4>1 DEF Commit, CommitAckLost, Crash, TypeInv, TypeOK
    <3> QED
      BY <3>1, DatabaseSteps DEF RecordFailure
  <2> QED
    BY <1>3, <2>1 DEF ScansAreRecent
<1> QED
  BY <1>1, <1>2, <1>3, ScanSteps

(* Every step keeps what the ledger tells. *)
LEMMA NextLedgerInv ==
  ASSUME SyncInv, LedgerInv, [Next]_vars
  PROVE  LedgerInv'
<1>1. SyncInv'
  BY NextSyncInv
<1> QED
  BY <1>1, NextSuccessIsLogged, NextUnlockingIsLogged, NextEveryRunIsLogged,
     NextScansAreRecent DEF LedgerInv

(* It holds at first. *)
LEMMA InitLedgerInv == Init => LedgerInv
BY DEF Init, LedgerInv, SuccessIsLogged, UnlockingIsLogged, EveryRunIsLogged,
     ScansAreRecent

-----------------------------------------------------------------------------
(* The inductive invariant of the ledger holds of every behaviour.         *)
THEOREM LedgerInvariant == Spec => [](SyncInv /\ LedgerInv)
<1>1. Init => SyncInv /\ LedgerInv
  BY InitSyncInv, InitLedgerInv
<1>2. SyncInv /\ LedgerInv /\ [Next]_vars => (SyncInv /\ LedgerInv)'
  BY NextSyncInv, NextLedgerInv
<1> QED
  BY <1>1, <1>2, PTL DEF Spec

(* No caller is told of a success that the ledger does not show, and no    *)
(* run that had the lock is missing from it (pipeline.py:217-288).         *)
THEOREM LedgerIsTold == Spec => []LedgerTellsOutcomes
<1>1. LedgerInv => LedgerTellsOutcomes
  BY DEF LedgerInv, SuccessIsLogged, LedgerTellsOutcomes, ReportedSuccessIsDurable
<1> QED
  BY <1>1, LedgerInvariant, PTL

-----------------------------------------------------------------------------
(* The initial states are initial states of AtomicCorpus.                  *)
LEMMA InitImplements == Init => Atomic!AtomicInit
<1> SUFFICES ASSUME Init PROVE Atomic!AtomicInit
  OBVIOUS
<1>1. Corpus(db) = NoScan
  BY DEF Init, Corpus, EmptyDatabase, NoScan, Hashes
<1>2. Ledger(db) = [r \in Runs |-> "none"]
  BY DEF Init, Ledger, EmptyDatabase
<1>3. history \in {<<scan>> : scan \in Scans}
  BY InitialSourceIsScan DEF Init
<1> QED
  BY <1>1, <1>2, <1>3
     DEF Init, Atomic!AtomicInit, Atomic!NoScan, NoScan, Atomic!Scans, Scans,
         Atomic!ScannedDocument, ScannedDocument

(* A commit publishes a scan, and logs its run, at once.                   *)
LEMMA CommitImplements ==
  ASSUME SyncInv, LedgerInv, NEW p \in Procs, Commits(p), UNCHANGED history
  PROVE  Atomic!PublishScan(run[p])
<1> DEFINE r == run[p]
           version == work[p].scanned_at
<1>1. /\ r \in Runs /\ Corpus(db') = history[version] /\ published' = version
      /\ version \in 1 .. Len(history)
      /\ db.sync_runs[r] = Absent
      /\ db'.sync_runs[r] # Absent /\ db'.sync_runs[r].status = "succeeded"
      /\ \A s \in Runs \ {r} : db'.sync_runs[s] = db.sync_runs[s]
  BY PublishEffect DEF Commits
<1>2. version >= published
  <2>1. published <= version
    BY DEF LedgerInv, ScansAreRecent, Commits
  <2> QED
    BY <1>1, <2>1, SourceType DEF SyncInv, TypeInv, TypeOK
<1> HIDE DEF r, version
<1>3. Ledger(db)[r] = "none"
  BY <1>1 DEF Ledger
<1>4. Ledger(db)' = [Ledger(db) EXCEPT ![r] = "succeeded"]
  BY <1>1 DEF Ledger
<1>5. Corpus(db)' = history[version]
  BY <1>1
<1>6. Atomic!PublishScan(r)
  BY <1>1, <1>2, <1>3, <1>4, <1>5 DEF Atomic!PublishScan
<1> QED
  BY <1>6 DEF r

(* A recorded failure logs a run and leaves the corpus, or does nothing.   *)
LEMMA FailureImplements ==
  ASSUME SyncInv, NEW p \in Procs, RecordFailure(p)
  PROVE  Atomic!LogFailure(run[p]) \/ UNCHANGED Atomic!abstractVars
<1>1. /\ run[p] \in Runs /\ db'.documents = db.documents
      /\ db'.sync_runs[run[p]] # Absent
      /\ \A r \in Runs \ {run[p]} : db'.sync_runs[r] = db.sync_runs[r]
      /\ db.sync_runs[run[p]] # Absent => db' = db
      /\ db.sync_runs[run[p]] = Absent => db'.sync_runs[run[p]].status = "failed"
  BY RecordFailureEffect
<1>2. UNCHANGED <<history, published>>
  BY DEF RecordFailure
<1>3. UNCHANGED Corpus(db)
  BY <1>1 DEF Corpus
<1>4. CASE db.sync_runs[run[p]] = Absent
  <2>1. Ledger(db)[run[p]] = "none"
    BY <1>1, <1>4 DEF Ledger
  <2>2. Ledger(db)' = [Ledger(db) EXCEPT ![run[p]] = "failed"]
    <3> DEFINE r == run[p]
    <3>1. /\ r \in Runs /\ db'.sync_runs[r] # Absent
          /\ db'.sync_runs[r].status = "failed"
          /\ \A s \in Runs \ {r} : db'.sync_runs[s] = db.sync_runs[s]
      BY <1>1, <1>4
    <3> HIDE DEF r
    <3>2. Ledger(db)' = [Ledger(db) EXCEPT ![r] = "failed"]
      BY <3>1 DEF Ledger
    <3> QED
      BY <3>2 DEF r
  <2> QED
    BY <1>2, <1>3, <2>1, <2>2 DEF Atomic!LogFailure
<1>5. CASE db.sync_runs[run[p]] # Absent
  BY <1>1, <1>2, <1>5 DEF Atomic!abstractVars
<1> QED
  BY <1>4, <1>5

(* Every step is a step of AtomicCorpus, or one it does not see.           *)
LEMMA NextImplements ==
  ASSUME SyncInv, LedgerInv, [Next]_vars
  PROVE  [Atomic!AtomicNext]_(Atomic!abstractVars)
<1>1. CASE EditSource
  <2>1. PICK path \in Paths, item \in ScannedDocument \cup {Absent} :
          history' = Append(history, [source EXCEPT ![path] = item])
    BY <1>1 DEF EditSource
  <2>2. [source EXCEPT ![path] = item] \in Atomic!Scans
    BY SourceType DEF Scans, Atomic!Scans, ScannedDocument, Atomic!ScannedDocument,
         SyncInv
  <2>3. UNCHANGED <<db, published>>
    BY <1>1 DEF EditSource
  <2>4. Atomic!Edit
    BY <2>1, <2>2, <2>3 DEF Atomic!Edit
  <2> QED
    BY <2>4 DEF Atomic!AtomicNext
<1>2. CASE ~EditSource
  <2>1. UNCHANGED history
    <3>1. ASSUME NEW p \in Procs, Step(p)
          PROVE  UNCHANGED history
      BY <3>1 DEF Step, Scan, BeginTransaction, UpdateMetadata, DeleteDocument,
           StoreDocument, LoadFails, RecordRun, Commit, RecordFailure, Unlock
    <3>2. ASSUME NEW p \in Procs, Trouble(p) \/ AcquireLock(p) \/ Busy(p)
          PROVE  UNCHANGED history
      BY <3>2 DEF Trouble, AcquireFails, CommitAckLost, Fault, RecordFailureFails,
           UnlockFails, Crash, AcquireLock, Busy
    <3> QED
      BY <1>2, <3>1, <3>2 DEF Next, Rest, vars
  <2>2. CASE UNCHANGED <<db, published>>
    BY <2>1, <2>2 DEF Atomic!abstractVars
  <2>3. ASSUME NEW p \in Procs, RecordFailure(p)
        PROVE  [Atomic!AtomicNext]_(Atomic!abstractVars)
    <3>1. run[p] \in Runs
      BY <2>3, RecordFailureEffect
    <3> QED
      BY <2>3, <3>1, FailureImplements DEF Atomic!AtomicNext
  <2>4. ASSUME NEW p \in Procs, Commits(p)
        PROVE  [Atomic!AtomicNext]_(Atomic!abstractVars)
    <3>1. run[p] \in Runs
      BY <2>4, PublishEffect DEF Commits
    <3> QED
      BY <2>1, <2>4, <3>1, CommitImplements DEF Atomic!AtomicNext
  <2> QED
    BY <2>2, <2>3, <2>4, DatabaseSteps
<1> QED
  BY <1>1, <1>2

(* Locks, plans, transactions, failures and crashes implement what         *)
(* AtomicCorpus promises: the corpus jumps from one complete scan to a     *)
(* later one in the instant the ledger shows the success, and a failure    *)
(* changes the ledger only (pipeline.py:107-288).                          *)
THEOREM SyncImplementsAtomicCorpus == Spec => ImplementsAtomicCorpus
<1>1. SyncInv /\ LedgerInv /\ [Next]_vars
        => [Atomic!AtomicNext]_(Atomic!abstractVars)
  BY NextImplements
<1> QED
  BY <1>1, InitImplements, LedgerInvariant, PTL
     DEF Spec, ImplementsAtomicCorpus, Atomic!AtomicSpec

-----------------------------------------------------------------------------
(* The result of a run counts the documents it found, those it adds and    *)
(* those it takes away, ...                                                *)
DocumentsCounted(w) ==
  /\ DocumentsFound(w.tally) = Cardinality(Present(w.previous))
  /\ w.tally.new_documents = Cardinality(Present(w.scanned) \ Present(w.previous))
  /\ w.tally.deleted_documents = Cardinality(Present(w.previous) \ Present(w.scanned))

(* ... and at every moment of its transaction the chunks.                  *)
ChunksCounted(w) ==
  Cardinality(w.txn.chunks) =
    Cardinality(db.chunks) + w.tally.embedded_chunks - w.tally.deleted_chunks

(* That result is what the commit adds to the ledger.                      *)
TallyIsRecorded(w, r) == w.txn.sync_runs[r].tally = w.tally

TransactionsCounted ==
  \A p \in Procs :
    /\ pc[p] \in InTransaction => DocumentsCounted(work[p]) /\ ChunksCounted(work[p])
    /\ pc[p] = "committing" => TallyIsRecorded(work[p], run[p])

(* A run that is under way has the last number that was drawn.             *)
LastRunIsOpen == \A p \in Procs : pc[p] # "idle" => run[p] = next_run - 1

AccountInv == LedgerExplainsCorpus /\ TransactionsCounted

(* Numbers are drawn under the lock.                                       *)
LEMMA NextLastRunIsOpen ==
  ASSUME SyncInv, LastRunIsOpen, [Next]_vars
  PROVE  LastRunIsOpen'
<1>1. TypeInv /\ OneWriter
  BY DEF SyncInv
<1>2. ASSUME NEW p \in Procs, AcquireLock(p) PROVE LastRunIsOpen'
  <2>1. /\ \A q \in Procs : pc[q] = "idle"
        /\ pc' = [pc EXCEPT ![p] = "scanning"] /\ next_run' = next_run + 1
        /\ run' = [run EXCEPT ![p] = next_run] /\ next_run \in Int
    BY <1>1, <1>2, NoProcIsNoProcess
       DEF AcquireLock, LockIsFree, OneWriter, TypeInv, TypeOK
  <2>2. /\ run'[p] = next_run' - 1
        /\ \A q \in Procs \ {p} : pc'[q] = "idle"
    BY <1>1, <2>1 DEF TypeInv, TypeOK
  <2> QED
    BY <2>2 DEF LastRunIsOpen
<1>3. ASSUME UNCHANGED <<run, next_run>>,
             \A p \in Procs : pc'[p] # "idle" => pc[p] # "idle"
      PROVE  LastRunIsOpen'
  BY <1>3 DEF LastRunIsOpen
<1>4. ASSUME EditSource \/ Rest \/ UNCHANGED vars
      PROVE  LastRunIsOpen'
  BY <1>3, <1>4 DEF EditSource, Rest, vars
<1>5. ASSUME NEW p \in Procs, Busy(p) \/ Step(p) \/ Trouble(p)
      PROVE  LastRunIsOpen'
  <2>1. UNCHANGED <<run, next_run>>
    BY <1>5 DEF Busy, Step, Trouble, Scan, BeginTransaction, UpdateMetadata,
         DeleteDocument, StoreDocument, LoadFails, RecordRun, Commit, RecordFailure,
         Unlock, AcquireFails, CommitAckLost, Fault, RecordFailureFails, UnlockFails,
         Crash
  <2>2. UNCHANGED pc \/ pc[p] # "idle"
    BY <1>5 DEF Busy, Step, Trouble, Scan, BeginTransaction, UpdateMetadata,
         DeleteDocument, StoreDocument, LoadFails, RecordRun, Commit, RecordFailure,
         Unlock, AcquireFails, CommitAckLost, Fault, RecordFailureFails, UnlockFails,
         Crash
  <2>3. UNCHANGED pc \/ \E stage : pc' = [pc EXCEPT ![p] = stage]
    BY <1>5 DEF Busy, Step, Trouble, Scan, BeginTransaction, UpdateMetadata,
         DeleteDocument, StoreDocument, LoadFails, RecordRun, Commit, RecordFailure,
         Failed, Unlock, AcquireFails, CommitAckLost, Fault, RecordFailureFails,
         UnlockFails, Crash
  <2> QED
    BY <1>1, <1>3, <2>1, <2>2, <2>3 DEF TypeInv, TypeOK
<1> QED
  BY <1>2, <1>4, <1>5 DEF Next

(* The categories of a plan, without the new documents, are what was there.*)
LEMMA PlanCounts ==
  ASSUME NEW scanned \in Scans, NEW previous \in Documents
  PROVE  LET tally == PlanTally(diff_source(scanned, previous))
         IN  DocumentsFound(tally) = Cardinality(Present(previous))
<1> DEFINE d == diff_source(scanned, previous)
<1>1. /\ d.changed \cap d.metadata_changed = {}
      /\ (d.changed \cup d.metadata_changed) \cap d.unchanged = {}
      /\ (d.changed \cup d.metadata_changed \cup d.unchanged) \cap d.deleted = {}
      /\ Present(previous) = d.changed \cup d.metadata_changed \cup d.unchanged
                                \cup d.deleted
  BY DEF diff_source, Present
<1>2. /\ IsFiniteSet(d.changed) /\ IsFiniteSet(d.metadata_changed)
      /\ IsFiniteSet(d.unchanged) /\ IsFiniteSet(d.deleted)
  <2>1. d \in Diffs
    BY DiffPartitionsPaths
  <2> HIDE DEF d
  <2> QED
    BY <2>1, PathsFinite, FS_Subset DEF Diffs
<1>3. DocumentsFound(PlanTally(d)) =
        Cardinality(d.changed) + Cardinality(d.metadata_changed)
          + Cardinality(d.unchanged) + Cardinality(d.deleted)
  BY DEF DocumentsFound, PlanTally, ZeroTally
<1> HIDE DEF d
<1>4. ASSUME NEW A, NEW B, IsFiniteSet(A), IsFiniteSet(B), A \cap B = {}
      PROVE  /\ IsFiniteSet(A \cup B) /\ Cardinality(A) \in Nat
             /\ Cardinality(B) \in Nat
             /\ Cardinality(A \cup B) = Cardinality(A) + Cardinality(B)
  <2>1. /\ IsFiniteSet(A \cup B)
        /\ Cardinality(A \cup B)
             = Cardinality(A) + Cardinality(B) - Cardinality(A \cap B)
    BY <1>4, FS_Union
  <2>2. Cardinality(A) \in Nat /\ Cardinality(B) \in Nat
        /\ Cardinality(A \cap B) = 0
    BY <1>4, FS_CardinalityType, FS_EmptySet
  <2> QED
    BY <2>1, <2>2
<1>5. /\ IsFiniteSet(d.changed \cup d.metadata_changed)
      /\ Cardinality(d.changed \cup d.metadata_changed)
           = Cardinality(d.changed) + Cardinality(d.metadata_changed)
      /\ Cardinality(d.changed) \in Nat /\ Cardinality(d.metadata_changed) \in Nat
  BY <1>1, <1>2, <1>4
<1>6. /\ IsFiniteSet(d.changed \cup d.metadata_changed \cup d.unchanged)
      /\ Cardinality(d.changed \cup d.metadata_changed \cup d.unchanged)
           = Cardinality(d.changed) + Cardinality(d.metadata_changed)
               + Cardinality(d.unchanged)
      /\ Cardinality(d.unchanged) \in Nat
  BY <1>1, <1>2, <1>4, <1>5
<1>7. /\ Cardinality(Present(previous))
           = Cardinality(d.changed) + Cardinality(d.metadata_changed)
               + Cardinality(d.unchanged) + Cardinality(d.deleted)
  BY <1>1, <1>2, <1>4, <1>6
<1> QED
  BY <1>3, <1>7 DEF d

-----------------------------------------------------------------------------
(* A body is cut into ChunkCount chunks.                                   *)
LEMMA ChunkRowsCount ==
  ASSUME NEW id, NEW content \in Contents
  PROVE  /\ IsFiniteSet(ChunkRows(id, content))
         /\ Cardinality(ChunkRows(id, content)) = ChunkCount[content]
<1> DEFINE n == ChunkCount[content]
           rowAt(i) == [document_id |-> id, chunk_index |-> i, content |-> content]
           row == [i \in 0 .. n - 1 |-> rowAt(i)]
<1>1. n \in Nat
  BY ChunkCountIsNat
<1>2. IsFiniteSet(0 .. n - 1) /\ Cardinality(0 .. n - 1) = n
  <2>1. /\ IsFiniteSet(0 .. n - 1)
        /\ Cardinality(0 .. n - 1) = IF 0 > n - 1 THEN 0 ELSE (n - 1) - 0 + 1
    <3>1. 0 \in Int /\ n - 1 \in Int
      BY <1>1
    <3> HIDE DEF n
    <3> QED
      BY <3>1, FS_Interval
  <2> HIDE DEF n
  <2> QED
    BY <1>1, <2>1
<1>3. row \in Surjection(0 .. n - 1, ChunkRows(id, content))
  BY DEF Surjection, ChunkRows
<1>4. \A i, j \in 0 .. n - 1 : row[i] = row[j] => i = j
  <2>1. \A i, j : rowAt(i) = rowAt(j) => rowAt(i).chunk_index = rowAt(j).chunk_index
    OBVIOUS
  <2> QED
    BY <2>1
<1> HIDE DEF row, n
<1>5. row \in Bijection(0 .. n - 1, ChunkRows(id, content))
  BY <1>3, <1>4 DEF Bijection, Injection, IsInjective, Surjection
<1>6. ExistsBijection(0 .. n - 1, ChunkRows(id, content))
  BY <1>5 DEF ExistsBijection
<1> QED
  BY <1>2, <1>6, FS_Bijection DEF n

(* A deletion takes away the chunks it reports.                            *)
LEMMA DeleteCounts ==
  ASSUME NEW d \in Databases, IsFiniteSet(d.chunks), NEW id
  PROVE  Cardinality(delete_document(d, id).chunks)
           = Cardinality(d.chunks) - Cardinality(ChunksOf(d, id))
<1>1. delete_document(d, id).chunks = d.chunks \ ChunksOf(d, id)
  BY DEF delete_document, Databases
<1>2. d.chunks \cap ChunksOf(d, id) = ChunksOf(d, id)
  BY DEF ChunksOf
<1> QED
  BY <1>1, <1>2, FS_Difference

(* Storing a document where there is none adds the chunks of its body.     *)
LEMMA StoreCounts ==
  ASSUME NEW d \in Databases, IsFiniteSet(d.chunks), IdsNamePaths(d.documents),
         Indexed(d), NEW path \in Paths, d.documents[path] = Absent, NEW r,
         NEW item, NEW content \in Contents
  PROVE  Cardinality(replace_document(d, <<r, path>>, path, item, content).chunks)
           = Cardinality(d.chunks) + ChunkCount[content]
<1> DEFINE id == <<r, path>>
           added == ChunkRows(id, content)
<1>1. replace_document(d, id, path, item, content).chunks = d.chunks \cup added
  BY DEF replace_document, Databases
<1>2. d.chunks \cap added = {}
  <2>1. \A chunk \in d.chunks : chunk.document_id[2] # path
    BY ChunkOfPath
  <2>2. \A chunk \in added : chunk.document_id = id
    BY DEF ChunkRows
  <2>3. id[2] = path
    OBVIOUS
  <2> HIDE DEF added, id
  <2> QED
    BY <2>1, <2>2, <2>3
<1>3. IsFiniteSet(added) /\ Cardinality(added) = ChunkCount[content]
  BY ChunkRowsCount
<1>4. Cardinality(d.chunks) \in Nat /\ ChunkCount[content] \in Nat
  BY FS_CardinalityType, ChunkCountIsNat
<1> HIDE DEF added, id
<1>5. Cardinality(d.chunks \cup added)
        = Cardinality(d.chunks) + ChunkCount[content] - Cardinality({})
  BY <1>2, <1>3, FS_Union
<1>6. Cardinality(d.chunks \cup added) = Cardinality(d.chunks) + ChunkCount[content]
  BY <1>4, <1>5, FS_EmptySet
<1>7. Cardinality(replace_document(d, id, path, item, content).chunks)
        = Cardinality(d.chunks) + ChunkCount[content]
  BY <1>1, <1>6
<1> QED
  BY <1>7 DEF id

(* What a changed document had before is counted as deleted.               *)
LEMMA PriorCounts ==
  ASSUME NEW d \in Databases, IsFiniteSet(d.chunks), NEW prior, NEW tally \in Tally
  PROVE  LET counted == CountPrior(tally, d, prior)
         IN  /\ counted \in Tally
             /\ counted.new_documents = tally.new_documents
             /\ counted.deleted_documents = tally.deleted_documents
             /\ counted.embedded_chunks = tally.embedded_chunks
             /\ DocumentsFound(counted) = DocumentsFound(tally)
             /\ Cardinality(DeletePrior(d, prior).chunks) \in Nat
             /\ Cardinality(DeletePrior(d, prior).chunks) + counted.deleted_chunks
                  = Cardinality(d.chunks) + tally.deleted_chunks
<1>1. Cardinality(d.chunks) \in Nat
  BY FS_CardinalityType
<1>2. CASE prior = Absent
  BY <1>1, <1>2 DEF CountPrior, DeletePrior, Tally
<1>3. CASE prior # Absent
  <2> DEFINE n == Cardinality(ChunksOf(d, prior.id))
  <2>1. n \in Nat
    BY ChunkCountType
  <2>2. Cardinality(DeletePrior(d, prior).chunks) = Cardinality(d.chunks) - n
    BY <1>3, DeleteCounts DEF DeletePrior
  <2>3. Cardinality(DeletePrior(d, prior).chunks) \in Nat
    <3>1. IsFiniteSet(delete_document(d, prior.id).chunks)
      BY ChunksStayFinite
    <3> QED
      BY <1>3, <3>1, FS_CardinalityType DEF DeletePrior
  <2>4. CountPrior(tally, d, prior)
          = [tally EXCEPT !.deleted_chunks = tally.deleted_chunks + n]
    BY <1>3 DEF CountPrior, CountDeleted
  <2> HIDE DEF n
  <2> QED
    BY <1>1, <2>1, <2>2, <2>3, <2>4 DEF Tally, DocumentsFound
<1> QED
  BY <1>2, <1>3

-----------------------------------------------------------------------------
(* A process that gives up leaves the accounts alone.                      *)
LEMMA QuitKeepsAccounts ==
  ASSUME TypeInv, AccountInv, NEW p \in Procs, NEW stage \in Over,
         pc' = [pc EXCEPT ![p] = stage],
         \A q \in Procs \ {p} : work'[q] = work[q],
         UNCHANGED <<db, run>>
  PROVE  AccountInv'
<1>1. \A q \in Procs : pc'[q] \in InTransaction =>
        q # p /\ pc'[q] = pc[q] /\ work'[q] = work[q]
  BY DEF TypeInv, TypeOK, InTransaction, Over
<1>2. TransactionsCounted'
  BY <1>1 DEF AccountInv, TransactionsCounted, DocumentsCounted, ChunksCounted,
       TallyIsRecorded, InTransaction
<1> QED
  BY <1>2 DEF AccountInv, LedgerExplainsCorpus, LedgerExplainsChunks,
       LedgerExplainsDocuments, DocumentsAdded, Succeeded

(* A step inside the transaction that counts what it does.                 *)
LEMMA LoopKeepsAccounts ==
  ASSUME TypeInv, OneWriter, AccountInv, NEW p \in Procs, NEW new \in Work,
         NEW stage \in InTransaction,
         pc[p] # "idle",
         pc' = [pc EXCEPT ![p] = stage],
         work' = [work EXCEPT ![p] = new],
         DocumentsCounted(new), ChunksCounted(new),
         stage = "committing" => TallyIsRecorded(new, run[p]),
         UNCHANGED <<db, run>>
  PROVE  AccountInv'
<1>1. work'[p] = new /\ pc'[p] = stage
  BY DEF TypeInv, TypeOK
<1>2. \A q \in Procs \ {p} : pc'[q] \notin InTransaction
  BY OthersAreIdle DEF TypeInv, TypeOK, InTransaction
<1>3. TransactionsCounted'
  BY <1>1, <1>2 DEF TransactionsCounted, DocumentsCounted, ChunksCounted,
       TallyIsRecorded, InTransaction
<1> QED
  BY <1>3 DEF AccountInv, LedgerExplainsCorpus, LedgerExplainsChunks,
       LedgerExplainsDocuments, DocumentsAdded, Succeeded

(* The plan's result counts the new and the deleted documents.             *)
LEMMA BeginKeepsAccounts ==
  ASSUME SyncInv, AccountInv, TypeInv', NEW p \in Procs, BeginTransaction(p)
  PROVE  AccountInv'
<1> DEFINE new == work'[p]
<1>1. work[p] \in Work /\ new \in Work /\ IsFiniteSet(db.chunks)
  BY WorkTypes DEF SyncInv, TypeInv, TypeOK
<1>2. /\ new.txn = db
      /\ new.todo = diff_source(new.scanned, new.previous)
      /\ new.tally = PlanTally(new.todo)
      /\ work' = [work EXCEPT ![p] = new]
  BY <1>1 DEF BeginTransaction, document_states, Work, SyncInv, TypeInv, TypeOK
<1> HIDE DEF new
<1>3. /\ new.tally.new_documents = Cardinality(new.todo.new)
      /\ new.tally.deleted_documents = Cardinality(new.todo.deleted)
      /\ new.tally.embedded_chunks = 0 /\ new.tally.deleted_chunks = 0
  BY <1>2 DEF PlanTally, ZeroTally
<1>4. DocumentsCounted(new)
  <2>1. /\ new.todo.new = Present(new.scanned) \ Present(new.previous)
        /\ new.todo.deleted = Present(new.previous) \ Present(new.scanned)
    BY <1>2 DEF diff_source
  <2>2. DocumentsFound(new.tally) = Cardinality(Present(new.previous))
    <3>1. new.scanned \in Scans /\ new.previous \in Documents
      BY <1>1 DEF Work
    <3> QED
      BY <1>2, <3>1, PlanCounts
  <2> QED
    BY <1>3, <2>1, <2>2 DEF DocumentsCounted
<1>5. ChunksCounted(new)
  <2>1. Cardinality(db.chunks) \in Nat
    BY <1>1, FS_CardinalityType
  <2> QED
    BY <1>2, <1>3, <2>1 DEF ChunksCounted
<1>6. /\ pc[p] # "idle" /\ pc' = [pc EXCEPT ![p] = "writing"]
      /\ UNCHANGED <<db, run>>
  BY DEF BeginTransaction
<1> QED
  BY <1>1, <1>2, <1>4, <1>5, <1>6, LoopKeepsAccounts DEF InTransaction, SyncInv

(* What the accounts say of an open transaction, with its types.           *)
LEMMA OpenAccounts ==
  ASSUME SyncInv, AccountInv, NEW p \in Procs, pc[p] \in InTransaction
  PROVE  /\ DocumentsCounted(work[p]) /\ ChunksCounted(work[p])
         /\ PlanHolds(work[p], run[p])
         /\ work[p] \in Work /\ work[p].txn \in Databases
         /\ work[p].tally \in Tally
         /\ IsFiniteSet(work[p].txn.chunks)
         /\ run[p] \in Runs
         /\ Cardinality(db.chunks) \in Nat
         /\ Cardinality(work[p].txn.chunks) \in Nat
<1>1. /\ DocumentsCounted(work[p]) /\ ChunksCounted(work[p])
      /\ PlanHolds(work[p], run[p])
  BY DEF AccountInv, TransactionsCounted, SyncInv, DataInv, PlansHold
<1>2. /\ work[p] \in Work /\ work[p].txn \in Databases
      /\ work[p].tally \in Tally
      /\ IsFiniteSet(work[p].txn.chunks)
      /\ run[p] \in Runs
      /\ IsFiniteSet(db.chunks)
  BY WorkTypes DEF SyncInv, InTransaction
<1> QED
  BY <1>1, <1>2, FS_CardinalityType

(* One iteration of a loop that keeps the scan, the rows it was compared   *)
(* with and the document counters.                                         *)
LEMMA WritingKeepsAccounts ==
  ASSUME SyncInv, AccountInv, NEW p \in Procs, NEW new \in Work,
         pc[p] = "writing",
         work' = [work EXCEPT ![p] = new],
         new.scanned = work[p].scanned, new.previous = work[p].previous,
         new.tally.new_documents = work[p].tally.new_documents,
         new.tally.deleted_documents = work[p].tally.deleted_documents,
         DocumentsFound(new.tally) = DocumentsFound(work[p].tally),
         ChunksCounted(new),
         UNCHANGED <<pc, db, run>>
  PROVE  AccountInv'
<1>1. DocumentsCounted(new)
  BY OpenAccounts DEF DocumentsCounted, InTransaction
<1>2. pc' = [pc EXCEPT ![p] = "writing"]
  BY DEF SyncInv, TypeInv, TypeOK
<1> QED
  BY <1>1, <1>2, LoopKeepsAccounts DEF InTransaction, SyncInv

(* A metadata update counts and changes no chunk.                          *)
LEMMA UpdateKeepsAccounts ==
  ASSUME SyncInv, AccountInv, TypeInv', NEW p \in Procs, NEW path \in Paths,
         UpdateMetadata(p, path),
         HasDocument(work[p].txn, work[p].previous[path].id)
  PROVE  AccountInv'
<1> DEFINE w == work[p]
           new == work'[p]
<1>1. /\ pc[p] = "writing" /\ UNCHANGED <<pc, db, run>>
  BY DEF UpdateMetadata, SyncInv, TypeInv, TypeOK
<1>2. new \in Work /\ ChunksCounted(w) /\ w.txn \in Databases
  BY <1>1, OpenAccounts DEF InTransaction, TypeInv, TypeOK
<1>3. /\ new.scanned = w.scanned /\ new.previous = w.previous /\ new.tally = w.tally
      /\ new.txn = update_document_metadata(w.txn, w.previous[path].id,
                     w.scanned[path].metadata_hash)
      /\ work' = [work EXCEPT ![p] = new]
  BY UpdateFields DEF SyncInv
<1>4. new.txn.chunks = w.txn.chunks
  BY <1>2, <1>3 DEF update_document_metadata, Databases
<1> HIDE DEF new
<1>5. ChunksCounted(new)
  BY <1>2, <1>3, <1>4 DEF ChunksCounted
<1> QED
  BY <1>1, <1>2, <1>3, <1>5, WritingKeepsAccounts

(* A deletion counts the chunks it takes away.                             *)
LEMMA DeleteKeepsAccounts ==
  ASSUME SyncInv, AccountInv, TypeInv', NEW p \in Procs, NEW path \in Paths,
         DeleteDocument(p, path)
  PROVE  AccountInv'
<1> DEFINE w == work[p]
           new == work'[p]
           id == w.previous[path].id
           n == Cardinality(ChunksOf(w.txn, id))
<1>1. /\ pc[p] = "writing" /\ UNCHANGED <<pc, db, run>>
  BY DEF DeleteDocument, SyncInv, TypeInv, TypeOK
<1>2. /\ new \in Work /\ ChunksCounted(w) /\ w.txn \in Databases
      /\ w.tally \in Tally /\ IsFiniteSet(w.txn.chunks)
      /\ Cardinality(db.chunks) \in Nat /\ Cardinality(w.txn.chunks) \in Nat
  BY <1>1, OpenAccounts DEF InTransaction, TypeInv, TypeOK
<1>3. /\ new.scanned = w.scanned /\ new.previous = w.previous
      /\ new.tally = CountDeleted(w.tally, w.txn, id)
      /\ new.txn = delete_document(w.txn, id)
      /\ work' = [work EXCEPT ![p] = new]
  BY DeleteFields DEF SyncInv
<1>4. n \in Nat /\ Cardinality(new.txn.chunks) = Cardinality(w.txn.chunks) - n
  BY <1>2, <1>3, ChunkCountType, DeleteCounts
<1>5. new.tally = [w.tally EXCEPT !.deleted_chunks = w.tally.deleted_chunks + n]
  BY <1>3 DEF CountDeleted
<1> HIDE DEF n, new
<1>6. /\ new.tally.deleted_chunks = w.tally.deleted_chunks + n
      /\ new.tally.embedded_chunks = w.tally.embedded_chunks
      /\ new.tally.new_documents = w.tally.new_documents
      /\ new.tally.deleted_documents = w.tally.deleted_documents
      /\ DocumentsFound(new.tally) = DocumentsFound(w.tally)
      /\ w.tally.deleted_chunks \in Nat /\ w.tally.embedded_chunks \in Nat
  BY <1>2, <1>5 DEF Tally, DocumentsFound
<1>7. ChunksCounted(new)
  BY <1>2, <1>4, <1>6 DEF ChunksCounted
<1> QED
  BY <1>1, <1>2, <1>3, <1>6, <1>7, WritingKeepsAccounts

(* Storing a document counts the chunks of the row it replaces and its own. *)
LEMMA StoreKeepsAccounts ==
  ASSUME SyncInv, ContentInv, AccountInv, TypeInv', NEW p \in Procs,
         NEW path \in Paths, StoreDocument(p, path)
  PROVE  AccountInv'
<1> DEFINE w == work[p]
           new == work'[p]
           prior == w.previous[path]
           item == w.scanned[path]
           content == source[path].content_hash
           cleared == DeletePrior(w.txn, prior)
           counted == CountPrior(w.tally, w.txn, prior)
<1>1. /\ pc[p] = "writing" /\ UNCHANGED <<pc, db, run>> /\ WorkIndexed(w)
  BY DEF StoreDocument, SyncInv, TypeInv, TypeOK, ContentInv, InTransaction
<1>2. /\ new \in Work /\ ChunksCounted(w) /\ w.txn \in Databases
      /\ w.tally \in Tally /\ IsFiniteSet(w.txn.chunks) /\ PlanHolds(w, run[p])
      /\ Cardinality(db.chunks) \in Nat /\ Cardinality(w.txn.chunks) \in Nat
  BY <1>1, OpenAccounts DEF InTransaction, TypeInv, TypeOK
<1>3. /\ Stores(w, new, run[p], path, content)
      /\ new.tally = CountEmbedded(counted, content)
      /\ work' = [work EXCEPT ![p] = new]
      /\ content \in Contents
  BY StoreFields DEF SyncInv
<1>4. /\ path \in w.todo.new \cup w.todo.changed
      /\ new.scanned = w.scanned /\ new.previous = w.previous
      /\ new.txn = replace_document(cleared, <<run[p], path>>, path, item, content)
  BY <1>3 DEF Stores
<1>5. w.txn.documents[path] = prior /\ IdsNamePaths(w.txn.documents)
  BY <1>2, <1>4 DEF PlanHolds, Undone
<1>6. Indexed(w.txn) /\ KeepsChunks(db, w.txn) /\ db \in Databases
  BY <1>1 DEF WorkIndexed, SyncInv, TypeInv, TypeOK
<1> HIDE DEF w, new, prior, item, content
<1>7. /\ cleared \in Databases
      /\ cleared.documents[path] = Absent
      /\ IdsNamePaths(cleared.documents)
      /\ Indexed(cleared)
  BY <1>2, <1>5, <1>6, ClearedContents
<1>8. IsFiniteSet(cleared.chunks)
  BY <1>2, ChunksStayFinite DEF DeletePrior
<1>9. /\ counted \in Tally
      /\ counted.new_documents = w.tally.new_documents
      /\ counted.deleted_documents = w.tally.deleted_documents
      /\ counted.embedded_chunks = w.tally.embedded_chunks
      /\ DocumentsFound(counted) = DocumentsFound(w.tally)
      /\ Cardinality(cleared.chunks) \in Nat
      /\ Cardinality(cleared.chunks) + counted.deleted_chunks
           = Cardinality(w.txn.chunks) + w.tally.deleted_chunks
  BY <1>2, PriorCounts
<1> HIDE DEF cleared, counted
<1>10. Cardinality(new.txn.chunks) = Cardinality(cleared.chunks) + ChunkCount[content]
  BY <1>3, <1>4, <1>7, <1>8, StoreCounts
<1>11. ChunkCount[content] \in Nat
  BY <1>3, ChunkCountIsNat
<1>12. /\ new.tally.embedded_chunks = w.tally.embedded_chunks + ChunkCount[content]
       /\ new.tally.deleted_chunks = counted.deleted_chunks
       /\ new.tally.new_documents = w.tally.new_documents
       /\ new.tally.deleted_documents = w.tally.deleted_documents
       /\ DocumentsFound(new.tally) = DocumentsFound(w.tally)
       /\ counted.deleted_chunks \in Nat
       /\ w.tally.deleted_chunks \in Nat /\ w.tally.embedded_chunks \in Nat
  BY <1>2, <1>3, <1>9 DEF CountEmbedded, Tally, DocumentsFound
<1>13. ChunksCounted(new)
  BY <1>2, <1>9, <1>10, <1>11, <1>12 DEF ChunksCounted
<1> QED
  BY <1>1, <1>2, <1>3, <1>4, <1>12, <1>13, WritingKeepsAccounts DEF w

(* The run is recorded with the counters it has.                           *)
LEMMA RecordRunKeepsAccounts ==
  ASSUME SyncInv, AccountInv, TypeInv', NEW p \in Procs, RecordRun(p)
  PROVE  AccountInv'
<1> DEFINE w == work[p]
           new == work'[p]
<1>1. /\ pc[p] = "writing" /\ UNCHANGED <<db, run>>
  BY DEF RecordRun
<1>2. /\ w \in Work /\ w.txn \in Databases /\ new \in Work /\ run[p] \in Runs
      /\ ChunksCounted(w) /\ DocumentsCounted(w)
  BY <1>1, OpenAccounts DEF InTransaction, TypeInv, TypeOK
<1>3. CASE CanRecord(w.txn, run[p])
  <2> DEFINE txn == record_run(w.txn, run[p], "succeeded", w.tally)
  <2>1. /\ new = [w EXCEPT !.txn = txn]
        /\ pc' = [pc EXCEPT ![p] = "committing"]
        /\ work' = [work EXCEPT ![p] = new]
    BY <1>3 DEF RecordRun, SyncInv, TypeInv, TypeOK
  <2>2. txn.chunks = w.txn.chunks /\ txn.sync_runs[run[p]].tally = w.tally
    <3>1. /\ txn.chunks = w.txn.chunks
          /\ txn.sync_runs = [w.txn.sync_runs EXCEPT ![run[p]] =
                                [status |-> "succeeded", tally |-> w.tally]]
      BY <1>2 DEF record_run, Databases
    <3>2. txn.sync_runs[run[p]] = [status |-> "succeeded", tally |-> w.tally]
      BY <1>2, <3>1 DEF Databases
    <3> QED
      BY <3>1, <3>2
  <2> HIDE DEF txn
  <2>3. /\ new.txn = txn /\ new.scanned = w.scanned /\ new.previous = w.previous
        /\ new.tally = w.tally
    BY <1>2, <2>1 DEF Work
  <2> HIDE DEF new, w
  <2>4. DocumentsCounted(new) /\ ChunksCounted(new) /\ TallyIsRecorded(new, run[p])
    BY <1>2, <2>2, <2>3 DEF DocumentsCounted, ChunksCounted, TallyIsRecorded
  <2> QED
    BY <1>1, <1>2, <2>1, <2>4, LoopKeepsAccounts DEF InTransaction, SyncInv
<1>4. CASE ~CanRecord(w.txn, run[p])
  BY <1>1, <1>4, QuitKeepsAccounts DEF RecordRun, Over, SyncInv
<1> QED
  BY <1>3, <1>4

-----------------------------------------------------------------------------
(* Documents added less documents taken away is the difference in number.  *)
LEMMA PresentCounts ==
  ASSUME NEW old, NEW new
  PROVE  LET added == Cardinality(Present(new) \ Present(old))
             gone == Cardinality(Present(old) \ Present(new))
         IN  /\ added \in Nat /\ gone \in Nat
             /\ Cardinality(Present(old)) \in Nat
             /\ Cardinality(Present(new)) = Cardinality(Present(old)) + (added - gone)
<1> DEFINE A == Present(old)
           B == Present(new)
<1>1. IsFiniteSet(A) /\ IsFiniteSet(B)
  BY PathsFinite, FS_Subset DEF Present
<1> HIDE DEF A, B
<1> DEFINE both == Cardinality(A \cap B)
<1>2. /\ IsFiniteSet(A \ B) /\ Cardinality(A \ B) = Cardinality(A) - both
      /\ IsFiniteSet(A \cap B)
  BY <1>1, FS_Difference, FS_Intersection
<1>3. IsFiniteSet(B \ A) /\ Cardinality(B \ A) = Cardinality(B) - both
  <2>1. A \cap B = B \cap A
    OBVIOUS
  <2> QED
    BY <1>1, <2>1, FS_Difference
<1>4. /\ Cardinality(A) \in Nat /\ Cardinality(B) \in Nat
      /\ Cardinality(A \ B) \in Nat /\ Cardinality(B \ A) \in Nat
      /\ both \in Nat
  BY <1>1, <1>2, <1>3, FS_CardinalityType
<1> HIDE DEF both
<1>5. Cardinality(B) = Cardinality(A) + (Cardinality(B \ A) - Cardinality(A \ B))
  BY <1>2, <1>3, <1>4
<1> QED
  BY <1>4, <1>5 DEF A, B

(* The rows a corpus of hashes is made of are at the same paths.           *)
LEMMA CorpusPresent ==
  ASSUME NEW d \in Databases
  PROVE  Present(Corpus(d)) = Present(d.documents)
<1>1. ASSUME NEW path \in Paths
      PROVE  Hashes(d.documents[path]) # Absent <=> d.documents[path] # Absent
  <2>1. CASE d.documents[path] = Absent
    BY <2>1 DEF Hashes
  <2>2. CASE d.documents[path] # Absent
    <3>1. d.documents[path] \in DocumentState
      BY <2>2 DEF Databases, Documents
    <3>2. Hashes(d.documents[path]) \in ScannedDocument
      BY <2>2, <3>1 DEF Hashes, DocumentState, ScannedDocument
    <3> QED
      BY <2>2, <3>2, AbsentIsNoDocument
  <2> QED
    BY <2>1, <2>2
<1> QED
  BY <1>1 DEF Present, Corpus

(* The terms of the two sums.                                              *)
ChunksEarned(d, r) ==
  d.sync_runs[r].tally.embedded_chunks - d.sync_runs[r].tally.deleted_chunks

DocumentsEarned(d, r) ==
  d.sync_runs[r].tally.new_documents - d.sync_runs[r].tally.deleted_documents

LEMMA SucceededRuns ==
  ASSUME TypeInv
  PROVE  /\ IsFiniteSet(Succeeded)
         /\ Succeeded \subseteq Runs
         /\ \A r \in Succeeded : ChunksEarned(db, r) \in Int
                                   /\ DocumentsEarned(db, r) \in Int
<1>1. Succeeded \subseteq Runs
  BY DEF Succeeded
<1>2. IsFiniteSet(Runs)
  BY MaxRunsIsNat, FS_Interval DEF Runs
<1>3. ASSUME NEW r \in Succeeded
      PROVE  ChunksEarned(db, r) \in Int /\ DocumentsEarned(db, r) \in Int
  <2>1. db.sync_runs[r] \in RunRow
    BY <1>1 DEF Succeeded, TypeInv, TypeOK, Databases
  <2>2. db.sync_runs[r].tally \in Tally
    BY <2>1 DEF RunRow
  <2> QED
    BY <2>2 DEF Tally, ChunksEarned, DocumentsEarned
<1> QED
  BY <1>1, <1>2, <1>3, FS_Subset

(* A commit adds what its run has earned to both sides of the account.     *)
LEMMA PublishKeepsAccounts ==
  ASSUME SyncInv, AccountInv, LastRunIsOpen, NEW p \in Procs, NEW stage \in Over,
         pc[p] = "committing", Publish(p),
         pc' = [pc EXCEPT ![p] = stage]
  PROVE  AccountInv'
<1> DEFINE w == work[p]
           r == run[p]
           tally == w.tally
<1>1. TransactionsCounted'
  <2>1. \A q \in Procs : pc'[q] \notin InTransaction
    BY OthersAreIdle DEF SyncInv, TypeInv, TypeOK, InTransaction, Over
  <2> QED
    BY <2>1 DEF TransactionsCounted, InTransaction
<1>2. /\ DocumentsCounted(w) /\ ChunksCounted(w) /\ w \in Work
      /\ w.txn \in Databases /\ tally \in Tally
      /\ Cardinality(db.chunks) \in Nat /\ r \in Runs
      /\ PlanHolds(w, r)
  BY OpenAccounts DEF InTransaction
<1>3. TallyIsRecorded(w, r) /\ LedgerExplainsCorpus
  BY DEF AccountInv, TransactionsCounted
<1>4. /\ db.sync_runs[r] = Absent
      /\ w.txn.sync_runs[r] # Absent
      /\ w.txn.sync_runs[r].status = "succeeded"
      /\ \A s \in Runs \ {r} : w.txn.sync_runs[s] = db.sync_runs[s]
      /\ AllStored(w.todo) /\ w.previous = db.documents
  BY DEF SyncInv, DataInv, RunsAreFresh, PlansAreDone, TransactionIsolated, Over
<1>5. /\ db'.chunks = w.txn.chunks /\ db'.sync_runs = w.txn.sync_runs
      /\ db'.documents = w.txn.documents
  BY DEF Publish
<1>6. /\ IsFiniteSet(Succeeded)
      /\ Succeeded \subseteq Runs
      /\ \A s \in Succeeded : ChunksEarned(db, s) \in Int
                                /\ DocumentsEarned(db, s) \in Int
  BY SucceededRuns DEF SyncInv
<1> HIDE DEF w, r, tally
<1>7. r \notin Succeeded /\ Succeeded' = Succeeded \cup {r}
  BY <1>2, <1>4, <1>5 DEF Succeeded
<1>8. /\ ChunksEarned(db', r) = tally.embedded_chunks - tally.deleted_chunks
      /\ DocumentsEarned(db', r) = tally.new_documents - tally.deleted_documents
      /\ tally.embedded_chunks \in Nat /\ tally.deleted_chunks \in Nat
      /\ tally.new_documents \in Nat /\ tally.deleted_documents \in Nat
  BY <1>2, <1>3, <1>5 DEF ChunksEarned, DocumentsEarned, TallyIsRecorded, Tally, tally
<1>9. \A s \in Succeeded : db'.sync_runs[s] = db.sync_runs[s]
  BY <1>4, <1>5, <1>6, <1>7
<1>10. LedgerExplainsChunks'
  <2> DEFINE g == [s \in Succeeded |-> ChunksEarned(db, s)]
             h == [s \in Succeeded' |-> ChunksEarned(db', s)]
  <2>1. /\ DOMAIN g = Succeeded /\ DOMAIN h = Succeeded \cup {r}
        /\ h[r] = ChunksEarned(db', r)
        /\ \A s \in Succeeded : g[s] \in Int /\ h[s] = g[s]
    BY <1>6, <1>7, <1>9 DEF ChunksEarned
  <2>2. Cardinality(db.chunks) = SumFunction(g)
    BY <1>3 DEF LedgerExplainsCorpus, LedgerExplainsChunks, ChunksEarned
  <2>3. LedgerExplainsChunks' <=> Cardinality(db'.chunks) = SumFunction(h)
    BY DEF LedgerExplainsChunks, ChunksEarned
  <2> HIDE DEF g, h
  <2>4. SumFunction(h) = SumFunction(g) + h[r]
    <3>1. h[r] \in Int
      BY <1>8, <2>1
    <3>2. Prolongs(h, g, Succeeded, r)
      BY <1>6, <1>7, <2>1, <3>1 DEF Prolongs
    <3> QED
      BY <3>2, SumFunctionGrows
  <2>5. Cardinality(db'.chunks)
          = Cardinality(db.chunks) + tally.embedded_chunks - tally.deleted_chunks
    BY <1>2, <1>5 DEF ChunksCounted, tally
  <2> QED
    BY <1>2, <1>8, <2>1, <2>2, <2>3, <2>4, <2>5
<1>11. ASSUME NEW s \in Succeeded PROVE s < r
  <2>1. r = next_run - 1 /\ next_run \in Int /\ Runs \subseteq Int
    BY DEF LastRunIsOpen, SyncInv, TypeInv, TypeOK, Runs, r
  <2>2. s \in Runs /\ db.sync_runs[s] # Absent /\ s # r
    BY <1>7 DEF Succeeded
  <2>3. s \in Int /\ ~ (s >= next_run)
    BY <2>1, <2>2 DEF SyncInv, DataInv, RunsAreFresh
  <2> QED
    BY <2>1, <2>2, <2>3
<1>12. /\ Cardinality(Present(db.documents))
            = SumFunction([s \in Succeeded |-> DocumentsEarned(db, s)])
       /\ \A q \in Succeeded :
            DocumentsFound(db.sync_runs[q].tally)
              = SumFunction([s \in {t \in Succeeded : t < q} |->
                               DocumentsEarned(db, s)])
  BY <1>3 DEF LedgerExplainsCorpus, LedgerExplainsDocuments, DocumentsAdded,
              DocumentsEarned
<1>13. Cardinality(Present(db'.documents))
         = SumFunction([s \in Succeeded' |-> DocumentsEarned(db', s)])
  <2> DEFINE g == [s \in Succeeded |-> DocumentsEarned(db, s)]
             h == [s \in Succeeded' |-> DocumentsEarned(db', s)]
  <2>1. /\ DOMAIN g = Succeeded /\ DOMAIN h = Succeeded \cup {r}
        /\ h[r] = DocumentsEarned(db', r)
        /\ \A s \in Succeeded : g[s] \in Int /\ h[s] = g[s]
    BY <1>6, <1>7, <1>9 DEF DocumentsEarned
  <2>2. Cardinality(Present(db.documents)) = SumFunction(g)
    BY <1>12
  <2> HIDE DEF g, h
  <2>3. SumFunction(h) = SumFunction(g) + h[r]
    <3>1. h[r] \in Int
      BY <1>8, <2>1
    <3>2. Prolongs(h, g, Succeeded, r)
      BY <1>6, <1>7, <2>1, <3>1 DEF Prolongs
    <3> QED
      BY <3>2, SumFunctionGrows
  <2>4. Present(db'.documents) = Present(w.scanned)
    BY <1>2, <1>4, <1>5, PlanDone, CorpusPresent
  <2>5. Cardinality(Present(w.scanned)) =
          Cardinality(Present(w.previous))
            + (tally.new_documents - tally.deleted_documents)
    BY <1>2, PresentCounts DEF DocumentsCounted, tally
  <2>6. Cardinality(Present(db'.documents)) = SumFunction(h)
    BY <1>4, <1>8, <2>1, <2>2, <2>3, <2>4, <2>5
  <2> QED
    BY <2>6 DEF h
<1>14. ASSUME NEW q \in Succeeded'
       PROVE  DocumentsFound(db'.sync_runs[q].tally)
                = SumFunction([s \in {t \in Succeeded' : t < q} |->
                                 DocumentsEarned(db', s)])
  <2> DEFINE before == {t \in Succeeded : t < q}
  <2>1. q \in Int /\ r \in Int
    BY <1>2, <1>6, <1>7 DEF Runs
  <2>2. CASE q = r
    <3>1. {t \in Succeeded' : t < q} = Succeeded
      <4>1. \A t \in Succeeded : t < q
        BY <1>11, <2>2
      <4>2. ~ (r < q)
        BY <2>1, <2>2
      <4> QED
        BY <1>7, <4>1, <4>2
    <3>2. [s \in Succeeded |-> DocumentsEarned(db', s)]
            = [s \in Succeeded |-> DocumentsEarned(db, s)]
      BY <1>9 DEF DocumentsEarned
    <3>3. db'.sync_runs[r].tally = w.tally
      BY <1>3, <1>5 DEF TallyIsRecorded
    <3>4. DocumentsFound(w.tally) = Cardinality(Present(db.documents))
      BY <1>2, <1>4 DEF DocumentsCounted
    <3> QED
      BY <1>12, <2>2, <3>1, <3>2, <3>3, <3>4
  <2>3. CASE q # r
    <3>1. q \in Succeeded
      BY <1>7, <2>3
    <3>2. {t \in Succeeded' : t < q} = before
      BY <1>7, <1>11, <2>1, <3>1
    <3>3. [s \in before |-> DocumentsEarned(db', s)]
            = [s \in before |-> DocumentsEarned(db, s)]
      BY <1>9 DEF DocumentsEarned
    <3>4. db'.sync_runs[q] = db.sync_runs[q]
      BY <1>9, <3>1
    <3> QED
      BY <1>12, <3>1, <3>2, <3>3, <3>4
  <2> QED
    BY <2>2, <2>3
<1>15. LedgerExplainsDocuments'
  BY <1>13, <1>14 DEF LedgerExplainsDocuments, DocumentsAdded, DocumentsEarned
<1> QED
  BY <1>1, <1>10, <1>15 DEF AccountInv, LedgerExplainsCorpus

(* A failed run is on neither side.                                        *)
LEMMA RecordFailureKeepsAccounts ==
  ASSUME SyncInv, AccountInv, NEW p \in Procs, RecordFailure(p)
  PROVE  AccountInv'
<1>1. TransactionsCounted'
  <2>1. \A q \in Procs : pc'[q] \notin InTransaction
    BY OthersAreIdle
       DEF RecordFailure, Failed, SyncInv, TypeInv, TypeOK, InTransaction
  <2> QED
    BY <2>1 DEF TransactionsCounted, InTransaction
<1>2. /\ run[p] \in Runs
      /\ db'.documents = db.documents /\ db'.chunks = db.chunks
      /\ \A s \in Runs \ {run[p]} : db'.sync_runs[s] = db.sync_runs[s]
      /\ db.sync_runs[run[p]] # Absent => db' = db
      /\ db.sync_runs[run[p]] = Absent => db'.sync_runs[run[p]].status = "failed"
  BY RecordFailureEffect
<1>3. Succeeded' = Succeeded
  BY <1>2 DEF Succeeded
<1>4. \A s \in Succeeded : db'.sync_runs[s] = db.sync_runs[s]
  BY <1>2 DEF Succeeded
<1>5. LedgerExplainsChunks'
  <2>1. [s \in Succeeded' |-> db'.sync_runs[s].tally.embedded_chunks
                                - db'.sync_runs[s].tally.deleted_chunks]
          = [s \in Succeeded |-> db.sync_runs[s].tally.embedded_chunks
                                   - db.sync_runs[s].tally.deleted_chunks]
    BY <1>3, <1>4
  <2> QED
    BY <1>2, <2>1 DEF AccountInv, LedgerExplainsCorpus, LedgerExplainsChunks
<1>6. LedgerExplainsDocuments'
  <2>1. ASSUME NEW S \in SUBSET Succeeded
        PROVE  DocumentsAdded(S)' = DocumentsAdded(S)
    <3>1. [s \in S |-> db'.sync_runs[s].tally.new_documents
                         - db'.sync_runs[s].tally.deleted_documents]
            = [s \in S |-> db.sync_runs[s].tally.new_documents
                             - db.sync_runs[s].tally.deleted_documents]
      BY <1>4
    <3> QED
      BY <3>1 DEF DocumentsAdded
  <2>2. LedgerExplainsDocuments
    BY DEF AccountInv, LedgerExplainsCorpus
  <2>3. Cardinality(Present(db'.documents)) = DocumentsAdded(Succeeded)'
    BY <1>2, <1>3, <2>1, <2>2 DEF LedgerExplainsDocuments
  <2>4. ASSUME NEW q \in Succeeded
        PROVE  DocumentsFound(db'.sync_runs[q].tally)
                 = DocumentsAdded({s \in Succeeded : s < q})'
    <3> DEFINE before == {s \in Succeeded : s < q}
    <3>1. before' = before /\ DocumentsAdded(before)' = DocumentsAdded(before)
      BY <1>3, <2>1
    <3>2. DocumentsFound(db.sync_runs[q].tally) = DocumentsAdded(before)
      BY <2>2 DEF LedgerExplainsDocuments
    <3> QED
      BY <1>4, <3>1, <3>2
  <2> QED
    BY <1>3, <2>3, <2>4 DEF LedgerExplainsDocuments
<1> QED
  BY <1>1, <1>5, <1>6 DEF AccountInv, LedgerExplainsCorpus

-----------------------------------------------------------------------------
(* Every step keeps the accounts. *)
LEMMA NextAccountInv ==
  ASSUME SyncInv, ContentInv, AccountInv, LastRunIsOpen, [Next]_vars
  PROVE  AccountInv'
<1>1. TypeInv' /\ TypeInv /\ OneWriter
  BY NextTypeInv DEF SyncInv
<1>2. ASSUME UNCHANGED <<db, run>>,
             \A q \in Procs : pc'[q] \in InTransaction =>
               pc'[q] = pc[q] /\ work'[q] = work[q]
      PROVE  AccountInv'
  <2>1. TransactionsCounted'
    BY <1>2 DEF AccountInv, TransactionsCounted, DocumentsCounted, ChunksCounted,
         TallyIsRecorded, InTransaction
  <2> QED
    BY <1>2, <2>1 DEF AccountInv, LedgerExplainsCorpus, LedgerExplainsChunks,
         LedgerExplainsDocuments, DocumentsAdded, Succeeded
<1>3. ASSUME EditSource \/ UNCHANGED vars \/ \E p \in Procs : Busy(p) \/ AcquireFails(p)
      PROVE  AccountInv'
  <2>1. UNCHANGED <<db, run, pc, work>>
    BY <1>3 DEF EditSource, vars, Busy, AcquireFails
  <2> QED
    BY <1>2, <2>1
<1>4. ASSUME NEW p \in Procs, Scan(p)
      PROVE  AccountInv'
  <2>1. \A q \in Procs : pc'[q] \in InTransaction =>
          pc'[q] = pc[q] /\ work'[q] = work[q]
    BY <1>1, <1>4 DEF Scan, TypeInv, TypeOK, InTransaction
  <2> QED
    BY <1>2, <1>4, <2>1 DEF Scan
<1>5. ASSUME NEW p \in Procs, AcquireLock(p)
      PROVE  AccountInv'
  <2>1. \A q \in Procs : pc'[q] \notin InTransaction
    BY <1>1, <1>5, NoProcIsNoProcess
       DEF AcquireLock, LockIsFree, OneWriter, TypeInv, TypeOK, InTransaction
  <2>2. TransactionsCounted'
    BY <2>1 DEF TransactionsCounted, InTransaction
  <2>3. UNCHANGED db
    BY <1>5 DEF AcquireLock
  <2> QED
    BY <2>2, <2>3 DEF AccountInv, LedgerExplainsCorpus, LedgerExplainsChunks,
         LedgerExplainsDocuments, DocumentsAdded, Succeeded
<1>6. ASSUME NEW p \in Procs, BeginTransaction(p) \/ RecordRun(p) \/ RecordFailure(p)
      PROVE  AccountInv'
  BY <1>1, <1>6, BeginKeepsAccounts, RecordRunKeepsAccounts, RecordFailureKeepsAccounts
<1>7. ASSUME NEW p \in Procs, NEW path \in Paths,
             \/ UpdateMetadata(p, path) \/ DeleteDocument(p, path)
             \/ StoreDocument(p, path) \/ LoadFails(p, path)
      PROVE  AccountInv'
  <2>1. CASE /\ UpdateMetadata(p, path)
             /\ HasDocument(work[p].txn, work[p].previous[path].id)
    BY <1>1, <2>1, UpdateKeepsAccounts
  <2>2. CASE \/ LoadFails(p, path)
             \/ /\ UpdateMetadata(p, path)
                /\ ~HasDocument(work[p].txn, work[p].previous[path].id)
    BY <1>1, <2>2, QuitKeepsAccounts DEF LoadFails, UpdateMetadata, Over
  <2> QED
    BY <1>1, <1>7, <2>1, <2>2, DeleteKeepsAccounts, StoreKeepsAccounts
<1>8. ASSUME NEW p \in Procs,
             \/ Fault(p) \/ RecordFailureFails(p)
             \/ Unlock(p) \/ UnlockFails(p) \/ (Crash(p) /\ UNCHANGED db)
      PROVE  AccountInv'
  <2>1. \A q \in Procs \ {p} : work'[q] = work[q]
    BY <1>1, <1>8 DEF Fault, RecordFailureFails, Failed, Unlock, UnlockFails, Crash,
         TypeInv, TypeOK
  <2>2. PICK stage \in Over : pc' = [pc EXCEPT ![p] = stage]
    BY <1>8 DEF Fault, RecordFailureFails, Failed, Unlock, UnlockFails, Crash, Over
  <2>3. UNCHANGED <<db, run>>
    BY <1>8 DEF Fault, RecordFailureFails, Unlock, UnlockFails, Crash
  <2> QED
    BY <1>1, <2>1, <2>2, <2>3, QuitKeepsAccounts
<1>9. ASSUME NEW p \in Procs, Commit(p) \/ CommitAckLost(p) \/ Crash(p)
      PROVE  AccountInv'
  <2>1. (Crash(p) /\ UNCHANGED db) \/ (pc[p] = "committing" /\ Publish(p))
    BY <1>9 DEF Commit, CommitAckLost, Crash
  <2>2. PICK stage \in Over : pc' = [pc EXCEPT ![p] = stage]
    BY <1>9 DEF Commit, CommitAckLost, Crash, Over
  <2> QED
    BY <1>8, <2>1, <2>2, PublishKeepsAccounts
<1> QED
  BY <1>3, <1>4, <1>5, <1>6, <1>7, <1>8, <1>9 DEF Next, Step, Trouble, Rest

(* An empty ledger explains an empty corpus.                               *)
LEMMA InitAccountInv == Init => AccountInv
<1> SUFFICES ASSUME Init PROVE AccountInv
  OBVIOUS
<1>1. /\ Succeeded = {} /\ db.chunks = {} /\ Present(db.documents) = {}
  BY DEF Init, EmptyDatabase, NoScan, Present, Succeeded
<1>2. \A f : DOMAIN f = {} => SumFunction(f) = 0
  BY SumOfNone DEF SumFunction
<1>3. LedgerExplainsCorpus
  <2>1. Cardinality({}) = 0
    BY FS_EmptySet
  <2>2. SumFunction([r \in Succeeded |-> db.sync_runs[r].tally.embedded_chunks
                                       - db.sync_runs[r].tally.deleted_chunks]) = 0
    BY <1>1, <1>2
  <2>3. DocumentsAdded(Succeeded) = 0
    <3>1. SumFunction([r \in Succeeded |-> db.sync_runs[r].tally.new_documents
                                       - db.sync_runs[r].tally.deleted_documents]) = 0
      BY <1>1, <1>2
    <3> QED
      BY <3>1 DEF DocumentsAdded
  <2> QED
    BY <1>1, <2>1, <2>2, <2>3
       DEF LedgerExplainsCorpus, LedgerExplainsChunks, LedgerExplainsDocuments
<1> QED
  BY <1>3 DEF Init, AccountInv, TransactionsCounted, InTransaction

-----------------------------------------------------------------------------
(* The accounts are right in every behaviour, open transactions included.  *)
THEOREM AccountInvariant ==
  Spec => [](SyncInv /\ ContentInv /\ LastRunIsOpen /\ AccountInv)
<1> DEFINE Inv == SyncInv /\ ContentInv /\ LastRunIsOpen /\ AccountInv
<1>1. Init => Inv
  <2>1. Init => LastRunIsOpen
    BY DEF Init, LastRunIsOpen
  <2> QED
    BY <2>1, InitSyncInv, InitContentInv, InitAccountInv
<1>2. Inv /\ [Next]_vars => Inv'
  BY NextSyncInv, NextContentInv, NextLastRunIsOpen, NextAccountInv
<1> QED
  BY <1>1, <1>2, PTL DEF Spec

(* The counters of the succeeded runs add up to the corpus, chunk for      *)
(* chunk and document for document, and each run found exactly what the    *)
(* runs before it had left (pipeline.py:129, 179, 192).                    *)
THEOREM LedgerAddsUp == Spec => []LedgerExplainsCorpus
<1>1. AccountInv => LedgerExplainsCorpus
  BY DEF AccountInv
<1> QED
  BY <1>1, AccountInvariant, PTL
=============================================================================
