------------------------------ MODULE SyncRuns ------------------------------
(***************************************************************************)
(* Synchronizations of one source into one database by several processes   *)
(* (ragpipe/pipeline.py, SyncPipeline.sync, over PgVectorStore.sync_lock   *)
(* and PgVectorStore.transaction).                                         *)
(*                                                                         *)
(* A process takes the session-level advisory lock, scans the source, and  *)
(* in one database transaction compares the scan with the document rows,   *)
(* updates metadata, deletes documents, stores new and changed ones and    *)
(* records the run.  An exception rolls the transaction back and a second  *)
(* transaction records the failed run, still under the lock.  The source   *)
(* is edited at any time; connections and providers fail; processes die.   *)
(*                                                                         *)
(* The transaction works on a private copy of the tables, which a commit   *)
(* makes the committed state: exact as long as nobody else commits in      *)
(* between, which TransactionIsolated states.  The sessions of a process   *)
(* that dies end together.  A scan is one step.  Loading, chunking,        *)
(* embedding and storing one document is one step (EmbeddingBatches has    *)
(* the batches).                                                           *)
(***************************************************************************)
EXTENDS PgVectorStore, Sequences, FiniteSetsExt

CONSTANTS Procs,          \* processes that run `ragpipe sync`
          NoProc,         \* holder of a free lock
          InitialSource,  \* the source before the first edit
          VerifyOnLoad,   \* load() checks the hash again: S3 yes, local no
          MaxEdits,       \* bound: edits of the source
          MaxFaults       \* bound: exceptions, lost connections and crashes

ASSUME InitialSourceIsScan == InitialSource \in Scans
ASSUME VerifyOnLoadIsBool == VerifyOnLoad \in BOOLEAN
ASSUME BoundsAreNat == MaxEdits \in Nat /\ MaxFaults \in Nat
ASSUME NoProcIsNoProcess == NoProc \notin Procs

VARIABLES
  history,    \* every state the source has been in; the last is current
  db,         \* the committed tables
  lock,       \* the advisory lock: the process whose session holds it
  pc,         \* where each process is in sync()
  run,        \* the run id of each process
  next_run,   \* the next unused run id
  work,       \* local variables and open transaction of each process
  outcome,    \* what the last sync() of each process told its caller
  faults,     \* faults so far
  published   \* version of the source the corpus was last committed from

vars == <<history, db, lock, pc, run, next_run, work, outcome, faults,
          published>>

Stages == {"idle", "scanning", "beginning", "writing", "committing",
           "failing", "unlocking"}

Outcomes == {"none", "succeeded", "failed", "busy", "error", "crashed"}

(* scanned_at is the version of the source that "scanned" describes.       *)
Work == [scanned : Scans, scanned_at : Nat, previous : Documents,
         txn : Databases, todo : Diffs, tally : Tally]

NoWork == [scanned |-> NoScan, scanned_at |-> 0, previous |-> NoScan,
           txn |-> EmptyDatabase, todo |-> NoDiff, tally |-> ZeroTally]

source == history[Len(history)]

Init ==
  /\ history = <<InitialSource>>
  /\ db = EmptyDatabase
  /\ lock = NoProc
  /\ pc = [p \in Procs |-> "idle"]
  /\ run = [p \in Procs |-> 0]
  /\ next_run = 1
  /\ work = [p \in Procs |-> NoWork]
  /\ outcome = [p \in Procs |-> "none"]
  /\ faults = 0
  /\ published = 0

-----------------------------------------------------------------------------
(* The environment: somebody writes, replaces or removes one document.     *)
EditSource ==
  /\ Len(history) <= MaxEdits
  /\ \E path \in Paths, item \in ScannedDocument \cup {Absent} :
       /\ item # source[path]
       /\ history' = Append(history, [source EXCEPT ![path] = item])
  /\ UNCHANGED <<db, lock, pc, run, next_run, work, outcome, faults, published>>

FaultsLeft == faults < MaxFaults

(* Mutant of LockIsFree: the answer of pg_try_advisory_lock is not read.   *)
LockAnswerIgnored == TRUE

(* pg_try_advisory_lock, which never waits. *)
LockIsFree == lock = NoProc

(* sync_lock succeeds.  The run's uuid4 is drawn on entry to sync(); an    *)
(* attempt that finds the lock taken never shows its own to anyone.        *)
AcquireLock(p) ==
  /\ pc[p] = "idle"
  /\ next_run \in Runs
  /\ LockIsFree
  /\ lock' = p
  /\ pc' = [pc EXCEPT ![p] = "scanning"]
  /\ run' = [run EXCEPT ![p] = next_run]
  /\ next_run' = next_run + 1
  /\ outcome' = [outcome EXCEPT ![p] = "none"]
  /\ UNCHANGED <<history, db, work, faults, published>>

(* Mutant of Busy: the refused attempt is logged as a failed run, without  *)
(* the lock.                                                               *)
BusyLogged(p) ==
  /\ pc[p] = "idle"
  /\ ~LockIsFree
  /\ next_run \in Runs
  /\ db' = record_run(db, next_run, "failed", ZeroTally)
  /\ next_run' = next_run + 1
  /\ outcome' = [outcome EXCEPT ![p] = "busy"]
  /\ UNCHANGED <<history, lock, pc, run, work, faults, published>>

(* SyncLockUnavailableError becomes SyncAlreadyRunningError; no run.       *)
Busy(p) ==
  /\ pc[p] = "idle"
  /\ ~LockIsFree
  /\ outcome' = [outcome EXCEPT ![p] = "busy"]
  /\ UNCHANGED <<history, db, lock, pc, run, next_run, work, faults, published>>

(* No connection, or it breaks before sync_lock yields: its session ends,  *)
(* and the exception leaves sync() as it is.                               *)
AcquireFails(p) ==
  /\ pc[p] = "idle"
  /\ FaultsLeft
  /\ faults' = faults + 1
  /\ outcome' = [outcome EXCEPT ![p] = "error"]
  /\ UNCHANGED <<history, db, lock, pc, run, next_run, work, published>>

(* Mutant of Scan: the listing may be an old one.                          *)
ScanStale(p) ==
  /\ pc[p] = "scanning"
  /\ pc' = [pc EXCEPT ![p] = "beginning"]
  /\ \E version \in 1 .. Len(history) :
       work' = [work EXCEPT ![p].scanned = history[version],
                            ![p].scanned_at = version]
  /\ UNCHANGED <<history, db, lock, run, next_run, outcome, faults, published>>

Scan(p) ==
  /\ pc[p] = "scanning"
  /\ pc' = [pc EXCEPT ![p] = "beginning"]
  /\ work' = [work EXCEPT ![p].scanned = source,
                          ![p].scanned_at = Len(history)]
  /\ UNCHANGED <<history, db, lock, run, next_run, outcome, faults, published>>

(* The document counters of the result, fixed when the plan is made.       *)
PlanTally(diff) ==
  [ZeroTally EXCEPT
     !.new_documents = Cardinality(diff.new),
     !.changed_documents = Cardinality(diff.changed),
     !.metadata_changed_documents = Cardinality(diff.metadata_changed),
     !.deleted_documents = Cardinality(diff.deleted),
     !.unchanged_documents = Cardinality(diff.unchanged)]

(* transaction(), document_states() and diff_source().                     *)
BeginTransaction(p) ==
  LET previous == document_states(db)
      diff == diff_source(work[p].scanned, previous)
  IN  /\ pc[p] = "beginning"
      /\ pc' = [pc EXCEPT ![p] = "writing"]
      /\ work' = [work EXCEPT ![p].previous = previous,
                              ![p].txn = db,
                              ![p].todo = diff,
                              ![p].tally = PlanTally(diff)]
      /\ UNCHANGED <<history, db, lock, run, next_run, outcome, faults, published>>

(* One iteration of the metadata loop.  An UPDATE that meets no row raises. *)
UpdateMetadata(p, path) ==
  LET w == work[p]
      id == w.previous[path].id
  IN  /\ pc[p] = "writing"
      /\ path \in w.todo.metadata_changed
      /\ IF HasDocument(w.txn, id)
         THEN /\ work' = [work EXCEPT
                   ![p].todo.metadata_changed = @ \ {path},
                   ![p].txn = update_document_metadata(
                                @, id, w.scanned[path].metadata_hash)]
              /\ UNCHANGED pc
         ELSE /\ pc' = [pc EXCEPT ![p] = "failing"]
              /\ UNCHANGED work
      /\ UNCHANGED <<history, db, lock, run, next_run, outcome, faults, published>>

(* Mutant of CountDeleted: the wrong sign.                                 *)
CountDeletedNegated(tally, d, id) ==
  [tally EXCEPT !.deleted_chunks = @ - Cardinality(ChunksOf(d, id))]

(* delete_document, whose result is added to deleted_chunks.               *)
CountDeleted(tally, d, id) ==
  [tally EXCEPT !.deleted_chunks = @ + Cardinality(ChunksOf(d, id))]

(* One iteration of the deletion loop, after all metadata updates.         *)
DeleteDocument(p, path) ==
  LET w == work[p]
      id == w.previous[path].id
  IN  /\ pc[p] = "writing"
      /\ w.todo.metadata_changed = {}
      /\ path \in w.todo.deleted
      /\ work' = [work EXCEPT
           ![p].todo.deleted = @ \ {path},
           ![p].txn = delete_document(@, id),
           ![p].tally = CountDeleted(@, w.txn, id)]
      /\ UNCHANGED <<history, db, lock, pc, run, next_run, outcome, faults,
                     published>>

(* Mutant of CanLoad: no source checks the hash again.                     *)
CanLoadUnverified(p, path) == source[path] # Absent

(* source.load(): the body is read now, not when it was scanned.  A missing *)
(* file raises, and an S3 object whose hash is not the scanned one does.    *)
CanLoad(p, path) ==
  /\ source[path] # Absent
  /\ VerifyOnLoad =>
       source[path].content_hash = work[p].scanned[path].content_hash

(* The next documents to load and store: the new ones, then the changed.   *)
NextToStore(todo) ==
  IF todo.metadata_changed # {} \/ todo.deleted # {} THEN {}
  ELSE IF todo.new # {} THEN todo.new ELSE todo.changed

(* A changed document is deleted, and its chunks counted, before the new   *)
(* row goes in.                                                            *)
DeletePrior(d, prior) ==
  IF prior = Absent THEN d ELSE delete_document(d, prior.id)

(* Mutant of CountPrior: the chunks of a changed document are forgotten.   *)
CountPriorForgotten(tally, d, prior) == tally

CountPrior(tally, d, prior) ==
  IF prior = Absent THEN tally ELSE CountDeleted(tally, d, prior.id)

CountEmbedded(tally, content) ==
  [tally EXCEPT !.embedded_chunks = @ + ChunkCount[content]]

StoreDocument(p, path) ==
  LET w == work[p]
      prior == w.previous[path]
      content == source[path].content_hash
  IN  /\ pc[p] = "writing"
      /\ path \in NextToStore(w.todo)
      /\ CanLoad(p, path)
      /\ work' = [work EXCEPT
           ![p].todo.new = @ \ {path},
           ![p].todo.changed = @ \ {path},
           ![p].txn = replace_document(DeletePrior(@, prior),
                                       <<run[p], path>>, path,
                                       w.scanned[path], content),
           ![p].tally = CountEmbedded(CountPrior(@, w.txn, prior), content)]
      /\ UNCHANGED <<history, db, lock, pc, run, next_run, outcome, faults,
                     published>>

(* Mutant of LoadFails: the exception goes round the failure recording.    *)
LoadFailsUnlogged(p, path) ==
  /\ pc[p] = "writing"
  /\ path \in NextToStore(work[p].todo)
  /\ ~CanLoad(p, path)
  /\ pc' = [pc EXCEPT ![p] = "unlocking"]
  /\ UNCHANGED <<history, db, lock, run, next_run, work, outcome, faults,
                 published>>

LoadFails(p, path) ==
  /\ pc[p] = "writing"
  /\ path \in NextToStore(work[p].todo)
  /\ ~CanLoad(p, path)
  /\ pc' = [pc EXCEPT ![p] = "failing"]
  /\ UNCHANGED <<history, db, lock, run, next_run, work, outcome, faults,
                 published>>

AllStored(todo) ==
  /\ todo.metadata_changed = {}
  /\ todo.deleted = {}
  /\ todo.new = {}
  /\ todo.changed = {}

(* record_run of the succeeded result, inside the document transaction.    *)
RecordRun(p) ==
  LET w == work[p]
  IN  /\ pc[p] = "writing"
      /\ AllStored(w.todo)
      /\ IF CanRecord(w.txn, run[p])
         THEN /\ pc' = [pc EXCEPT ![p] = "committing"]
              /\ work' = [work EXCEPT ![p].txn =
                            record_run(@, run[p], "succeeded", w.tally)]
         ELSE /\ pc' = [pc EXCEPT ![p] = "failing"]
              /\ UNCHANGED work
      /\ UNCHANGED <<history, db, lock, run, next_run, outcome, faults, published>>

(* The server makes the transaction of p the committed state.              *)
Publish(p) ==
  /\ db' = work[p].txn
  /\ published' = work[p].scanned_at

Commit(p) ==
  /\ pc[p] = "committing"
  /\ Publish(p)
  /\ pc' = [pc EXCEPT ![p] = "unlocking"]
  /\ outcome' = [outcome EXCEPT ![p] = "succeeded"]
  /\ work' = [work EXCEPT ![p] = NoWork]
  /\ UNCHANGED <<history, lock, run, next_run, faults>>

(* The connection dies after the server committed and before the process   *)
(* hears of it: for sync() it is one more exception.                       *)
CommitAckLost(p) ==
  /\ pc[p] = "committing"
  /\ FaultsLeft
  /\ faults' = faults + 1
  /\ Publish(p)
  /\ pc' = [pc EXCEPT ![p] = "failing"]
  /\ UNCHANGED <<history, lock, run, next_run, work, outcome>>

(* Mutant of Fault: the statements were not inside a transaction.          *)
FaultAutocommitted(p) ==
  /\ pc[p] \in {"scanning", "beginning", "writing", "committing"}
  /\ FaultsLeft
  /\ faults' = faults + 1
  /\ db' = IF pc[p] \in {"writing", "committing"} THEN work[p].txn ELSE db
  /\ pc' = [pc EXCEPT ![p] = "failing"]
  /\ UNCHANGED <<history, lock, run, next_run, work, outcome, published>>

(* Any other exception of the source, the chunker, the embedder or the     *)
(* database under the lock; an open transaction rolls back.                *)
Fault(p) ==
  /\ pc[p] \in {"scanning", "beginning", "writing", "committing"}
  /\ FaultsLeft
  /\ faults' = faults + 1
  /\ pc' = [pc EXCEPT ![p] = "failing"]
  /\ UNCHANGED <<history, db, lock, run, next_run, work, outcome, published>>

(* failed_result: what was detected, and no chunk written or deleted.      *)
FailedTally(tally) == [tally EXCEPT !.embedded_chunks = 0, !.deleted_chunks = 0]

(* The run is over for its caller; the lock is still held.                 *)
Failed(p) ==
  /\ pc' = [pc EXCEPT ![p] = "unlocking"]
  /\ outcome' = [outcome EXCEPT ![p] = "failed"]
  /\ work' = [work EXCEPT ![p] = NoWork]

(* The second transaction.  A primary-key violation, as after a commit     *)
(* whose acknowledgement was lost, is only logged.                         *)
RecordFailure(p) ==
  /\ pc[p] = "failing"
  /\ db' = IF CanRecord(db, run[p])
           THEN record_run(db, run[p], "failed", FailedTally(work[p].tally))
           ELSE db
  /\ Failed(p)
  /\ UNCHANGED <<history, lock, run, next_run, faults, published>>

(* So is any other exception while recording.                              *)
RecordFailureFails(p) ==
  /\ pc[p] = "failing"
  /\ FaultsLeft
  /\ faults' = faults + 1
  /\ Failed(p)
  /\ UNCHANGED <<history, db, lock, run, next_run, published>>

(* Mutant of Unlock: released after a success only, not in a finally.      *)
UnlockUnlessFailed(p) ==
  /\ pc[p] = "unlocking"
  /\ lock' = IF outcome[p] = "failed" THEN lock ELSE NoProc
  /\ pc' = [pc EXCEPT ![p] = "idle"]
  /\ UNCHANGED <<history, db, run, next_run, work, outcome, faults, published>>

(* The finally of sync_lock, then the result or the exception goes out.    *)
Unlock(p) ==
  /\ pc[p] = "unlocking"
  /\ lock' = NoProc
  /\ pc' = [pc EXCEPT ![p] = "idle"]
  /\ UNCHANGED <<history, db, run, next_run, work, outcome, faults, published>>

(* pg_advisory_unlock raises: the session is closed, which frees the lock, *)
(* and that exception replaces the run's own outcome.                      *)
UnlockFails(p) ==
  /\ pc[p] = "unlocking"
  /\ FaultsLeft
  /\ faults' = faults + 1
  /\ lock' = NoProc
  /\ pc' = [pc EXCEPT ![p] = "idle"]
  /\ outcome' = [outcome EXCEPT ![p] = "error"]
  /\ UNCHANGED <<history, db, run, next_run, work, published>>

(* The process dies: PostgreSQL ends its sessions, rolls back and frees    *)
(* the lock.  A commit already sent may or may not have taken place.       *)
Crash(p) ==
  /\ pc[p] # "idle"
  /\ FaultsLeft
  /\ faults' = faults + 1
  /\ \/ UNCHANGED <<db, published>>
     \/ pc[p] = "committing" /\ Publish(p)
  /\ lock' = NoProc
  /\ pc' = [pc EXCEPT ![p] = "idle"]
  /\ outcome' = [outcome EXCEPT ![p] = "crashed"]
  /\ work' = [work EXCEPT ![p] = NoWork]
  /\ UNCHANGED <<history, run, next_run>>

(* Nothing is left to do within the bounds. *)
Rest ==
  /\ \A p \in Procs : pc[p] = "idle"
  /\ next_run \notin Runs
  /\ UNCHANGED vars

-----------------------------------------------------------------------------
(* The steps a process takes by itself once it has the lock.               *)
Step(p) ==
  \/ Scan(p)
  \/ BeginTransaction(p)
  \/ \E path \in Paths :
       \/ UpdateMetadata(p, path)
       \/ DeleteDocument(p, path)
       \/ StoreDocument(p, path)
       \/ LoadFails(p, path)
  \/ RecordRun(p)
  \/ Commit(p)
  \/ RecordFailure(p)
  \/ Unlock(p)

(* What goes wrong around it. *)
Trouble(p) ==
  \/ AcquireFails(p)
  \/ CommitAckLost(p)
  \/ Fault(p)
  \/ RecordFailureFails(p)
  \/ UnlockFails(p)
  \/ Crash(p)

Next ==
  \/ EditSource
  \/ \E p \in Procs : AcquireLock(p) \/ Busy(p) \/ Step(p) \/ Trouble(p)
  \/ Rest

Spec == Init /\ [][Next]_vars

(* A process that holds the lock goes on: no step of sync() waits for      *)
(* another process.  Nothing forces a sync to start, an edit or a fault.   *)
FairSpec == Spec /\ \A p \in Procs : WF_vars(Step(p))

-----------------------------------------------------------------------------
(* The variables have their types. *)
TypeOK ==
  /\ history \in Seq(Scans) /\ history # <<>>
  /\ db \in Databases
  /\ lock \in Procs \cup {NoProc}
  /\ pc \in [Procs -> Stages]
  /\ run \in [Procs -> Runs \cup {0}]
  /\ next_run \in 1 .. MaxRuns + 1
  /\ work \in [Procs -> Work]
  /\ outcome \in [Procs -> Outcomes]
  /\ faults \in Nat
  /\ published \in 0 .. Len(history)

(* sync_lock (pgvector_store.py:121): a process is inside sync_lock exactly *)
(* while its session holds the advisory lock, so at most one process is.    *)
OneWriter == \A p \in Procs : pc[p] # "idle" <=> lock = p

(* Between document_states() and the commit nobody else changes a row: the *)
(* plan is still the right one when it is carried out, and committing the  *)
(* private copy undoes nobody's work (pipeline.py:107-240).                *)
TransactionIsolated ==
  \A p \in Procs : pc[p] \in {"writing", "committing"} =>
    /\ work[p].previous = db.documents
    /\ \A r \in Runs \ {run[p]} : work[p].txn.sync_runs[r] = db.sync_runs[r]

(* What the rows say of the source: path -> hashes. *)
Hashes(row) ==
  IF row = Absent THEN Absent
  ELSE [content_hash |-> row.content_hash, metadata_hash |-> row.metadata_hash]

Corpus(d) == [path \in Paths |-> Hashes(d.documents[path])]

PublishedScan == IF published = 0 THEN NoScan ELSE history[published]

(* "One atomic database transaction per synchronization with rollback on   *)
(* failure" (README.md): whatever fails and wherever, the document rows    *)
(* are exactly one complete scan, that of the last commit.                 *)
CorpusIsPublishedScan == Corpus(db) = PublishedScan

(* A document in the corpus was put there by a run that the ledger shows   *)
(* as succeeded; a failed or unrecorded run leaves nothing behind.         *)
DocumentsComeFromSucceededRuns ==
  \A path \in Present(db.documents) :
    LET row == db.sync_runs[db.documents[path].id[1]]
    IN  row # Absent /\ row.status = "succeeded"

(* With a source that verifies its bodies, every document has the chunks   *)
(* of the body its content hash names, all of them, and there is no other  *)
(* chunk.                                                                  *)
IndexedBodiesMatchHashes ==
  db.chunks =
    UNION {ChunkRows(db.documents[path].id, db.documents[path].content_hash) :
             path \in Present(db.documents)}

(* Even with a source that does not verify, the chunks of a document are   *)
(* a complete cut of one single body.                                      *)
NoMixedDocument ==
  /\ \A path \in Present(db.documents) :
       LET id == db.documents[path].id
       IN  \E content \in Contents : ChunksOf(db, id) = ChunkRows(id, content)
  /\ \A row \in db.chunks : HasDocument(db, row.document_id)

Succeeded == {r \in Runs : db.sync_runs[r] # Absent
                             /\ db.sync_runs[r].status = "succeeded"}

(* The counters of sync_runs account for the corpus (pipeline.py:129, 179, *)
(* 192): summed over the succeeded runs, chunks embedded less chunks       *)
(* deleted is the number of chunks there are.                              *)
LedgerExplainsChunks ==
  Cardinality(db.chunks) =
    SumFunction([r \in Succeeded |-> db.sync_runs[r].tally.embedded_chunks
                                       - db.sync_runs[r].tally.deleted_chunks])

(* New less deleted documents of some runs. *)
DocumentsAdded(runs) ==
  SumFunction([r \in runs |-> db.sync_runs[r].tally.new_documents
                                - db.sync_runs[r].tally.deleted_documents])

(* The documents a run found in the corpus, whatever it did with them.     *)
DocumentsFound(tally) ==
  tally.changed_documents + tally.metadata_changed_documents
    + tally.unchanged_documents + tally.deleted_documents

(* Likewise new less deleted documents is the number of documents; and     *)
(* what a run classified as changed, metadata-changed, unchanged or        *)
(* deleted is all that was there before it, by the accounts of the runs    *)
(* that had the lock before (they are numbered in that order).             *)
LedgerExplainsDocuments ==
  /\ Cardinality(Present(db.documents)) = DocumentsAdded(Succeeded)
  /\ \A r \in Succeeded :
       DocumentsFound(db.sync_runs[r].tally)
         = DocumentsAdded({s \in Succeeded : s < r})

(* The ledger accounts for the corpus, chunk for chunk and document for    *)
(* document, whatever failed in between.                                   *)
LedgerExplainsCorpus == LedgerExplainsChunks /\ LedgerExplainsDocuments

(* A caller told "succeeded" finds its run in the ledger as succeeded.     *)
ReportedSuccessIsDurable ==
  \A p \in Procs : outcome[p] = "succeeded" =>
    /\ db.sync_runs[run[p]] # Absent
    /\ db.sync_runs[run[p]].status = "succeeded"

(* Every run that got the lock is in the ledger once it is over, failed    *)
(* loads included, as long as no connection broke and no process died.     *)
EveryRunIsLogged ==
  faults = 0 =>
    \A r \in 1 .. next_run - 1 :
      \/ db.sync_runs[r] # Absent
      \/ \E p \in Procs : pc[p] # "idle" /\ run[p] = r

(* The ledger tells how runs ended: no success is reported that it does    *)
(* not show, and no run is missing from it.                                *)
LedgerTellsOutcomes == ReportedSuccessIsDurable /\ EveryRunIsLogged

(* A document whose content hash does not change keeps its row's identity  *)
(* and its chunks: metadata updates and unchanged documents are never      *)
(* embedded again (pipeline.py:117-126).                                   *)
SameContentKeepsChunks ==
  [][\A path \in Present(db.documents) \cap Present(db'.documents) :
       LET old == db.documents[path]
           new == db'.documents[path]
       IN  old.content_hash = new.content_hash =>
             /\ old.id = new.id
             /\ ChunksOf(db, old.id) = ChunksOf(db', new.id)]_vars

(* Locks, plans, transactions, failures and crashes implement AtomicCorpus: *)
(* every step changes the corpus and the ledger as one atomic publication, *)
(* one logged failure, or not at all, and never publishes an older scan    *)
(* over a newer one.                                                       *)
Ledger(d) ==
  [r \in Runs |-> IF d.sync_runs[r] = Absent THEN "none"
                  ELSE d.sync_runs[r].status]

Atomic == INSTANCE AtomicCorpus WITH
            corpus <- Corpus(db), ledger <- Ledger(db)

ImplementsAtomicCorpus == Atomic!AtomicSpec

(* A sync that has the lock gives it back, however it ends.                *)
LockIsReleased == \A p \in Procs : (lock = p) ~> (lock # p)

Quiet == Len(history) = MaxEdits + 1 /\ faults = MaxFaults

(* A sync that scans once edits and faults are over leaves the corpus      *)
(* equal to the source, whatever the runs before it left behind.           *)
QuietSyncConverges ==
  \A p \in Procs :
    (Quiet /\ pc[p] = "scanning") ~> (Corpus(db) = source)

(* OPERATIONS.md and README.md: a failed sync leaves the committed corpus  *)
(* unchanged.  The caller that is told "failed" has not published.         *)
FailedSyncLeavesCorpus ==
  \A p \in Procs : pc[p] = "idle" /\ outcome[p] = "failed" =>
    \A path \in Present(db.documents) : db.documents[path].id[1] # run[p]

(* When the last published scan is of the current source, the chunks of    *)
(* every document are those of the body the source has now.                *)
SettledCorpusIsCurrent ==
  published = Len(history) =>
    \A path \in Present(db.documents) :
      LET id == db.documents[path].id
      IN  ChunksOf(db, id) = ChunkRows(id, source[path].content_hash)

=============================================================================
