-------------------------- MODULE OverlappingSyncs --------------------------
(***************************************************************************)
(* Synchronizations statement by statement, under PostgreSQL's READ        *)
(* COMMITTED, when the session of the advisory lock may end alone          *)
(* (ragpipe/store/pgvector_store.py, sync_lock and transaction).           *)
(*                                                                         *)
(* The lock lives in a pooled connection of its own that is idle during    *)
(* the run.  If the server or the network ends that session, the lock is   *)
(* free, the run goes on in the other session, and a second process may    *)
(* start: their transactions overlap.  A row that one transaction has      *)
(* written makes the statements of another wait; a statement that waited   *)
(* goes on with the row it had seen, if that row is still there; a cycle   *)
(* of waits is broken by the server, which raises in one of them.          *)
(*                                                                         *)
(* Chunks come and go with their document row and are left out; so is      *)
(* load(), which SyncRuns has.  Paths are numbers, in the order in which   *)
(* the code sorts them.                                                    *)
(***************************************************************************)
EXTENDS CorpusDiff, Integers, Sequences, FiniteSets

CONSTANTS Procs,      \* processes that run `ragpipe sync`
          NoProc,     \* holder of a free lock
          Untouched,  \* a path the open transaction has not written
          InitialSource, \* the source before the first change
          Versions,   \* scans the source may show
          MaxRuns,    \* bound: run ids are 1..MaxRuns
          MaxEdits,   \* bound: changes of the source
          MaxLosses,  \* bound: lock sessions that end alone
          MaxFaults   \* bound: other exceptions

ASSUME VersionsAreScans == Versions \subseteq Scans /\ InitialSource \in Scans
ASSUME PathsAreOrdered == Paths \subseteq Int /\ IsFiniteSet(Paths)
ASSUME BoundsAreNat ==
  MaxRuns \in Nat /\ MaxEdits \in Nat /\ MaxLosses \in Nat /\ MaxFaults \in Nat
ASSUME NoProcIsNoProcess == NoProc \notin Procs

Runs == 1 .. MaxRuns

Row == [id : Runs \X Paths, content_hash : Contents, metadata_hash : Metas]

ASSUME MarksAreNoRows == Absent \notin Row /\ Untouched \notin Row \cup {Absent}

VARIABLES
  history,    \* every scan the source would have given; the last is current
  db,         \* the committed document rows, by path
  ledger,     \* the status column of sync_runs, by run
  lock,       \* the advisory lock
  pc,         \* where each process is in sync()
  run,        \* the run id of each process
  next_run,   \* the next unused run id
  work,       \* locals and open transaction of each process
  outcome,    \* what sync() told its caller
  losses,     \* lock sessions lost so far
  faults,     \* other exceptions so far
  scan_of,    \* run -> version of the source it scanned
  published,  \* version of the last commit
  commits     \* commits of successful runs so far

vars == <<history, db, ledger, lock, pc, run, next_run, work, outcome,
          losses, faults, scan_of, published, commits>>

(* The variables only the source, the lock or the ledger change. *)
environment == <<history, run, next_run, losses, scan_of>>
committed == <<db, ledger, published, commits>>

Stages == {"idle", "scanning", "beginning", "writing", "failing", "unlocking"}

(* next  the statement of store_completed_documents that comes next        *)
(* seen  the row a waiting DELETE by path has found                        *)
(* mine  the rows this transaction has written, Absent if it deleted them  *)
(* base  commits when document_states() was read                           *)
Work == [scanned : Scans, previous : [Paths -> Row \cup {Absent}], todo : Diffs,
         next : {"prior", "path", "insert"}, seen : Row \cup {Absent},
         mine : [Paths -> Row \cup {Absent, Untouched}], base : Nat]

NoWork == [scanned |-> NoScan, previous |-> NoScan, todo |-> NoDiff,
           next |-> "prior", seen |-> Absent,
           mine |-> [path \in Paths |-> Untouched], base |-> 0]

source == history[Len(history)]

Init ==
  /\ history = <<InitialSource>>
  /\ db = NoScan
  /\ ledger = [r \in Runs |-> "none"]
  /\ lock = NoProc
  /\ pc = [p \in Procs |-> "idle"]
  /\ run = [p \in Procs |-> 0]
  /\ next_run = 1
  /\ work = [p \in Procs |-> NoWork]
  /\ outcome = [p \in Procs |-> "none"]
  /\ losses = 0
  /\ faults = 0
  /\ scan_of = [r \in Runs |-> 0]
  /\ published = 0
  /\ commits = 0

-----------------------------------------------------------------------------
EditSource ==
  /\ Len(history) <= MaxEdits
  /\ \E scan \in Versions \ {source} : history' = Append(history, scan)
  /\ UNCHANGED <<db, ledger, lock, pc, run, next_run, work, outcome, losses,
                 faults, scan_of, published, commits>>

(* Mutant of LockIsFree: the answer of pg_try_advisory_lock is not read.   *)
LockAnswerIgnored == TRUE

LockIsFree == lock = NoProc

AcquireLock(p) ==
  /\ pc[p] = "idle"
  /\ next_run \in Runs
  /\ LockIsFree
  /\ lock' = p
  /\ pc' = [pc EXCEPT ![p] = "scanning"]
  /\ run' = [run EXCEPT ![p] = next_run]
  /\ next_run' = next_run + 1
  /\ outcome' = [outcome EXCEPT ![p] = "none"]
  /\ UNCHANGED <<committed, history, work, losses, faults, scan_of>>

(* The session that holds the lock ends; its process does not notice.      *)
LoseLock(p) ==
  /\ lock = p
  /\ losses < MaxLosses
  /\ losses' = losses + 1
  /\ lock' = NoProc
  /\ UNCHANGED <<committed, history, pc, run, next_run, work, outcome, faults,
                 scan_of>>

Scan(p) ==
  /\ pc[p] = "scanning"
  /\ pc' = [pc EXCEPT ![p] = "beginning"]
  /\ work' = [work EXCEPT ![p].scanned = source]
  /\ scan_of' = [scan_of EXCEPT ![run[p]] = Len(history)]
  /\ UNCHANGED <<committed, history, lock, run, next_run, outcome, losses, faults>>

(* transaction(), document_states() and diff_source().                     *)
BeginTransaction(p) ==
  /\ pc[p] = "beginning"
  /\ pc' = [pc EXCEPT ![p] = "writing"]
  /\ work' = [work EXCEPT ![p].previous = db,
                          ![p].todo = diff_source(work[p].scanned, db),
                          ![p].base = commits]
  /\ UNCHANGED <<environment, committed, lock, outcome, faults>>

-----------------------------------------------------------------------------
First(paths) == CHOOSE path \in paths : \A other \in paths : path <= other

(* The statement a run has come to: metadata updates, deletions, then for  *)
(* each new and each changed document the deletion of the prior row, the   *)
(* deletion by path and the insertion.                                     *)
Statement(p) ==
  LET todo == work[p].todo
      stored == IF todo.new # {} THEN todo.new ELSE todo.changed
  IN  IF todo.metadata_changed # {}
      THEN [kind |-> "update", path |-> First(todo.metadata_changed)]
      ELSE IF todo.deleted # {}
      THEN [kind |-> "delete", path |-> First(todo.deleted)]
      ELSE IF stored # {}
      THEN [kind |-> IF work[p].next = "prior" /\ todo.new # {}
                     THEN "path" ELSE work[p].next,
            path |-> First(stored)]
      ELSE [kind |-> "none", path |-> 0]

(* The row p sees at a path: its own write, else the committed row.        *)
View(p, path) ==
  IF work[p].mine[path] = Untouched THEN db[path] ELSE work[p].mine[path]

(* Whether the statement finds the row with the id that was planned for.   *)
FindsPlanned(p, path) ==
  /\ View(p, path) # Absent
  /\ View(p, path).id = work[p].previous[path].id

(* Whether DELETE ... WHERE path finds a row; once it has waited it looks  *)
(* for the row it had found, and for no row that came after it.            *)
FindsByPath(p, path) ==
  /\ View(p, path) # Absent
  /\ work[p].seen # Absent => View(p, path).id = work[p].seen.id

(* The transaction that has written the row another statement needs.       *)
Writers(p, path) ==
  {q \in Procs \ {p} : work[q].mine[path] # Untouched}

(* A DELETE or UPDATE waits for the writer of the row it has found, an     *)
(* INSERT for the writer of any row with the same unique path.             *)
WaitsFor(p) ==
  LET s == Statement(p)
      needs_row ==
        \/ s.kind = "insert"
        \/ s.kind = "path" /\ FindsByPath(p, s.path)
        \/ s.kind \in {"update", "delete", "prior"} /\ FindsPlanned(p, s.path)
  IN  IF pc[p] = "writing" /\ needs_row THEN Writers(p, s.path) ELSE {}

Ready(p, kind) ==
  /\ pc[p] = "writing"
  /\ Statement(p).kind = kind
  /\ WaitsFor(p) = {}

Raise(p) ==
  /\ pc' = [pc EXCEPT ![p] = "failing"]
  /\ work' = [work EXCEPT ![p] = NoWork]

(* Mutant of UpdateFinds: UPDATE ... WHERE path. *)
UpdateFindsPath(p, path) == View(p, path) # Absent

(* UPDATE ... WHERE id. *)
UpdateFinds(p, path) == FindsPlanned(p, path)

(* An UPDATE that affects no row raises.                                   *)
UpdateMetadata(p) ==
  LET path == Statement(p).path
  IN  /\ Ready(p, "update")
      /\ IF UpdateFinds(p, path)
         THEN /\ work' = [work EXCEPT
                   ![p].todo.metadata_changed = @ \ {path},
                   ![p].mine[path] =
                      [View(p, path) EXCEPT !.metadata_hash =
                          work[p].scanned[path].metadata_hash]]
              /\ UNCHANGED pc
         ELSE Raise(p)
      /\ UNCHANGED <<environment, committed, lock, outcome, faults>>

(* A DELETE that affects no row is not noticed.                            *)
AfterDelete(p, path) ==
  IF FindsPlanned(p, path) THEN Absent ELSE work[p].mine[path]

DeleteDocument(p) ==
  LET path == Statement(p).path
  IN  /\ Ready(p, "delete")
      /\ work' = [work EXCEPT ![p].todo.deleted = @ \ {path},
                              ![p].mine[path] = AfterDelete(p, path)]
      /\ UNCHANGED <<environment, committed, lock, pc, outcome, faults>>

DeletePrior(p) ==
  LET path == Statement(p).path
  IN  /\ Ready(p, "prior")
      /\ work' = [work EXCEPT ![p].next = "path",
                              ![p].mine[path] = AfterDelete(p, path)]
      /\ UNCHANGED <<environment, committed, lock, pc, outcome, faults>>

(* The DELETE by path has to wait: it holds on to the row it has found.    *)
WaitWithRow(p) ==
  /\ pc[p] = "writing"
  /\ Statement(p).kind = "path"
  /\ WaitsFor(p) # {}
  /\ work[p].seen = Absent
  /\ work' = [work EXCEPT ![p].seen = db[Statement(p).path]]
  /\ UNCHANGED <<environment, committed, lock, pc, outcome, faults>>

(* DELETE ... WHERE path. *)
DeletePath(p) ==
  LET path == Statement(p).path
  IN  /\ Ready(p, "path")
      /\ work' = [work EXCEPT
           ![p].next = "insert",
           ![p].seen = Absent,
           ![p].mine[path] = IF FindsByPath(p, path) THEN Absent ELSE @]
      /\ UNCHANGED <<environment, committed, lock, pc, outcome, faults>>

(* INSERT; a live row at the path violates the unique key.                 *)
InsertDocument(p) ==
  LET path == Statement(p).path
      item == work[p].scanned[path]
  IN  /\ Ready(p, "insert")
      /\ IF View(p, path) # Absent
         THEN Raise(p)
         ELSE /\ work' = [work EXCEPT
                   ![p].next = "prior",
                   ![p].todo.new = @ \ {path},
                   ![p].todo.changed = @ \ {path},
                   ![p].mine[path] = [id |-> <<run[p], path>>,
                                      content_hash |-> item.content_hash,
                                      metadata_hash |-> item.metadata_hash]]
              /\ UNCHANGED pc
      /\ UNCHANGED <<environment, committed, lock, outcome, faults>>

(* p is on a cycle of waits, of which the server's deadlock check picks one. *)
InDeadlock(p) ==
  \E cycle \in SUBSET Procs :
    /\ p \in cycle
    /\ UNION {WaitsFor(q) : q \in cycle} = cycle

(* Mutant of DeadlockDetected: the statement is tried again.               *)
DeadlockRetried(p) == InDeadlock(p) /\ UNCHANGED vars

DeadlockDetected(p) ==
  /\ InDeadlock(p)
  /\ Raise(p)
  /\ UNCHANGED <<environment, committed, lock, outcome, faults>>

AfterCommit(p) == [path \in Paths |-> View(p, path)]

(* record_run of the succeeded result and the commit. *)
Commit(p) ==
  /\ Ready(p, "none")
  /\ db' = AfterCommit(p)
  /\ ledger' = [ledger EXCEPT ![run[p]] = "succeeded"]
  /\ published' = scan_of[run[p]]
  /\ commits' = commits + 1
  /\ pc' = [pc EXCEPT ![p] = "unlocking"]
  /\ work' = [work EXCEPT ![p] = NoWork]
  /\ outcome' = [outcome EXCEPT ![p] = "succeeded"]
  /\ UNCHANGED <<environment, lock, faults>>

(* Any other exception under the lock; the transaction rolls back.         *)
Fault(p) ==
  /\ pc[p] \in {"scanning", "beginning", "writing"}
  /\ faults < MaxFaults
  /\ faults' = faults + 1
  /\ Raise(p)
  /\ UNCHANGED <<environment, committed, lock, outcome>>

RecordFailure(p) ==
  /\ pc[p] = "failing"
  /\ ledger' = [ledger EXCEPT ![run[p]] = "failed"]
  /\ pc' = [pc EXCEPT ![p] = "unlocking"]
  /\ outcome' = [outcome EXCEPT ![p] = "failed"]
  /\ UNCHANGED <<environment, db, lock, work, faults, published, commits>>

(* The finally of sync_lock.  In a session that has ended pg_advisory_unlock *)
(* raises, and that exception replaces the outcome of the run.              *)
Unlock(p) ==
  /\ pc[p] = "unlocking"
  /\ pc' = [pc EXCEPT ![p] = "idle"]
  /\ IF lock = p
     THEN lock' = NoProc /\ UNCHANGED outcome
     ELSE outcome' = [outcome EXCEPT ![p] = "error"] /\ UNCHANGED lock
  /\ UNCHANGED <<environment, committed, work, faults>>

Rest ==
  /\ \A p \in Procs : pc[p] = "idle"
  /\ next_run \notin Runs
  /\ UNCHANGED vars

Step(p) ==
  \/ Scan(p)
  \/ BeginTransaction(p)
  \/ UpdateMetadata(p)
  \/ DeleteDocument(p)
  \/ DeletePrior(p)
  \/ WaitWithRow(p)
  \/ DeletePath(p)
  \/ InsertDocument(p)
  \/ DeadlockDetected(p)
  \/ Commit(p)
  \/ RecordFailure(p)
  \/ Unlock(p)

Next ==
  \/ EditSource
  \/ \E p \in Procs : AcquireLock(p) \/ LoseLock(p) \/ Step(p) \/ Fault(p)
  \/ Rest

Spec == Init /\ [][Next]_vars

(* A process that can go on does; a statement that waits goes on when the  *)
(* row is free, or when the server finds the deadlock it is part of.       *)
FairSpec == Spec /\ \A p \in Procs : WF_vars(Step(p))

-----------------------------------------------------------------------------
(* The variables have their types. *)
TypeOK ==
  /\ history \in Seq(Scans) /\ history # <<>>
  /\ db \in [Paths -> Row \cup {Absent}]
  /\ ledger \in [Runs -> {"none", "succeeded", "failed"}]
  /\ lock \in Procs \cup {NoProc}
  /\ pc \in [Procs -> Stages]
  /\ run \in [Procs -> Runs \cup {0}]
  /\ next_run \in 1 .. MaxRuns + 1
  /\ work \in [Procs -> Work]
  /\ outcome \in [Procs -> {"none", "succeeded", "failed", "error"}]
  /\ losses \in 0 .. MaxLosses /\ faults \in 0 .. MaxFaults
  /\ scan_of \in [Runs -> 0 .. Len(history)]
  /\ published \in 0 .. Len(history) /\ commits \in Nat

Hashes(row) ==
  IF row = Absent THEN Absent
  ELSE [content_hash |-> row.content_hash, metadata_hash |-> row.metadata_hash]

Corpus(rows) == [path \in Paths |-> Hashes(rows[path])]

Succeeded == {r \in Runs : ledger[r] = "succeeded"}

(* Even when runs overlap, no row mixes the content of one scan with the   *)
(* metadata of another, and none comes from a run that was rolled back:    *)
(* each path shows what one successful run found there.  Updates go by id, *)
(* and a document that was replaced has a new one.                         *)
EachPathFromOneRun ==
  commits > 0 => \A path \in Paths : \E r \in Succeeded :
    Hashes(db[path]) = history[scan_of[r]][path]

(* The state invariant: types, and rows that are each of one run.          *)
OverlapInv == TypeOK /\ EachPathFromOneRun

(* An overlap heals: a run that sees no other commit between reading the   *)
(* document rows and its own commit leaves exactly its scan, whatever      *)
(* overlapping runs have left before.                                      *)
RepairsAfterOverlap ==
  [][\A p \in Procs :
       pc[p] = "writing" /\ pc'[p] = "unlocking" /\ work[p].base = commits
         => Corpus(db') = work[p].scanned]_vars

(* Whatever waits and deadlocks, a sync ends. *)
SyncEnds == \A p \in Procs : (pc[p] # "idle") ~> (pc[p] = "idle")

(* As long as no lock session is lost, the statements, one by one under    *)
(* READ COMMITTED, implement AtomicCorpus: the private copy of the tables  *)
(* that SyncRuns works on is no stronger than PostgreSQL here.  Nothing is *)
(* promised once a session is lost: two runs that overlap may leave a      *)
(* corpus that is no scan at all.                                          *)
Atomic == INSTANCE AtomicCorpus WITH corpus <- Corpus(db)

ImplementsAtomicCorpus ==
  /\ Atomic!AtomicInit
  /\ [][losses' = 0 =>
          Atomic!AtomicNext \/ UNCHANGED Atomic!abstractVars]_vars
=============================================================================
