---------------------------- MODULE StoreReaders ----------------------------
(***************************************************************************)
(* The readers of the store, which take no lock, against synchronizations  *)
(* that commit meanwhile: PgVectorStore.status, recent_runs and            *)
(* operational_metrics (ragpipe/store/pgvector_store.py), and the HTTP     *)
(* exporter over the last one (ragpipe/metrics.py).                        *)
(*                                                                         *)
(* Each SQL statement sees one committed state; status() is two of them.   *)
(* A synchronization is reduced to what the readers can tell: when it took *)
(* its times, and the rows it commits.  started_at is taken before the     *)
(* lock, finished_at before the commit; a run id is a random uuid4, so its *)
(* order is unrelated to time.  The clock is the wall clock.               *)
(***************************************************************************)
EXTENDS Integers, FiniteSetsExt

CONSTANTS Procs,         \* processes that synchronize
          NoProc,        \* holder of a free lock
          Paths,         \* documents that may exist
          MaxChunks,     \* a document is cut into 1..MaxChunks chunks
          NoRun,         \* no row of sync_runs
          MaxRuns,       \* bound: run ids are 1..MaxRuns
          MaxTime,       \* bound: the clock
          MaxBackSteps   \* bound: how often the wall clock is set back

ASSUME BoundsAreNat == /\ MaxChunks \in Nat \ {0} /\ MaxRuns \in Nat
                       /\ MaxTime \in Nat /\ MaxBackSteps \in Nat
ASSUME PathsFinite == IsFiniteSet(Paths)
ASSUME NoProcIsNoProcess == NoProc \notin Procs

RunIds == 1 .. MaxRuns
Times == 0 .. MaxTime

(* The tables documents and chunks: path -> its chunks, 0 for no document. *)
Corpora == [Paths -> 0 .. MaxChunks]

RunRow == [id : RunIds, status : {"succeeded", "failed"},
           started_at : Times, finished_at : Times,
           new_documents : Nat, deleted_documents : Nat,
           embedded_chunks : Nat, deleted_chunks : Nat,
           embedding_batches : Nat]

ASSUME NoRunIsNoRow == NoRun \notin RunRow

Run == [stage : {"idle", "starting", "running", "committing"},
        id : RunIds \cup {0}, started_at : Times,
        row : RunRow \cup {NoRun}, target : Corpora]

VARIABLES
  now,        \* the wall clock
  back,       \* how often it was set back
  lock,       \* the advisory lock
  runs,       \* each process's run
  corpus,     \* committed documents and chunks
  sync_runs,  \* committed rows
  newest,     \* row of the last commit
  status,     \* a status() call
  scrape      \* the exporter: request in progress, last 200 answer

vars == <<now, back, lock, runs, corpus, sync_runs, newest, status, scrape>>
database == <<corpus, sync_runs, newest>>

EmptyCorpus == [path \in Paths |-> 0]

NoSync == [stage |-> "idle", id |-> 0, started_at |-> 0, row |-> NoRun,
           target |-> EmptyCorpus]

Documents(c) == {path \in Paths : c[path] > 0}
ChunksIn(c, paths) == SumFunction([path \in paths |-> c[path]])

-----------------------------------------------------------------------------
(* The clock and the synchronizations. *)
Tick ==
  /\ now < MaxTime
  /\ now' = now + 1
  /\ UNCHANGED <<back, lock, runs, database, status, scrape>>

SetClockBack ==
  /\ back < MaxBackSteps /\ now > 0
  /\ now' = now - 1
  /\ back' = back + 1
  /\ UNCHANGED <<lock, runs, database, status, scrape>>

UsedIds == {row.id : row \in sync_runs} \cup {runs[p].id : p \in Procs}

(* sync() is entered: its times and its id are drawn before the lock.      *)
StartRun(p) ==
  /\ runs[p].stage = "idle"
  /\ \E id \in RunIds \ UsedIds :
       runs' = [runs EXCEPT ![p] = [NoSync EXCEPT
                  !.stage = "starting", !.id = id, !.started_at = now]]
  /\ UNCHANGED <<now, back, lock, database, status, scrape>>

TryLock(p) ==
  /\ runs[p].stage = "starting"
  /\ IF lock = NoProc
     THEN lock' = p /\ runs' = [runs EXCEPT ![p].stage = "running"]
     ELSE runs' = [runs EXCEPT ![p] = NoSync] /\ UNCHANGED lock
  /\ UNCHANGED <<now, back, database, status, scrape>>

(* What a run that turns the corpus into target writes into its row: a     *)
(* changed document's old chunks are deleted and its new ones embedded.    *)
Result(p, target) ==
  LET written == {path \in Documents(target) : target[path] # corpus[path]}
      gone == {path \in Documents(corpus) : target[path] # corpus[path]}
  IN  [id |-> runs[p].id, status |-> "succeeded",
       started_at |-> runs[p].started_at, finished_at |-> now,
       new_documents |-> Cardinality(Documents(target) \ Documents(corpus)),
       deleted_documents |-> Cardinality(Documents(corpus) \ Documents(target)),
       embedded_chunks |-> ChunksIn(target, written),
       deleted_chunks |-> ChunksIn(corpus, gone),
       embedding_batches |-> Cardinality(written)]

(* Mutant of FailedResult: the counters of what was rolled back are kept.  *)
FailedResultKept(result) == [result EXCEPT !.status = "failed"]

(* failed_result: what was detected and attempted; no chunk was committed. *)
FailedResult(result) ==
  [result EXCEPT !.status = "failed", !.embedded_chunks = 0, !.deleted_chunks = 0]

(* finished_at is taken; the row goes into the transaction of the          *)
(* documents, or into one of its own after a rollback.                     *)
FinishRun(p) ==
  /\ runs[p].stage = "running"
  /\ \E target \in Corpora, failed \in BOOLEAN :
       LET result == Result(p, target)
       IN  runs' = [runs EXCEPT
             ![p].stage = "committing",
             ![p].row = IF failed THEN FailedResult(result) ELSE result,
             ![p].target = IF failed THEN corpus ELSE target]
  /\ UNCHANGED <<now, back, lock, database, status, scrape>>

(* The commit, and the lock given back. *)
CommitRun(p) ==
  /\ runs[p].stage = "committing"
  /\ corpus' = runs[p].target
  /\ sync_runs' = sync_runs \cup {runs[p].row}
  /\ newest' = runs[p].row
  /\ lock' = NoProc
  /\ runs' = [runs EXCEPT ![p] = NoSync]
  /\ UNCHANGED <<now, back, status, scrape>>

-----------------------------------------------------------------------------
(* Mutant of Before: ORDER BY started_at. *)
BeforeByStart(row, other) ==
  \/ row.started_at > other.started_at
  \/ row.started_at = other.started_at /\ row.id > other.id

(* ORDER BY finished_at DESC, id DESC. *)
Before(row, other) ==
  \/ row.finished_at > other.finished_at
  \/ row.finished_at = other.finished_at /\ row.id > other.id

(* recent_runs(limit), as the set of its rows in the order Before.         *)
recent_runs(rows, limit) ==
  {row \in rows : Cardinality({other \in rows : Before(other, row)}) < limit}

(* latest_run of operational_metrics. *)
LatestRun(rows) ==
  IF rows = {} THEN NoRun
  ELSE CHOOSE row \in rows : \A other \in rows \ {row} : Before(row, other)

(* status() has ORDER BY finished_at DESC only: on a tie, any of them.     *)
StatusLatest(rows) ==
  {row \in rows : \A other \in rows : row.finished_at >= other.finished_at}

NoStatus == [stage |-> "idle", known |-> -1, last |-> NoRun]

LastFinished(rows) == IF rows = {} THEN -1 ELSE LatestRun(rows).finished_at

(* Mutant of StatusCounts: the two statements in the other order.          *)
StatusCountsLast ==
  \/ /\ status.stage = "idle" /\ ~scrape.pending
     /\ \E last \in IF sync_runs = {} THEN {NoRun} ELSE StatusLatest(sync_runs) :
          status' = [status EXCEPT !.stage = "named", !.last = last]
     /\ UNCHANGED <<now, back, lock, runs, database, scrape>>
  \/ /\ status.stage = "named"
     /\ status' = [status EXCEPT
                     !.stage = "answered", !.known = LastFinished(sync_runs)]
     /\ UNCHANGED <<now, back, lock, runs, database, scrape>>

(* The first statement of status(): the counts, for which stands the last  *)
(* run they can have come from.                                            *)
StatusCounts ==
  /\ status.stage = "idle"
  /\ ~scrape.pending
  /\ status' = [stage |-> "counted", known |-> LastFinished(sync_runs),
                last |-> NoRun]
  /\ UNCHANGED <<now, back, lock, runs, database, scrape>>

(* The second one. *)
StatusLastRun ==
  /\ status.stage = "counted"
  /\ \E last \in IF sync_runs = {} THEN {NoRun} ELSE StatusLatest(sync_runs) :
       status' = [status EXCEPT !.stage = "answered", !.last = last]
  /\ UNCHANGED <<now, back, lock, runs, database, scrape>>

StatusReturns ==
  /\ status.stage = "answered"
  /\ status' = NoStatus
  /\ UNCHANGED <<now, back, lock, runs, database, scrape>>

(* Mutant of RunsSummed: only the runs of the history page.                *)
RunsSummedRecent(rows) == recent_runs(rows, 2)

(* The totals range over every row, whatever its status.                   *)
RunsSummed(rows) == rows

(* operational_metrics(): one statement, one committed state.              *)
operational_metrics ==
  LET rows == RunsSummed(sync_runs)
  IN  [documents |-> Cardinality(Documents(corpus)),
       chunks |-> ChunksIn(corpus, Paths),
       succeeded |-> Cardinality({row \in rows : row.status = "succeeded"}),
       failed |-> Cardinality({row \in rows : row.status = "failed"}),
       new_documents_total |-> SumFunction([row \in rows |-> row.new_documents]),
       deleted_documents_total |->
          SumFunction([row \in rows |-> row.deleted_documents]),
       embedded_chunks_total |-> SumFunction([row \in rows |-> row.embedded_chunks]),
       deleted_chunks_total |-> SumFunction([row \in rows |-> row.deleted_chunks]),
       embedding_batches_total |->
          SumFunction([row \in rows |-> row.embedding_batches]),
       last |-> LatestRun(sync_runs)]

NoMetrics == [documents |-> 0, chunks |-> 0, succeeded |-> 0, failed |-> 0,
              new_documents_total |-> 0, deleted_documents_total |-> 0,
              embedded_chunks_total |-> 0, deleted_chunks_total |-> 0,
              embedding_batches_total |-> 0, last |-> NoRun]

(* A GET /metrics arrives.  The provider is called for every request; any  *)
(* other request gets 404 and reads nothing.  One reader is at work at a   *)
(* time: readers change nothing another one sees.                          *)
ScrapeRequest ==
  /\ ~scrape.pending
  /\ status.stage = "idle"
  /\ scrape' = [scrape EXCEPT !.pending = TRUE]
  /\ UNCHANGED <<now, back, lock, runs, database, status>>

(* 200 with a rendered snapshot. *)
ScrapeAnswered ==
  /\ scrape.pending
  /\ scrape' = [scrape EXCEPT !.pending = FALSE,
                              !.shown = operational_metrics]
  /\ UNCHANGED <<now, back, lock, runs, database, status>>

(* 500: the database cannot be read.  The server goes on.                  *)
ScrapeFails ==
  /\ scrape.pending
  /\ scrape' = [scrape EXCEPT !.pending = FALSE]
  /\ UNCHANGED <<now, back, lock, runs, database, status>>

Init ==
  /\ now = 0 /\ back = 0
  /\ lock = NoProc
  /\ runs = [p \in Procs |-> NoSync]
  /\ corpus = EmptyCorpus
  /\ sync_runs = {}
  /\ newest = NoRun
  /\ status = NoStatus
  /\ scrape = [pending |-> FALSE, shown |-> NoMetrics]

Synchronize ==
  \E p \in Procs : StartRun(p) \/ TryLock(p) \/ FinishRun(p) \/ CommitRun(p)

CallStatus == StatusCounts \/ StatusLastRun \/ StatusReturns

CallMetrics == ScrapeRequest \/ ScrapeAnswered \/ ScrapeFails

Next ==
  \/ Tick \/ SetClockBack \/ Synchronize
  \/ CallStatus \/ CallMetrics

Spec == Init /\ [][Next]_vars

-----------------------------------------------------------------------------
(* The variables have their types. *)
TypeOK ==
  /\ now \in Times /\ back \in 0 .. MaxBackSteps
  /\ lock \in Procs \cup {NoProc}
  /\ runs \in [Procs -> Run]
  /\ corpus \in Corpora
  /\ sync_runs \subseteq RunRow
  /\ newest \in sync_runs \cup {NoRun}
  /\ status.stage \in {"idle", "counted", "answered"}
  /\ status.known \in Times \cup {-1}
  /\ status.last \in sync_runs \cup {NoRun}
  /\ scrape.pending \in BOOLEAN
  /\ scrape.shown.last \in sync_runs \cup {NoRun}

(* status() is two statements, and runs may commit in between.  The run it *)
(* names is never older than the rows it counted: nobody reads "last run   *)
(* at 10:00" next to counts that a run of 10:05 has left.                  *)
StatusNamesNoOlderRun ==
  status.stage = "answered" /\ status.known >= 0 =>
    status.last # NoRun /\ status.last.finished_at >= status.known

(* The metrics of one snapshot explain each other, failed runs included    *)
(* ("embedded/deleted chunk counters remain zero after rollback",          *)
(* README.md:437): chunks embedded less chunks deleted are the chunks.     *)
MetricsExplainChunks ==
  scrape.shown.chunks =
    scrape.shown.embedded_chunks_total - scrape.shown.deleted_chunks_total

(* The state invariant: types, and metrics that explain each other.        *)
ReadersInv == TypeOK /\ MetricsExplainChunks

Counters(metrics) ==
  <<metrics.succeeded, metrics.failed, metrics.new_documents_total,
    metrics.deleted_documents_total, metrics.embedded_chunks_total,
    metrics.deleted_chunks_total, metrics.embedding_batches_total>>

(* What is exported as a Prometheus counter never decreases from one       *)
(* answer to the next, over failed requests and failed runs alike.         *)
CountersNeverDecrease ==
  [][\A i \in 1 .. 7 :
       Counters(scrape.shown)[i] <= Counters(scrape'.shown)[i]]_vars

(* All three readers order by finished_at, which is taken under the lock:  *)
(* unless the clock is set back or times are equal, the run they name is   *)
(* the one committed last, even if it was started before others; and       *)
(* `ragpipe runs` puts first the run that the metrics are about.           *)
LastRunIsNewest ==
  LET latest == LatestRun(sync_runs)
  IN  back = 0 /\ newest # NoRun =>
        /\ recent_runs(sync_runs, 1) = {latest}
        /\ latest = newest \/ latest.finished_at = newest.finished_at
=============================================================================
