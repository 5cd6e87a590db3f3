# ragpipe in TLA+

Specifications, model checks and proofs for [ragpipe](../src/README.md), the
pipeline that keeps a PostgreSQL/pgvector corpus synchronized with a folder or
an S3 prefix of documents.  Everything here is translated from the code under
`src/`; `PROJECT.json` maps each definition to the lines it stands for.

## 1. Inventory of the system

| Component | State | Operations | Interacts with |
|---|---|---|---|
| `SyncPipeline` (`pipeline.py`) | per run: run id, counters, plan, deque of prepared documents, batch of texts | `sync`: lock, scan, one transaction (states, diff, metadata, deletions, batched embedding, replacements, run row), failure recording | calls source, chunker, embedder, store; several processes share one database |
| `diff_source` (`source_scanner.py`) | none | classifies paths as new, changed, metadata-changed, unchanged, deleted | between scan and document rows |
| `PgVectorStore`, writes | pool of 5 connections, the active connection `_conn`; tables `documents`, `chunks`, `sync_runs`; the advisory lock | `sync_lock`, `transaction`, `document_states`, `delete_document`, `replace_document`, `update_document_metadata`, `record_run`, `close` | the lock lives in one session, the transaction in another |
| `PgVectorStore`, reads | none | `recent_runs`, `operational_metrics`, `status`, `search` | read the last committed state, without the lock |
| Schema and migrations | `alembic_version`, keys, cascade, checks | five revisions, `initialize` checks the revision and the vector width | every command starts with `initialize` |
| Sources (`source.py`, `s3_source.py`, `source_scanner.py`, `metadata.py`) | S3 keeps the objects of its last listing | `scan`, `load`, metadata manifest | the documents change at any time |
| Chunker | none | `chunk`, `_split` | pure |
| Embedding provider | a loaded model | `embed` | batch in, vectors out |
| Evaluator (`evaluation.py`) | none | dataset parsing, `evaluate` | embedder, `search` |
| Metrics exporter (`metrics.py`) | none | rendering, HTTP handler | `operational_metrics` |
| Command line (`cli.py`) | none | commands, exit codes, clean-up | all of the above |
| Loaders, configuration, logging, benchmark script | none | pure I/O | - |

The hard behaviours: two processes synchronizing at once; a failure at any
point of a long run; a crash with a lock and a transaction open; a commit whose
acknowledgement is lost; a source that changes between scan and load;
embedding batches that straddle documents; counters gathered in several places
that must add up over many runs; readers that combine several statements;
transactions that overlap after the lock's session is lost; scans that take
many requests; migrations up and down under a program that checked the schema
once; exceptions and interrupts at any step of a command.

What makes each component correct:

- *Synchronization*: at most one run inside the lock; the plan stays valid
  until it is committed; the document rows are always exactly one complete
  scan; a failed run changes nothing and is recorded; the lock always comes
  back; an undisturbed run makes the corpus equal to the source.
- *Store*: a document's chunks come and go with its row; the ledger accounts
  for documents and chunks.
- *Plan*: every path falls into one category; unchanged content keeps its row
  and its chunks.
- *Batching*: each document receives its own vectors, in order; it is stored
  once, complete, in loading order; memory stays within a batch and a document.
- *Sources*: what is stored under a hash is the body with that hash; what a
  scan says of a document was so during the scan.
- *Readers*: one answer describes one committed state, totals never decrease,
  the last run is the newest.
- *Schema*: a revision's name says what the schema is; default values agree
  with what the program computes; no vector is lost or of a wrong width.
- *Chunker*: no text lost or out of order, no blank chunk, bounded length.
- *Search and evaluation*: nearest first among the chunks of one model, in one
  order; each case judged by its own query.
- *Commands*: exit code, output and corpus agree; the pool is closed.

`PROJECT.json` lists the hazards at their lines, with the properties that
cover them.

## 2. Modules

```
CorpusDiff            diff_source; scans of the source
  PgVectorStore       tables and write operations (EXTENDS CorpusDiff)
    SyncRuns          processes, lock, transaction, failures (EXTENDS PgVectorStore)
      MCSyncRuns      small instances for TLC
      SyncRunsProofs  proofs: types, safety of lock, transaction and rows,
                      chunks, ledger, counters, refinement
  AtomicCorpus        what synchronization promises (refined by SyncRuns)
    OverlappingSyncs  statements and row locks of overlapping transactions
                      (EXTENDS CorpusDiff, refines AtomicCorpus)
      OverlappingSyncsProofs
    SchemaMigrations  revisions 0001-0005, initialize(), syncs among migrations
                      (EXTENDS CorpusDiff)
      SchemaMigrationsProofs
EmbeddingBatches      the batching loop inside one synchronization
Chunker               chunk and _split
  ChunksProofs        proofs about both: from a text to its vectors
StoreReaders          status, run history, metrics, while syncs commit
  StoreReadersProofs
SourceSnapshots       both sources, request by request, while documents change
  SourceSnapshotsProofs
Retrieval             search and evaluation while syncs commit
CommandLine           the seven commands, their exceptions and exit codes
  CommandProofs       proofs about both
SumTheorems           induction over finite sets, sums and folds, for the proofs
```

Each of the modules with an `MC` counterpart is instantiated there for TLC;
EmbeddingBatches, Chunker and CommandLine need no more than a `.cfg`.

**CorpusDiff** has the data of a scan and `diff_source`.  A body is identified
with its SHA-256 digest, a metadata object with its digest.

**PgVectorStore** has the three tables as a record and each write operation of
the store as a function on it: `delete_document` with the cascade of the
foreign key, `replace_document` with its delete by path, the metadata update
that raises when no row is met (`HasDocument`), `record_run` with the primary
key (`CanRecord`).  A document id (`uuid4`) is the pair of the run that stores
the document and its path: what the code relies on is only that ids are not
used twice.

**SyncRuns** is the core.  Each process is at a stage of `sync()`:

| `pc` | code | actions |
|---|---|---|
| `idle` | before `sync()` or after it | `AcquireLock`, `Busy`, `AcquireFails` |
| `scanning` | lock held, `source.scan()` | `Scan` |
| `beginning` | `transaction()`, `document_states()`, `diff_source` | `BeginTransaction` |
| `writing` | the three loops | `UpdateMetadata`, `DeleteDocument`, `StoreDocument`, `LoadFails`, then `RecordRun` |
| `committing` | leaving `transaction()` | `Commit`, `CommitAckLost` |
| `failing` | `except Exception` | `RecordFailure`, `RecordFailureFails` |
| `unlocking` | `finally` of `sync_lock` | `Unlock`, `UnlockFails` |

`Fault` is any other exception under the lock, `Crash` the death of the process
at any stage (a commit already sent may have happened or not); an interrupt
from the keyboard, which `except Exception` does not catch, has the same
effect.  `EditSource` changes the source between any two steps.  The open
transaction is a private copy of the tables (`work[p].txn`) that `Publish` makes the
committed state.  `CanLoad` is where the two sources differ: S3 verifies the
hash of the body it loads (`VerifyOnLoad = TRUE`), the local folder does not.
The variable `published` is history: the version of the source that the last
commit described.  `work[p].scanned_at` serves it.

Two assumptions on the environment: the sessions of one process end together
(`OverlappingSyncs` has the loss of the lock's session alone), and a scan is
one step (`SourceSnapshots` takes it apart).  Loading, chunking,
embedding and storing one document is one step of SyncRuns; in the code a
document may be loaded before an earlier one is stored, which EmbeddingBatches
has in full, without the store.

**AtomicCorpus** is the abstract specification: the corpus jumps from one
complete scan to another, never to an older one, together with a "succeeded"
entry in the ledger; a "failed" entry comes without any change.
`ImplementsAtomicCorpus` says that SyncRuns refines it, with the corpus being
the hashes in the document rows and the ledger the status column.

**EmbeddingBatches** is the loop of `pipeline.py:131-215` for every list of
documents and batch size within its bounds: the deque of prepared documents,
the pending texts, flushes that may end within a document, empty documents
that are complete at once, the embedder that fails.

**OverlappingSyncs** is `sync()` statement by statement under READ COMMITTED.
`LoseLock` ends the session of the lock alone; the transaction's session goes
on.  `Statement(p)` is the SQL statement a run has come to, `View` what it
sees, `WaitsFor` whose row locks stop it; a `DELETE` by path that had to wait
keeps the row it had found (`WaitWithRow`), an `UPDATE` by id that finds
nothing raises, a cycle of waits is broken in one member
(`DeadlockDetected`).  Chunks follow their document row and are left out.

**StoreReaders** reduces a sync to what readers can see: its times, its row,
its commit.  `status()` is two statements with a snapshot each,
`operational_metrics` one; a scrape is a request and an answer, and one that
fails (500) leaves the server going.  `Tick` and `SetClockBack` are the clock
the time stamps come from.  Readers change nothing, so that two of them at a
time cannot tell it: at most one reader is under way, among any number of
syncs.  Of the counts of `status()` the model keeps `known`, the finishing time
of the last run that they include.

**SourceSnapshots** has one action per request: a page of the listing, the
manifest, one object (S3), or one file hashed and then measured (local).
`Edit` comes between any two.  `during` is history: the states of the source
since the scan began.  Bodies stand for their digests and their ETags.  The
variable `setup`, which never changes, says what is scanned: a prefix or a
folder, with ETags or without, and which page lists which key and the manifest;
`Setups` are the ones a run begins with.  `load()` changes nothing and is not an
action: `Loads(key, hash)` says whether a call at this moment, with a document
that some scan returned, would be served; for the S3 source that depends on
`objects`, what its latest complete scan has kept.

**Chunker** keeps the text, as letters numbered in order, separators and other
white space.  `Split` is `_split`, whose recursion is written level by level:
`Parts` cuts at one separator after the other, `Windows` what is still too long.
One step is one turn of the loop of `chunk`.

**Retrieval** has documents as sequences of points, one per chunk, and
distance on a line; `Versions` are the corpora that syncs may commit.  A
command keeps the model it was configured with; `SyncCommits` and `Reconfigure`
happen between its searches.  What the planner or the HNSW index examines is
any set of rows of the configured size, or all of them.  Reciprocal ranks are
counted in a common unit.

**SchemaMigrations** has the objects of the schema by name, each with what it
hangs on, and a migration as its list of statements; PostgreSQL refuses a
statement on an object that exists already, is missing or is referenced, and
then the whole command.  `Rewritten` is what adding or dropping a column does
to the rows.  A command passes the three checks of `initialize()` one by one,
then syncs, with migrations in between.  Since `alembic` runs a command in one
transaction it is one step.

**CommandLine** has one process per command: `Order` is the order of its
steps, `Raised` puts an exception on its way, `Catches` and `Handle` are the
except clauses, `Close` is `finally`.  A command may be interrupted once, at any
moment until it has ended: `Interrupt` inside the `try` statement and before it,
`InterruptHandler` in an except clause, `InterruptClose` in `finally`, where
`close()` may not come to its end (the pool is then "abandoned").  An interrupt
that falls between `pg_try_advisory_lock` and the `try` after it, or into the
unlock, leaves the lock with its session until the pool is closed
(`LocksAfterInterrupt`).

Definitions whose comment begins with "Mutant of" are not part of any
specification.  Each is a plausible mistake in the operator it names;
substituted for it, a run reports the property that `PROJECT.json` pairs it with.

## 3. Runs

| Run | Instance | Shows |
|---|---|---|
| `sync` (`MCSyncRuns.cfg`) | 2 processes, 2 paths, 2 bodies, 2 metadata objects, 3 runs, 2 edits, 2 faults, verifying source; 1.3 million states | all safety of SyncRuns, refinement of AtomicCorpus |
| `sync_local` (`MCSyncRunsLocal.cfg`) | 2 runs, 2 edits, 1 fault, a source that does not verify, a body without chunks, fairness | each document is of one body all the same; the lock comes back; a quiet sync converges |
| `lost_ack`, `stale_body` | small | two statements of the documentation that the code does not meet (section 6) |
| `batches` (`EmbeddingBatches.cfg`) | up to 3 documents of up to 4 chunks, batch sizes 1 to 5 | alignment, order, bounds, counters, termination |
| `overlap` (`MCOverlappingSyncs.cfg`) | 2 processes, 2 paths, 4 versions of the source, 3 runs, 2 edits, 1 lost session, 1 fault, fairness; 322,000 states | no row mixes two runs; the next run alone repairs; waits and deadlocks end; without the loss, the statements implement AtomicCorpus |
| `readers` (`MCStoreReaders.cfg`) | 2 processes, 3 runs, 1 document of up to 2 chunks, 2 times, clock set back once; 4.9 million states | metrics explain the corpus, totals grow, `status()` names no run older than its counts, the newest run is named |
| `sources` (`MCSourceSnapshots.cfg`) | 4 keys (two documents, an unsupported and an unsafe one), 3 kinds of source, 3 edits, 2 scans; 1.4 million states | each item was so; a one-page listing with ETags is one moment; `load()` of S3 serves the latest complete scan, also during and after later ones that fail |
| `chunker` (`Chunker.cfg`) | texts of up to 7 characters, chunk size up to 3, every overlap; 476,000 states | coverage, order, blanks, length |
| `retrieval` (`MCRetrieval.cfg`) | 2 paths, 2 models, 1 tag, 2 lines, limits up to 2, 2 commits; 2.0 million states | model, filter, limit, one order, ranks and report |
| `migrations` (`MCSchemaMigrations.cfg`) | 4 migrations between any two of the 6 revisions, 2 edits, 3 syncs | schema, defaults, vectors |
| `commands` (`CommandLine.cfg`) | 2 processes, 3 commands, 1 schema change; 392,000 states | exit codes, clean-up, lock |

Where a state invariant is a conjunction (`LedgerExplainsCorpus`,
`OverlapInv`, `CommandInv`, ...) its parts are definitions of their own, each
with its comment.

*Bounds.*  Two processes suffice for every conflict over one lock; two paths
give every pair of categories in one plan, and a path that is kept while
another changes.  Three runs let a run follow two others: publish, fail or
overwrite, publish again.  Two edits allow a change between scan and load that
is undone afterwards.  Two faults allow a failure whose recording fails too,
or a lost acknowledgement followed by a crash.  With a source that does not
verify, two runs and one fault are enough: the first leaves rows, the second
keeps, replaces or fails.  Batch size 5 exceeds a document, size 1 to 4 make
batches end before, at and after document ends, and three documents let one
batch hold the end of one, the whole of a second and the beginning of a third.
Runs, edits and faults are counted in the guards of the actions; `Rest` is the
state in which nothing is left within the bounds, so deadlock is checked.

In `overlap` two paths make a deadlock possible, and the four versions put each
path into every category of the plan; (c2, m2) is in none of them, so a row
that shows it is a mixture.  Two edits give each of two overlapping runs a
version of its own, and the third run is the one that repairs.  In `sources`
three edits let a body change, change back and another change with it, and of
two scans the second may fail at any request or find other documents than the
first.  A scan is one moment only where the listing is one page: with more, a document moved
from page two to page one is missed by both, so of the other sources only what
holds of each item is asked.  In `chunker` size 3 with overlap 2 makes windows
overlap more than once, and seven characters hold two separators of every kind
with a letter on each side.  Four migrations go up, down and up again with one
to spare.  In `readers` one document suffices, since totals are compared with
one corpus; the third run is the one a reader of two could forget, and two
times with three runs make equal time stamps unavoidable.  In `retrieval` two
points and two documents at equal distance make ties, and an index that
examines two rows examines fewer than there are.

Deadlock is checked everywhere except in `commands`, where the last command
has exited and nothing more is to happen.

*Symmetry* is used on the processes only, in runs without liveness (`sync`,
`lost_ack`, `stale_body`, `readers`).

*Fairness.*  `FairSpec` demands that a process that holds the lock takes its
next step (`WF_vars(Step(p))`): no step of `sync()` waits for another process
(the lock is only tried, never waited for), so this is the scheduler of the
operating system and the termination of the calls.  In OverlappingSyncs
statements do wait for rows; there the same fairness also stands for
PostgreSQL, which wakes a waiter and looks for deadlocks.  No fairness is assumed for
starting a sync, for edits or for faults.  In EmbeddingBatches `WF_vars(Next)`
says that a sequential loop goes on.

## 4. Properties

*SyncRuns*

- `OneWriter`: a process is past the lock exactly while its session holds it.
- `TransactionIsolated`: between reading the document rows and the commit
  nobody else changes them, nor another run's row.
- `CorpusIsPublishedScan`: the document rows are exactly one complete scan.
- `DocumentsComeFromSucceededRuns`, `LedgerTellsOutcomes`
  (`ReportedSuccessIsDurable`, `EveryRunIsLogged`): rows, ledger and what the
  caller is told agree.
- `IndexedBodiesMatchHashes` (verifying source): the chunks are exactly those
  of the bodies the hashes name.  `NoMixedDocument` (any source): the chunks of
  a document are a complete cut of one body.
- `LedgerExplainsCorpus` (`LedgerExplainsChunks`, `LedgerExplainsDocuments`):
  the counters of the succeeded runs add up to the corpus; and the documents a
  run classified as changed, metadata-changed, unchanged or deleted are as many
  as the counters of the runs before it say there were.
- `SameContentKeepsChunks`: no step touches the row identity or the chunks of
  a document whose content hash it keeps.
- `ImplementsAtomicCorpus`: refinement.
- `LockIsReleased`, `QuietSyncConverges`: liveness.

*EmbeddingBatches*: `EmbeddingsAligned`, `StoredInOrder`, `PendingIsBounded`,
`CountersExact`, and `LoopEnds`.

*OverlappingSyncs*

- `EachPathFromOneRun`: even of runs that overlap, each path shows what one
  successful run found there.
- `RepairsAfterOverlap`: a run that no other commit disturbs leaves exactly its
  scan, whatever overlapping runs have left before.
- `ImplementsAtomicCorpus`: as long as no lock session is lost.  This is what
  allows SyncRuns to work on a private copy of the tables.
- `SyncEnds`: liveness, through row locks and deadlocks.

*StoreReaders*: `MetricsExplainChunks`, `CountersNeverDecrease`;
`StatusNamesNoOlderRun`, which depends on the order of the two statements: a
commit between them may leave the counts older than the run that is named, never
newer; `LastRunIsNewest`, as long as the clock is not set back.  Of runs that
finished at the same time `status()` may name another than `recent_runs` and the
exporter do: the model has this and the properties allow it, since nothing in the
repository promises otherwise.

*SourceSnapshots*: `EachItemWasSo` for every source, `ScanIsOneMoment` for a
listing of one page with ETags, `LoadServesLatestScan` for S3.

*Chunker*: `TextIsCovered`, `NoBlankChunk`, `PiecesFit`, `LengthBound`.

*Retrieval*: `AnswersAreBest`, `OneVectorSpace`, `ConsistentRanking`;
`ReportIsRight` compares the report with ranks counted from the definition,
without batches and without sorting.

*SchemaMigrations*: `MigrationsApply`, `SchemaMatchesRevision`,
`HashMatchesMetadata`, `VectorsFit`, `VectorsSurvive`, and
`SyncRestoresMetadata`, across a downgrade and an upgrade.  That
`EMPTY_METADATA_HASH`, the default of the column, is the digest of the default
object is assumed (`EmptyHash`): it is the SHA-256 digest of `{}` (`models.py:9`),
which is what `metadata.py` hashes for an object without keys.

*CommandLine*: `PoolsAreClosed`, `InvalidInputOpensNothing`,
`LockBelongsToSync` (no interrupt leaves later syncs busy for ever), and `ExitCodesAreRight` (`ZeroMeansDone`,
`RefusedChangesNothing`).

## 5. Proofs

Every safety invariant, action property and refinement that a passing run checks
is also a theorem.  The proofs hold for every value of the constants that
satisfies the named assumptions: finitely many paths (`PathsFinite`), chunk
counts and bounds that are natural numbers, `Absent` different from every row
(and in Retrieval from every rank, `AbsentIsNoRank`), `NoProc` different from
every process.  Each component has one inductive invariant, a conjunction of
named parts, that implies its properties.

**SyncRunsProofs** begins with the operations of the store: each stays within
the type of the tables and changes exactly the row meant.  `DiffPartitionsPaths`
says that `diff_source` sorts every path into one category.  `TypeOK` is not
inductive: that the counters are numbers needs the chunk tables finite
(`ChunksFinite`), that a stored row has hashes needs the plan to be of scanned
paths (`PlansAreScanned`), that a run id is a run needs it drawn
(`RunsAreDrawn`).  `TypeInv` is the conjunction.

`OneWriter`, `TransactionIsolated`, `CorpusIsPublishedScan` and
`DocumentsComeFromSucceededRuns` follow from `SyncInv`.  Its heart is
`PlanHolds(w, r)`, which says how far a plan has come: a path still to be done
has the row the plan was made from, and a path that is done has the hashes of
the scan.  `PlanStarts` shows it of a fresh plan, `PlanUpdate`, `PlanDelete` and
`PlanStore` show that each loop iteration carries it on, and `PlanDone` that
with nothing left the rows are the scan.  It needs that a row's id determines
its path (`IdsNamePaths`), since updates and deletions go by id.
`PublishKeepsData` is then the only lemma in which the committed rows change;
every other action leaves them alone.

Its second half is what the rows contain and what the ledger tells.
`ContentInv` says of the chunks what `SyncInv` says of the rows, in the
committed tables and in every open transaction: `NoMixedDocument`,
`IndexedBodiesMatchHashes` and `SameContentKeepsChunks`.  `LedgerInv` says which
stages go with which rows of the ledger, and gives `LedgerTellsOutcomes` and,
with "no scan under way is older than the published one", the refinement of
AtomicCorpus.  `AccountInv` carries the counters: what a transaction has counted
so far is the difference between its tables and the committed ones, so that at
each commit the sum over the succeeded runs remains the number of documents and
chunks (`LedgerExplainsCorpus`).  A run finds what the plan says it finds
(`PlanCounts`), and since numbers are drawn under the lock, a run under way has
the last one (`LastRunIsOpen`): the runs in the ledger are those before it.

**SumTheorems** has the induction.  The induction theorems of the library take
the property as an operator, which the provers cannot instantiate; here the
property is a set: a set of subsets that holds the empty one and is closed under
adding an element holds all of a finite set (`SubsetInduction`).  With it a sum
over a finite set, a fold, is shown independent of the order, and to change by
what one summand changes; the folds of sequences (`FoldLeft`, `FlattenSeq`) are
taken apart the same way, their values being members of a set that each step
keeps (`FlattenKeeps`).

**ChunksProofs** first proves `ChunksInv` of the chunker, for every text, chunk
size and overlap.  `Shows(q, n, m)` says that a reader who has seen the letters
up to n sees in q those up to m, each for the first time after the one before
it.  Strings that show their letters in turn do so when they are appended
(`ShowsInTurn`), and every operation shows what its argument does: `strip()`
(`StripShows`), the split at a separator (`BetweenInTurn`, `CutInTurn`), the
windows of a text without separators, which overlap or touch (`WindowsInTurn`),
the levels of `_split` together (`SplitInTurn`), and the joining of an overlap,
which shows nothing new, with a piece (`JoinedShows`).  The loop keeps the chunks
and the one being built in step with the pieces read (`ReadSoFar`), hence
`TextIsCovered`.  `ChunkHolds` is what `ChunkerInv` lacks to be inductive.  A
piece may be a window of white space only; that no blank chunk comes of it rests
on two facts: the first piece begins solid, and a blank piece overflows only a
chunk longer than `chunk_size`, which has an overlap and ends solid, so that the
overlap carried into the next chunk is not blank.

Then it proves `BatchInv` of EmbeddingBatches.  The pending documents are a
contiguous part of the list, in order; `Before` numbers the chunks of all
documents, and the embedded ones are those up to `Embedded`, followed by the
chunks that wait (`Follows`); documents are stored as far as `Embedded` reaches,
so that only the oldest pending one has vectors.  From this come
alignment, order, the bound on memory and the exact counters.  `NoLeftOver`
shows more than any run's property: the error of `pipeline.py:215` ("Could not
map all embeddings") is never raised.

**OverlappingSyncsProofs** proves `SyncsInv` of transactions that interleave
statement by statement.  A row, committed or written by an open transaction, has
an id that names the run that stored it and the content that run found there
(`RowOf`), whichever statements of other runs came between; hence `OverlapInv`.
Where the plan is done with a path, the row is as in the scan, unless another
run has committed since the transaction began (`DoneHolds`); hence
`RepairsAfterOverlap`.  Without loss of the lock's session the run with the lock
is alone (`AloneInv`), hence the refinement of AtomicCorpus by single statements.

**SourceSnapshotsProofs** proves `SnapshotInv`. The variable `during` collects
the states of the source since the scan began; every page, every object and
every file read is something of one of them, and `SourcesInv` follows per item.
For `ScanIsOneMoment` the entity tag ties a request for an object to the listed
body. `LoadServesLatestScan` needs that what the S3 source keeps (`objects`) are
the documents of the scan it returned last (`LatestKept`), and, with ETags, in
the same version, through every scan that fails or is under way. The
assumptions: keys are positive numbers (0 marks "no file"), a manifest gives
each document a metadata object or none, and the pages of a listing are numbered
without a gap, without which "one page" would not mean one request and the
theorem would be false.

**StoreReadersProofs** proves `StoreInv`.  As run ids differ, `Before` orders
the rows of the ledger totally, so the first row is well defined.  Only the lock
holder is past its start, its row explains the chunks it will leave
(`Explains`), and sums over committed rows explain those that are there
(`ReadersInv`).  Rows are only added: a row as new as those `status()` counted is
still there when it asks for the last run (`StatusNamesNoOlderRun`), and what the
exporter has shown is not ahead of the rows (`CountersNeverDecrease`).  As long as the clock is not set back, times in
the ledger grow with the commits, hence `LastRunIsNewest`.

**SchemaMigrationsProofs** proves `MigrationsInv`.  The scripts of the five
revisions `Lead` from one state of the schema to the next: `FoldLeft` of their
statements over the objects of one revision gives those of the other, none being
refused (`ScriptsLead`).  So the schema is what the revision's name says, the
rows fit it (`RowsAt`), and a program that passed the three checks of
`initialize()` is configured with the dimension of the vector column; a sync
that finds a column missing changes nothing.  Hence `SchemaInv`,
`VectorsSurvive` and `SyncRestoresMetadata`.  The
revisions are the ones of this repository; what the theorems add to the run is
any number of paths, bodies, metadata objects, dimensions, edits and commands.

**CommandProofs** proves two invariants.  `QueriesInv` is Retrieval's: a command
goes through its cases in order, the n-th vector is that of the n-th query, and
each answer is the best of the compatible rows examined, a finite set in which
path and index occur once (`AnswersHold`); the hits and reciprocal ranks reported are the
count and the sum over the answers so far (`ReportsAreRight`).  Distance, path
and index therefore order the rows totally, and an answer is sorted; the rows
ahead of the i-th answer are the i - 1 answers before it, and a row left out has
at least as many ahead of it as the limit.  So the rank the report uses is the
position of the first expected row in the order (`RankingIsConsistent`).
`CliInv` is CommandLine's: `Sound(r)` of every command, by how far it is
(`OnItsWay`) and, once it met an exception, by which (`AtItsEnd`); and the lock
belongs to a synchronization in progress, or to an interrupted one that has
still to close its pool.

Only model-checked: liveness (`LockIsReleased`, `QuietSyncConverges`,
`LoopEnds`, `SyncEnds`), since fairness is outside what TLAPS proves, and the two
runs of section 6, which refute a statement.

## 6. Where documentation and code part

Shown by runs:

1. `lost_ack`: "the synchronization transaction is rolled back"
   (`README.md:356`).  If the connection dies after the server committed, the
   pipeline takes it for a rollback, tries to add a failed row, meets the
   primary key, logs that, and reports a failed run whose changes are in the
   corpus and whose row says "succeeded".
2. `stale_body`: `LocalFolderSource.load` does not compare the body with the
   scanned hash.  A file replaced between scan and load and then put back
   leaves the chunks of the replacement under the hash of the original; later
   syncs find the hashes equal and never read the file again.

Met while modelling; the models behave this way, and a positive property
states what holds instead:

3. "Raised after a failed synchronization attempt is recorded"
   (`pipeline.py:47`).  If the recording fails too, the error is raised without
   a record.  `EveryRunIsLogged` asks for a record of a failed run only where
   no fault happened.
4. "to allow only one synchronization per database at a time"
   (`README.md:348`).  If the lock's session ends alone, two runs overlap, and
   the corpus they leave may be no one scan.  `OverlapInv` and
   `RepairsAfterOverlap` say how far this goes.
5. An object whose key is unsafe fails the whole scan even if its type is
   unsupported and would be ignored otherwise (`README.md:149`,
   `s3_source.py:199`).
6. `chunk_size` is called "Maximum target characters per chunk"
   (`README.md:167`), but a chunk begins with the overlap and a space
   (`chunker.py:40`).  `LengthBound` has the bound.
7. The model is stored before its dimension is checked
   (`local_provider.py:26`), so a second call of the same provider passes.
   The model lets a sync go on with vectors of the wrong width, as after such a
   call; `VectorsFit` holds because the column of the table refuses them.
8. An interrupt while `make_store` checks the schema leaves the pool open
   (`cli.py:51`), and one inside `store.close()` may leave it half closed
   (`cli.py:206`); the process ends right after.  `PoolsAreClosed` names both.

## 7. Plan

All modules planned are written, and every safety property they state is proved.
What could still be added: the refinement of SyncRuns by OverlappingSyncs itself,
which today share AtomicCorpus only, and the scan of SourceSnapshots in place of
the single step `Scan` of SyncRuns.

## 8. Not modelled

- The HNSW index: which rows it examines is any set of the configured size.
  Cosine distance is a distance on a line; the vectors of a model are its texts.
- Text extraction (pypdf, decoding), the embedding model.
- The text format of metrics, JSON output, logging, argument syntax,
  configuration: no state that changes.
- The syntax of paths, URIs, object keys and JSON: a key is of one of five
  kinds, a manifest or a dataset line valid or not.
- A local file longer than one block that is overwritten while it is hashed.
- A second interrupt of a command that was interrupted before.
- The benchmark script, which generates sample files.
