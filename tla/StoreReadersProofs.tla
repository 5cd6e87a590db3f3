------------------------- MODULE StoreReadersProofs -------------------------
(***************************************************************************)
(* What the readers of the store answer while synchronizations commit,     *)
(* proved for every value of the constants of StoreReaders: any processes, *)
(* documents, runs and times, and any number of steps back of the clock.   *)
(***************************************************************************)
EXTENDS StoreReaders, SumTheorems

-----------------------------------------------------------------------------
(* The inductive invariant, of the synchronizations ...                    *)

SyncTypes ==
  /\ now \in Times /\ back \in 0 .. MaxBackSteps
  /\ lock \in Procs \cup {NoProc}
  /\ runs \in [Procs -> Run]
  /\ corpus \in Corpora
  /\ sync_runs \subseteq RunRow /\ IsFiniteSet(sync_runs)
  /\ newest \in sync_runs \cup {NoRun}
  /\ newest = NoRun => sync_runs = {}

DistinctIds(rows) == \A row, other \in rows : row.id = other.id => row = other

(* No two runs have one id, be they committed or under way; only the run   *)
(* that holds the lock is past its start.                                  *)
RunsInv ==
  /\ DistinctIds(sync_runs)
  /\ \A p \in Procs : runs[p].stage # "idle" =>
       /\ runs[p].id \in RunIds
       /\ \A row \in sync_runs : row.id # runs[p].id
  /\ \A p, q \in Procs :
       p # q /\ runs[p].stage # "idle" /\ runs[q].stage # "idle" =>
         runs[p].id # runs[q].id
  /\ \A p \in Procs : runs[p].stage \in {"running", "committing"} => lock = p

(* What a run is about to commit explains what it does to the chunks.      *)
Explains(row, before, after) ==
  ChunksIn(after, Paths) + row.deleted_chunks =
    ChunksIn(before, Paths) + row.embedded_chunks

(* A run that is about to commit has finished after the newest one.        *)
CommitsInv ==
  \A p \in Procs : runs[p].stage = "committing" =>
    LET row == runs[p].row
    IN  /\ row \in RunRow /\ row.id = runs[p].id
        /\ Explains(row, corpus, runs[p].target)
        /\ back = 0 => /\ row.finished_at <= now
                       /\ newest # NoRun => newest.finished_at <= row.finished_at

(* Without a step back of the clock nothing has finished after the newest. *)
TimesInv ==
  back = 0 /\ newest # NoRun =>
    /\ newest.finished_at <= now
    /\ \A row \in sync_runs : row.finished_at <= newest.finished_at

(* The counters of all runs explain the chunks there are.                  *)
AccountsInv ==
  ChunksIn(corpus, Paths) + SumFunction([row \in sync_runs |-> row.deleted_chunks])
    = SumFunction([row \in sync_runs |-> row.embedded_chunks])

SyncsInv == SyncTypes /\ RunsInv /\ CommitsInv /\ TimesInv /\ AccountsInv

(* ... and of their readers.                                               *)
Metrics == [documents : Nat, chunks : Nat, succeeded : Nat, failed : Nat,
            new_documents_total : Nat, deleted_documents_total : Nat,
            embedded_chunks_total : Nat, deleted_chunks_total : Nat,
            embedding_batches_total : Nat, last : RunRow \cup {NoRun}]

Status == [stage : {"idle", "counted", "answered"},
           known : Times \cup {-1}, last : RunRow \cup {NoRun}]

ReadTypes ==
  /\ status \in Status /\ status.last \in sync_runs \cup {NoRun}
  /\ scrape \in [pending : BOOLEAN, shown : Metrics]
  /\ scrape.shown.last \in sync_runs \cup {NoRun}

(* An answer of the exporter is not ahead of the rows.                     *)
ShownInv ==
  /\ MetricsExplainChunks
  /\ \A i \in 1 .. 7 : Counters(scrape.shown)[i] <= Counters(operational_metrics)[i]

(* The run that status() counted is still there.                           *)
StatusInv ==
  /\ status.stage = "counted" /\ status.known >= 0 =>
       \E row \in sync_runs : row.finished_at >= status.known
  /\ StatusNamesNoOlderRun

ReadsInv == ReadTypes /\ ShownInv /\ StatusInv

StoreInv == SyncsInv /\ ReadsInv

-----------------------------------------------------------------------------
(* The order of the rows.                                                  *)

LEMMA RowNumbers ==
  ASSUME NEW row \in RunRow
  PROVE  /\ row.finished_at \in Times /\ row.id \in Int
         /\ row.finished_at \in Int /\ row.finished_at >= 0
BY BoundsAreNat DEF RunRow, Times, RunIds

(* Of two rows with different ids exactly one comes before the other.      *)
LEMMA RowsAreOrdered ==
  ASSUME NEW row \in RunRow, NEW other \in RunRow
  PROVE  /\ row.id # other.id => Before(row, other) \/ Before(other, row)
         /\ Before(row, other) => ~ Before(other, row)
         /\ Before(row, other) => row.finished_at >= other.finished_at
         /\ ~ Before(row, row)
BY RowNumbers DEF Before

LEMMA BeforeIsTransitive ==
  ASSUME NEW row \in RunRow, NEW other \in RunRow, NEW third \in RunRow,
         Before(row, other), Before(other, third)
  PROVE  Before(row, third)
BY RowNumbers DEF Before

(* Some row comes before all others.                                       *)
LEMMA SomeRowIsFirst ==
  ASSUME NEW rows \in SUBSET RunRow, IsFiniteSet(rows), DistinctIds(rows),
         rows # {}
  PROVE  \E row \in rows : \A other \in rows \ {row} : Before(row, other)
<1> DEFINE HasFirst(T) == \E row \in T : \A other \in T \ {row} : Before(row, other)
           G == {T \in SUBSET rows : T # {} => HasFirst(T)}
<1>1. {} \in G
  OBVIOUS
<1>2. ASSUME NEW T \in G, NEW a \in rows \ T
      PROVE  T \cup {a} \in G
  <2>1. CASE T = {}
    <3>1. T \cup {a} = {a}
      BY <2>1
    <3>2. \A other \in {a} \ {a} : Before(a, other)
      OBVIOUS
    <3>3. HasFirst({a})
      BY <3>2
    <3> QED
      BY <3>1, <3>3
  <2>2. CASE T # {}
    <3>1. PICK row \in T : \A other \in T \ {row} : Before(row, other)
      BY <2>2
    <3>2. row \in RunRow /\ a \in RunRow /\ row # a /\ row.id # a.id /\ row \in rows
      BY DEF DistinctIds
    <3>3. CASE Before(row, a)
      <4>1. \A other \in (T \cup {a}) \ {row} : Before(row, other)
        BY <3>1, <3>3
      <4> QED
        BY <4>1
    <3>4. CASE Before(a, row)
      <4>1. ASSUME NEW other \in (T \cup {a}) \ {a} PROVE Before(a, other)
        <5>1. other \in T /\ other \in RunRow
          OBVIOUS
        <5>2. CASE other = row
          BY <3>4, <5>2
        <5>3. CASE other # row
          <6>1. Before(row, other)
            BY <3>1, <5>1, <5>3
          <6> QED
            BY <3>2, <3>4, <5>1, <6>1, BeforeIsTransitive
        <5> QED
          BY <5>2, <5>3
      <4> QED
        BY <4>1
    <3> QED
      BY <3>2, <3>3, <3>4, RowsAreOrdered
  <2> QED
    BY <2>1, <2>2
<1>3. rows \in G
  <2>1. G \in SUBSET SUBSET rows
    OBVIOUS
  <2> HIDE DEF G
  <2>2. G = SUBSET rows
    BY <1>1, <1>2, <2>1, SubsetInduction
  <2> QED
    BY <2>2
<1> QED
  BY <1>3

(* It is the latest run of the metrics.                                    *)
LEMMA LatestIsFirst ==
  ASSUME NEW rows \in SUBSET RunRow, IsFiniteSet(rows), DistinctIds(rows),
         rows # {}
  PROVE  /\ LatestRun(rows) \in rows
         /\ \A other \in rows \ {LatestRun(rows)} : Before(LatestRun(rows), other)
BY SomeRowIsFirst DEF LatestRun

(* ... and the one row of a history of length 1.                           *)
LEMMA HistoryOfOne ==
  ASSUME NEW rows \in SUBSET RunRow, IsFiniteSet(rows), NEW latest \in rows,
         \A other \in rows \ {latest} : Before(latest, other)
  PROVE  recent_runs(rows, 1) = {latest}
<1> DEFINE Ahead(row) == {other \in rows : Before(other, row)}
<1>1. ASSUME NEW row \in rows
      PROVE  Cardinality(Ahead(row)) < 1 <=> row = latest
  <2>1. IsFiniteSet(Ahead(row))
    BY FS_Subset
  <2>2. Cardinality(Ahead(row)) \in Nat /\ (Cardinality(Ahead(row)) = 0 <=> Ahead(row) = {})
    BY <2>1, FS_CardinalityType, FS_EmptySet
  <2>3. CASE row = latest
    <3>1. \A other \in rows : ~ Before(other, latest)
      BY RowsAreOrdered
    <3> QED
      BY <2>2, <2>3, <3>1
  <2>4. CASE row # latest
    <3>1. latest \in Ahead(row)
      BY <2>4
    <3> HIDE DEF Ahead
    <3> QED
      BY <2>2, <2>4, <3>1
  <2> QED
    BY <2>3, <2>4
<1>2. recent_runs(rows, 1) = {row \in rows : Cardinality(Ahead(row)) < 1}
  BY DEF recent_runs
<1> HIDE DEF Ahead
<1> QED
  BY <1>1, <1>2

-----------------------------------------------------------------------------
(* What a run does to the chunks.                                          *)

LEMMA ChunksAreSums ==
  ASSUME NEW c \in Corpora, NEW paths \in SUBSET Paths
  PROVE  /\ ChunksIn(c, paths) = SumFunctionOnSet(c, paths)
         /\ ChunksIn(c, paths) \in Nat
         /\ IsFiniteSet(paths)
<1> DEFINE g == [path \in paths |-> c[path]]
<1>1. IsFiniteSet(paths)
  BY PathsFinite, FS_Subset
<1>2. \A path \in paths : g[path] \in Nat
  BY BoundsAreNat DEF Corpora
<1>3. \A path \in paths : g[path] \in Int /\ g[path] = c[path]
  BY <1>2
<1>4. SumFunctionOnSet(g, paths) = SumFunctionOnSet(c, paths)
  <2> HIDE DEF g
  <2> QED
    BY <1>1, <1>3, SumOfSameTerms
<1>5. SumFunctionOnSet(g, paths) \in Nat
  <2> HIDE DEF g
  <2> QED
    BY <1>1, <1>2, SumIsNat
<1>6. DOMAIN g = paths
  OBVIOUS
<1>7. ChunksIn(c, paths) = SumFunctionOnSet(g, paths)
  BY <1>6 DEF ChunksIn, SumFunction
<1> QED
  BY <1>1, <1>4, <1>5, <1>7

(* Replacing the documents that differ, one for one, turns the chunks of   *)
(* one corpus into those of another.                                       *)
LEMMA ReplacingBalances ==
  ASSUME NEW before \in Corpora, NEW after \in Corpora,
         NEW written, NEW gone,
         written = {path \in Documents(after) : after[path] # before[path]},
         gone = {path \in Documents(before) : after[path] # before[path]}
  PROVE  ChunksIn(after, Paths) + ChunksIn(before, gone)
           = ChunksIn(before, Paths) + ChunksIn(after, written)
<1> DEFINE removed == [path \in Paths |-> IF path \in gone THEN before[path] ELSE 0]
           added == [path \in Paths |-> IF path \in written THEN after[path] ELSE 0]
<1>1. written \in SUBSET Paths /\ gone \in SUBSET Paths /\ IsFiniteSet(Paths)
  BY PathsFinite DEF Documents
<1>2. \A path \in Paths : before[path] \in Nat /\ after[path] \in Nat
  BY BoundsAreNat DEF Corpora
<1>3. Balanced(after, removed, before, added, Paths)
  <2> SUFFICES ASSUME NEW path \in Paths
               PROVE  /\ after[path] \in Int /\ removed[path] \in Int
                      /\ before[path] \in Int /\ added[path] \in Int
                      /\ after[path] + removed[path] = before[path] + added[path]
    BY DEF Balanced
  <2>1. /\ path \in written <=> after[path] > 0 /\ after[path] # before[path]
        /\ path \in gone <=> before[path] > 0 /\ after[path] # before[path]
    BY DEF Documents
  <2> QED
    BY <1>2, <2>1
<1>4. SumFunctionOnSet(removed, Paths) = SumFunctionOnSet(before, gone)
  <2>1. \A path \in Paths : before[path] \in Int
    BY <1>2
  <2>2. \A path \in Paths : removed[path] = IF path \in gone THEN before[path] ELSE 0
    OBVIOUS
  <2> HIDE DEF removed
  <2> QED
    BY <1>1, <2>1, <2>2, SumOfPart
<1>5. SumFunctionOnSet(added, Paths) = SumFunctionOnSet(after, written)
  <2>1. \A path \in Paths : after[path] \in Int
    BY <1>2
  <2>2. \A path \in Paths : added[path] = IF path \in written THEN after[path] ELSE 0
    OBVIOUS
  <2> HIDE DEF added
  <2> QED
    BY <1>1, <2>1, <2>2, SumOfPart
<1>6. SumFunctionOnSet(after, Paths) + SumFunctionOnSet(removed, Paths)
        = SumFunctionOnSet(before, Paths) + SumFunctionOnSet(added, Paths)
  <2> HIDE DEF removed, added
  <2> QED
    BY <1>1, <1>3, SumsBalance
<1>7. /\ ChunksIn(after, Paths) = SumFunctionOnSet(after, Paths)
      /\ ChunksIn(before, Paths) = SumFunctionOnSet(before, Paths)
      /\ ChunksIn(before, gone) = SumFunctionOnSet(before, gone)
      /\ ChunksIn(after, written) = SumFunctionOnSet(after, written)
  BY <1>1, ChunksAreSums
<1> QED
  BY <1>4, <1>5, <1>6, <1>7

(* A run that succeeds writes a row that explains what it does.            *)
LEMMA ResultExplains ==
  ASSUME SyncsInv, NEW p \in Procs, runs[p].stage = "running",
         NEW target \in Corpora
  PROVE  /\ Result(p, target) \in RunRow
         /\ Result(p, target).id = runs[p].id
         /\ Result(p, target).finished_at = now
         /\ Explains(Result(p, target), corpus, target)
<1> DEFINE written == {path \in Documents(target) : target[path] # corpus[path]}
           gone == {path \in Documents(corpus) : target[path] # corpus[path]}
           added == Documents(target) \ Documents(corpus)
           dropped == Documents(corpus) \ Documents(target)
<1>1. corpus \in Corpora
  BY DEF SyncsInv, SyncTypes
<1>2. /\ written \in SUBSET Paths /\ gone \in SUBSET Paths
      /\ added \in SUBSET Paths /\ dropped \in SUBSET Paths
  BY DEF Documents
<1>3. Cardinality(written) \in Nat /\ Cardinality(added) \in Nat /\ Cardinality(dropped) \in Nat
  <2>1. IsFiniteSet(written) /\ IsFiniteSet(added) /\ IsFiniteSet(dropped)
    <3> HIDE DEF written, added, dropped
    <3> QED
      BY <1>2, PathsFinite, FS_Subset
  <2> HIDE DEF written, added, dropped
  <2> QED
    BY <2>1, FS_CardinalityType
<1>4. ChunksIn(target, written) \in Nat /\ ChunksIn(corpus, gone) \in Nat
  <2> HIDE DEF written, gone
  <2> QED
    BY <1>1, <1>2, ChunksAreSums
<1>5. ChunksIn(target, Paths) + ChunksIn(corpus, gone)
        = ChunksIn(corpus, Paths) + ChunksIn(target, written)
  BY <1>1, ReplacingBalances
<1>6. runs[p].id \in RunIds /\ runs[p].started_at \in Times /\ now \in Times
  BY DEF SyncsInv, SyncTypes, RunsInv, Run
<1> DEFINE row == [id |-> runs[p].id, status |-> "succeeded",
       started_at |-> runs[p].started_at, finished_at |-> now,
       new_documents |-> Cardinality(added),
       deleted_documents |-> Cardinality(dropped),
       embedded_chunks |-> ChunksIn(target, written),
       deleted_chunks |-> ChunksIn(corpus, gone),
       embedding_batches |-> Cardinality(written)]
<1>7. Result(p, target) = row
  BY DEF Result
<1> HIDE DEF written, gone, added, dropped
<1>8. row \in RunRow
  BY <1>3, <1>4, <1>6 DEF RunRow
<1> QED
  BY <1>5, <1>7, <1>8 DEF Explains

(* One that fails writes a row that claims no chunk.                       *)
LEMMA FailureExplains ==
  ASSUME NEW result \in RunRow, NEW c \in Corpora
  PROVE  /\ FailedResult(result) \in RunRow
         /\ FailedResult(result).id = result.id
         /\ FailedResult(result).finished_at = result.finished_at
         /\ Explains(FailedResult(result), c, c)
<1>1. FailedResult(result) \in RunRow
  BY DEF FailedResult, RunRow
<1>2. /\ FailedResult(result).id = result.id
      /\ FailedResult(result).finished_at = result.finished_at
      /\ FailedResult(result).embedded_chunks = 0
      /\ FailedResult(result).deleted_chunks = 0
  BY DEF FailedResult, RunRow
<1> QED
  BY <1>1, <1>2 DEF Explains

-----------------------------------------------------------------------------
(* The metrics of the committed rows.                                      *)

(* The rows of one more run. *)
OneMoreRow(r) ==
  /\ r \in RunRow /\ r \notin sync_runs
  /\ sync_runs \subseteq RunRow /\ IsFiniteSet(sync_runs)
  /\ sync_runs' = sync_runs \cup {r}

NewDocuments == SumFunction([row \in sync_runs |-> row.new_documents])
DeletedDocuments == SumFunction([row \in sync_runs |-> row.deleted_documents])
EmbeddedChunks == SumFunction([row \in sync_runs |-> row.embedded_chunks])
DeletedChunks == SumFunction([row \in sync_runs |-> row.deleted_chunks])
EmbeddingBatches == SumFunction([row \in sync_runs |-> row.embedding_batches])
Succeeded == {row \in sync_runs : row.status = "succeeded"}
Failed == {row \in sync_runs : row.status = "failed"}

LEMMA TotalsAreNat ==
  ASSUME sync_runs \subseteq RunRow, IsFiniteSet(sync_runs)
  PROVE  /\ NewDocuments \in Nat /\ DeletedDocuments \in Nat
         /\ EmbeddedChunks \in Nat /\ DeletedChunks \in Nat
         /\ EmbeddingBatches \in Nat
         /\ Cardinality(Succeeded) \in Nat /\ Cardinality(Failed) \in Nat
<1>1. ASSUME NEW g \in [sync_runs -> Nat] PROVE SumFunction(g) \in Nat
  BY SumIsNat DEF SumFunction
<1>2. /\ [row \in sync_runs |-> row.new_documents] \in [sync_runs -> Nat]
      /\ [row \in sync_runs |-> row.deleted_documents] \in [sync_runs -> Nat]
      /\ [row \in sync_runs |-> row.embedded_chunks] \in [sync_runs -> Nat]
      /\ [row \in sync_runs |-> row.deleted_chunks] \in [sync_runs -> Nat]
      /\ [row \in sync_runs |-> row.embedding_batches] \in [sync_runs -> Nat]
  BY DEF RunRow
<1>3. /\ NewDocuments \in Nat /\ DeletedDocuments \in Nat
      /\ EmbeddedChunks \in Nat /\ DeletedChunks \in Nat
      /\ EmbeddingBatches \in Nat
  BY <1>1, <1>2 DEF NewDocuments, DeletedDocuments, EmbeddedChunks,
                    DeletedChunks, EmbeddingBatches
<1>4. IsFiniteSet(Succeeded) /\ IsFiniteSet(Failed)
  BY FS_Subset DEF Succeeded, Failed
<1> QED
  BY <1>3, <1>4, FS_CardinalityType

(* One more row adds what it says. *)
LEMMA TotalsGrow ==
  ASSUME NEW r, OneMoreRow(r)
  PROVE  /\ NewDocuments' = NewDocuments + r.new_documents
         /\ DeletedDocuments' = DeletedDocuments + r.deleted_documents
         /\ EmbeddedChunks' = EmbeddedChunks + r.embedded_chunks
         /\ DeletedChunks' = DeletedChunks + r.deleted_chunks
         /\ EmbeddingBatches' = EmbeddingBatches + r.embedding_batches
         /\ Cardinality(Succeeded) <= Cardinality(Succeeded')
         /\ Cardinality(Failed) <= Cardinality(Failed')
         /\ Cardinality(Succeeded') \in Nat /\ Cardinality(Failed') \in Nat
<1> DEFINE S == sync_runs
           W == sync_runs \cup {r}
<1>0. /\ IsFiniteSet(S) /\ r \notin S /\ IsFiniteSet(W)
      /\ \A row \in W : row \in RunRow
  BY FS_AddElement DEF OneMoreRow
<1>1. NewDocuments' = NewDocuments + r.new_documents
  <2> DEFINE g == [row \in S |-> row.new_documents]
             h == [row \in W |-> row.new_documents]
  <2>1. Prolongs(h, g, S, r) /\ h[r] = r.new_documents
    BY <1>0 DEF Prolongs, RunRow
  <2>2. NewDocuments = SumFunction(g) /\ NewDocuments' = SumFunction(h)
    BY DEF NewDocuments, OneMoreRow
  <2> HIDE DEF g, h, S
  <2> QED
    BY <2>1, <2>2, SumFunctionGrows
<1>2. DeletedDocuments' = DeletedDocuments + r.deleted_documents
  <2> DEFINE g == [row \in S |-> row.deleted_documents]
             h == [row \in W |-> row.deleted_documents]
  <2>1. Prolongs(h, g, S, r) /\ h[r] = r.deleted_documents
    BY <1>0 DEF Prolongs, RunRow
  <2>2. DeletedDocuments = SumFunction(g) /\ DeletedDocuments' = SumFunction(h)
    BY DEF DeletedDocuments, OneMoreRow
  <2> HIDE DEF g, h, S
  <2> QED
    BY <2>1, <2>2, SumFunctionGrows
<1>3. EmbeddedChunks' = EmbeddedChunks + r.embedded_chunks
  <2> DEFINE g == [row \in S |-> row.embedded_chunks]
             h == [row \in W |-> row.embedded_chunks]
  <2>1. Prolongs(h, g, S, r) /\ h[r] = r.embedded_chunks
    BY <1>0 DEF Prolongs, RunRow
  <2>2. EmbeddedChunks = SumFunction(g) /\ EmbeddedChunks' = SumFunction(h)
    BY DEF EmbeddedChunks, OneMoreRow
  <2> HIDE DEF g, h, S
  <2> QED
    BY <2>1, <2>2, SumFunctionGrows
<1>4. DeletedChunks' = DeletedChunks + r.deleted_chunks
  <2> DEFINE g == [row \in S |-> row.deleted_chunks]
             h == [row \in W |-> row.deleted_chunks]
  <2>1. Prolongs(h, g, S, r) /\ h[r] = r.deleted_chunks
    BY <1>0 DEF Prolongs, RunRow
  <2>2. DeletedChunks = SumFunction(g) /\ DeletedChunks' = SumFunction(h)
    BY DEF DeletedChunks, OneMoreRow
  <2> HIDE DEF g, h, S
  <2> QED
    BY <2>1, <2>2, SumFunctionGrows
<1>5. EmbeddingBatches' = EmbeddingBatches + r.embedding_batches
  <2> DEFINE g == [row \in S |-> row.embedding_batches]
             h == [row \in W |-> row.embedding_batches]
  <2>1. Prolongs(h, g, S, r) /\ h[r] = r.embedding_batches
    BY <1>0 DEF Prolongs, RunRow
  <2>2. EmbeddingBatches = SumFunction(g) /\ EmbeddingBatches' = SumFunction(h)
    BY DEF EmbeddingBatches, OneMoreRow
  <2> HIDE DEF g, h, S
  <2> QED
    BY <2>1, <2>2, SumFunctionGrows
<1>6. /\ Succeeded \in SUBSET Succeeded' /\ Failed \in SUBSET Failed'
      /\ Succeeded' \in SUBSET W /\ Failed' \in SUBSET W
  BY DEF Succeeded, Failed, OneMoreRow
<1>7. IsFiniteSet(Succeeded') /\ IsFiniteSet(Failed')
  BY <1>0, <1>6, FS_Subset
<1> QED
  BY <1>1, <1>2, <1>3, <1>4, <1>5, <1>6, <1>7, FS_Subset, FS_CardinalityType

(* The counters of an answer, by name. *)
LEMMA CountersAre ==
  Counters(operational_metrics) =
    <<Cardinality(Succeeded), Cardinality(Failed), NewDocuments, DeletedDocuments,
      EmbeddedChunks, DeletedChunks, EmbeddingBatches>>
BY DEF Counters, operational_metrics, RunsSummed, Succeeded, Failed, NewDocuments,
       DeletedDocuments, EmbeddedChunks, DeletedChunks, EmbeddingBatches

(* No counter is less when a run more has committed.                       *)
LEMMA CountersGrow ==
  ASSUME NEW r, OneMoreRow(r)
  PROVE  \A i \in 1 .. 7 :
           /\ Counters(operational_metrics)[i] <= Counters(operational_metrics')[i]
           /\ Counters(operational_metrics)[i] \in Int
           /\ Counters(operational_metrics')[i] \in Int
<1>1. /\ NewDocuments \in Nat /\ DeletedDocuments \in Nat
      /\ EmbeddedChunks \in Nat /\ DeletedChunks \in Nat
      /\ EmbeddingBatches \in Nat
  BY TotalsAreNat DEF OneMoreRow
<1>2. /\ r.new_documents \in Nat /\ r.deleted_documents \in Nat
      /\ r.embedded_chunks \in Nat /\ r.deleted_chunks \in Nat
      /\ r.embedding_batches \in Nat
  BY DEF OneMoreRow, RunRow
<1>3. Counters(operational_metrics') =
        <<Cardinality(Succeeded'), Cardinality(Failed'), NewDocuments',
          DeletedDocuments', EmbeddedChunks', DeletedChunks', EmbeddingBatches'>>
  BY DEF Counters, operational_metrics, RunsSummed, Succeeded, Failed, NewDocuments,
         DeletedDocuments, EmbeddedChunks, DeletedChunks, EmbeddingBatches
<1>4. /\ NewDocuments' \in Int /\ DeletedDocuments' \in Int
      /\ EmbeddedChunks' \in Int /\ DeletedChunks' \in Int
      /\ EmbeddingBatches' \in Int
      /\ Cardinality(Succeeded) \in Int /\ Cardinality(Failed) \in Int
      /\ Cardinality(Succeeded') \in Int /\ Cardinality(Failed') \in Int
  BY <1>1, <1>2, TotalsGrow, TotalsAreNat DEF OneMoreRow
<1>5. /\ NewDocuments <= NewDocuments' /\ DeletedDocuments <= DeletedDocuments'
      /\ EmbeddedChunks <= EmbeddedChunks' /\ DeletedChunks <= DeletedChunks'
      /\ EmbeddingBatches <= EmbeddingBatches'
      /\ Cardinality(Succeeded) <= Cardinality(Succeeded')
      /\ Cardinality(Failed) <= Cardinality(Failed')
  BY <1>1, <1>2, TotalsGrow
<1> QED
  BY <1>1, <1>3, <1>4, <1>5, CountersAre

(* An answer has its type and explains itself. *)
LEMMA AnswerIsRight ==
  ASSUME SyncsInv
  PROVE  /\ operational_metrics \in Metrics
         /\ operational_metrics.last \in sync_runs \cup {NoRun}
         /\ operational_metrics.chunks =
              operational_metrics.embedded_chunks_total
                - operational_metrics.deleted_chunks_total
<1>1. sync_runs \subseteq RunRow /\ IsFiniteSet(sync_runs) /\ DistinctIds(sync_runs)
      /\ corpus \in Corpora
  BY DEF SyncsInv, SyncTypes, RunsInv
<1>2. /\ operational_metrics.chunks = ChunksIn(corpus, Paths)
      /\ operational_metrics.embedded_chunks_total = EmbeddedChunks
      /\ operational_metrics.deleted_chunks_total = DeletedChunks
      /\ operational_metrics.last = LatestRun(sync_runs)
  BY DEF operational_metrics, RunsSummed, EmbeddedChunks, DeletedChunks
<1>3. ChunksIn(corpus, Paths) + DeletedChunks = EmbeddedChunks
  BY DEF SyncsInv, AccountsInv, DeletedChunks, EmbeddedChunks
<1>4. ChunksIn(corpus, Paths) \in Nat /\ DeletedChunks \in Nat /\ EmbeddedChunks \in Nat
  BY <1>1, ChunksAreSums, TotalsAreNat
<1>5. LatestRun(sync_runs) \in sync_runs \cup {NoRun}
  <2>1. CASE sync_runs = {}
    BY <2>1 DEF LatestRun
  <2>2. CASE sync_runs # {}
    BY <1>1, <2>2, LatestIsFirst
  <2> QED
    BY <2>1, <2>2
<1>6. Cardinality(Documents(corpus)) \in Nat
  <2>1. Documents(corpus) \in SUBSET Paths
    BY DEF Documents
  <2> QED
    BY <2>1, PathsFinite, FS_Subset, FS_CardinalityType
<1>7. operational_metrics =
        [documents |-> Cardinality(Documents(corpus)),
         chunks |-> ChunksIn(corpus, Paths),
         succeeded |-> Cardinality(Succeeded), failed |-> Cardinality(Failed),
         new_documents_total |-> NewDocuments,
         deleted_documents_total |-> DeletedDocuments,
         embedded_chunks_total |-> EmbeddedChunks,
         deleted_chunks_total |-> DeletedChunks,
         embedding_batches_total |-> EmbeddingBatches,
         last |-> LatestRun(sync_runs)]
  BY DEF operational_metrics, RunsSummed, Succeeded, Failed, NewDocuments,
         DeletedDocuments, EmbeddedChunks, DeletedChunks, EmbeddingBatches
<1>8. operational_metrics \in Metrics
  <2>1. /\ NewDocuments \in Nat /\ DeletedDocuments \in Nat
        /\ EmbeddingBatches \in Nat
        /\ Cardinality(Succeeded) \in Nat /\ Cardinality(Failed) \in Nat
    BY <1>1, TotalsAreNat
  <2>2. LatestRun(sync_runs) \in RunRow \cup {NoRun}
    BY <1>1, <1>5
  <2> QED
    BY <1>4, <1>6, <1>7, <2>1, <2>2 DEF Metrics
<1> QED
  BY <1>2, <1>3, <1>4, <1>5, <1>8

(* Counters of an answer are numbers. *)
LEMMA CountersAreNumbers ==
  ASSUME NEW m \in Metrics
  PROVE  \A i \in 1 .. 7 : Counters(m)[i] \in Nat
<1>1. /\ m.succeeded \in Nat /\ m.failed \in Nat /\ m.new_documents_total \in Nat
      /\ m.deleted_documents_total \in Nat /\ m.embedded_chunks_total \in Nat
      /\ m.deleted_chunks_total \in Nat /\ m.embedding_batches_total \in Nat
  BY DEF Metrics
<1> QED
  BY <1>1 DEF Counters

-----------------------------------------------------------------------------
(* The steps of the synchronizations and the clock.                        *)

SyncFrame == UNCHANGED <<now, back, lock, runs, corpus, sync_runs, newest>>

LEMMA SyncsStable ==
  ASSUME SyncsInv, SyncFrame
  PROVE  SyncsInv'
<1>1. SyncTypes' /\ RunsInv'
  BY DEF SyncsInv, SyncFrame, SyncTypes, RunsInv, DistinctIds
<1>2. CommitsInv' /\ TimesInv'
  BY DEF SyncsInv, SyncFrame, CommitsInv, TimesInv, Explains
<1>3. AccountsInv'
  BY DEF SyncsInv, SyncFrame, AccountsInv
<1> QED
  BY <1>1, <1>2, <1>3 DEF SyncsInv

(* The readers answer from the rows and the chunks only.                   *)
LEMMA ReadsStable ==
  ASSUME ReadsInv, UNCHANGED <<status, scrape, corpus, sync_runs>>
  PROVE  ReadsInv'
<1>1. operational_metrics' = operational_metrics
  BY DEF operational_metrics, RunsSummed
<1>2. ReadTypes'
  BY DEF ReadsInv, ReadTypes
<1>3. ShownInv'
  BY <1>1 DEF ReadsInv, ShownInv, MetricsExplainChunks
<1>4. StatusInv'
  BY DEF ReadsInv, StatusInv, StatusNamesNoOlderRun
<1> QED
  BY <1>2, <1>3, <1>4 DEF ReadsInv

LEMMA TickStep == SyncsInv /\ Tick => SyncsInv'
<1> SUFFICES ASSUME SyncsInv, Tick PROVE SyncsInv'
  OBVIOUS
<1> USE DEF Tick, database, SyncsInv
<1>1. now \in Int /\ now' = now + 1 /\ now' \in Times
  BY BoundsAreNat DEF SyncTypes, Times
<1>2. UNCHANGED <<back, lock, runs, corpus, sync_runs, newest>>
  OBVIOUS
<1>3. SyncTypes' /\ RunsInv'
  BY <1>1 DEF SyncTypes, RunsInv, DistinctIds
<1>4. \A p \in Procs : runs[p].row \in RunRow => runs[p].row.finished_at \in Int
  BY RowNumbers
<1>5. CommitsInv'
  BY <1>1, <1>2, <1>4 DEF CommitsInv, Explains
<1>6. newest # NoRun => newest.finished_at \in Int
  BY RowNumbers DEF SyncTypes
<1>7. TimesInv'
  BY <1>1, <1>2, <1>6 DEF TimesInv
<1>8. AccountsInv'
  BY <1>2 DEF AccountsInv
<1> QED
  BY <1>3, <1>5, <1>7, <1>8

(* After a step back nothing is promised of times any more.                *)
LEMMA SetClockBackStep == SyncsInv /\ SetClockBack => SyncsInv'
<1> SUFFICES ASSUME SyncsInv, SetClockBack PROVE SyncsInv'
  OBVIOUS
<1> USE DEF SetClockBack, database, SyncsInv
<1>1. now' \in Times /\ back' \in 0 .. MaxBackSteps /\ back' # 0
  BY BoundsAreNat DEF SyncTypes, Times
<1>2. UNCHANGED <<lock, runs, corpus, sync_runs, newest>>
  OBVIOUS
<1>3. SyncTypes' /\ RunsInv'
  BY <1>1, <1>2 DEF SyncTypes, RunsInv, DistinctIds
<1>4. CommitsInv' /\ TimesInv'
  BY <1>1, <1>2 DEF CommitsInv, TimesInv, Explains
<1>5. AccountsInv'
  BY <1>2 DEF AccountsInv
<1> QED
  BY <1>3, <1>4, <1>5

LEMMA NoSyncType == NoSync \in Run /\ EmptyCorpus \in Corpora /\ NoSync.stage = "idle"
<1>1. EmptyCorpus \in Corpora
  BY BoundsAreNat DEF EmptyCorpus, Corpora
<1>2. 0 \in Times
  BY BoundsAreNat DEF Times
<1> QED
  BY <1>1, <1>2 DEF NoSync, Run


LEMMA StartRunStep ==
  ASSUME SyncsInv, NEW p \in Procs, StartRun(p)
  PROVE  SyncsInv'
<1> USE DEF SyncsInv
<1>0. UNCHANGED <<now, back, lock, corpus, sync_runs, newest>>
  BY DEF StartRun, database
<1>1. PICK id \in RunIds \ UsedIds :
        runs' = [runs EXCEPT ![p] = [NoSync EXCEPT
                   !.stage = "starting", !.id = id, !.started_at = now]]
  BY DEF StartRun
<1> DEFINE r == [NoSync EXCEPT !.stage = "starting", !.id = id, !.started_at = now]
<1>2. r \in Run /\ r.stage = "starting" /\ r.id = id
  BY NoSyncType DEF Run, NoSync, SyncTypes
<1>3. /\ \A row \in sync_runs : row.id # id
      /\ \A q \in Procs : runs[q].id # id
  BY DEF UsedIds
<1>4. runs' \in [Procs -> Run] /\ runs'[p] = r /\ \A q \in Procs \ {p} : runs'[q] = runs[q]
  BY <1>1, <1>2 DEF SyncTypes
<1> HIDE DEF r
<1>5. SyncTypes'
  BY <1>0, <1>4 DEF SyncTypes
<1>6. RunsInv'
  <2>1. DistinctIds(sync_runs)'
    BY <1>0 DEF RunsInv, DistinctIds
  <2>2. \A q \in Procs : runs'[q].stage # "idle" =>
          /\ runs'[q].id \in RunIds
          /\ \A row \in sync_runs : row.id # runs'[q].id
    BY <1>2, <1>3, <1>4 DEF RunsInv
  <2>3. \A o, q \in Procs :
          o # q /\ runs'[o].stage # "idle" /\ runs'[q].stage # "idle" =>
            runs'[o].id # runs'[q].id
    BY <1>2, <1>3, <1>4 DEF RunsInv
  <2>4. \A q \in Procs : runs'[q].stage \in {"running", "committing"} => lock = q
    BY <1>2, <1>4 DEF RunsInv
  <2> QED
    BY <1>0, <2>1, <2>2, <2>3, <2>4 DEF RunsInv
<1>7. CommitsInv'
  BY <1>0, <1>2, <1>4 DEF CommitsInv, Explains
<1>8. TimesInv' /\ AccountsInv'
  BY <1>0 DEF TimesInv, AccountsInv
<1> QED
  BY <1>5, <1>6, <1>7, <1>8

LEMMA TryLockStep ==
  ASSUME SyncsInv, NEW p \in Procs, TryLock(p)
  PROVE  SyncsInv'
<1> USE DEF SyncsInv
<1>0. UNCHANGED <<now, back, corpus, sync_runs, newest>>
  BY DEF TryLock, database
<1>1. /\ runs' \in [Procs -> Run] /\ \A q \in Procs \ {p} : runs'[q] = runs[q]
      /\ \/ lock = NoProc /\ lock' = p
            /\ runs'[p].stage = "running" /\ runs'[p].id = runs[p].id
         \/ lock' = lock /\ runs'[p].stage = "idle"
      /\ runs[p].stage = "starting"
  BY NoSyncType DEF TryLock, SyncTypes, Run
<1>2. SyncTypes'
  BY <1>0, <1>1 DEF SyncTypes
<1>3. RunsInv'
  <2>1. DistinctIds(sync_runs)'
    BY <1>0 DEF RunsInv, DistinctIds
  <2>2. \A q \in Procs : runs'[q].stage # "idle" =>
          /\ runs'[q].id \in RunIds
          /\ \A row \in sync_runs : row.id # runs'[q].id
    BY <1>1 DEF RunsInv
  <2>3. \A o, q \in Procs :
          o # q /\ runs'[o].stage # "idle" /\ runs'[q].stage # "idle" =>
            runs'[o].id # runs'[q].id
    BY <1>1 DEF RunsInv
  <2>4. \A q \in Procs : runs'[q].stage \in {"running", "committing"} => lock' = q
    BY <1>1, NoProcIsNoProcess DEF RunsInv
  <2> QED
    BY <1>0, <2>1, <2>2, <2>3, <2>4 DEF RunsInv
<1>4. CommitsInv'
  BY <1>0, <1>1 DEF CommitsInv, Explains
<1>5. TimesInv' /\ AccountsInv'
  BY <1>0 DEF TimesInv, AccountsInv
<1> QED
  BY <1>2, <1>3, <1>4, <1>5

LEMMA FinishRunStep ==
  ASSUME SyncsInv, NEW p \in Procs, FinishRun(p)
  PROVE  SyncsInv'
<1> USE DEF SyncsInv
<1>0. UNCHANGED <<now, back, lock, corpus, sync_runs, newest>>
  BY DEF FinishRun, database
<1>1. PICK target \in Corpora, failed \in BOOLEAN :
        runs' = [runs EXCEPT
             ![p].stage = "committing",
             ![p].row = IF failed THEN FailedResult(Result(p, target))
                        ELSE Result(p, target),
             ![p].target = IF failed THEN corpus ELSE target]
  BY DEF FinishRun
<1> DEFINE row == IF failed THEN FailedResult(Result(p, target)) ELSE Result(p, target)
           after == IF failed THEN corpus ELSE target
<1>2. corpus \in Corpora /\ after \in Corpora /\ runs[p].stage = "running"
  BY DEF SyncTypes, FinishRun
<1>3. /\ row \in RunRow /\ row.id = runs[p].id /\ row.finished_at = now
      /\ Explains(row, corpus, after)
  <2>1. /\ Result(p, target) \in RunRow
        /\ Result(p, target).id = runs[p].id
        /\ Result(p, target).finished_at = now
        /\ Explains(Result(p, target), corpus, target)
    BY <1>2, ResultExplains
  <2> DEFINE result == Result(p, target)
  <2>2. /\ FailedResult(result) \in RunRow
        /\ FailedResult(result).id = result.id
        /\ FailedResult(result).finished_at = result.finished_at
        /\ Explains(FailedResult(result), corpus, corpus)
    BY <1>2, <2>1, FailureExplains
  <2> HIDE DEF result
  <2>3. CASE failed
    BY <2>1, <2>2, <2>3 DEF result
  <2>4. CASE ~ failed
    BY <2>1, <2>4 DEF result
  <2> QED
    BY <2>3, <2>4
<1> DEFINE r == [runs[p] EXCEPT !.stage = "committing", !.row = row, !.target = after]
<1>4. /\ r \in Run /\ r.stage = "committing" /\ r.id = runs[p].id
      /\ r.row = row /\ r.target = after
  <2> HIDE DEF row, after
  <2> QED
    BY <1>2, <1>3 DEF SyncTypes, Run
<1>5. runs' \in [Procs -> Run] /\ runs'[p] = r /\ \A q \in Procs \ {p} : runs'[q] = runs[q]
  <2>1. runs' = [runs EXCEPT ![p] = r]
    <3> HIDE DEF row, after
    <3>1. runs' = [runs EXCEPT ![p].stage = "committing", ![p].row = row, ![p].target = after]
      BY <1>1 DEF row, after
    <3> QED
      BY <3>1 DEF SyncTypes
  <2> HIDE DEF r
  <2> QED
    BY <1>4, <2>1 DEF SyncTypes
<1> HIDE DEF r, row, after
<1>6. SyncTypes'
  BY <1>0, <1>5 DEF SyncTypes
<1>7. RunsInv'
  <2>1. DistinctIds(sync_runs)'
    BY <1>0 DEF RunsInv, DistinctIds
  <2>2. \A q \in Procs : runs'[q].stage # "idle" =>
          /\ runs'[q].id \in RunIds
          /\ \A other \in sync_runs : other.id # runs'[q].id
    BY <1>2, <1>4, <1>5 DEF RunsInv
  <2>3. \A o, q \in Procs :
          o # q /\ runs'[o].stage # "idle" /\ runs'[q].stage # "idle" =>
            runs'[o].id # runs'[q].id
    BY <1>2, <1>4, <1>5 DEF RunsInv
  <2>4. \A q \in Procs : runs'[q].stage \in {"running", "committing"} => lock = q
    BY <1>2, <1>4, <1>5 DEF RunsInv
  <2> QED
    BY <1>0, <2>1, <2>2, <2>3, <2>4 DEF RunsInv
<1>8. CommitsInv'
  <2> SUFFICES ASSUME NEW q \in Procs, runs'[q].stage = "committing"
               PROVE  LET w == runs'[q].row
                      IN  /\ w \in RunRow /\ w.id = runs'[q].id
                          /\ Explains(w, corpus, runs'[q].target)
                          /\ back = 0 =>
                               /\ w.finished_at <= now
                               /\ newest # NoRun => newest.finished_at <= w.finished_at
    BY <1>0 DEF CommitsInv, Explains
  <2>1. CASE q # p
    BY <1>5, <2>1 DEF CommitsInv
  <2>2. CASE q = p
    <3>1. back = 0 /\ newest # NoRun => newest.finished_at <= now
      BY DEF TimesInv
    <3>2. now \in Int
      BY BoundsAreNat DEF SyncTypes, Times
    <3> QED
      BY <1>3, <1>4, <1>5, <2>2, <3>1, <3>2
  <2> QED
    BY <2>1, <2>2
<1>9. TimesInv' /\ AccountsInv'
  BY <1>0 DEF TimesInv, AccountsInv
<1> QED
  BY <1>6, <1>7, <1>8, <1>9

(* The row that is committed is one more. *)
LEMMA CommitAddsRow ==
  ASSUME SyncsInv, NEW p \in Procs, CommitRun(p)
  PROVE  OneMoreRow(runs[p].row)
BY DEF SyncsInv, SyncTypes, RunsInv, CommitsInv, CommitRun, OneMoreRow

LEMMA CommitRunStep ==
  ASSUME SyncsInv, NEW p \in Procs, CommitRun(p)
  PROVE  SyncsInv'
<1> USE DEF SyncsInv
<1> DEFINE row == runs[p].row
<1>0. /\ UNCHANGED <<now, back>> /\ lock' = NoProc /\ runs[p].stage = "committing"
      /\ corpus' = runs[p].target /\ newest' = row
      /\ sync_runs' = sync_runs \cup {row}
  BY DEF CommitRun
<1>1. OneMoreRow(row)
  BY CommitAddsRow
<1>2. /\ row \in RunRow /\ row.id = runs[p].id
      /\ Explains(row, corpus, runs[p].target)
      /\ back = 0 => /\ row.finished_at <= now
                     /\ newest # NoRun => newest.finished_at <= row.finished_at
  BY <1>0 DEF CommitsInv
<1>3. /\ runs' \in [Procs -> Run] /\ runs'[p].stage = "idle"
      /\ \A q \in Procs \ {p} : runs'[q] = runs[q]
  BY NoSyncType DEF CommitRun, SyncTypes
<1>4. \A q \in Procs : runs'[q].stage \notin {"running", "committing"}
  BY <1>0, <1>3 DEF RunsInv
<1>5. IsFiniteSet(sync_runs') /\ corpus' \in Corpora /\ row # NoRun
  <2>1. IsFiniteSet(sync_runs \cup {row})
    BY FS_AddElement DEF SyncTypes
  <2> QED
    BY <1>0, <1>2, <2>1, NoRunIsNoRow DEF SyncTypes, Run
<1> HIDE DEF row
<1>6. SyncTypes'
  BY <1>0, <1>2, <1>3, <1>5 DEF SyncTypes
<1>7. RunsInv'
  <2>1. DistinctIds(sync_runs')
    BY <1>0, <1>2 DEF RunsInv, DistinctIds
  <2>2. \A q \in Procs : runs'[q].stage # "idle" =>
          /\ runs'[q].id \in RunIds
          /\ \A other \in sync_runs' : other.id # runs'[q].id
    BY <1>0, <1>2, <1>3 DEF RunsInv
  <2>3. \A o, q \in Procs :
          o # q /\ runs'[o].stage # "idle" /\ runs'[q].stage # "idle" =>
            runs'[o].id # runs'[q].id
    BY <1>3 DEF RunsInv
  <2> QED
    BY <1>4, <2>1, <2>2, <2>3 DEF RunsInv
<1>8. CommitsInv'
  BY <1>4 DEF CommitsInv
<1>9. TimesInv'
  <2>1. ASSUME back = 0, NEW other \in sync_runs
        PROVE  other.finished_at <= row.finished_at
    <3>1. newest # NoRun /\ newest \in RunRow /\ other \in RunRow
      BY DEF SyncTypes
    <3>2. /\ newest.finished_at \in Int /\ other.finished_at \in Int
          /\ row.finished_at \in Int
      BY <1>2, <3>1, RowNumbers
    <3>3. other.finished_at <= newest.finished_at /\ newest.finished_at <= row.finished_at
      BY <1>2, <2>1, <3>1 DEF TimesInv
    <3> QED
      BY <3>2, <3>3
  <2>2. row.finished_at <= row.finished_at
    BY <1>2, RowNumbers
  <2> QED
    BY <1>0, <1>2, <2>1, <2>2 DEF TimesInv
<1>10. AccountsInv'
  <2>1. /\ EmbeddedChunks' = EmbeddedChunks + row.embedded_chunks
        /\ DeletedChunks' = DeletedChunks + row.deleted_chunks
    BY <1>1, TotalsGrow
  <2>2. ChunksIn(corpus, Paths) + DeletedChunks = EmbeddedChunks
    BY DEF AccountsInv, EmbeddedChunks, DeletedChunks
  <2> DEFINE target == runs[p].target
  <2>3. ChunksIn(target, Paths) + row.deleted_chunks
          = ChunksIn(corpus, Paths) + row.embedded_chunks
    BY <1>2 DEF Explains
  <2>4. ChunksIn(target, Paths) \in Nat /\ ChunksIn(corpus, Paths) \in Nat
    <3>1. target \in Corpora /\ corpus \in Corpora
      BY <1>0, <1>5 DEF SyncTypes
    <3> QED
      BY <3>1, ChunksAreSums
  <2>5. /\ DeletedChunks \in Nat /\ EmbeddedChunks \in Nat
        /\ row.deleted_chunks \in Nat /\ row.embedded_chunks \in Nat
    BY <1>2, TotalsAreNat DEF SyncTypes, RunRow
  <2> HIDE DEF target
  <2>6. ChunksIn(target, Paths) + DeletedChunks' = EmbeddedChunks'
    BY <2>1, <2>2, <2>3, <2>4, <2>5
  <2>7. ChunksIn(corpus', Paths) + DeletedChunks' = EmbeddedChunks'
    BY <1>0, <2>6 DEF target
  <2> QED
    BY <2>7 DEF AccountsInv, EmbeddedChunks, DeletedChunks
<1> QED
  BY <1>6, <1>7, <1>8, <1>9, <1>10

(* A commit leaves what the readers have answered behind the rows.         *)
LEMMA CommitRunReads ==
  ASSUME SyncsInv, ReadsInv, NEW p \in Procs, CommitRun(p)
  PROVE  ReadsInv'
<1> DEFINE row == runs[p].row
<1>1. OneMoreRow(row)
  BY CommitAddsRow
<1>2. UNCHANGED <<status, scrape>> /\ sync_runs' = sync_runs \cup {row}
  BY DEF CommitRun
<1> HIDE DEF row
<1>3. ReadTypes'
  BY <1>2 DEF ReadsInv, ReadTypes
<1>4. ShownInv'
  <2>1. \A i \in 1 .. 7 : Counters(scrape.shown)[i] \in Int
    BY CountersAreNumbers DEF ReadsInv, ReadTypes
  <2>2. \A i \in 1 .. 7 :
          /\ Counters(operational_metrics)[i] <= Counters(operational_metrics')[i]
          /\ Counters(operational_metrics)[i] \in Int
          /\ Counters(operational_metrics')[i] \in Int
    BY <1>1, CountersGrow
  <2>3. \A i \in 1 .. 7 : Counters(scrape.shown)[i] <= Counters(operational_metrics)[i]
    BY DEF ReadsInv, ShownInv
  <2>4. \A i \in 1 .. 7 : Counters(scrape.shown)[i] <= Counters(operational_metrics')[i]
    BY <2>1, <2>2, <2>3
  <2>5. \A i \in 1 .. 7 : Counters(scrape'.shown)[i] <= Counters(operational_metrics')[i]
    BY <1>2, <2>4
  <2>6. MetricsExplainChunks'
    BY <1>2 DEF ReadsInv, ShownInv, MetricsExplainChunks
  <2> QED
    BY <2>5, <2>6 DEF ShownInv
<1>5. StatusInv'
  BY <1>2 DEF ReadsInv, StatusInv, StatusNamesNoOlderRun
<1> QED
  BY <1>3, <1>4, <1>5 DEF ReadsInv

-----------------------------------------------------------------------------
(* The steps of the readers.                                               *)

(* What a reader changes no other reader sees.                             *)
LEMMA StatusStep ==
  ASSUME ReadsInv, UNCHANGED <<scrape, corpus, sync_runs>>,
         status' \in Status, status'.last \in sync_runs \cup {NoRun},
         StatusInv'
  PROVE  ReadsInv'
<1>1. operational_metrics' = operational_metrics
  BY DEF operational_metrics, RunsSummed
<1>2. ReadTypes'
  BY DEF ReadsInv, ReadTypes
<1>3. ShownInv'
  BY <1>1 DEF ReadsInv, ShownInv, MetricsExplainChunks
<1> QED
  BY <1>2, <1>3 DEF ReadsInv

LEMMA StatusCountsStep == SyncsInv /\ ReadsInv /\ StatusCounts => ReadsInv'
<1> SUFFICES ASSUME SyncsInv, ReadsInv, StatusCounts PROVE ReadsInv'
  OBVIOUS
<1>1. /\ UNCHANGED <<scrape, corpus, sync_runs>>
      /\ status' = [stage |-> "counted", known |-> LastFinished(sync_runs), last |-> NoRun]
  BY DEF StatusCounts, database
<1>2. CASE sync_runs = {}
  <2>1. LastFinished(sync_runs) = -1
    BY <1>2 DEF LastFinished
  <2>2. status' \in Status /\ status'.last = NoRun
    BY <1>1, <2>1 DEF Status
  <2>3. StatusInv'
    BY <1>1, <2>1 DEF StatusInv, StatusNamesNoOlderRun
  <2> QED
    BY <1>1, <2>2, <2>3, StatusStep
<1>3. CASE sync_runs # {}
  <2> DEFINE latest == LatestRun(sync_runs)
  <2>1. latest \in sync_runs
    BY <1>3, LatestIsFirst DEF SyncsInv, SyncTypes, RunsInv
  <2>2. LastFinished(sync_runs) = latest.finished_at
    BY <1>3 DEF LastFinished
  <2> HIDE DEF latest
  <2>3. latest.finished_at \in Times /\ latest.finished_at >= latest.finished_at
    BY <2>1, RowNumbers DEF SyncsInv, SyncTypes
  <2>4. status' \in Status /\ status'.last = NoRun
    BY <1>1, <2>2, <2>3 DEF Status
  <2>5. StatusInv'
    BY <1>1, <2>1, <2>2, <2>3 DEF StatusInv, StatusNamesNoOlderRun
  <2> QED
    BY <1>1, <2>4, <2>5, StatusStep
<1> QED
  BY <1>2, <1>3

LEMMA StatusLastRunStep == SyncsInv /\ ReadsInv /\ StatusLastRun => ReadsInv'
<1> SUFFICES ASSUME SyncsInv, ReadsInv, StatusLastRun PROVE ReadsInv'
  OBVIOUS
<1>1. PICK last \in IF sync_runs = {} THEN {NoRun} ELSE StatusLatest(sync_runs) :
        status' = [status EXCEPT !.stage = "answered", !.last = last]
  BY DEF StatusLastRun
<1>2. /\ UNCHANGED <<scrape, corpus, sync_runs>> /\ status.stage = "counted"
  BY DEF StatusLastRun, database
<1>3. /\ last \in sync_runs \cup {NoRun} /\ last \in RunRow \cup {NoRun}
      /\ sync_runs # {} =>
           last \in sync_runs /\ \A row \in sync_runs : last.finished_at >= row.finished_at
  BY <1>1 DEF StatusLatest, SyncsInv, SyncTypes
<1>4. status \in Status
  BY DEF ReadsInv, ReadTypes
<1>5. /\ status' \in Status /\ status'.last = last
      /\ status'.stage = "answered" /\ status'.known = status.known
  BY <1>1, <1>3, <1>4 DEF Status
<1>6. ASSUME status.known >= 0
      PROVE  last # NoRun /\ last.finished_at >= status.known
  <2>1. PICK row \in sync_runs : row.finished_at >= status.known
    BY <1>2, <1>6 DEF ReadsInv, StatusInv
  <2>2. /\ last \in sync_runs /\ last.finished_at >= row.finished_at
        /\ last \in RunRow /\ row \in RunRow
    BY <1>3 DEF SyncsInv, SyncTypes
  <2>3. /\ last.finished_at \in Int /\ row.finished_at \in Int
        /\ status.known \in Int
    BY <1>4, <2>2, RowNumbers DEF Status, Times
  <2> QED
    BY <2>1, <2>2, <2>3, NoRunIsNoRow
<1>7. StatusInv'
  BY <1>5, <1>6 DEF StatusInv, StatusNamesNoOlderRun
<1> QED
  BY <1>2, <1>3, <1>5, <1>7, StatusStep

LEMMA StatusReturnsStep == ReadsInv /\ StatusReturns => ReadsInv'
<1> SUFFICES ASSUME ReadsInv, StatusReturns PROVE ReadsInv'
  OBVIOUS
<1>1. /\ UNCHANGED <<scrape, corpus, sync_runs>>
      /\ status' = NoStatus
  BY DEF StatusReturns, database
<1>2. status' \in Status /\ status'.last = NoRun /\ status'.stage = "idle"
  BY <1>1 DEF NoStatus, Status
<1>3. StatusInv'
  BY <1>2 DEF StatusInv, StatusNamesNoOlderRun
<1> QED
  BY <1>1, <1>2, <1>3, StatusStep

(* A scrape that answers nothing shows what was shown before.              *)
LEMMA UnansweredStep ==
  ASSUME ReadsInv, UNCHANGED <<status, corpus, sync_runs>>,
         NEW pending \in BOOLEAN, scrape' = [scrape EXCEPT !.pending = pending]
  PROVE  ReadsInv'
<1>1. operational_metrics' = operational_metrics
  BY DEF operational_metrics, RunsSummed
<1>2. /\ scrape' \in [pending : BOOLEAN, shown : Metrics]
      /\ scrape'.shown = scrape.shown
  BY DEF ReadsInv, ReadTypes
<1>3. ReadTypes'
  BY <1>2 DEF ReadsInv, ReadTypes
<1>4. ShownInv'
  BY <1>1, <1>2 DEF ReadsInv, ShownInv, MetricsExplainChunks
<1>5. StatusInv'
  BY DEF ReadsInv, StatusInv, StatusNamesNoOlderRun
<1> QED
  BY <1>3, <1>4, <1>5 DEF ReadsInv

LEMMA ScrapeAnsweredStep == SyncsInv /\ ReadsInv /\ ScrapeAnswered => ReadsInv'
<1> SUFFICES ASSUME SyncsInv, ReadsInv, ScrapeAnswered PROVE ReadsInv'
  OBVIOUS
<1>1. /\ UNCHANGED <<status, corpus, sync_runs>>
      /\ scrape' = [scrape EXCEPT !.pending = FALSE, !.shown = operational_metrics]
  BY DEF ScrapeAnswered, database
<1>2. operational_metrics' = operational_metrics
  BY <1>1 DEF operational_metrics, RunsSummed
<1>3. /\ scrape' \in [pending : BOOLEAN, shown : Metrics]
      /\ scrape'.shown = operational_metrics
  BY <1>1, AnswerIsRight DEF ReadsInv, ReadTypes
<1>4. ReadTypes'
  BY <1>1, <1>3, AnswerIsRight DEF ReadsInv, ReadTypes
<1>5. MetricsExplainChunks'
  BY <1>3, AnswerIsRight DEF MetricsExplainChunks
<1>6. \A i \in 1 .. 7 :
        Counters(scrape'.shown)[i] <= Counters(operational_metrics')[i]
  <2>1. \A i \in 1 .. 7 : Counters(operational_metrics)[i] \in Nat
    BY AnswerIsRight, CountersAreNumbers
  <2>2. \A i \in 1 .. 7 :
          Counters(operational_metrics)[i] <= Counters(operational_metrics)[i]
    BY <2>1
  <2> QED
    BY <1>2, <1>3, <2>2
<1>7. StatusInv'
  BY <1>1 DEF ReadsInv, StatusInv, StatusNamesNoOlderRun
<1> QED
  BY <1>4, <1>5, <1>6, <1>7 DEF ReadsInv, ShownInv

-----------------------------------------------------------------------------
(* The theorems.                                                           *)

LEMMA StoreInvStarts == Init => StoreInv
<1> SUFFICES ASSUME Init PROVE StoreInv
  OBVIOUS
<1>1. /\ now = 0 /\ back = 0 /\ lock = NoProc /\ corpus = EmptyCorpus
      /\ sync_runs = {} /\ newest = NoRun /\ status = NoStatus
      /\ runs = [p \in Procs |-> NoSync]
      /\ scrape = [pending |-> FALSE, shown |-> NoMetrics]
  BY DEF Init
<1>2. SyncTypes
  BY <1>1, BoundsAreNat, NoSyncType, FS_EmptySet DEF SyncTypes, Times
<1>3. RunsInv /\ CommitsInv /\ TimesInv
  <2>1. \A p \in Procs : runs[p].stage = "idle"
    BY <1>1, NoSyncType
  <2> QED
    BY <1>1, <2>1 DEF RunsInv, CommitsInv, TimesInv, DistinctIds
<1>4. AccountsInv
  <2>1. ChunksIn(corpus, Paths) = 0
    <3>1. \A path \in Paths : EmptyCorpus[path] = 0
      BY DEF EmptyCorpus
    <3> DEFINE none == [path \in Paths |-> 0]
    <3>2. Balanced(none, none, none, none, Paths)
      BY DEF Balanced
    <3>3. SumFunctionOnSet(none, {}) = 0
      BY SumOfNone
    <3>4. /\ {} \in SUBSET Paths
          /\ \A path \in Paths : EmptyCorpus[path] \in Int
          /\ \A path \in Paths :
               none[path] = IF path \in {} THEN EmptyCorpus[path] ELSE 0
      BY <3>1
    <3>5. SumFunctionOnSet(none, Paths) = SumFunctionOnSet(EmptyCorpus, {})
      <4> HIDE DEF none
      <4> QED
        BY <3>4, PathsFinite, SumOfPart
    <3>6. SumFunctionOnSet(EmptyCorpus, {}) = 0
      BY SumOfNone
    <3>7. SumFunctionOnSet(EmptyCorpus, Paths) = SumFunctionOnSet(none, Paths)
      <4>1. \A path \in Paths :
              EmptyCorpus[path] \in Int /\ EmptyCorpus[path] = none[path]
        BY <3>1
      <4> HIDE DEF none
      <4> QED
        BY <4>1, PathsFinite, SumOfSameTerms
    <3>8. ChunksIn(EmptyCorpus, Paths) = SumFunctionOnSet(EmptyCorpus, Paths)
      <4>1. Paths \in SUBSET Paths
        OBVIOUS
      <4> QED
        BY <4>1, NoSyncType, ChunksAreSums
    <3> QED
      BY <1>1, <3>5, <3>6, <3>7, <3>8
  <2>2. ASSUME NEW g, DOMAIN g = {} PROVE SumFunction(g) = 0
    BY <2>2, SumOfNone DEF SumFunction
  <2>3. /\ DOMAIN [row \in sync_runs |-> row.deleted_chunks] = {}
        /\ DOMAIN [row \in sync_runs |-> row.embedded_chunks] = {}
    BY <1>1
  <2>4. /\ SumFunction([row \in sync_runs |-> row.deleted_chunks]) = 0
        /\ SumFunction([row \in sync_runs |-> row.embedded_chunks]) = 0
    BY <2>2, <2>3
  <2> QED
    BY <2>1, <2>4 DEF AccountsInv
<1>5. SyncsInv
  BY <1>2, <1>3, <1>4 DEF SyncsInv
<1>6. ReadTypes /\ StatusInv
  BY <1>1 DEF ReadTypes, StatusInv, StatusNamesNoOlderRun, NoStatus, Status,
              Metrics, NoMetrics
<1>7. ShownInv
  <2>1. MetricsExplainChunks
    BY <1>1 DEF MetricsExplainChunks, NoMetrics
  <2>2. \A i \in 1 .. 7 : Counters(operational_metrics)[i] \in Nat
    BY <1>5, AnswerIsRight, CountersAreNumbers
  <2>3. \A i \in 1 .. 7 : Counters(scrape.shown)[i] = 0
    BY <1>1 DEF Counters, NoMetrics
  <2> QED
    BY <2>1, <2>2, <2>3 DEF ShownInv
<1> QED
  BY <1>5, <1>6, <1>7 DEF StoreInv, ReadsInv

LEMMA StoreInvStep == StoreInv /\ [Next]_vars => StoreInv'
<1> SUFFICES ASSUME StoreInv, [Next]_vars PROVE StoreInv'
  OBVIOUS
<1> USE DEF StoreInv
<1>1. CASE Tick
  <2>1. ReadsInv'
    BY <1>1, ReadsStable DEF Tick, database
  <2> QED
    BY <1>1, <2>1, TickStep
<1>2. CASE SetClockBack
  <2>1. ReadsInv'
    BY <1>2, ReadsStable DEF SetClockBack, database
  <2> QED
    BY <1>2, <2>1, SetClockBackStep
<1>3. ASSUME NEW p \in Procs, StartRun(p) PROVE StoreInv'
  <2>1. ReadsInv'
    BY <1>3, ReadsStable DEF StartRun, database
  <2> QED
    BY <1>3, <2>1, StartRunStep
<1>4. ASSUME NEW p \in Procs, TryLock(p) PROVE StoreInv'
  <2>1. ReadsInv'
    BY <1>4, ReadsStable DEF TryLock, database
  <2> QED
    BY <1>4, <2>1, TryLockStep
<1>5. ASSUME NEW p \in Procs, FinishRun(p) PROVE StoreInv'
  <2>1. ReadsInv'
    BY <1>5, ReadsStable DEF FinishRun, database
  <2> QED
    BY <1>5, <2>1, FinishRunStep
<1>6. ASSUME NEW p \in Procs, CommitRun(p) PROVE StoreInv'
  BY <1>6, CommitRunStep, CommitRunReads
<1>7. CASE StatusCounts
  BY <1>7, StatusCountsStep, SyncsStable DEF StatusCounts, database, SyncFrame
<1>8. CASE StatusLastRun
  BY <1>8, StatusLastRunStep, SyncsStable DEF StatusLastRun, database, SyncFrame
<1>9. CASE StatusReturns
  BY <1>9, StatusReturnsStep, SyncsStable DEF StatusReturns, database, SyncFrame
<1>10. CASE ScrapeRequest
  <2>1. ReadsInv'
    BY <1>10, UnansweredStep DEF ScrapeRequest, database
  <2> QED
    BY <1>10, <2>1, SyncsStable DEF ScrapeRequest, database, SyncFrame
<1>11. CASE ScrapeAnswered
  BY <1>11, ScrapeAnsweredStep, SyncsStable DEF ScrapeAnswered, database, SyncFrame
<1>12. CASE ScrapeFails
  <2>1. ReadsInv'
    BY <1>12, UnansweredStep DEF ScrapeFails, database
  <2> QED
    BY <1>12, <2>1, SyncsStable DEF ScrapeFails, database, SyncFrame
<1>13. CASE UNCHANGED vars
  BY <1>13, ReadsStable, SyncsStable DEF vars, database, SyncFrame
<1> QED
  BY <1>1, <1>2, <1>3, <1>4, <1>5, <1>6, <1>7, <1>8, <1>9, <1>10, <1>11,
     <1>12, <1>13 DEF Next, Synchronize, CallStatus, CallMetrics

(* The inductive invariant of the store and its readers holds of every     *)
(* behaviour.                                                              *)
THEOREM StoreInvariant == Spec => []StoreInv
BY StoreInvStarts, StoreInvStep, PTL DEF Spec

(* The variables keep their types, and the chunks an answer of the         *)
(* exporter reports are those its totals embed less those they delete      *)
(* (operational_metrics, pgvector_store.py:449).                           *)
THEOREM AnswersExplainThemselves == Spec => []ReadersInv
<1>1. StoreInv => ReadersInv
  <2> SUFFICES ASSUME StoreInv PROVE ReadersInv
    OBVIOUS
  <2>1. TypeOK
    BY DEF StoreInv, SyncsInv, ReadsInv, SyncTypes, ReadTypes, Status, TypeOK
  <2> QED
    BY <2>1 DEF StoreInv, ReadsInv, ShownInv, ReadersInv
<1> QED
  BY <1>1, StoreInvariant, PTL

(* status() never names a run older than what it counted (status,          *)
(* pgvector_store.py:609).                                                 *)
THEOREM StatusIsNotStale == Spec => []StatusNamesNoOlderRun
<1>1. StoreInv => StatusNamesNoOlderRun
  BY DEF StoreInv, ReadsInv, StatusInv
<1> QED
  BY <1>1, StoreInvariant, PTL

(* With a clock that is not set back, the run that the readers put first   *)
(* is the one committed last, or as old (pgvector_store.py:468).           *)
THEOREM NewestRunIsFirst == Spec => []LastRunIsNewest
<1>1. StoreInv => LastRunIsNewest
  <2> DEFINE latest == LatestRun(sync_runs)
  <2> SUFFICES ASSUME StoreInv, back = 0, newest # NoRun
               PROVE  /\ recent_runs(sync_runs, 1) = {latest}
                      /\ latest = newest \/ latest.finished_at = newest.finished_at
    BY DEF LastRunIsNewest
  <2>1. /\ sync_runs \in SUBSET RunRow /\ IsFiniteSet(sync_runs)
        /\ DistinctIds(sync_runs) /\ newest \in sync_runs /\ sync_runs # {}
    BY DEF StoreInv, SyncsInv, SyncTypes, RunsInv
  <2>2. /\ latest \in sync_runs
        /\ \A other \in sync_runs \ {latest} : Before(latest, other)
    BY <2>1, LatestIsFirst
  <2> HIDE DEF latest
  <2>3. recent_runs(sync_runs, 1) = {latest}
    BY <2>1, <2>2, HistoryOfOne
  <2>4. CASE latest # newest
    <3>1. latest \in RunRow /\ newest \in RunRow /\ Before(latest, newest)
      BY <2>1, <2>2, <2>4
    <3>2. /\ latest.finished_at >= newest.finished_at
          /\ latest.finished_at \in Int /\ newest.finished_at \in Int
      BY <3>1, RowsAreOrdered, RowNumbers
    <3>3. latest.finished_at <= newest.finished_at
      BY <2>2 DEF StoreInv, SyncsInv, TimesInv
    <3> QED
      BY <2>3, <3>2, <3>3
  <2> QED
    BY <2>3, <2>4
<1> QED
  BY <1>1, StoreInvariant, PTL

(* No exported counter ever decreases, whatever fails in between           *)
(* (metrics.py:54-116).                                                    *)
THEOREM CountersOnlyGrow == Spec => CountersNeverDecrease
<1> DEFINE A == \A i \in 1 .. 7 :
                  Counters(scrape.shown)[i] <= Counters(scrape'.shown)[i]
<1>1. StoreInv /\ [Next]_vars => [A]_vars
  <2> SUFFICES ASSUME StoreInv, Next PROVE A
    OBVIOUS
  <2>1. \A i \in 1 .. 7 : Counters(scrape.shown)[i] <= Counters(operational_metrics)[i]
    BY DEF StoreInv, ReadsInv, ShownInv
  <2>2. \A i \in 1 .. 7 : Counters(scrape.shown)[i] <= Counters(scrape.shown)[i]
    <3>1. \A i \in 1 .. 7 : Counters(scrape.shown)[i] \in Nat
      BY CountersAreNumbers DEF StoreInv, ReadsInv, ReadTypes
    <3> QED
      BY <3>1
  <2>3. scrape'.shown = scrape.shown \/ scrape'.shown = operational_metrics
    <3>1. scrape \in [pending : BOOLEAN, shown : Metrics]
      BY DEF StoreInv, ReadsInv, ReadTypes
    <3> QED
      BY <3>1 DEF Next, Synchronize, CallStatus, CallMetrics, Tick, SetClockBack,
           StartRun, TryLock, FinishRun, CommitRun, StatusCounts, StatusLastRun,
           StatusReturns, ScrapeRequest, ScrapeAnswered, ScrapeFails
  <2> QED
    BY <2>1, <2>2, <2>3
<1> QED
  BY <1>1, StoreInvariant, PTL DEF Spec, CountersNeverDecrease
=============================================================================
