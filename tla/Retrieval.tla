----------------------------- MODULE Retrieval -----------------------------
(***************************************************************************)
(* `ragpipe search` and `ragpipe evaluate` against a corpus that syncs     *)
(* keep replacing: PgVectorStore.search (ragpipe/store/pgvector_store.py)  *)
(* and RetrievalEvaluator with its dataset (ragpipe/evaluation.py).        *)
(*                                                                         *)
(* A text is a point on a line; a model turns it into a vector at the same *)
(* point of the space of that model, and the distance of two points stands *)
(* for the cosine distance.  A sync commits in one step, as SyncRuns shows *)
(* it does.  PostgreSQL is free to answer a search from the HNSW index,    *)
(* which examines only some chunks, or from all of them.                   *)
(***************************************************************************)
EXTENDS Integers, SequencesExt

CONSTANTS PathCount,   \* paths are 1 .. PathCount, in their order
          Texts,       \* documents: sequences of points, one per chunk
          Tags,        \* members of document metadata
          Versions,    \* scans of the source
          Models,      \* embedding models
          Points,      \* points that are queried
          MaxK,        \* bound: the limit of a search, k of an evaluation
          MaxLines,    \* bound: lines of the dataset
          EfSearch,    \* bound: chunks that an index scan examines
          MaxCommits,  \* bound: syncs that commit
          Absent,      \* no document, no rank, no filter
          Blank,       \* a blank line of a dataset
          Invalid      \* a line that is not valid

ASSUME TextsAreChunked == Texts \subseteq Seq(Nat) /\ Points \subseteq Nat
ASSUME BoundsAreNat == /\ PathCount \in Nat \ {0}
                       /\ MaxK \in Nat /\ MaxCommits \in Nat
ASSUME AbsentIsNoRank == Absent \notin Nat

Paths == 1 .. PathCount

VARIABLES
  corpus,      \* committed documents, by path
  configured,  \* RAGPIPE_EMBEDDING_MODEL of the commands that start now
  commits,     \* syncs so far
  command,     \* the search or evaluation that runs
  answers      \* its searches so far

vars == <<corpus, configured, commits, command, answers>>

Scanned == [text : Texts, tags : SUBSET Tags]

ASSUME VersionsAreScans == Versions \subseteq [Paths -> Scanned \cup {Absent}]

Document == [text : Texts, tags : SUBSET Tags, model : Models]
Case == [query : Points, expected : Paths]
Row == [path : Paths, index : Nat, point : Nat,
        model : Models, tags : SUBSET Tags]

Smaller(m, n) == IF m <= n THEN m ELSE n

-----------------------------------------------------------------------------
(* The dataset: a line is blank, not a valid case, or a case.              *)
Lines == Case \cup {Blank, Invalid}

(* A turn of the loop over the lines.                                      *)
Appended(cases, line) == IF line = Blank THEN cases ELSE Append(cases, line)

(* The cases of a dataset, or none: it is refused as a whole.              *)
load_evaluation_cases(lines) ==
  IF \E i \in DOMAIN lines : lines[i] = Invalid THEN <<>>
  ELSE FoldLeft(Appended, <<>>, lines)

Filters == {Absent} \cup SUBSET Tags

Command(kind, stage, cases, limit, filter, batch_size) ==
  [kind |-> kind, stage |-> stage, model |-> configured, cases |-> cases,
   limit |-> limit, filter |-> filter, batch_size |-> batch_size,
   embeddings |-> <<>>, hits |-> 0, reciprocals |-> 0]

Datasets == UNION {[1 .. n -> Lines] : n \in 0 .. MaxLines}

Idle == [stage |-> "idle"]

Init ==
  /\ corpus = [path \in Paths |-> Absent]
  /\ configured \in Models
  /\ commits = 0
  /\ command = Idle
  /\ answers = <<>>

(* A sync commits what it scanned.  A document whose text is unchanged     *)
(* keeps its chunks, and with them the model that embedded them.           *)
SyncCommits ==
  /\ commits < MaxCommits
  /\ commits' = commits + 1
  /\ \E scanned \in Versions :
       corpus' = [path \in Paths |->
         LET new == scanned[path]
             old == corpus[path]
         IN  IF new = Absent THEN Absent
             ELSE [text |-> new.text, tags |-> new.tags,
                   model |-> IF old # Absent /\ old.text = new.text
                             THEN old.model ELSE configured]]
  /\ UNCHANGED <<configured, command, answers>>

Reconfigure ==
  /\ configured' \in Models \ {configured}
  /\ UNCHANGED <<corpus, commits, command, answers>>

(* search and evaluate with their arguments.                               *)
StartSearch ==
  /\ command.stage = "idle"
  /\ \E query \in Points, limit \in 1 .. MaxK, filter \in Filters :
       command' = Command("search", "embedding",
                          <<[query |-> query, expected |-> 1]>>,
                          limit, filter, 1)
  /\ UNCHANGED <<corpus, configured, commits, answers>>

StartEvaluation ==
  /\ command.stage = "idle"
  /\ \E lines \in Datasets, k \in 1 .. MaxK, batch_size \in 1 .. 2 :
       LET cases == load_evaluation_cases(lines)
       IN  command' = Command("evaluate",
                              IF cases = <<>> THEN "failed" ELSE "embedding",
                              cases, k, Absent, batch_size)
  /\ UNCHANGED <<corpus, configured, commits, answers>>

-----------------------------------------------------------------------------
Vector(model, query) == [model |-> model, point |-> query]

(* Mutant of Extend: the new batch goes in front.                          *)
ExtendInFront(embeddings, batch) == batch \o embeddings

(* embeddings.extend(batch_embeddings) *)
Extend(embeddings, batch) == embeddings \o batch

(* One turn of the loop over batches of queries.                           *)
EmbedBatch ==
  /\ command.stage = "embedding"
  /\ LET start == Len(command.embeddings)
         end == Smaller(start + command.batch_size, Len(command.cases))
         batch == SubSeq(command.cases, start + 1, end)
         vectors == [i \in DOMAIN batch |->
                       Vector(command.model, batch[i].query)]
     IN  command' = [command EXCEPT
           !.embeddings = Extend(@, vectors),
           !.stage = IF end = Len(command.cases) THEN "searching" ELSE @]
  /\ UNCHANGED <<corpus, configured, commits, answers>>

(* embed() raises or returns another number of vectors; a search raises.   *)
Fails ==
  /\ command.stage \in {"embedding", "searching"}
  /\ command' = [command EXCEPT !.stage = "failed"]
  /\ UNCHANGED <<corpus, configured, commits, answers>>

(* The rows of chunks JOIN documents.                                      *)
Rows(documents) ==
  UNION {{[path |-> path, index |-> i - 1, point |-> documents[path].text[i],
           model |-> documents[path].model, tags |-> documents[path].tags] :
             i \in DOMAIN documents[path].text} :
           path \in {p \in Paths : documents[p] # Absent}}

(* What a plan looks at: all rows, or those the index yields.              *)
Examined(documents) ==
  LET rows == Rows(documents)
  IN  {rows} \cup kSubset(Smaller(EfSearch, Cardinality(rows)), rows)

Distance(vector, row) ==
  IF vector.point >= row.point THEN vector.point - row.point
                               ELSE row.point - vector.point

(* Mutant of Before: ORDER BY the distance alone.                          *)
BeforeByDistance(vector, r, s) == Distance(vector, r) < Distance(vector, s)

(* ORDER BY distance, path, chunk_index *)
Before(vector, r, s) ==
  \/ Distance(vector, r) < Distance(vector, s)
  \/ /\ Distance(vector, r) = Distance(vector, s)
     /\ r.path < s.path \/ (r.path = s.path /\ r.index < s.index)

(* Mutant of Compatible: chunks of every model are compared.               *)
CompatibleWithAnyModel(rows, model, filter) ==
  {r \in rows : filter = Absent \/ filter \subseteq r.tags}

(* WHERE *)
Compatible(rows, model, filter) ==
  {r \in rows : /\ r.model = model
                /\ filter = Absent \/ filter \subseteq r.tags}

(* ORDER BY and LIMIT: every order the clauses allow.                      *)
Best(rows, vector, limit) ==
  {found \in [1 .. Smaller(limit, Cardinality(rows)) -> rows] :
     \A i \in DOMAIN found :
       /\ \A j \in 1 .. i - 1 : found[j] # found[i]
       /\ \A s \in rows : Before(vector, s, found[i]) =>
                            \E j \in 1 .. i - 1 : found[j] = s}

(* PgVectorStore.search *)
Selected(rows, vector, model, limit, filter) ==
  Best(Compatible(rows, model, filter), vector, limit)

(* retrieved_documents.index(expected_document) + 1, or None               *)
RankOf(found, expected) ==
  LET positions == {i \in DOMAIN found : found[i].path = expected}
  IN  IF positions = {} THEN Absent ELSE Min(positions)

(* Reciprocal ranks are counted in units that all ranks up to MaxK divide. *)
Unit ==
  LET factorial[n \in 0 .. MaxK] == IF n = 0 THEN 1 ELSE n * factorial[n - 1]
  IN  factorial[MaxK]

Reciprocal(rank) == IF rank = Absent THEN 0 ELSE Unit \div rank

(* What the next search may answer, with what its plan examined.           *)
Search ==
  LET vector == command.embeddings[Len(answers) + 1]
  IN  UNION {{[rows |-> found, examined |-> examined] :
                found \in Selected(examined, vector, command.model,
                                  command.limit, command.filter)} :
              examined \in Examined(corpus)}

AnswerSearch ==
  /\ command.stage = "searching" /\ command.kind = "search"
  /\ \E answer \in Search : answers' = Append(answers, answer)
  /\ command' = [command EXCEPT !.stage = "done"]
  /\ UNCHANGED <<corpus, configured, commits>>

(* One turn of the loop over cases and embeddings.                         *)
SearchCase ==
  /\ command.stage = "searching" /\ command.kind = "evaluate"
  /\ \E answer \in Search :
       LET n == Len(answers) + 1
           rank == RankOf(answer.rows, command.cases[n].expected)
       IN  /\ answers' = Append(answers, answer)
           /\ command' = [command EXCEPT
                !.hits = IF rank = Absent THEN @ ELSE @ + 1,
                !.reciprocals = @ + Reciprocal(rank),
                !.stage = IF n = Len(command.cases) THEN "done" ELSE @]
  /\ UNCHANGED <<corpus, configured, commits>>

Next ==
  \/ SyncCommits \/ Reconfigure
  \/ StartSearch \/ StartEvaluation \/ EmbedBatch \/ Fails
  \/ AnswerSearch \/ SearchCase

Spec == Init /\ [][Next]_vars

-----------------------------------------------------------------------------
(* Types; one answer at most per case, never more than limit rows.         *)
TypeOK ==
  /\ corpus \in [Paths -> Document \cup {Absent}]
  /\ configured \in Models
  /\ commits \in 0 .. MaxCommits
  /\ command.stage \in {"idle", "embedding", "searching", "done", "failed"}
  /\ command # Idle =>
       /\ command.cases \in Seq(Case)
       /\ command.hits \in 0 .. Len(answers)
       /\ command.reciprocals \in 0 .. Unit * command.hits
       /\ Len(answers) <= Len(command.cases)
       /\ \A i \in DOMAIN answers :
            /\ answers[i].rows \in Seq(Row)
            /\ Len(answers[i].rows) <= command.limit

Query(n) == Vector(command.model, command.cases[n].query)

(* An answer has as many rows as there are, up to the limit, among those   *)
(* the plan examined, and none it left out is nearer than one it returned: *)
(* a filter never hides chunks behind the limit.                           *)
AnswersAreBest ==
  \A n \in DOMAIN answers :
    LET rows == Compatible(answers[n].examined, command.model, command.filter)
        found == answers[n].rows
    IN  /\ Len(found) = Smaller(command.limit, Cardinality(rows))
        /\ \A r \in rows \ ToSet(found), i \in DOMAIN found :
             Distance(Query(n), found[i]) <= Distance(Query(n), r)

(* README.md:28, "Deterministic result ordering for equal similarity       *)
(* scores": whatever was committed and whichever plan was used in between, *)
(* two answers to one query rank the rows they share in the same order.    *)
ConsistentRanking ==
  \A m, n \in DOMAIN answers :
    command.cases[m].query = command.cases[n].query =>
      \A i, j \in DOMAIN answers[m].rows, k, l \in DOMAIN answers[n].rows :
        (/\ answers[m].rows[i] = answers[n].rows[k]
         /\ answers[m].rows[j] = answers[n].rows[l]
         /\ i < j) => k < l

(* README.md:74: a query is compared only with chunks of its own model,    *)
(* although after a change of model the corpus holds chunks of both.       *)
OneVectorSpace ==
  \A n \in DOMAIN answers, i \in 1 .. MaxK :
    i \in DOMAIN answers[n].rows =>
      answers[n].rows[i].model = command.embeddings[n].model

(* The state invariant: types, answers in one vector space, and no better  *)
(* answer to be had.                                                       *)
RetrievalInv == TypeOK /\ OneVectorSpace /\ AnswersAreBest

(* The rank README.md:308-312 describes, without an order of the rows: one *)
(* more than the rows before the best chunk of the expected document.      *)
ExpectedRank(n) ==
  LET rows == Compatible(answers[n].examined, command.model, Absent)
      wanted == {r \in rows : r.path = command.cases[n].expected}
      ahead(r) == Cardinality({s \in rows : Before(Query(n), s, r)})
      ranks == {1 + ahead(r) : r \in wanted} \cap 1 .. command.limit
  IN  IF ranks = {} THEN Absent ELSE Min(ranks)

(* A finished report counts every case once, with the rank that its own    *)
(* query gives it, however the queries were batched.                       *)
ReportIsRight ==
  (command.stage = "done" /\ command.kind = "evaluate") =>
    LET ranks == [n \in DOMAIN command.cases |-> ExpectedRank(n)]
    IN  /\ Len(answers) = Len(command.cases)
        /\ command.hits = Cardinality({n \in DOMAIN ranks : ranks[n] # Absent})
        /\ command.reciprocals =
             SumFunction([n \in DOMAIN ranks |-> Reciprocal(ranks[n])])
=============================================================================
