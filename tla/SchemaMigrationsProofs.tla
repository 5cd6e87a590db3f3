----------------------- MODULE SchemaMigrationsProofs -----------------------
(***************************************************************************)
(* The migrations and the programs that run among them, proved for every   *)
(* value of the constants of SchemaMigrations: any documents, metadata,    *)
(* dimensions, edits, commands and synchronizations.                       *)
(***************************************************************************)
EXTENDS SchemaMigrations, SumTheorems

-----------------------------------------------------------------------------
(* Scripts: the states that their statements lead through.                 *)

StepsThrough(states, db, script) ==
  /\ states[0] = db
  /\ \A n \in 1 .. Len(script) : states[n] = Executed(states[n - 1], script[n])

Leads(db, script, done) ==
  \E states : StepsThrough(states, db, script) /\ states[Len(script)] = done

(* The recursion of FoldLeft, on the sets of indices up to n.              *)
TakesLast(it, db, script, n) ==
  it = [S \in SUBSET (1 .. n) |->
          IF S = {} THEN db
          ELSE Executed(it[S \ {Max(S)}], script[Max(S)])]

LEMMA FoldExists ==
  ASSUME NEW db, NEW script, NEW n \in Nat
  PROVE  \E it : TakesLast(it, db, script, n)
<1> DEFINE G == {m \in Nat : \E it : TakesLast(it, db, script, m)}
<1>1. 0 \in G
  <2> DEFINE it == [S \in SUBSET (1 .. 0) |-> db]
  <2>1. \A S \in SUBSET (1 .. 0) : S = {}
    OBVIOUS
  <2>2. it = [S \in SUBSET (1 .. 0) |->
          IF S = {} THEN db
          ELSE Executed(it[S \ {Max(S)}], script[Max(S)])]
    BY <2>1
  <2> HIDE DEF it
  <2> QED
    BY <2>2 DEF TakesLast
<1>2. ASSUME NEW m \in G PROVE m + 1 \in G
  <2>1. PICK it : TakesLast(it, db, script, m)
    OBVIOUS
  <2> DEFINE k == m + 1
             f == [S \in SUBSET (1 .. k) |->
                     IF k \in S THEN Executed(it[S \ {k}], script[k]) ELSE it[S]]
  <2>2. ASSUME NEW S \in SUBSET (1 .. k)
        PROVE  f[S] = IF S = {} THEN db
                      ELSE Executed(f[S \ {Max(S)}], script[Max(S)])
    <3>1. CASE k \in S
      <4>1. Max(S) = k
        <5>1. Max(S) >= k /\ Max(S) \in 1 .. k
          BY <3>1, LastOfIndices
        <5> QED
          BY <5>1
      <4>2. S \ {k} \in SUBSET (1 .. k) /\ k \notin S \ {k}
        OBVIOUS
      <4>3. f[S \ {k}] = it[S \ {k}]
        BY <4>2
      <4>4. f[S] = Executed(it[S \ {k}], script[k])
        BY <3>1
      <4> QED
        BY <3>1, <4>1, <4>3, <4>4
    <3>2. CASE k \notin S
      <4>1. S \in SUBSET (1 .. m)
        BY <3>2
      <4>2. f[S] = it[S]
        BY <3>2
      <4>3. it[S] = IF S = {} THEN db
                    ELSE Executed(it[S \ {Max(S)}], script[Max(S)])
        BY <2>1, <4>1 DEF TakesLast
      <4>4. f[S \ {Max(S)}] = it[S \ {Max(S)}]
        <5>1. S \ {Max(S)} \in SUBSET (1 .. k) /\ k \notin S \ {Max(S)}
          BY <3>2
        <5> QED
          BY <5>1
      <4> HIDE DEF f
      <4> QED
        BY <4>2, <4>3, <4>4
    <3> QED
      BY <3>1, <3>2
  <2>3. TakesLast(f, db, script, k)
    <3>1. f = [S \in SUBSET (1 .. k) |-> f[S]]
      OBVIOUS
    <3> HIDE DEF f
    <3> QED
      BY <2>2, <3>1 DEF TakesLast
  <2> HIDE DEF f
  <2> QED
    BY <2>3
<1>3. G = Nat
  <2> HIDE DEF G
  <2>1. G \in SUBSET Nat
    BY DEF G
  <2> QED
    BY <1>1, <1>2, <2>1, NumberInduction
<1> QED
  BY <1>3

(* FoldLeft computes the state that the script leads to.                   *)
LEMMA FoldLeads ==
  ASSUME NEW db, NEW T, NEW script \in Seq(T), NEW done, Leads(db, script, done)
  PROVE  FoldLeft(Executed, db, script) = done
<1> DEFINE n == Len(script)
           it == CHOOSE i : TakesLast(i, db, script, n)
<1>1. n \in Nat /\ DOMAIN script = 1 .. n
  OBVIOUS
<1>2. FoldLeft(Executed, db, script) = it[1 .. n]
  BY <1>1 DEF FoldLeft, MapThenFoldSet, TakesLast
<1>3. TakesLast(it, db, script, n)
  BY <1>1, FoldExists
<1>4. PICK states : StepsThrough(states, db, script) /\ states[n] = done
  BY DEF Leads
<1> HIDE DEF it
<1> DEFINE G == {m \in Nat : m <= n => it[1 .. m] = states[m]}
<1>5. 0 \in G
  <2>1. 1 .. 0 = {} /\ {} \in SUBSET (1 .. n)
    OBVIOUS
  <2>2. it[{}] = db
    BY <1>3, <2>1 DEF TakesLast
  <2> QED
    BY <1>4, <2>1, <2>2 DEF StepsThrough
<1>6. ASSUME NEW m \in G PROVE m + 1 \in G
  <2> SUFFICES ASSUME m + 1 <= n PROVE it[1 .. (m + 1)] = states[m + 1]
    OBVIOUS
  <2>0. m \in Nat /\ m + 1 \in 1 .. (m + 1)
    OBVIOUS
  <2>1. Max(1 .. (m + 1)) = m + 1 /\ (1 .. (m + 1)) \ {m + 1} = 1 .. m
    BY <2>0, LastOfAll
  <2>2. 1 .. (m + 1) \in SUBSET (1 .. n) /\ 1 .. (m + 1) # {}
    <3>1. \A x \in 1 .. (m + 1) : x \in 1 .. n
      BY <1>1, <2>0
    <3> QED
      BY <2>0, <3>1
  <2>3. it[1 .. (m + 1)] = Executed(it[1 .. m], script[m + 1])
    BY <1>3, <2>1, <2>2 DEF TakesLast
  <2>4. it[1 .. m] = states[m]
    BY <1>1
  <2>5. states[m + 1] = Executed(states[m], script[m + 1])
    <3>1. m + 1 \in 1 .. n /\ (m + 1) - 1 = m
      BY <1>1
    <3> QED
      BY <1>4, <3>1 DEF StepsThrough
  <2> QED
    BY <2>3, <2>4, <2>5
<1>7. G = Nat
  <2> HIDE DEF G
  <2>1. G \in SUBSET Nat
    BY DEF G
  <2> QED
    BY <1>5, <1>6, <2>1, NumberInduction
<1>8. it[1 .. n] = states[n]
  BY <1>1, <1>7
<1> QED
  BY <1>2, <1>4, <1>8

(* Scripts one after the other.                                            *)
LEMMA LeadsOn ==
  ASSUME NEW T, NEW s \in Seq(T), NEW t \in Seq(T), NEW a, NEW b, NEW c,
         Leads(a, s, b), Leads(b, t, c)
  PROVE  Leads(a, s \o t, c)
<1>1. PICK f : StepsThrough(f, a, s) /\ f[Len(s)] = b
  BY DEF Leads
<1>2. PICK g : StepsThrough(g, b, t) /\ g[Len(t)] = c
  BY DEF Leads
<1> DEFINE m == Len(s)
           n == Len(t)
           h == [i \in 0 .. (m + n) |-> IF i <= m THEN f[i] ELSE g[i - m]]
<1>3. m \in Nat /\ n \in Nat /\ Len(s \o t) = m + n
  OBVIOUS
<1>4. g[0] = b /\ f[0] = a /\ f[m] = b /\ g[n] = c
  BY <1>1, <1>2 DEF StepsThrough
<1>5. \A i \in 0 .. m : h[i] = f[i]
  BY <1>3
<1>6. \A i \in 0 .. n : h[m + i] = g[i]
  <2> TAKE i \in 0 .. n
  <2>1. m + i \in 0 .. (m + n) /\ (m + i) - m = i /\ (m + i <= m => i = 0 /\ m + i = m)
    BY <1>3
  <2> QED
    BY <1>4, <2>1
<1> HIDE DEF h
<1>7. ASSUME NEW i \in 1 .. (m + n)
      PROVE  h[i] = Executed(h[i - 1], (s \o t)[i])
  <2>1. CASE i <= m
    <3>1. i \in 1 .. m /\ i \in 0 .. m /\ i - 1 \in 0 .. m
      BY <1>3, <2>1
    <3>2. (s \o t)[i] = s[i]
      BY <3>1
    <3>3. f[i] = Executed(f[i - 1], s[i])
      BY <1>1, <3>1 DEF StepsThrough
    <3> QED
      BY <1>5, <3>1, <3>2, <3>3
  <2>2. CASE i > m
    <3> DEFINE j == i - m
    <3>1. j \in 1 .. n /\ j \in 0 .. n /\ j - 1 \in 0 .. n
          /\ m + j = i /\ m + (j - 1) = i - 1
      BY <1>3, <2>2
    <3>2. (s \o t)[i] = t[j]
      BY <1>3, <2>2
    <3> HIDE DEF j
    <3>3. g[j] = Executed(g[j - 1], t[j])
      BY <1>2, <3>1 DEF StepsThrough
    <3>4. h[i] = g[j] /\ h[i - 1] = g[j - 1]
      BY <1>6, <3>1
    <3> QED
      BY <3>2, <3>3, <3>4
  <2> QED
    BY <1>3, <2>1, <2>2
<1>8. h[0] = a /\ h[m + n] = c
  BY <1>3, <1>4, <1>5, <1>6
<1> QED
  BY <1>3, <1>7, <1>8 DEF Leads, StepsThrough

(* One statement more.                                                     *)
LEMMA LeadsFurther ==
  ASSUME NEW T, NEW s \in Seq(T), NEW x \in T, NEW a, NEW b, Leads(a, s, b)
  PROVE  Leads(a, Append(s, x), Executed(b, x))
<1> DEFINE f == [i \in 0 .. 1 |-> IF i = 0 THEN b ELSE Executed(b, x)]
<1>1. <<x>> \in Seq(T) /\ Len(<<x>>) = 1 /\ <<x>>[1] = x
  OBVIOUS
<1>2. StepsThrough(f, b, <<x>>) /\ f[1] = Executed(b, x)
  BY <1>1 DEF StepsThrough
<1>3. Leads(b, <<x>>, Executed(b, x))
  <2> HIDE DEF f
  <2> QED
    BY <1>1, <1>2 DEF Leads
<1>4. Leads(a, s \o <<x>>, Executed(b, x))
  BY <1>1, <1>3, LeadsOn
<1>5. s \o <<x>> = Append(s, x)
  OBVIOUS
<1> QED
  BY <1>4, <1>5

LEMMA LeadsNowhere ==
  ASSUME NEW a
  PROVE  Leads(a, <<>>, a)
<1> DEFINE f == [i \in 0 .. 0 |-> a]
<1>1. Len(<<>>) = 0 /\ f[0] = a
  OBVIOUS
<1>2. StepsThrough(f, a, <<>>)
  BY <1>1 DEF StepsThrough
<1> HIDE DEF f
<1> QED
  BY <1>1, <1>2 DEF Leads

-----------------------------------------------------------------------------
(* Scripts that lead from each of the sets to the next one lead, in a row, *)
(* from the first set to the last.                                         *)
LEMMA ScriptsLead ==
  ASSUME NEW T, NEW seqs \in Seq(Seq(T)), NEW at, NEW a \in at[0],
         \A k \in 1 .. Len(seqs) : \A d \in at[k - 1] :
           \E e \in at[k] : Leads(d, seqs[k], e)
  PROVE  /\ FlattenSeq(seqs) \in Seq(T)
         /\ \E e \in at[Len(seqs)] : Leads(a, FlattenSeq(seqs), e)
<1> DEFINE n == Len(seqs)
           so_far == [k \in 0 .. n |->
                        {q \in Seq(T) : \E e \in at[k] : Leads(a, q, e)}]
<1>1. n \in Nat /\ \A k \in 1 .. n : seqs[k] \in Seq(T)
  OBVIOUS
<1>2. <<>> \in so_far[0]
  <2>1. <<>> \in Seq(T) /\ 0 \in 0 .. n
    BY <1>1
  <2> QED
    BY <2>1, LeadsNowhere
<1>3. ASSUME NEW k \in 1 .. n, NEW q \in so_far[k - 1]
      PROVE  q \o seqs[k] \in so_far[k]
  <2>1. k - 1 \in 0 .. n /\ k \in 0 .. n
    BY <1>1
  <2>2. PICK d \in at[k - 1] : q \in Seq(T) /\ Leads(a, q, d)
    BY <2>1
  <2>3. PICK e \in at[k] : Leads(d, seqs[k], e)
    BY <2>2
  <2>4. Leads(a, q \o seqs[k], e)
    BY <1>1, <2>2, <2>3, LeadsOn
  <2>5. q \o seqs[k] \in Seq(T)
    BY <1>1, <2>2
  <2> QED
    BY <2>1, <2>3, <2>4, <2>5
<1>4. FlattenSeq(seqs) \in so_far[n] \cap Seq(T)
  <2> HIDE DEF so_far
  <2> QED
    BY <1>2, <1>3, FlattenKeeps
<1>5. n \in 0 .. n
  BY <1>1
<1> QED
  BY <1>4, <1>5

-----------------------------------------------------------------------------
(* The schema of each revision, by the names of its objects.               *)
On(name) ==
  CASE name \in {"documents", "sync_runs", "chunks"} -> "public"
    [] name \in {"documents_hash_idx", "metadata", "metadata_hash"} ->
         "documents"
    [] name \in {"embedding", "chunks_document_id_idx"} -> "chunks"
    [] name = "chunks_embedding_hnsw_idx" -> "embedding"
    [] name = "documents_metadata_gin_idx" -> "metadata"
    [] name = "sync_runs_scanned_documents_check" -> "scanned_documents"
    [] name = "sync_runs_scanned_bytes_check" -> "scanned_bytes"
    [] name = "sync_runs_embedding_batches_check" -> "embedding_batches"
    [] name = "sync_runs_embedding_duration_ms_check" ->
         "embedding_duration_ms"
    [] OTHER -> "sync_runs"

Names1 == {"documents", "documents_hash_idx", "sync_runs", "chunks",
           "embedding", "chunks_document_id_idx"}
Names2 == Names1 \cup {"chunks_embedding_hnsw_idx"}
Names3 == Names2 \cup {"metadata", "metadata_hash",
                       "metadata_changed_documents"}
Names4 == Names3 \cup {"documents_metadata_gin_idx"}
Columns5 == {"scanned_documents", "scanned_bytes", "embedding_batches",
             "embedding_duration_ms"}
Checks5 == {"sync_runs_scanned_documents_check",
            "sync_runs_scanned_bytes_check",
            "sync_runs_embedding_batches_check",
            "sync_runs_embedding_duration_ms_check"}
Names5 == Names4 \cup Columns5 \cup Checks5 \cup {"sync_runs_finished_at_idx"}

NamesAt(r) ==
  CASE r = 0 -> {} [] r = 1 -> Names1 [] r = 2 -> Names2
    [] r = 3 -> Names3 [] r = 4 -> Names4 [] r = 5 -> Names5

Object(name) == [name |-> name, on |-> On(name)]
Objects(names) == {Object(name) : name \in names}

Db(names, rows) == [objects |-> Objects(names), documents |-> rows, ok |-> TRUE]

(* What is left when an object is dropped, with what is on it.             *)
Left(names, name) ==
  {n \in names : /\ n # name /\ On(n) # name
                 /\ ~ (On(n) \in names /\ On(On(n)) = name)}

LEMMA NamesOfObjects ==
  ASSUME NEW names
  PROVE  Names(Objects(names)) = names
<1>1. \A n : Object(n).name = n
  BY DEF Object
<1>2. \A n \in names : Object(n) \in Objects(names)
  BY DEF Objects
<1>3. \A o \in Objects(names) : o.name \in names
  BY <1>1 DEF Objects
<1>4. \A n \in names : n \in Names(Objects(names))
  BY <1>1, <1>2 DEF Names
<1>5. \A n \in Names(Objects(names)) : n \in names
  BY <1>3 DEF Names
<1> QED
  BY <1>4, <1>5

LEMMA CreateExecutes ==
  ASSUME NEW names, NEW rows, NEW name, NEW on, on = On(name),
         name \notin names, on \in names \cup {"public"}
  PROVE  Executed(Db(names, rows), Create(name, on)) =
           Db(names \cup {name}, Rewritten(Create(name, on), rows))
<1>1. Names(Objects(names)) = names
  BY NamesOfObjects
<1>2. Objects(names \cup {name}) = Objects(names) \cup {[name |-> name, on |-> on]}
  BY DEF Objects, Object
<1> QED
  BY <1>1, <1>2 DEF Executed, Db, Create

LEMMA DropExecutes ==
  ASSUME NEW names, NEW rows, NEW name, name \in names,
         name = "documents" => "chunks" \notin names,
         NEW statement, statement \in {Drop(name), DropIfExists(name)}
  PROVE  Executed(Db(names, rows), statement) =
           Db(Left(names, name), Rewritten(statement, rows))
<1> DEFINE objs == Objects(names)
           direct == {o \in objs : o.on = name}
<1>1. Names(objs) = names
  BY NamesOfObjects
<1>2. \A o \in objs : o.name \in names /\ o.on = On(o.name) /\ o = Object(o.name)
  BY DEF Objects, Object
<1>3. \A n \in names : Object(n) \in objs /\ Object(n).name = n /\ Object(n).on = On(n)
  BY DEF Objects, Object
<1>4. Names(direct) = {n \in names : On(n) = name}
  BY <1>2, <1>3 DEF Names
<1>5. Dependents(objs, name) = {o \in objs : \/ o.on = name
                                             \/ o.on \in names /\ On(o.on) = name}
  BY <1>4 DEF Dependents
<1>6. objs \ (Dependents(objs, name) \cup {o \in objs : o.name = name})
        = Objects(Left(names, name))
  <2> HIDE DEF objs
  <2> DEFINE rest == objs \ (Dependents(objs, name) \cup {o \in objs : o.name = name})
  <2>1. \A o \in rest : o \in Objects(Left(names, name))
    BY <1>2, <1>5 DEF Objects, Left
  <2>2. \A o \in Objects(Left(names, name)) : o \in rest
    BY <1>3, <1>5 DEF Objects, Left
  <2> QED
    BY <2>1, <2>2
<1> DEFINE db == Db(names, rows)
<1>7. db.ok /\ db.objects = objs /\ db.documents = rows
  BY DEF Db
<1>8. statement.name = name /\ statement.do \in {"drop", "drop if exists"}
  <2>1. CASE statement = Drop(name)
    BY <2>1 DEF Drop
  <2>2. CASE statement = DropIfExists(name)
    BY <2>2 DEF DropIfExists
  <2> QED
    BY <2>1, <2>2
<1> HIDE DEF db, objs
<1>9. Executed(db, statement) =
        [objects |-> objs \ (Dependents(objs, name) \cup {o \in objs : o.name = name}),
         ok |-> TRUE, documents |-> Rewritten(statement, rows)]
  BY <1>1, <1>7, <1>8 DEF Executed
<1> QED
  BY <1>6, <1>9 DEF Db, db

-----------------------------------------------------------------------------
(* Scripts of one kind.  The names whose statements change rows.           *)
Rewriting == {"documents", "metadata", "metadata_hash"}

Statement == [do : {"create"}, name : Names5, on : Names5 \cup {"public"}]
               \cup [do : {"drop", "drop if exists"}, name : Names5]

NamesIn(script, n) == {script[i].name : i \in 1 .. n}

LEMMA NextName ==
  ASSUME NEW script, NEW n \in Nat, n > 0
  PROVE  NamesIn(script, n) = NamesIn(script, n - 1) \cup {script[n].name}
<1>1. \A i \in 1 .. n : i \in 1 .. (n - 1) \/ i = n
  OBVIOUS
<1>2. n \in 1 .. n /\ \A i \in 1 .. (n - 1) : i \in 1 .. n
  OBVIOUS
<1> QED
  BY <1>1, <1>2 DEF NamesIn

(* Objects that are new, each on one that is there or was just created.    *)
CreatesNew(script, names) ==
  \A i \in 1 .. Len(script) :
    LET name == script[i].name
    IN  /\ script[i] = Create(name, On(name))
        /\ name \notin names \cup Rewriting
        /\ \A j \in 1 .. (i - 1) : script[j].name # name
        /\ \/ On(name) \in names \cup {"public"}
           \/ \E j \in 1 .. (i - 1) : script[j].name = On(name)

LEMMA CreatesLead ==
  ASSUME NEW names, NEW rows, NEW script \in Seq(Statement),
         CreatesNew(script, names)
  PROVE  Leads(Db(names, rows), script,
               Db(names \cup NamesIn(script, Len(script)), rows))
<1> DEFINE n == Len(script)
           states == [i \in 0 .. n |-> Db(names \cup NamesIn(script, i), rows)]
<1>1. n \in Nat
  OBVIOUS
<1>2. states[0] = Db(names, rows)
  <2>1. names \cup NamesIn(script, 0) = names
    BY DEF NamesIn
  <2>2. states[0] = Db(names \cup NamesIn(script, 0), rows)
    BY <1>1
  <2> HIDE DEF states
  <2> QED
    BY <2>1, <2>2
<1>3. states[n] = Db(names \cup NamesIn(script, n), rows)
  BY <1>1
<1>4. ASSUME NEW i \in 1 .. n
      PROVE  states[i] = Executed(states[i - 1], script[i])
  <2> DEFINE name == script[i].name
             before == names \cup NamesIn(script, i - 1)
  <2>1. /\ script[i] = Create(name, On(name))
        /\ name \notin names \cup Rewriting
        /\ \A j \in 1 .. (i - 1) : script[j].name # name
        /\ On(name) \in before \cup {"public"}
    BY DEF CreatesNew, NamesIn
  <2>2. name \notin before
    BY <2>1 DEF NamesIn
  <2>3. names \cup NamesIn(script, i) = before \cup {name}
    BY NextName
  <2>4. i \in 0 .. n /\ i - 1 \in 0 .. n
    BY <1>1
  <2>5. states[i - 1] = Db(before, rows) /\ states[i] = Db(before \cup {name}, rows)
    BY <2>3, <2>4
  <2> HIDE DEF before, states, name
  <2>6. Executed(Db(before, rows), Create(name, On(name))) =
          Db(before \cup {name}, Rewritten(Create(name, On(name)), rows))
    BY <2>1, <2>2, CreateExecutes
  <2>7. Rewritten(Create(name, On(name)), rows) = rows
    BY <2>1 DEF Rewritten, Create, Rewriting
  <2> QED
    BY <2>1, <2>5, <2>6, <2>7
<1> HIDE DEF states
<1> QED
  BY <1>2, <1>3, <1>4 DEF Leads, StepsThrough

(* Objects that nothing is on, or nothing that was not just dropped.       *)
DropsLeaves(script, names) ==
  \A i \in 1 .. Len(script) :
    LET name == script[i].name
    IN  /\ script[i] \in {Drop(name), DropIfExists(name)}
        /\ name \in names \ Rewriting
        /\ \A j \in 1 .. (i - 1) : script[j].name # name
        /\ \A other \in names : On(other) = name =>
             \E j \in 1 .. (i - 1) : script[j].name = other

LEMMA DropsLead ==
  ASSUME NEW names, NEW rows, NEW script \in Seq(Statement),
         DropsLeaves(script, names)
  PROVE  Leads(Db(names, rows), script,
               Db(names \ NamesIn(script, Len(script)), rows))
<1> DEFINE n == Len(script)
           states == [i \in 0 .. n |-> Db(names \ NamesIn(script, i), rows)]
<1>1. n \in Nat
  OBVIOUS
<1>2. states[0] = Db(names, rows)
  <2>1. names \ NamesIn(script, 0) = names
    BY DEF NamesIn
  <2>2. states[0] = Db(names \ NamesIn(script, 0), rows)
    BY <1>1
  <2> HIDE DEF states
  <2> QED
    BY <2>1, <2>2
<1>3. states[n] = Db(names \ NamesIn(script, n), rows)
  BY <1>1
<1>4. ASSUME NEW i \in 1 .. n
      PROVE  states[i] = Executed(states[i - 1], script[i])
  <2> DEFINE name == script[i].name
             before == names \ NamesIn(script, i - 1)
  <2>1. /\ script[i] \in {Drop(name), DropIfExists(name)}
        /\ name \in names \ Rewriting
        /\ \A j \in 1 .. (i - 1) : script[j].name # name
        /\ \A other \in names :
             On(other) = name => other \in NamesIn(script, i - 1)
    BY DEF DropsLeaves, NamesIn
  <2>2. name \in before /\ \A other \in before : On(other) # name
    BY <2>1 DEF NamesIn
  <2>3. names \ NamesIn(script, i) = before \ {name}
    BY NextName
  <2>4. i \in 0 .. n /\ i - 1 \in 0 .. n
    BY <1>1
  <2>5. states[i - 1] = Db(before, rows) /\ states[i] = Db(before \ {name}, rows)
    BY <2>3, <2>4
  <2> HIDE DEF before, states
  <2>6. Left(before, name) = before \ {name}
    BY <2>2 DEF Left
  <2>7. name # "documents"
    BY <2>1 DEF Rewriting
  <2>8. Executed(Db(before, rows), script[i]) =
          Db(Left(before, name), Rewritten(script[i], rows))
    BY <2>1, <2>2, <2>7, DropExecutes
  <2>9. Rewritten(script[i], rows) = rows
    BY <2>1 DEF Rewritten, Rewriting
  <2> QED
    BY <2>5, <2>6, <2>8, <2>9
<1> HIDE DEF states
<1> QED
  BY <1>2, <1>3, <1>4 DEF Leads, StepsThrough

-----------------------------------------------------------------------------
(* The rows at a revision that are left of those there were at the start   *)
(* of a command: the columns are those of the schema, the hash is of the   *)
(* metadata, and content and vectors are as they were.                     *)
MetasAt(r) == IF r >= 3 THEN Metas ELSE {Absent}

Row(r) == [content_hash : Contents, metadata : MetasAt(r),
           metadata_hash : MetasAt(r),
           vector : [sync : Nat, dimension : {Dimension}]]

RowFits(row, r) == row \in Row(r) /\ r >= 1 /\ row.metadata_hash = row.metadata

Kept(row, old) ==
  old # Absent /\ row.content_hash = old.content_hash /\ row.vector = old.vector

RowsAt(r, start) ==
  {rows \in [Paths -> Row(r) \cup {Absent}] :
     \A path \in Paths : rows[path] # Absent =>
       RowFits(rows[path], r) /\ Kept(rows[path], start[path])}

At(r, start) == {Db(NamesAt(r), rows) : rows \in RowsAt(r, start)}

LEMMA RowsStay ==
  ASSUME NEW start, NEW r, NEW q, NEW rows \in RowsAt(r, start),
         MetasAt(q) = MetasAt(r), r >= 1 => q >= 1
  PROVE  rows \in RowsAt(q, start)
BY DEF RowsAt, RowFits, Row

LEMMA NoRowsFit ==
  ASSUME NEW start, NEW r
  PROVE  [path \in Paths |-> Absent] \in RowsAt(r, start)
BY DEF RowsAt

LEMMA OnFacts ==
  /\ On("documents") = "public" /\ On("sync_runs") = "public"
  /\ On("chunks") = "public"
  /\ On("documents_hash_idx") = "documents" /\ On("metadata") = "documents"
  /\ On("metadata_hash") = "documents"
  /\ On("embedding") = "chunks" /\ On("chunks_document_id_idx") = "chunks"
  /\ On("chunks_embedding_hnsw_idx") = "embedding"
  /\ On("documents_metadata_gin_idx") = "metadata"
  /\ On("metadata_changed_documents") = "sync_runs"
  /\ On("scanned_documents") = "sync_runs"
  /\ On("scanned_bytes") = "sync_runs"
  /\ On("embedding_batches") = "sync_runs"
  /\ On("embedding_duration_ms") = "sync_runs"
  /\ On("sync_runs_finished_at_idx") = "sync_runs"
  /\ On("sync_runs_scanned_documents_check") = "scanned_documents"
  /\ On("sync_runs_scanned_bytes_check") = "scanned_bytes"
  /\ On("sync_runs_embedding_batches_check") = "embedding_batches"
  /\ On("sync_runs_embedding_duration_ms_check") = "embedding_duration_ms"
BY DEF On


LEMMA AtDb ==
  ASSUME NEW start, NEW r, NEW d
  PROVE  d \in At(r, start) <=>
           \E rows \in RowsAt(r, start) : d = Db(NamesAt(r), rows)
BY DEF At

LEMMA Up2Leads ==
  ASSUME NEW rows
  PROVE  /\ Up2 \in Seq(Statement)
         /\ Leads(Db(Names1, rows), Up2, Db(Names2, rows))
<1> DEFINE new == "chunks_embedding_hnsw_idx"
<1>1. Create(new, "embedding") \in Statement
  BY DEF Create, Statement, Names5, Names4, Names3, Names2, Names1
<1>2. /\ Up2 \in Seq(Statement) /\ Len(Up2) = 1
      /\ Up2[1] = Create(new, "embedding") /\ Up2[1].name = new
  BY <1>1 DEF Up2, Create
<1>3. CreatesNew(Up2, Names1)
  BY <1>2, OnFacts DEF CreatesNew, Names1, Rewriting
<1>4. Names1 \cup NamesIn(Up2, 1) = Names2
  BY <1>2 DEF NamesIn, Names2
<1> QED
  BY <1>2, <1>3, <1>4, CreatesLead

LEMMA Up4Leads ==
  ASSUME NEW rows
  PROVE  /\ Up4 \in Seq(Statement)
         /\ Leads(Db(Names3, rows), Up4, Db(Names4, rows))
<1> DEFINE new == "documents_metadata_gin_idx"
<1>1. Create(new, "metadata") \in Statement
  BY DEF Create, Statement, Names5, Names4, Names3, Names2, Names1
<1>2. /\ Up4 \in Seq(Statement) /\ Len(Up4) = 1
      /\ Up4[1] = Create(new, "metadata") /\ Up4[1].name = new
  BY <1>1 DEF Up4, Create
<1>3. CreatesNew(Up4, Names3)
  BY <1>2, OnFacts DEF CreatesNew, Names1, Names2, Names3, Rewriting
<1>4. Names3 \cup NamesIn(Up4, 1) = Names4
  BY <1>2 DEF NamesIn, Names4
<1> QED
  BY <1>2, <1>3, <1>4, CreatesLead

LEMMA Down2Leads ==
  ASSUME NEW rows
  PROVE  /\ Down2 \in Seq(Statement)
         /\ Leads(Db(Names2, rows), Down2, Db(Names1, rows))
<1> DEFINE old == "chunks_embedding_hnsw_idx"
<1>1. DropIfExists(old) \in Statement
  BY DEF DropIfExists, Statement, Names5, Names4, Names3, Names2, Names1
<1>2. /\ Down2 \in Seq(Statement) /\ Len(Down2) = 1
      /\ Down2[1] = DropIfExists(old) /\ Down2[1].name = old
  <2>1. DropIfExists(old).name = old
    BY DEF DropIfExists
  <2>2. Down2 = << DropIfExists(old) >>
    BY DEF Down2
  <2> HIDE DEF old
  <2> QED
    BY <1>1, <2>1, <2>2
<1>3. \A name : On(name) # old
  BY DEF On
<1>4. DropsLeaves(Down2, Names2)
  BY <1>2, <1>3 DEF DropsLeaves, Names2, Rewriting
<1>5. Names2 \ NamesIn(Down2, 1) = Names1
  BY <1>2 DEF NamesIn, Names2, Names1
<1> QED
  BY <1>2, <1>4, <1>5, DropsLead

LEMMA Down4Leads ==
  ASSUME NEW rows
  PROVE  /\ Down4 \in Seq(Statement)
         /\ Leads(Db(Names4, rows), Down4, Db(Names3, rows))
<1> DEFINE old == "documents_metadata_gin_idx"
<1>1. DropIfExists(old) \in Statement
  BY DEF DropIfExists, Statement, Names5, Names4, Names3, Names2, Names1
<1>2. /\ Down4 \in Seq(Statement) /\ Len(Down4) = 1
      /\ Down4[1] = DropIfExists(old) /\ Down4[1].name = old
  <2>1. DropIfExists(old).name = old
    BY DEF DropIfExists
  <2>2. Down4 = << DropIfExists(old) >>
    BY DEF Down4
  <2> HIDE DEF old
  <2> QED
    BY <1>1, <2>1, <2>2
<1>3. \A name : On(name) # old
  BY DEF On
<1>4. DropsLeaves(Down4, Names4)
  BY <1>2, <1>3 DEF DropsLeaves, Names4, Rewriting
<1>5. Names4 \ NamesIn(Down4, 1) = Names3
  BY <1>2 DEF NamesIn, Names4, Names3, Names2, Names1
<1> QED
  BY <1>2, <1>4, <1>5, DropsLead

LEMMA MetricsAndChecks ==
  /\ Len(Metrics) = 4 /\ DOMAIN Metrics = 1 .. 4
  /\ Metrics[1] = "scanned_documents" /\ Metrics[2] = "scanned_bytes"
  /\ Metrics[3] = "embedding_batches" /\ Metrics[4] = "embedding_duration_ms"
  /\ Len(Checks) = 4 /\ DOMAIN Checks = 1 .. 4
  /\ Checks[1] = "sync_runs_scanned_documents_check"
  /\ Checks[2] = "sync_runs_scanned_bytes_check"
  /\ Checks[3] = "sync_runs_embedding_batches_check"
  /\ Checks[4] = "sync_runs_embedding_duration_ms_check"
BY DEF Metrics, Checks

LEMMA ConcatElements ==
  ASSUME NEW T, NEW s \in Seq(T), NEW t \in Seq(T)
  PROVE  /\ s \o t \in Seq(T) /\ Len(s \o t) = Len(s) + Len(t)
         /\ \A i \in 1 .. Len(s) : (s \o t)[i] = s[i]
         /\ \A i \in 1 .. Len(t) : (s \o t)[Len(s) + i] = t[i]
OBVIOUS

LEMMA PartElements ==
  ASSUME NEW T, NEW s \in Seq(T), NEW a \in 1 .. Len(s), NEW b \in a .. Len(s)
  PROVE  SubSeq(s, a, b) \in Seq(T)
<1>1. SubSeq(s, a, b) = [i \in 1 .. (b - a + 1) |-> s[a + i - 1]]
  OBVIOUS
<1>2. \A i \in 1 .. (b - a + 1) : a + i - 1 \in 1 .. Len(s)
  OBVIOUS
<1>3. \A i \in 1 .. (b - a + 1) : s[a + i - 1] \in T
  BY <1>2
<1>4. b - a + 1 \in Nat
  OBVIOUS
<1> QED
  BY <1>1, <1>3, <1>4

LEMMA Up5Statements ==
  /\ Up5 \in Seq(Statement) /\ Len(Up5) = 9
  /\ \A i \in 1 .. 4 : Up5[i] = Create(Metrics[i], "sync_runs")
  /\ \A i \in 1 .. 4 : Up5[4 + i] = Create(Checks[i], Metrics[i])
  /\ Up5[9] = Create("sync_runs_finished_at_idx", "sync_runs")
<1> DEFINE a == [i \in DOMAIN Metrics |-> Create(Metrics[i], "sync_runs")]
           b == [i \in DOMAIN Checks |-> Create(Checks[i], Metrics[i])]
           c == << Create("sync_runs_finished_at_idx", "sync_runs") >>
<1>1. \A i \in 1 .. 4 : Metrics[i] \in Names5 /\ Checks[i] \in Names5
  <2>1. \A i \in 1 .. 4 : i = 1 \/ i = 2 \/ i = 3 \/ i = 4
    OBVIOUS
  <2> QED
    BY <2>1, MetricsAndChecks DEF Names5, Columns5, Checks5
<1>2. "sync_runs" \in Names5 /\ "sync_runs_finished_at_idx" \in Names5
  BY DEF Names5, Names4, Names3, Names2, Names1
<1>3. a \in Seq(Statement) /\ Len(a) = 4
      /\ \A i \in 1 .. 4 : a[i] = Create(Metrics[i], "sync_runs")
  <2>1. \A i \in 1 .. 4 : Create(Metrics[i], "sync_runs") \in Statement
    BY <1>1, <1>2 DEF Create, Statement
  <2> QED
    BY <2>1, MetricsAndChecks
<1>4. b \in Seq(Statement) /\ Len(b) = 4
      /\ \A i \in 1 .. 4 : b[i] = Create(Checks[i], Metrics[i])
  <2>1. \A i \in 1 .. 4 : Create(Checks[i], Metrics[i]) \in Statement
    BY <1>1 DEF Create, Statement
  <2> QED
    BY <2>1, MetricsAndChecks
<1>5. c \in Seq(Statement) /\ Len(c) = 1
      /\ c[1] = Create("sync_runs_finished_at_idx", "sync_runs")
  <2>1. Create("sync_runs_finished_at_idx", "sync_runs") \in Statement
    BY <1>2 DEF Create, Statement
  <2> QED
    BY <2>1
<1>6. Up5 = (a \o b) \o c
  BY DEF Up5
<1> HIDE DEF a, b, c
<1>7. /\ a \o b \in Seq(Statement) /\ Len(a \o b) = 8
      /\ \A i \in 1 .. 4 : (a \o b)[i] = a[i]
      /\ \A i \in 1 .. 4 : (a \o b)[4 + i] = b[i]
  <2>1. /\ a \o b \in Seq(Statement) /\ Len(a \o b) = Len(a) + Len(b)
        /\ \A i \in 1 .. Len(a) : (a \o b)[i] = a[i]
        /\ \A i \in 1 .. Len(b) : (a \o b)[Len(a) + i] = b[i]
    <3>1. a \in Seq(Statement) /\ b \in Seq(Statement)
      BY <1>3, <1>4
    <3> QED
      BY <3>1, ConcatElements
  <2>2. Len(a) = 4 /\ Len(b) = 4 /\ 4 + 4 = 8
    BY <1>3, <1>4
  <2> QED
    BY <2>1, <2>2
<1>8. /\ (a \o b) \o c \in Seq(Statement) /\ Len((a \o b) \o c) = 9
      /\ \A i \in 1 .. 8 : ((a \o b) \o c)[i] = (a \o b)[i]
      /\ ((a \o b) \o c)[9] = c[1]
  <2>1. /\ (a \o b) \o c \in Seq(Statement)
        /\ Len((a \o b) \o c) = Len(a \o b) + Len(c)
        /\ \A i \in 1 .. Len(a \o b) : ((a \o b) \o c)[i] = (a \o b)[i]
        /\ \A i \in 1 .. Len(c) : ((a \o b) \o c)[Len(a \o b) + i] = c[i]
    <3>1. a \o b \in Seq(Statement) /\ c \in Seq(Statement)
      BY <1>5, <1>7
    <3> QED
      BY <3>1, ConcatElements
  <2>2. Len(a \o b) = 8 /\ Len(c) = 1 /\ 8 + 1 = 9 /\ 1 \in 1 .. 1
    BY <1>5, <1>7
  <2> QED
    BY <2>1, <2>2
<1>9. \A i \in 1 .. 4 : i \in 1 .. 8 /\ 4 + i \in 1 .. 8
  OBVIOUS
<1>10. ASSUME NEW i \in 1 .. 4
       PROVE  /\ Up5[i] = Create(Metrics[i], "sync_runs")
              /\ Up5[4 + i] = Create(Checks[i], Metrics[i])
  <2>1. Up5[i] = (a \o b)[i] /\ Up5[4 + i] = (a \o b)[4 + i]
    BY <1>6, <1>8, <1>9
  <2> QED
    BY <1>3, <1>4, <1>7, <2>1
<1> QED
  BY <1>5, <1>6, <1>8, <1>10
LEMMA Up5Listed ==
  /\ Up5[1] = Create("scanned_documents", "sync_runs")
  /\ Up5[2] = Create("scanned_bytes", "sync_runs")
  /\ Up5[3] = Create("embedding_batches", "sync_runs")
  /\ Up5[4] = Create("embedding_duration_ms", "sync_runs")
  /\ Up5[5] = Create("sync_runs_scanned_documents_check", "scanned_documents")
  /\ Up5[6] = Create("sync_runs_scanned_bytes_check", "scanned_bytes")
  /\ Up5[7] = Create("sync_runs_embedding_batches_check", "embedding_batches")
  /\ Up5[8] = Create("sync_runs_embedding_duration_ms_check",
                     "embedding_duration_ms")
  /\ Up5[9] = Create("sync_runs_finished_at_idx", "sync_runs")
<1>1. \A i \in 1 .. 4 : Up5[i] = Create(Metrics[i], "sync_runs")
  BY Up5Statements
<1>2. /\ Up5[4 + 1] = Create(Checks[1], Metrics[1])
      /\ Up5[4 + 2] = Create(Checks[2], Metrics[2])
      /\ Up5[4 + 3] = Create(Checks[3], Metrics[3])
      /\ Up5[4 + 4] = Create(Checks[4], Metrics[4])
  BY Up5Statements
<1>3. 4 + 1 = 5 /\ 4 + 2 = 6 /\ 4 + 3 = 7 /\ 4 + 4 = 8
  OBVIOUS
<1> QED
  BY <1>1, <1>2, <1>3, MetricsAndChecks, Up5Statements

(* The number of a statement of Up5, from the name in it.                  *)
Nth5(name) ==
  CASE name = "scanned_documents" -> 1
    [] name = "scanned_bytes" -> 2
    [] name = "embedding_batches" -> 3
    [] name = "embedding_duration_ms" -> 4
    [] name = "sync_runs_scanned_documents_check" -> 5
    [] name = "sync_runs_scanned_bytes_check" -> 6
    [] name = "sync_runs_embedding_batches_check" -> 7
    [] name = "sync_runs_embedding_duration_ms_check" -> 8
    [] name = "sync_runs_finished_at_idx" -> 9

New5 == Columns5 \cup Checks5 \cup {"sync_runs_finished_at_idx"}

LEMMA Up5Numbers ==
  ASSUME NEW i \in 1 .. 9
  PROVE  /\ Up5[i].name \in New5 /\ Nth5(Up5[i].name) = i
         /\ Up5[i] = Create(Up5[i].name, On(Up5[i].name))
<1>1. \/ i = 1 \/ i = 2 \/ i = 3 \/ i = 4 \/ i = 5 \/ i = 6 \/ i = 7
      \/ i = 8 \/ i = 9
  OBVIOUS
<1>2. \A name, on : Create(name, on).name = name
  BY DEF Create
<1>3. /\ Up5[i].name \in New5
      /\ Up5[i] = Create(Up5[i].name, On(Up5[i].name))
  BY <1>1, <1>2, Up5Listed, OnFacts DEF New5, Columns5, Checks5
<1>4. Nth5(Up5[i].name) = i
  BY <1>1, <1>2, Up5Listed DEF Nth5
<1> QED
  BY <1>3, <1>4

LEMMA Up5Leads ==
  ASSUME NEW rows
  PROVE  Leads(Db(Names4, rows), Up5, Db(Names5, rows))
<1>1. \A name \in New5 :
        /\ name \notin Names4 \cup Rewriting
        /\ \/ On(name) = "sync_runs"
           \/ /\ On(name) \in Columns5 /\ Nth5(name) \in 5 .. 8
              /\ On(name) = Up5[Nth5(name) - 4].name
  <2>1. \A name, on : Create(name, on).name = name
    BY DEF Create
  <2>2. 5 - 4 = 1 /\ 6 - 4 = 2 /\ 7 - 4 = 3 /\ 8 - 4 = 4
    OBVIOUS
  <2>3. \A name \in Columns5 \cup {"sync_runs_finished_at_idx"} :
          On(name) = "sync_runs"
    BY OnFacts DEF Columns5
  <2>4. \A name \in Checks5 :
              /\ On(name) \in Columns5 /\ Nth5(name) \in 5 .. 8
              /\ On(name) = Up5[Nth5(name) - 4].name
    BY <2>1, <2>2, OnFacts, Up5Listed DEF Columns5, Checks5, Nth5
  <2>5. \A name \in New5 : name \notin Names4 \cup Rewriting
    BY DEF New5, Columns5, Checks5, Names4, Names3, Names2, Names1, Rewriting
  <2> QED
    BY <2>3, <2>4, <2>5 DEF New5
<1>2. "sync_runs" \in Names4
  BY DEF Names4, Names3, Names2, Names1
<1>3. CreatesNew(Up5, Names4)
  <2> SUFFICES ASSUME NEW i \in 1 .. 9
      PROVE  /\ Up5[i] = Create(Up5[i].name, On(Up5[i].name))
             /\ Up5[i].name \notin Names4 \cup Rewriting
             /\ \A j \in 1 .. (i - 1) : Up5[j].name # Up5[i].name
             /\ \/ On(Up5[i].name) \in Names4 \cup {"public"}
                \/ \E j \in 1 .. (i - 1) : Up5[j].name = On(Up5[i].name)
    BY Up5Statements DEF CreatesNew
  <2>1. \A j \in 1 .. (i - 1) : j \in 1 .. 9 /\ j # i
    OBVIOUS
  <2>2. \A j \in 1 .. (i - 1) : Up5[j].name # Up5[i].name
    BY <2>1, Up5Numbers
  <2>3. Up5[i].name \in New5 /\ Nth5(Up5[i].name) = i
    BY Up5Numbers
  <2>4. i \in 5 .. 8 => i - 4 \in 1 .. (i - 1)
    OBVIOUS
  <2> QED
    BY <1>1, <1>2, <2>2, <2>3, <2>4, Up5Numbers
<1>4. NamesIn(Up5, 9) = New5
  <2>1. \A name \in NamesIn(Up5, 9) : name \in New5
    BY Up5Numbers DEF NamesIn
  <2>2. ASSUME NEW name \in New5 PROVE \E i \in 1 .. 9 : Up5[i].name = name
    <3>1. \A n, on : Create(n, on).name = n
      BY DEF Create
    <3> QED
      BY <3>1, Up5Listed DEF New5, Columns5, Checks5
  <2> QED
    BY <2>1, <2>2 DEF NamesIn
<1>5. Names4 \cup New5 = Names5
  BY DEF Names5, New5
<1> QED
  BY <1>3, <1>4, <1>5, Up5Statements, CreatesLead

LEMMA Down5Statements ==
  /\ Down5 \in Seq(Statement) /\ Len(Down5) = 9
  /\ Down5[1] = Drop("sync_runs_finished_at_idx")
  /\ \A i \in 1 .. 4 : Down5[1 + i] = Drop(Reverse(Checks)[i])
  /\ \A i \in 1 .. 4 : Down5[5 + i] = Drop(Reverse(Metrics)[i])
  /\ \A i \in 1 .. 4 : Reverse(Checks)[i] = Checks[5 - i]
  /\ \A i \in 1 .. 4 : Reverse(Metrics)[i] = Metrics[5 - i]
<1> DEFINE a == << Drop("sync_runs_finished_at_idx") >>
           b == [i \in DOMAIN Checks |-> Drop(Reverse(Checks)[i])]
           c == [i \in DOMAIN Metrics |-> Drop(Reverse(Metrics)[i])]
<1>1. \A i \in 1 .. 4 : /\ Reverse(Checks)[i] = Checks[5 - i]
                        /\ Reverse(Metrics)[i] = Metrics[5 - i]
  <2>1. \A i \in 1 .. 4 : 4 - i + 1 = 5 - i
    OBVIOUS
  <2> QED
    BY <2>1, MetricsAndChecks DEF Reverse
<1>2. \A i \in 1 .. 4 : Checks[5 - i] \in Names5 /\ Metrics[5 - i] \in Names5
  <2>1. \A i \in 1 .. 4 : \/ (i = 1 /\ 5 - i = 4) \/ (i = 2 /\ 5 - i = 3)
                          \/ (i = 3 /\ 5 - i = 2) \/ (i = 4 /\ 5 - i = 1)
    OBVIOUS
  <2> QED
    BY <2>1, MetricsAndChecks DEF Names5, Columns5, Checks5
<1>3. "sync_runs_finished_at_idx" \in Names5
  BY DEF Names5
<1>4. \A name \in Names5 : Drop(name) \in Statement
  BY DEF Drop, Statement
<1>5. a \in Seq(Statement) /\ Len(a) = 1
      /\ a[1] = Drop("sync_runs_finished_at_idx")
  BY <1>3, <1>4
<1>6. b \in Seq(Statement) /\ Len(b) = 4
      /\ \A i \in 1 .. 4 : b[i] = Drop(Reverse(Checks)[i])
  <2>1. \A i \in 1 .. 4 : Drop(Reverse(Checks)[i]) \in Statement
    BY <1>1, <1>2, <1>4
  <2> QED
    BY <2>1, MetricsAndChecks
<1>7. c \in Seq(Statement) /\ Len(c) = 4
      /\ \A i \in 1 .. 4 : c[i] = Drop(Reverse(Metrics)[i])
  <2>1. \A i \in 1 .. 4 : Drop(Reverse(Metrics)[i]) \in Statement
    BY <1>1, <1>2, <1>4
  <2> QED
    BY <2>1, MetricsAndChecks
<1>8. Down5 = (a \o b) \o c
  BY DEF Down5
<1> HIDE DEF a, b, c
<1>9. /\ a \o b \in Seq(Statement) /\ Len(a \o b) = 5
      /\ (a \o b)[1] = a[1]
      /\ \A i \in 1 .. 4 : (a \o b)[1 + i] = b[i]
  <2>1. /\ a \o b \in Seq(Statement) /\ Len(a \o b) = Len(a) + Len(b)
        /\ \A i \in 1 .. Len(a) : (a \o b)[i] = a[i]
        /\ \A i \in 1 .. Len(b) : (a \o b)[Len(a) + i] = b[i]
    <3>1. a \in Seq(Statement) /\ b \in Seq(Statement)
      BY <1>5, <1>6
    <3> QED
      BY <3>1, ConcatElements
  <2>2. Len(a) = 1 /\ Len(b) = 4 /\ 1 + 4 = 5 /\ 1 \in 1 .. 1
    BY <1>5, <1>6
  <2> QED
    BY <2>1, <2>2
<1>10. /\ (a \o b) \o c \in Seq(Statement) /\ Len((a \o b) \o c) = 9
       /\ \A i \in 1 .. 5 : ((a \o b) \o c)[i] = (a \o b)[i]
       /\ \A i \in 1 .. 4 : ((a \o b) \o c)[5 + i] = c[i]
  <2>1. /\ (a \o b) \o c \in Seq(Statement)
        /\ Len((a \o b) \o c) = Len(a \o b) + Len(c)
        /\ \A i \in 1 .. Len(a \o b) : ((a \o b) \o c)[i] = (a \o b)[i]
        /\ \A i \in 1 .. Len(c) : ((a \o b) \o c)[Len(a \o b) + i] = c[i]
    <3>1. a \o b \in Seq(Statement) /\ c \in Seq(Statement)
      BY <1>7, <1>9
    <3> QED
      BY <3>1, ConcatElements
  <2>2. Len(a \o b) = 5 /\ Len(c) = 4 /\ 5 + 4 = 9
    BY <1>7, <1>9
  <2> QED
    BY <2>1, <2>2
<1>11. \A i \in 1 .. 4 : 1 + i \in 1 .. 5
  OBVIOUS
<1>12. 1 \in 1 .. 5
  OBVIOUS
<1>13. ASSUME NEW i \in 1 .. 4
       PROVE  /\ Down5[1 + i] = Drop(Reverse(Checks)[i])
              /\ Down5[5 + i] = Drop(Reverse(Metrics)[i])
  <2>1. Down5[1 + i] = (a \o b)[1 + i]
    BY <1>8, <1>10, <1>11
  <2>2. (a \o b)[1 + i] = b[i]
    BY <1>9
  <2>3. Down5[5 + i] = c[i]
    BY <1>8, <1>10
  <2> QED
    BY <1>6, <1>7, <2>1, <2>2, <2>3
<1>14. Down5[1] = Drop("sync_runs_finished_at_idx")
  BY <1>5, <1>8, <1>9, <1>10, <1>12
<1> QED
  BY <1>1, <1>8, <1>10, <1>13, <1>14

LEMMA Down5Listed ==
  /\ Down5[1] = Drop("sync_runs_finished_at_idx")
  /\ Down5[2] = Drop("sync_runs_embedding_duration_ms_check")
  /\ Down5[3] = Drop("sync_runs_embedding_batches_check")
  /\ Down5[4] = Drop("sync_runs_scanned_bytes_check")
  /\ Down5[5] = Drop("sync_runs_scanned_documents_check")
  /\ Down5[6] = Drop("embedding_duration_ms")
  /\ Down5[7] = Drop("embedding_batches")
  /\ Down5[8] = Drop("scanned_bytes")
  /\ Down5[9] = Drop("scanned_documents")
<1>1. /\ Down5[1 + 1] = Drop(Checks[5 - 1])
      /\ Down5[1 + 2] = Drop(Checks[5 - 2])
      /\ Down5[1 + 3] = Drop(Checks[5 - 3])
      /\ Down5[1 + 4] = Drop(Checks[5 - 4])
  BY Down5Statements
<1>2. /\ Down5[5 + 1] = Drop(Metrics[5 - 1])
      /\ Down5[5 + 2] = Drop(Metrics[5 - 2])
      /\ Down5[5 + 3] = Drop(Metrics[5 - 3])
      /\ Down5[5 + 4] = Drop(Metrics[5 - 4])
  BY Down5Statements
<1>3. /\ 1 + 1 = 2 /\ 1 + 2 = 3 /\ 1 + 3 = 4 /\ 1 + 4 = 5
      /\ 5 + 1 = 6 /\ 5 + 2 = 7 /\ 5 + 3 = 8 /\ 5 + 4 = 9
      /\ 5 - 1 = 4 /\ 5 - 2 = 3 /\ 5 - 3 = 2 /\ 5 - 4 = 1
  OBVIOUS
<1> QED
  BY <1>1, <1>2, <1>3, MetricsAndChecks, Down5Statements

(* The number of a statement of Down5, from the name in it.                *)
NthDown5(name) ==
  CASE name = "sync_runs_finished_at_idx" -> 1
    [] name = "sync_runs_embedding_duration_ms_check" -> 2
    [] name = "sync_runs_embedding_batches_check" -> 3
    [] name = "sync_runs_scanned_bytes_check" -> 4
    [] name = "sync_runs_scanned_documents_check" -> 5
    [] name = "embedding_duration_ms" -> 6
    [] name = "embedding_batches" -> 7
    [] name = "scanned_bytes" -> 8
    [] name = "scanned_documents" -> 9

LEMMA Down5Numbers ==
  ASSUME NEW i \in 1 .. 9
  PROVE  /\ Down5[i].name \in New5 /\ NthDown5(Down5[i].name) = i
         /\ Down5[i] = Drop(Down5[i].name)
<1>1. \/ i = 1 \/ i = 2 \/ i = 3 \/ i = 4 \/ i = 5 \/ i = 6 \/ i = 7
      \/ i = 8 \/ i = 9
  OBVIOUS
<1>2. \A name : Drop(name).name = name
  BY DEF Drop
<1>3. Down5[i].name \in New5 /\ Down5[i] = Drop(Down5[i].name)
  BY <1>1, <1>2, Down5Listed DEF New5, Columns5, Checks5
<1>4. NthDown5(Down5[i].name) = i
  BY <1>1, <1>2, Down5Listed DEF NthDown5
<1> QED
  BY <1>3, <1>4

LEMMA Down5Leads ==
  ASSUME NEW rows
  PROVE  Leads(Db(Names5, rows), Down5, Db(Names4, rows))
<1>1. \A name \in New5 : /\ name \in Names5 \ Rewriting
                         /\ Down5[NthDown5(name)].name = name
                         /\ NthDown5(name) \in 1 .. 9
  <2>1. \A n : Drop(n).name = n
    BY DEF Drop
  <2>2. \A name \in New5 : name \in Names5 \ Rewriting
    BY DEF New5, Names5, Columns5, Checks5, Rewriting
  <2> QED
    BY <2>1, <2>2, Down5Listed DEF New5, Columns5, Checks5, NthDown5
<1>2. \A other \in Names5 : On(other) \in New5 =>
         other \in New5 /\ NthDown5(other) < NthDown5(On(other))
  <2>1. \A other \in Names4 : On(other) \notin New5
    BY OnFacts DEF New5, Columns5, Checks5, Names4, Names3, Names2, Names1
  <2>2. \A other \in Columns5 \cup {"sync_runs_finished_at_idx"} :
          On(other) \notin New5
    BY OnFacts DEF New5, Columns5, Checks5
  <2>3. \A other \in Checks5 : NthDown5(other) < NthDown5(On(other))
    BY OnFacts DEF Checks5, NthDown5
  <2> QED
    BY <2>1, <2>2, <2>3 DEF New5, Names5
<1>3. DropsLeaves(Down5, Names5)
  <2> SUFFICES ASSUME NEW i \in 1 .. 9
      PROVE  /\ Down5[i] \in {Drop(Down5[i].name), DropIfExists(Down5[i].name)}
             /\ Down5[i].name \in Names5 \ Rewriting
             /\ \A j \in 1 .. (i - 1) : Down5[j].name # Down5[i].name
             /\ \A other \in Names5 : On(other) = Down5[i].name =>
                  \E j \in 1 .. (i - 1) : Down5[j].name = other
    BY Down5Statements DEF DropsLeaves
  <2>1. \A j \in 1 .. (i - 1) : j \in 1 .. 9 /\ j # i
    OBVIOUS
  <2>2. \A j \in 1 .. (i - 1) : Down5[j].name # Down5[i].name
    BY <2>1, Down5Numbers
  <2>3. /\ Down5[i].name \in New5 /\ NthDown5(Down5[i].name) = i
        /\ Down5[i] = Drop(Down5[i].name)
    BY Down5Numbers
  <2>4. ASSUME NEW other \in Names5, On(other) = Down5[i].name
        PROVE  \E j \in 1 .. (i - 1) : Down5[j].name = other
    <3>1. other \in New5 /\ NthDown5(other) < i
      BY <1>2, <2>3, <2>4
    <3>2. Down5[NthDown5(other)].name = other /\ NthDown5(other) \in 1 .. 9
      BY <1>1, <3>1
    <3>3. NthDown5(other) \in 1 .. (i - 1)
      BY <3>1, <3>2
    <3> QED
      BY <3>2, <3>3
  <2> QED
    BY <1>1, <2>2, <2>3, <2>4
<1>4. NamesIn(Down5, 9) = New5
  <2>1. \A name \in NamesIn(Down5, 9) : name \in New5
    BY Down5Numbers DEF NamesIn
  <2> QED
    BY <1>1, <2>1 DEF NamesIn
<1>5. Names5 \ New5 = Names4
  BY DEF Names5, New5, Names4, Names3, Names2, Names1, Columns5, Checks5
<1> QED
  BY <1>3, <1>4, <1>5, Down5Statements, DropsLead

(* The migrations that rewrite rows.                                       *)
NoRows == [path \in Paths |-> Absent]

LEMMA OneStatementLeads ==
  ASSUME NEW x, NEW a
  PROVE  Leads(a, <<x>>, Executed(a, x))
<1>1. <<>> \in Seq({x}) /\ Append(<<>>, x) = <<x>> /\ x \in {x}
  OBVIOUS
<1>2. Leads(a, <<>>, a)
  BY LeadsNowhere
<1> QED
  BY <1>1, <1>2, LeadsFurther

LEMMA ThreeStatementsLead ==
  ASSUME NEW x, NEW y, NEW z, NEW a
  PROVE  Leads(a, <<x, y, z>>, Executed(Executed(Executed(a, x), y), z))
<1> DEFINE T == {x, y, z}
<1>1. /\ <<x>> \in Seq(T) /\ <<x, y>> \in Seq(T) /\ y \in T /\ z \in T
      /\ <<x, y>> = Append(<<x>>, y) /\ <<x, y, z>> = Append(<<x, y>>, z)
  OBVIOUS
<1>2. Leads(a, <<x>>, Executed(a, x))
  BY OneStatementLeads
<1> HIDE DEF T
<1>3. Leads(a, <<x, y>>, Executed(Executed(a, x), y))
  BY <1>1, <1>2, LeadsFurther
<1> QED
  BY <1>1, <1>3, LeadsFurther

LEMMA Up1Leads ==
  ASSUME NEW rows
  PROVE  /\ Up1 \in Seq(Statement)
         /\ Leads(Db({}, rows), Up1, Db(Names1, NoRows))
<1> DEFINE first == Create("documents", "public")
           rest == << Create("documents_hash_idx", "documents"),
                      Create("sync_runs", "public"),
                      Create("chunks", "public"),
                      Create("embedding", "chunks"),
                      Create("chunks_document_id_idx", "chunks") >>
<1>1. \A name \in Names1, on \in Names1 \cup {"public"} :
        Create(name, on) \in Statement
  BY DEF Create, Statement, Names5, Names4, Names3, Names2
<1>2. /\ first \in Statement
      /\ Create("documents_hash_idx", "documents") \in Statement
      /\ Create("sync_runs", "public") \in Statement
      /\ Create("chunks", "public") \in Statement
      /\ Create("embedding", "chunks") \in Statement
      /\ Create("chunks_document_id_idx", "chunks") \in Statement
  BY <1>1 DEF Names1
<1>3. /\ rest \in Seq(Statement) /\ Len(rest) = 5
      /\ rest[1] = Create("documents_hash_idx", "documents")
      /\ rest[2] = Create("sync_runs", "public")
      /\ rest[3] = Create("chunks", "public")
      /\ rest[4] = Create("embedding", "chunks")
      /\ rest[5] = Create("chunks_document_id_idx", "chunks")
  BY <1>2
<1>4. Up1 = <<first>> \o rest /\ <<first>> \in Seq(Statement)
  BY <1>2 DEF Up1, CreateTable
<1>5. Leads(Db({}, rows), <<first>>, Db({"documents"}, NoRows))
  <2>1. Executed(Db({}, rows), first) =
          Db({} \cup {"documents"}, Rewritten(first, rows))
    BY OnFacts, CreateExecutes
  <2>2. Rewritten(first, rows) = NoRows
    BY DEF Rewritten, Create, NoRows
  <2>3. {} \cup {"documents"} = {"documents"}
    OBVIOUS
  <2> QED
    BY <2>1, <2>2, <2>3, OneStatementLeads
<1> HIDE DEF first, rest
<1>6. /\ rest[1].name = "documents_hash_idx" /\ rest[2].name = "sync_runs"
      /\ rest[3].name = "chunks" /\ rest[4].name = "embedding"
      /\ rest[5].name = "chunks_document_id_idx"
  BY <1>3 DEF Create
<1>7. CreatesNew(rest, {"documents"})
  <2> DEFINE New(i) ==
        /\ rest[i] = Create(rest[i].name, On(rest[i].name))
        /\ rest[i].name \notin {"documents"} \cup Rewriting
        /\ \A j \in 1 .. (i - 1) : rest[j].name # rest[i].name
        /\ \/ On(rest[i].name) \in {"documents"} \cup {"public"}
           \/ \E j \in 1 .. (i - 1) : rest[j].name = On(rest[i].name)
  <2>1. New(1)
    BY <1>3, <1>6, OnFacts DEF Rewriting
  <2>2. New(2)
    BY <1>3, <1>6, OnFacts DEF Rewriting
  <2>3. New(3)
    BY <1>3, <1>6, OnFacts DEF Rewriting
  <2>4. New(4)
    BY <1>3, <1>6, OnFacts DEF Rewriting
  <2>5. New(5)
    BY <1>3, <1>6, OnFacts DEF Rewriting
  <2> HIDE DEF New
  <2>6. \A i \in 1 .. 5 : i = 1 \/ i = 2 \/ i = 3 \/ i = 4 \/ i = 5
    OBVIOUS
  <2>7. \A i \in 1 .. 5 : New(i)
    BY <2>1, <2>2, <2>3, <2>4, <2>5, <2>6
  <2> QED
    BY <1>3, <2>7 DEF New, CreatesNew
<1>8. {"documents"} \cup NamesIn(rest, 5) = Names1
  BY <1>6 DEF NamesIn, Names1
<1>9. Leads(Db({"documents"}, NoRows), rest, Db(Names1, NoRows))
  BY <1>3, <1>7, <1>8, CreatesLead
<1>10. Up1 \in Seq(Statement)
  BY <1>3, <1>4
<1> QED
  BY <1>3, <1>4, <1>5, <1>9, <1>10, LeadsOn

LEMMA Down1Leads ==
  ASSUME NEW rows
  PROVE  /\ Down1 \in Seq(Statement)
         /\ Leads(Db(Names1, rows), Down1, Db({}, NoRows))
<1> DEFINE x == Drop("chunks")
           y == Drop("sync_runs")
           z == Drop("documents")
           names2 == {"documents", "documents_hash_idx", "sync_runs"}
           names3 == {"documents", "documents_hash_idx"}
<1>1. x \in Statement /\ y \in Statement /\ z \in Statement
  BY DEF Drop, Statement, Names5, Names4, Names3, Names2, Names1
<1>2. Executed(Db(Names1, rows), x) = Db(names2, rows)
  <2>1. Left(Names1, "chunks") = names2
    BY OnFacts DEF Left, Names1
  <2>2. Rewritten(x, rows) = rows
    BY DEF Rewritten, Drop
  <2>3. "chunks" \in Names1
    BY DEF Names1
  <2> QED
    BY <2>1, <2>2, <2>3, DropExecutes
<1>3. Executed(Db(names2, rows), y) = Db(names3, rows)
  <2>1. Left(names2, "sync_runs") = names3
    BY OnFacts DEF Left
  <2>2. Rewritten(y, rows) = rows
    BY DEF Rewritten, Drop
  <2> QED
    BY <2>1, <2>2, DropExecutes
<1>4. Executed(Db(names3, rows), z) = Db({}, NoRows)
  <2>1. Left(names3, "documents") = {}
    BY OnFacts DEF Left
  <2>2. Rewritten(z, rows) = NoRows
    BY DEF Rewritten, Drop, NoRows
  <2>3. "chunks" \notin names3 /\ "documents" \in names3
    OBVIOUS
  <2> HIDE DEF names3
  <2> QED
    BY <2>1, <2>2, <2>3, DropExecutes
<1>5. Down1 = <<x, y, z>>
  BY DEF Down1
<1> HIDE DEF x, y, z, names2, names3
<1>6. Down1 \in Seq(Statement)
  BY <1>1, <1>5
<1> QED
  BY <1>2, <1>3, <1>4, <1>5, <1>6, ThreeStatementsLead

(* The rows with a column added, or taken away.                            *)
Filled(name, default, rows) ==
  [path \in Paths |->
     IF rows[path] = Absent THEN Absent ELSE [rows[path] EXCEPT ![name] = default]]

LEMMA RewrittenFills ==
  ASSUME NEW rows
  PROVE  /\ Rewritten(Create("metadata", "documents"), rows) =
              Filled("metadata", Empty, rows)
         /\ Rewritten(Create("metadata_hash", "documents"), rows) =
              Filled("metadata_hash", Empty, rows)
         /\ Rewritten(Drop("metadata"), rows) =
              Filled("metadata", Absent, rows)
         /\ Rewritten(Drop("metadata_hash"), rows) =
              Filled("metadata_hash", Absent, rows)
BY DEF Rewritten, Create, Drop, Filled, EmptyHash

(* Both columns of a row.                                                  *)
LEMMA FilledRow ==
  ASSUME NEW r, NEW q, NEW row \in Row(r), NEW default \in MetasAt(q)
  PROVE  LET meta == [row EXCEPT !["metadata"] = default]
             both == [meta EXCEPT !["metadata_hash"] = default]
             hash == [row EXCEPT !["metadata_hash"] = default]
             bothDown == [hash EXCEPT !["metadata"] = default]
         IN  /\ both = bothDown
             /\ both \in Row(q) /\ both.metadata_hash = both.metadata
             /\ both.content_hash = row.content_hash
             /\ both.vector = row.vector
BY DEF Row

LEMMA FilledRows ==
  ASSUME NEW start, NEW r, NEW q, NEW rows \in RowsAt(r, start),
         NEW default \in MetasAt(q), r >= 1 => q >= 1
  PROVE  /\ Filled("metadata_hash", default, Filled("metadata", default, rows))
              \in RowsAt(q, start)
         /\ Filled("metadata", default, Filled("metadata_hash", default, rows))
              \in RowsAt(q, start)
<1> DEFINE up == Filled("metadata_hash", default, Filled("metadata", default, rows))
           down == Filled("metadata", default, Filled("metadata_hash", default, rows))
<1>1. ASSUME NEW path \in Paths
      PROVE  /\ \/ up[path] = Absent
                \/ RowFits(up[path], q) /\ Kept(up[path], start[path])
             /\ \/ down[path] = Absent
                \/ RowFits(down[path], q) /\ Kept(down[path], start[path])
  <2>1. CASE rows[path] = Absent
    BY <2>1 DEF Filled
  <2>2. CASE rows[path] # Absent
    <3> DEFINE row == rows[path]
    <3>1. row \in Row(r) /\ RowFits(row, r) /\ Kept(row, start[path])
      BY <2>2 DEF RowsAt
    <3> DEFINE meta == [row EXCEPT !["metadata"] = default]
               both == [meta EXCEPT !["metadata_hash"] = default]
               hash == [row EXCEPT !["metadata_hash"] = default]
               bothDown == [hash EXCEPT !["metadata"] = default]
    <3>2. /\ both = bothDown
          /\ both \in Row(q) /\ both.metadata_hash = both.metadata
          /\ both.content_hash = row.content_hash
          /\ both.vector = row.vector
      BY <3>1, FilledRow
    <3>3. up[path] \in {Absent, both}
      BY DEF Filled
    <3>4. down[path] \in {Absent, bothDown}
      BY DEF Filled
    <3>5. RowFits(both, q) /\ Kept(both, start[path])
      <4> HIDE DEF both, bothDown, row
      <4> QED
        BY <3>1, <3>2 DEF RowFits, Kept
    <3> HIDE DEF both, bothDown, row, up, down
    <3> QED
      BY <3>2, <3>3, <3>4, <3>5
  <2> QED
    BY <2>1, <2>2
<1>2. up \in [Paths -> Row(q) \cup {Absent}] /\ down \in [Paths -> Row(q) \cup {Absent}]
  <2>1. up = [path \in Paths |-> up[path]] /\ down = [path \in Paths |-> down[path]]
    BY DEF Filled
  <2>2. \A path \in Paths : /\ up[path] \in Row(q) \cup {Absent}
                           /\ down[path] \in Row(q) \cup {Absent}
    BY <1>1 DEF RowFits
  <2> HIDE DEF up, down
  <2> QED
    BY <2>1, <2>2
<1> HIDE DEF up, down
<1>3. up \in RowsAt(q, start) /\ down \in RowsAt(q, start)
  BY <1>1, <1>2 DEF RowsAt
<1> QED
  BY <1>3 DEF up, down

LEMMA Up3Leads ==
  ASSUME NEW start, NEW rows \in RowsAt(2, start)
  PROVE  /\ Up3 \in Seq(Statement)
         /\ \E after \in RowsAt(3, start) :
              Leads(Db(Names2, rows), Up3, Db(Names3, after))
<1> DEFINE x == Create("metadata", "documents")
           y == Create("metadata_hash", "documents")
           z == Create("metadata_changed_documents", "sync_runs")
           names3 == Names2 \cup {"metadata"}
           names4 == names3 \cup {"metadata_hash"}
           rows3 == Filled("metadata", Empty, rows)
           rows4 == Filled("metadata_hash", Empty, rows3)
<1>1. x \in Statement /\ y \in Statement /\ z \in Statement
  BY DEF Create, Statement, Names5, Names4, Names3, Names2, Names1
<1>2. Executed(Db(Names2, rows), x) = Db(names3, rows3)
  <2>1. "metadata" \notin Names2 /\ "documents" \in Names2 \cup {"public"}
    BY DEF Names2, Names1
  <2> QED
    BY <2>1, OnFacts, CreateExecutes, RewrittenFills
<1>3. Executed(Db(names3, rows3), y) = Db(names4, rows4)
  <2>1. "metadata_hash" \notin names3 /\ "documents" \in names3 \cup {"public"}
    BY DEF Names2, Names1
  <2> HIDE DEF names3, rows3
  <2> QED
    BY <2>1, OnFacts, CreateExecutes, RewrittenFills
<1>4. Executed(Db(names4, rows4), z) = Db(Names3, rows4)
  <2>1. "metadata_changed_documents" \notin names4
    BY DEF Names2, Names1
  <2>2. "sync_runs" \in names4 \cup {"public"}
    BY DEF Names2, Names1
  <2>3. names4 \cup {"metadata_changed_documents"} = Names3
    BY DEF Names3
  <2> HIDE DEF names4, rows4
  <2>4. Rewritten(z, rows4) = rows4
    BY DEF Rewritten, Create
  <2> QED
    BY <2>1, <2>2, <2>3, <2>4, OnFacts, CreateExecutes
<1>5. Up3 = <<x, y, z>>
  BY DEF Up3
<1>6. rows4 \in RowsAt(3, start)
  <2>1. Empty \in MetasAt(3)
    BY OneDimension DEF MetasAt
  <2> QED
    BY <2>1, FilledRows
<1> HIDE DEF x, y, z, names3, names4, rows3, rows4
<1>7. Up3 \in Seq(Statement)
  BY <1>1, <1>5
<1> QED
  BY <1>2, <1>3, <1>4, <1>5, <1>6, <1>7, ThreeStatementsLead

LEMMA Down3Leads ==
  ASSUME NEW start, NEW rows \in RowsAt(3, start)
  PROVE  /\ Down3 \in Seq(Statement)
         /\ \E after \in RowsAt(2, start) :
              Leads(Db(Names3, rows), Down3, Db(Names2, after))
<1> DEFINE x == Drop("metadata_changed_documents")
           y == Drop("metadata_hash")
           z == Drop("metadata")
           names2 == Names2 \cup {"metadata", "metadata_hash"}
           names3 == Names2 \cup {"metadata"}
           rows3 == Filled("metadata_hash", Absent, rows)
           rows4 == Filled("metadata", Absent, rows3)
<1>1. x \in Statement /\ y \in Statement /\ z \in Statement
  BY DEF Drop, Statement, Names5, Names4, Names3, Names2, Names1
<1>2. Executed(Db(Names3, rows), x) = Db(names2, rows)
  <2>1. Left(Names3, "metadata_changed_documents") = names2
    BY OnFacts DEF Left, Names3, Names2, Names1
  <2>2. Rewritten(x, rows) = rows
    BY DEF Rewritten, Drop
  <2>3. "metadata_changed_documents" \in Names3
    BY DEF Names3
  <2> HIDE DEF names2
  <2> QED
    BY <2>1, <2>2, <2>3, DropExecutes
<1>3. Executed(Db(names2, rows), y) = Db(names3, rows3)
  <2>1. Left(names2, "metadata_hash") = names3
    BY OnFacts DEF Left, Names2, Names1
  <2>2. "metadata_hash" \in names2
    OBVIOUS
  <2> HIDE DEF names2, names3
  <2> QED
    BY <2>1, <2>2, DropExecutes, RewrittenFills
<1>4. Executed(Db(names3, rows3), z) = Db(Names2, rows4)
  <2>1. Left(names3, "metadata") = Names2
    BY OnFacts DEF Left, Names2, Names1
  <2>2. "metadata" \in names3
    OBVIOUS
  <2> HIDE DEF names3, rows3
  <2> QED
    BY <2>1, <2>2, DropExecutes, RewrittenFills
<1>5. Down3 = <<x, y, z>>
  BY DEF Down3
<1>6. rows4 \in RowsAt(2, start)
  <2>1. Absent \in MetasAt(2)
    BY DEF MetasAt
  <2> QED
    BY <2>1, FilledRows
<1> HIDE DEF x, y, z, names2, names3, rows3, rows4
<1>7. Down3 \in Seq(Statement)
  BY <1>1, <1>5
<1> QED
  BY <1>2, <1>3, <1>4, <1>5, <1>6, <1>7, ThreeStatementsLead

-----------------------------------------------------------------------------
(* Every migration leads from one revision to the next, up and down.       *)
LEMMA NamesAtFacts ==
  /\ NamesAt(0) = {} /\ NamesAt(1) = Names1 /\ NamesAt(2) = Names2
  /\ NamesAt(3) = Names3 /\ NamesAt(4) = Names4 /\ NamesAt(5) = Names5
BY DEF NamesAt

LEMMA LatestIsFive ==
  /\ Latest = 5 /\ Len(Upgrades) = 5 /\ Len(Downgrades) = 5
  /\ Upgrades[1] = Up1 /\ Upgrades[2] = Up2 /\ Upgrades[3] = Up3
  /\ Upgrades[4] = Up4 /\ Upgrades[5] = Up5
  /\ Downgrades[1] = Down1 /\ Downgrades[2] = Down2 /\ Downgrades[3] = Down3
  /\ Downgrades[4] = Down4 /\ Downgrades[5] = Down5
BY DEF Latest, Upgrades, Downgrades

LEMMA UpgradesLead ==
  ASSUME NEW start, NEW r \in 1 .. 5, NEW d \in At(r - 1, start)
  PROVE  /\ Upgrades[r] \in Seq(Statement)
         /\ \E e \in At(r, start) : Leads(d, Upgrades[r], e)
<1>1. PICK rows \in RowsAt(r - 1, start) : d = Db(NamesAt(r - 1), rows)
  BY AtDb
<1>2. SUFFICES /\ Upgrades[r] \in Seq(Statement)
               /\ \E after \in RowsAt(r, start) :
                    Leads(d, Upgrades[r], Db(NamesAt(r), after))
  BY AtDb
<1>3. CASE r = 1
  <2>1. d = Db({}, rows) /\ Upgrades[r] = Up1 /\ NamesAt(r) = Names1
    BY <1>1, <1>3, NamesAtFacts, LatestIsFive
  <2>2. NoRows \in RowsAt(r, start)
    BY NoRowsFit DEF NoRows
  <2> QED
    BY <2>1, <2>2, Up1Leads
<1>4. CASE r = 2
  <2>1. d = Db(Names1, rows) /\ Upgrades[r] = Up2 /\ NamesAt(r) = Names2
    BY <1>1, <1>4, NamesAtFacts, LatestIsFive
  <2>2. rows \in RowsAt(r, start)
    <3>1. MetasAt(r) = MetasAt(r - 1)
      BY <1>4 DEF MetasAt
    <3> QED
      BY <1>1, <1>4, <3>1, RowsStay
  <2> QED
    BY <2>1, <2>2, Up2Leads
<1>5. CASE r = 3
  <2>1. /\ d = Db(Names2, rows) /\ Upgrades[r] = Up3 /\ NamesAt(r) = Names3
        /\ rows \in RowsAt(2, start)
    BY <1>1, <1>5, NamesAtFacts, LatestIsFive
  <2> QED
    BY <1>5, <2>1, Up3Leads
<1>6. CASE r = 4
  <2>1. d = Db(Names3, rows) /\ Upgrades[r] = Up4 /\ NamesAt(r) = Names4
    BY <1>1, <1>6, NamesAtFacts, LatestIsFive
  <2>2. rows \in RowsAt(r, start)
    <3>1. MetasAt(r) = MetasAt(r - 1)
      BY <1>6 DEF MetasAt
    <3> QED
      BY <1>1, <1>6, <3>1, RowsStay
  <2> QED
    BY <2>1, <2>2, Up4Leads
<1>7. CASE r = 5
  <2>1. d = Db(Names4, rows) /\ Upgrades[r] = Up5 /\ NamesAt(r) = Names5
    BY <1>1, <1>7, NamesAtFacts, LatestIsFive
  <2>2. rows \in RowsAt(r, start)
    <3>1. MetasAt(r) = MetasAt(r - 1)
      BY <1>7 DEF MetasAt
    <3> QED
      BY <1>1, <1>7, <3>1, RowsStay
  <2> QED
    BY <2>1, <2>2, Up5Leads, Up5Statements
<1> QED
  BY <1>3, <1>4, <1>5, <1>6, <1>7

LEMMA DowngradesLead ==
  ASSUME NEW start, NEW r \in 1 .. 5, NEW d \in At(r, start)
  PROVE  /\ Downgrades[r] \in Seq(Statement)
         /\ \E e \in At(r - 1, start) : Leads(d, Downgrades[r], e)
<1>1. PICK rows \in RowsAt(r, start) : d = Db(NamesAt(r), rows)
  BY AtDb
<1>2. SUFFICES /\ Downgrades[r] \in Seq(Statement)
               /\ \E after \in RowsAt(r - 1, start) :
                    Leads(d, Downgrades[r], Db(NamesAt(r - 1), after))
  BY AtDb
<1>3. CASE r = 1
  <2>1. d = Db(Names1, rows) /\ Downgrades[r] = Down1 /\ NamesAt(r - 1) = {}
    BY <1>1, <1>3, NamesAtFacts, LatestIsFive
  <2>2. NoRows \in RowsAt(r - 1, start)
    BY NoRowsFit DEF NoRows
  <2> QED
    BY <2>1, <2>2, Down1Leads
<1>4. CASE r = 2
  <2>1. d = Db(Names2, rows) /\ Downgrades[r] = Down2 /\ NamesAt(r - 1) = Names1
    BY <1>1, <1>4, NamesAtFacts, LatestIsFive
  <2>2. rows \in RowsAt(r - 1, start)
    <3>1. MetasAt(r) = MetasAt(r - 1)
      BY <1>4 DEF MetasAt
    <3> QED
      BY <1>1, <1>4, <3>1, RowsStay
  <2> QED
    BY <2>1, <2>2, Down2Leads
<1>5. CASE r = 3
  <2>1. /\ d = Db(Names3, rows) /\ Downgrades[r] = Down3 /\ NamesAt(r - 1) = Names2
        /\ rows \in RowsAt(3, start) /\ r - 1 = 2
    BY <1>1, <1>5, NamesAtFacts, LatestIsFive
  <2> QED
    BY <2>1, Down3Leads
<1>6. CASE r = 4
  <2>1. d = Db(Names4, rows) /\ Downgrades[r] = Down4 /\ NamesAt(r - 1) = Names3
    BY <1>1, <1>6, NamesAtFacts, LatestIsFive
  <2>2. rows \in RowsAt(r - 1, start)
    <3>1. MetasAt(r) = MetasAt(r - 1)
      BY <1>6 DEF MetasAt
    <3> QED
      BY <1>1, <1>6, <3>1, RowsStay
  <2> QED
    BY <2>1, <2>2, Down4Leads
<1>7. CASE r = 5
  <2>1. d = Db(Names5, rows) /\ Downgrades[r] = Down5 /\ NamesAt(r - 1) = Names4
    BY <1>1, <1>7, NamesAtFacts, LatestIsFive
  <2>2. rows \in RowsAt(r - 1, start)
    <3>1. MetasAt(r) = MetasAt(r - 1)
      BY <1>7 DEF MetasAt
    <3> QED
      BY <1>1, <1>7, <3>1, RowsStay
  <2> QED
    BY <2>1, <2>2, Down5Leads, Down5Statements
<1> QED
  BY <1>3, <1>4, <1>5, <1>6, <1>7

(* A statement list's type, apart from any database.                       *)
LEMMA MigrationsAreScripts ==
  Upgrades \in Seq(Seq(Statement)) /\ Downgrades \in Seq(Seq(Statement))
<1>1. /\ Up1 \in Seq(Statement) /\ Up2 \in Seq(Statement)
      /\ Up4 \in Seq(Statement) /\ Up5 \in Seq(Statement)
  BY Up1Leads, Up2Leads, Up4Leads, Up5Statements
<1>2. /\ Down1 \in Seq(Statement) /\ Down2 \in Seq(Statement)
      /\ Down4 \in Seq(Statement) /\ Down5 \in Seq(Statement)
  BY Down1Leads, Down2Leads, Down4Leads, Down5Statements
<1>3. Up3 \in Seq(Statement) /\ Down3 \in Seq(Statement)
  <2>1. NoRows \in RowsAt(2, NoRows) /\ NoRows \in RowsAt(3, NoRows)
    BY NoRowsFit DEF NoRows
  <2> QED
    BY <2>1, Up3Leads, Down3Leads
<1> QED
  BY <1>1, <1>2, <1>3 DEF Upgrades, Downgrades

(* A whole command succeeds, and leads from the schema of one revision to  *)
(* that of the target.                                                     *)
LEMMA CommandLeads ==
  ASSUME NEW start, version \in 0 .. 5, NEW target \in 0 .. 5, target # version,
         NEW db \in At(version, start)
  PROVE  FoldLeft(Executed, db, Script(target)) \in At(target, start)
<1>1. CASE target > version
  <2> DEFINE seqs == SubSeq(Upgrades, version + 1, target)
             at == [k \in 0 .. 5 |-> At(version + k, start)]
             n == target - version
  <2>1. /\ seqs \in Seq(Seq(Statement)) /\ Len(seqs) = n /\ n \in 0 .. 5
        /\ \A k \in 1 .. n : seqs[k] = Upgrades[version + k]
    <3>1. version + 1 \in 1 .. 5 /\ target \in 1 .. 5 /\ Len(Upgrades) = 5
      BY <1>1, LatestIsFive
    <3>2. seqs \in Seq(Seq(Statement))
      <4>1. version + 1 \in 1 .. Len(Upgrades) /\ target \in (version + 1) .. Len(Upgrades)
        BY <1>1, <3>1
      <4> QED
        BY <4>1, MigrationsAreScripts, PartElements
    <3>3. Len(seqs) = n /\ n \in 0 .. 5
      BY <1>1, <3>1, MigrationsAreScripts
    <3>4. ASSUME NEW k \in 1 .. n PROVE seqs[k] = Upgrades[version + k]
      <4>1. (version + 1) + k - 1 = version + k
        OBVIOUS
      <4> QED
        BY <1>1, <3>1, <4>1, MigrationsAreScripts
    <3> QED
      BY <3>2, <3>3, <3>4
  <2>2. db \in at[0] /\ at[n] = At(target, start)
    BY <1>1
  <2>3. ASSUME NEW k \in 1 .. Len(seqs), NEW d \in at[k - 1]
        PROVE  \E e \in at[k] : Leads(d, seqs[k], e)
    <3> DEFINE r == version + k
    <3>1. /\ r \in 1 .. 5 /\ at[k - 1] = At(r - 1, start) /\ at[k] = At(r, start)
          /\ seqs[k] = Upgrades[r]
      <4>1. k \in 1 .. n
        BY <2>1
      <4>2. k \in 0 .. 5 /\ k - 1 \in 0 .. 5 /\ version + k \in 1 .. 5
            /\ version + (k - 1) = version + k - 1
        BY <4>1
      <4> QED
        BY <2>1, <4>1, <4>2
    <3> HIDE DEF r, at, seqs
    <3> QED
      BY <3>1, UpgradesLead
  <2>4. Script(target) = FlattenSeq(seqs)
    BY <1>1 DEF Script
  <2> HIDE DEF at, seqs
  <2>5. /\ FlattenSeq(seqs) \in Seq(Statement)
        /\ \E e \in at[Len(seqs)] : Leads(db, FlattenSeq(seqs), e)
    BY <2>1, <2>2, <2>3, ScriptsLead
  <2> QED
    BY <2>1, <2>2, <2>4, <2>5, FoldLeads
<1>2. CASE ~ target > version
  <2> DEFINE part == SubSeq(Downgrades, target + 1, version)
             seqs == Reverse(part)
             at == [k \in 0 .. 5 |-> At(version - k, start)]
             n == version - target
  <2>1. /\ part \in Seq(Seq(Statement)) /\ Len(part) = n /\ n \in 0 .. 5
        /\ \A k \in 1 .. n : part[k] = Downgrades[target + k]
    <3>1. target + 1 \in 1 .. 5 /\ version \in 1 .. 5 /\ Len(Downgrades) = 5
      BY <1>2, LatestIsFive
    <3>2. part \in Seq(Seq(Statement))
      <4>1. target + 1 \in 1 .. Len(Downgrades) /\ version \in (target + 1) .. Len(Downgrades)
        BY <1>2, <3>1
      <4> QED
        BY <4>1, MigrationsAreScripts, PartElements
    <3>3. Len(part) = n /\ n \in 0 .. 5
      BY <1>2, <3>1, MigrationsAreScripts
    <3>4. ASSUME NEW k \in 1 .. n PROVE part[k] = Downgrades[target + k]
      <4>1. (target + 1) + k - 1 = target + k
        OBVIOUS
      <4> QED
        BY <1>2, <3>1, <4>1, MigrationsAreScripts
    <3> QED
      BY <3>2, <3>3, <3>4
  <2> HIDE DEF part
  <2>2. /\ seqs \in Seq(Seq(Statement)) /\ Len(seqs) = n
        /\ \A k \in 1 .. n : seqs[k] = Downgrades[version - k + 1]
    <3>1. \A k \in 1 .. n : /\ n - k + 1 \in 1 .. n
                            /\ target + (n - k + 1) = version - k + 1
      BY <2>1
    <3>2. seqs = [k \in 1 .. n |-> part[n - k + 1]]
      BY <2>1 DEF Reverse
    <3>3. \A k \in 1 .. n : part[n - k + 1] \in Seq(Statement)
      BY <2>1, <3>1
    <3> HIDE DEF seqs
    <3>4. seqs \in Seq(Seq(Statement)) /\ Len(seqs) = n
      BY <2>1, <3>2, <3>3
    <3> QED
      BY <2>1, <3>1, <3>2, <3>4
  <2>3. db \in at[0] /\ at[n] = At(target, start)
    BY <1>2
  <2>4. ASSUME NEW k \in 1 .. Len(seqs), NEW d \in at[k - 1]
        PROVE  \E e \in at[k] : Leads(d, seqs[k], e)
    <3> DEFINE r == version - k + 1
    <3>1. /\ r \in 1 .. 5 /\ at[k - 1] = At(r, start) /\ at[k] = At(r - 1, start)
          /\ seqs[k] = Downgrades[r]
      <4>1. k \in 1 .. n
        BY <2>2
      <4>2. k \in 0 .. 5 /\ k - 1 \in 0 .. 5 /\ version - k + 1 \in 1 .. 5
            /\ version - (k - 1) = version - k + 1
            /\ version - k = (version - k + 1) - 1
        BY <4>1
      <4> QED
        BY <2>2, <4>1, <4>2
    <3> HIDE DEF r, at, seqs
    <3> QED
      BY <3>1, DowngradesLead
  <2>5. Script(target) = FlattenSeq(seqs)
    BY <1>2 DEF Script, part
  <2> HIDE DEF at, seqs
  <2>6. /\ FlattenSeq(seqs) \in Seq(Statement)
        /\ \E e \in at[Len(seqs)] : Leads(db, FlattenSeq(seqs), e)
    BY <2>2, <2>3, <2>4, ScriptsLead
  <2> QED
    BY <2>2, <2>3, <2>5, <2>6, FoldLeads
<1> QED
  BY <1>1, <1>2

-----------------------------------------------------------------------------
(* The inductive invariant: the schema is the revision's by its objects'   *)
(* names, every row fits it, and a ready program has the column's          *)
(* dimension.                                                              *)
Programs ==
  {Off} \cup {app_ \in [stage : {"tables", "revision", "vector", "ready"},
                       dimension : Dimensions, model : Dimensions,
                       loaded : BOOLEAN] :
              app_.stage = "ready" => app_.dimension = Dimension}

MigrationsInv ==
  /\ version \in 0 .. 5
  /\ objects = Objects(NamesAt(version))
  /\ documents \in RowsAt(version, documents)
  /\ conflict = FALSE
  /\ source \in Scans
  /\ app \in Programs
  /\ syncs \in Nat

LEMMA RowsFitThemselves ==
  ASSUME NEW start, NEW r, NEW rows \in RowsAt(r, start)
  PROVE  rows \in RowsAt(r, rows)
BY DEF RowsAt, Kept

LEMMA InitInv == Init => MigrationsInv
<1> SUFFICES ASSUME Init PROVE MigrationsInv
  OBVIOUS
<1>1. Objects(NamesAt(0)) = {}
  BY DEF Objects, NamesAt
<1>2. documents \in RowsAt(0, documents)
  BY NoRowsFit DEF Init
<1>3. app \in Programs
  BY DEF Init, Programs
<1> QED
  BY <1>1, <1>2, <1>3 DEF Init, MigrationsInv

(* A command is never refused, and keeps what it leaves of the rows.       *)
LEMMA MigrateStep ==
  ASSUME MigrationsInv, Migrate
  PROVE  MigrationsInv' /\ documents' \in RowsAt(version', documents)
         /\ UNCHANGED <<source, syncs>>
<1>1. PICK target \in (0 .. Latest) \ {version} :
        LET db == FoldLeft(Executed,
                    [objects |-> objects, documents |-> documents, ok |-> TRUE],
                    Script(target))
        IN  IF db.ok
            THEN /\ objects' = db.objects /\ documents' = db.documents
                 /\ version' = target /\ UNCHANGED conflict
            ELSE conflict' = TRUE /\ UNCHANGED <<objects, documents, version>>
  BY DEF Migrate
<1> DEFINE before == [objects |-> objects, documents |-> documents, ok |-> TRUE]
           db == FoldLeft(Executed, before, Script(target))
<1>2. before = Db(NamesAt(version), documents)
  BY DEF MigrationsInv, Db
<1>3. before \in At(version, documents)
  BY <1>2, AtDb DEF MigrationsInv
<1>4. db \in At(target, documents)
  <2>1. target \in 0 .. 5 /\ target # version /\ version \in 0 .. 5
    BY LatestIsFive DEF MigrationsInv
  <2> HIDE DEF before
  <2> QED
    BY <1>3, <2>1, CommandLeads
<1>5. PICK rows \in RowsAt(target, documents) : db = Db(NamesAt(target), rows)
  BY <1>4, AtDb
<1>6. /\ db.ok /\ db.objects = Objects(NamesAt(target)) /\ db.documents = rows
  <2> HIDE DEF db
  <2> QED
    BY <1>5 DEF Db
<1>7. /\ objects' = Objects(NamesAt(target)) /\ documents' = rows
      /\ version' = target /\ conflict' = conflict
  <2> HIDE DEF db
  <2> QED
    BY <1>1, <1>6 DEF db
<1>8. UNCHANGED <<source, app, edits, syncs>>
  BY DEF Migrate
<1>9. documents' \in RowsAt(version', documents')
  BY <1>7, RowsFitThemselves
<1>10. target \in 0 .. 5
  BY LatestIsFive
<1> QED
  BY <1>5, <1>7, <1>8, <1>9, <1>10 DEF MigrationsInv

LEMMA ProgramSteps ==
  ASSUME MigrationsInv, EditSource \/ Start \/ Stop \/ CheckTables
                        \/ CheckRevision \/ CheckVector
  PROVE  MigrationsInv' /\ UNCHANGED <<documents, version, syncs>>
<1>1. CASE EditSource
  BY <1>1 DEF EditSource, MigrationsInv
<1>2. CASE Start
  <2>1. app' \in Programs
    BY <1>2 DEF Start, Programs
  <2> QED
    BY <1>2, <2>1 DEF Start, Rest, MigrationsInv
<1>3. CASE Stop
  <2>1. app' \in Programs
    BY <1>3 DEF Stop, Programs
  <2> QED
    BY <1>3, <2>1 DEF Stop, Rest, MigrationsInv
<1>4. CASE CheckTables
  <2>1. app' \in Programs
    BY <1>4 DEF CheckTables, Require, MigrationsInv, Programs, Off
  <2> QED
    BY <1>4, <2>1 DEF CheckTables, Require, Rest, MigrationsInv
<1>5. CASE CheckRevision
  <2>1. app' \in Programs
    BY <1>5 DEF CheckRevision, Require, MigrationsInv, Programs, Off
  <2> QED
    BY <1>5, <2>1 DEF CheckRevision, Require, Rest, MigrationsInv
<1>6. CASE CheckVector
  <2>1. app' \in Programs
    BY <1>6 DEF CheckVector, Require, TypeMatches, MigrationsInv, Programs, Off
  <2> QED
    BY <1>6, <2>1 DEF CheckVector, Require, Rest, MigrationsInv
<1> QED
  BY <1>1, <1>2, <1>3, <1>4, <1>5, <1>6

(* The statements of a sync name columns of the last revision only.        *)
LEMMA ColumnsOfRevision ==
  ASSUME NEW r \in 0 .. 5
  PROVE  /\ RunColumns \subseteq NamesAt(r) => r = 5
         /\ "documents" \in NamesAt(r) <=> r >= 1
         /\ "metadata" \in NamesAt(r) <=> r >= 3
<1>1. r = 0 \/ r = 1 \/ r = 2 \/ r = 3 \/ r = 4 \/ r = 5
  OBVIOUS
<1>2. "scanned_documents" \in RunColumns
  <2>1. Metrics[1] \in Range(Metrics)
    BY MetricsAndChecks DEF Range
  <2> QED
    BY <2>1, MetricsAndChecks DEF RunColumns
<1>3. "scanned_documents" \notin Names4
  BY DEF Names4, Names3, Names2, Names1
<1>4. NamesAt(r) = Names5 \/ NamesAt(r) \subseteq Names4
  BY <1>1, NamesAtFacts DEF Names4, Names3, Names2
<1>5. RunColumns \subseteq NamesAt(r) => r = 5
  <2>1. r # 5 => NamesAt(r) \subseteq Names4
    BY <1>1, NamesAtFacts DEF Names4, Names3, Names2
  <2> QED
    BY <1>2, <1>3, <2>1
<1>6. "documents" \in NamesAt(r) <=> r >= 1
  BY <1>1, NamesAtFacts DEF Names5, Names4, Names3, Names2, Names1
<1>7. "metadata" \in NamesAt(r) <=> r >= 3
  BY <1>1, NamesAtFacts DEF Names5, Names4, Names3, Names2, Names1
<1> QED
  BY <1>5, <1>6, <1>7

(* What a sync leaves of a row.                                            *)
SyncKeeps(path) ==
  /\ source[path] = Absent => documents'[path] = Absent
  /\ source[path] # Absent =>
       /\ documents'[path].content_hash = source[path].content_hash
       /\ documents'[path].metadata = source[path].metadata_hash
  /\ documents'[path] = Absent \/ RowFits(documents'[path], 5)
  /\ (/\ documents[path] # Absent /\ documents'[path] # Absent
      /\ documents'[path].content_hash = documents[path].content_hash)
     => documents'[path].vector = documents[path].vector

Described(row, meta) == [row EXCEPT !.metadata = meta, !.metadata_hash = meta]

LEMMA DescribedRow ==
  ASSUME NEW row \in Row(5), NEW meta \in Metas
  PROVE  LET new == Described(row, meta)
         IN  /\ new \in Row(5)
             /\ new.metadata_hash = meta /\ new.metadata = meta
             /\ new.content_hash = row.content_hash /\ new.vector = row.vector
<1>1. Metas = MetasAt(5)
  BY DEF MetasAt
<1> HIDE DEF MetasAt
<1> QED
  BY <1>1 DEF Row, Described

LEMMA SynchronizedRow ==
  ASSUME MigrationsInv, version = 5, NEW path \in Paths,
         LET diff == diff_source(source, documents)
         IN  /\ diff.new \cup diff.changed # {} => app.model = Dimension
             /\ documents' = Synchronized(diff)
  PROVE  SyncKeeps(path)
<1> DEFINE diff == diff_source(source, documents)
           row == documents[path]
           doc == source[path]
<1>1. documents' = Synchronized(diff)
  OBVIOUS
<1>2. /\ path \in diff.new <=> doc # Absent /\ row = Absent
      /\ path \in diff.deleted <=> doc = Absent /\ row # Absent
      /\ path \in diff.changed <=>
           doc # Absent /\ row # Absent /\ row.content_hash # doc.content_hash
      /\ path \in diff.metadata_changed <=>
           /\ doc # Absent /\ row # Absent
           /\ row.content_hash = doc.content_hash
           /\ row.metadata_hash # doc.metadata_hash
  BY DEF diff_source, Present
<1>3. doc # Absent => doc \in ScannedDocument
  BY DEF MigrationsInv, Scans
<1>4. row # Absent => RowFits(row, 5)
  BY DEF MigrationsInv, RowsAt
<1>5. syncs + 1 \in Nat
  BY DEF MigrationsInv
<1>6. CASE path \in diff.new \cup diff.changed
  <2> DEFINE new == [content_hash |-> doc.content_hash,
                     metadata |-> doc.metadata_hash,
                     metadata_hash |-> doc.metadata_hash,
                     vector |-> [sync |-> syncs + 1, dimension |-> app.model]]
  <2>1. documents'[path] = new
    <3> HIDE DEF diff
    <3> QED
      BY <1>1, <1>6 DEF Synchronized
  <2>2. doc \in ScannedDocument /\ app.model = Dimension
    BY <1>2, <1>3, <1>6
  <2> HIDE DEF diff, row, doc
  <2>3. new \in Row(5) /\ new.metadata_hash = new.metadata
        /\ new.content_hash = doc.content_hash /\ new.metadata = doc.metadata_hash
    BY <1>5, <2>2 DEF ScannedDocument, Row, MetasAt
  <2> HIDE DEF new
  <2>4. RowFits(new, 5)
    BY <2>3 DEF RowFits
  <2>5. doc # Absent /\ (row = Absent \/ row.content_hash # doc.content_hash)
    BY <1>2, <1>6
  <2> QED
    BY <2>1, <2>3, <2>4, <2>5 DEF SyncKeeps, row, doc
<1>7. CASE path \notin diff.new \cup diff.changed /\ path \in diff.metadata_changed
  <2> DEFINE new == [row EXCEPT !.metadata = doc.metadata_hash,
                                !.metadata_hash = doc.metadata_hash]
  <2>1. documents'[path] = new
    <3> HIDE DEF diff
    <3> QED
      BY <1>1, <1>7 DEF Synchronized
  <2>2. doc # Absent /\ row # Absent /\ row.content_hash = doc.content_hash
    BY <1>2, <1>7
  <2>3. doc \in ScannedDocument /\ row \in Row(5)
    BY <1>3, <1>4, <2>2 DEF RowFits
  <2> HIDE DEF diff, row, doc
  <2>4. new \in Row(5) /\ new.metadata_hash = new.metadata
        /\ new.content_hash = row.content_hash /\ new.vector = row.vector
        /\ new.metadata = doc.metadata_hash
    <3> DEFINE meta == doc.metadata_hash
    <3>1. meta \in Metas
      BY <2>3 DEF ScannedDocument
    <3>2. new = Described(row, meta)
      BY DEF Described
    <3>3. row \in Row(5)
      BY <2>3
    <3> HIDE DEF new, meta
    <3>4. /\ new \in Row(5)
          /\ new.metadata_hash = meta /\ new.metadata = meta
          /\ new.content_hash = row.content_hash /\ new.vector = row.vector
      BY <3>1, <3>2, <3>3, DescribedRow
    <3> QED
      BY <3>4 DEF meta
  <2> HIDE DEF new
  <2>5. RowFits(new, 5)
    BY <2>4 DEF RowFits
  <2> QED
    BY <2>1, <2>2, <2>4, <2>5 DEF SyncKeeps, row, doc
<1>8. CASE path \notin diff.new \cup diff.changed \cup diff.metadata_changed
  <2>1. documents'[path] = IF path \in diff.deleted THEN Absent ELSE row
    <3> HIDE DEF diff
    <3> QED
      BY <1>1, <1>8 DEF Synchronized
  <2>2. \/ doc = Absent
        \/ /\ row # Absent /\ row.content_hash = doc.content_hash
           /\ row.metadata_hash = doc.metadata_hash
    BY <1>2, <1>8
  <2>3. documents'[path] = IF doc = Absent THEN Absent ELSE row
    <3>1. doc = Absent /\ path \notin diff.deleted => row = Absent
      BY <1>2
    <3>2. doc # Absent => path \notin diff.deleted
      BY <1>2
    <3> HIDE DEF diff, row, doc
    <3> QED
      BY <2>1, <3>1, <3>2
  <2> HIDE DEF diff, row, doc
  <2> QED
    BY <1>4, <2>2, <2>3 DEF SyncKeeps, RowFits, row, doc
<1> QED
  BY <1>6, <1>7, <1>8

LEMMA SyncStep ==
  ASSUME MigrationsInv, Sync
  PROVE  /\ MigrationsInv'
         /\ \/ syncs' = syncs /\ documents' = documents
            \/ version = 5 /\ \A path \in Paths : SyncKeeps(path)
<1> DEFINE readable == DocumentColumns \subseteq Names(objects)
           diff == diff_source(source, documents)
           embeds == readable /\ diff.new \cup diff.changed # {}
           commits == /\ readable
                      /\ RunColumns \subseteq Names(objects)
                      /\ embeds => ~ModelRefused /\ ColumnTakes(app.model)
<1>1. /\ documents' = IF commits THEN Synchronized(diff) ELSE documents
      /\ syncs' = IF commits THEN syncs + 1 ELSE syncs
      /\ app' = IF ~embeds THEN app ELSE [app EXCEPT !.loaded = TRUE]
      /\ app.stage = "ready"
      /\ UNCHANGED <<objects, version, conflict, source, migrations, edits>>
  BY DEF Sync
<1>2. commits => /\ version = 5
                 /\ diff.new \cup diff.changed # {} => app.model = Dimension
  <2>1. Names(objects) = NamesAt(version) /\ version \in 0 .. 5
    BY NamesOfObjects DEF MigrationsInv
  <2> HIDE DEF diff
  <2> QED
    BY <2>1, ColumnsOfRevision DEF ColumnTakes
<1> HIDE DEF commits, diff, embeds
<1>3. app' \in Programs
  <2>1. app \in Programs /\ app # Off
    BY <1>1 DEF MigrationsInv, Off
  <2>2. [app EXCEPT !.loaded = TRUE] \in Programs
    BY <2>1 DEF Programs
  <2> QED
    BY <1>1, <2>1, <2>2
<1>4. syncs' \in Nat
  BY <1>1 DEF MigrationsInv
<1>5. CASE commits
  <2>1. /\ diff.new \cup diff.changed # {} => app.model = Dimension
        /\ documents' = Synchronized(diff) /\ version = 5
    BY <1>1, <1>2, <1>5
  <2>2. \A path \in Paths : SyncKeeps(path)
    BY <2>1, SynchronizedRow DEF diff
  <2>3. documents' = [path \in Paths |-> documents'[path]]
    BY <2>1 DEF Synchronized
  <2>4. documents' \in RowsAt(5, documents')
    <3>1. \A path \in Paths :
            documents'[path] = Absent \/ RowFits(documents'[path], 5)
      BY <2>2 DEF SyncKeeps
    <3>2. documents' \in [Paths -> Row(5) \cup {Absent}]
      BY <2>3, <3>1 DEF RowFits
    <3> QED
      BY <3>1, <3>2 DEF RowsAt, Kept
  <2> QED
    BY <1>1, <1>3, <1>4, <2>1, <2>2, <2>4 DEF MigrationsInv
<1>6. CASE ~commits
  BY <1>1, <1>3, <1>4, <1>6 DEF MigrationsInv
<1> QED
  BY <1>5, <1>6

LEMMA InvNext ==
  ASSUME MigrationsInv, [Next]_vars
  PROVE  MigrationsInv'
<1>1. CASE Migrate
  BY <1>1, MigrateStep
<1>2. CASE EditSource \/ Start \/ Stop \/ CheckTables \/ CheckRevision \/ CheckVector
  BY <1>2, ProgramSteps
<1>3. CASE Sync
  BY <1>3, SyncStep
<1>4. CASE UNCHANGED vars
  BY <1>4 DEF vars, MigrationsInv
<1> QED
  BY <1>1, <1>2, <1>3, <1>4 DEF Next

(* The inductive invariant holds in every behaviour.                       *)
THEOREM MigrationsInvariant == Spec => []MigrationsInv
BY InitInv, InvNext, PTL DEF Spec

-----------------------------------------------------------------------------
(* The objects of a revision are those its upgrades create.                *)
Creations(r) == {Object(name) : name \in NamesAt(r) \ NamesAt(r - 1)}

LEMMA UpgradeCreates ==
  ASSUME NEW r \in 1 .. 5
  PROVE  {[name |-> s.name, on |-> s.on] : s \in Range(Upgrades[r])}
           = Creations(r)
<1> DEFINE script == Upgrades[r]
           new == NamesAt(r) \ NamesAt(r - 1)
<1>1. ASSUME \A i \in DOMAIN script :
               \E name \in new : script[i] = Create(name, On(name)),
             \A name \in new :
               \E i \in DOMAIN script : script[i] = Create(name, On(name))
      PROVE  {[name |-> s.name, on |-> s.on] : s \in Range(script)} = Creations(r)
  <2>1. \A name : /\ Create(name, On(name)).name = name
                  /\ Create(name, On(name)).on = On(name)
    BY DEF Create
  <2> HIDE DEF script, new
  <2>2. \A s \in Range(script) : \E name \in new : s = Create(name, On(name))
    BY <1>1 DEF Range
  <2>3. \A name \in new : Create(name, On(name)) \in Range(script)
    BY <1>1 DEF Range
  <2> DEFINE objs == {[name |-> s.name, on |-> s.on] : s \in Range(script)}
  <2>4. \A o \in objs : o \in Creations(r)
    BY <2>1, <2>2 DEF Creations, Object, new
  <2>5. \A o \in Creations(r) : o \in objs
    BY <2>1, <2>3 DEF Creations, Object, new
  <2> QED
    BY <2>4, <2>5
<1>2. CASE r = 1
  <2>1. script = Up1 /\ new = Names1
    BY <1>2, LatestIsFive, NamesAtFacts
  <2>2. /\ DOMAIN Up1 = 1 .. 6
        /\ Up1[1] = Create("documents", On("documents"))
        /\ Up1[2] = Create("documents_hash_idx", On("documents_hash_idx"))
        /\ Up1[3] = Create("sync_runs", On("sync_runs"))
        /\ Up1[4] = Create("chunks", On("chunks"))
        /\ Up1[5] = Create("embedding", On("embedding"))
        /\ Up1[6] = Create("chunks_document_id_idx", On("chunks_document_id_idx"))
    BY OnFacts DEF Up1, CreateTable
  <2>3. \A i \in 1 .. 6 : i = 1 \/ i = 2 \/ i = 3 \/ i = 4 \/ i = 5 \/ i = 6
    OBVIOUS
  <2> HIDE DEF script, new
  <2>4. \A i \in DOMAIN script :
          \E name \in new : script[i] = Create(name, On(name))
    BY <2>1, <2>2, <2>3 DEF Names1
  <2>5. \A name \in new :
          \E i \in DOMAIN script : script[i] = Create(name, On(name))
    BY <2>1, <2>2 DEF Names1
  <2> QED
    BY <1>1, <2>4, <2>5 DEF script
<1>3. CASE r = 2
  <2>1. script = Up2 /\ new = {"chunks_embedding_hnsw_idx"}
    BY <1>3, LatestIsFive, NamesAtFacts DEF Names2, Names1
  <2>2. /\ DOMAIN Up2 = 1 .. 1
        /\ Up2[1] = Create("chunks_embedding_hnsw_idx",
                           On("chunks_embedding_hnsw_idx"))
    BY OnFacts DEF Up2
  <2>3. \A i \in 1 .. 1 : i = 1
    OBVIOUS
  <2> HIDE DEF script, new
  <2> QED
    BY <1>1, <2>1, <2>2, <2>3 DEF script
<1>4. CASE r = 3
  <2>1. /\ script = Up3
        /\ new = {"metadata", "metadata_hash", "metadata_changed_documents"}
    BY <1>4, LatestIsFive, NamesAtFacts DEF Names3, Names2, Names1
  <2>2. /\ DOMAIN Up3 = 1 .. 3
        /\ Up3[1] = Create("metadata", On("metadata"))
        /\ Up3[2] = Create("metadata_hash", On("metadata_hash"))
        /\ Up3[3] = Create("metadata_changed_documents",
                           On("metadata_changed_documents"))
    BY OnFacts DEF Up3
  <2>3. \A i \in 1 .. 3 : i = 1 \/ i = 2 \/ i = 3
    OBVIOUS
  <2> HIDE DEF script, new
  <2> QED
    BY <1>1, <2>1, <2>2, <2>3 DEF script
<1>5. CASE r = 4
  <2>1. script = Up4 /\ new = {"documents_metadata_gin_idx"}
    BY <1>5, LatestIsFive, NamesAtFacts DEF Names4, Names3, Names2, Names1
  <2>2. /\ DOMAIN Up4 = 1 .. 1
        /\ Up4[1] = Create("documents_metadata_gin_idx",
                           On("documents_metadata_gin_idx"))
    BY OnFacts DEF Up4
  <2>3. \A i \in 1 .. 1 : i = 1
    OBVIOUS
  <2> HIDE DEF script, new
  <2> QED
    BY <1>1, <2>1, <2>2, <2>3 DEF script
<1>6. CASE r = 5
  <2>1. script = Up5 /\ new = New5
    <3>1. Names5 \ Names4 = New5
      BY DEF Names5, New5, Names4, Names3, Names2, Names1, Columns5, Checks5
    <3> QED
      BY <1>6, <3>1, LatestIsFive, NamesAtFacts
  <2>2. DOMAIN Up5 = 1 .. 9
    BY Up5Statements
  <2>3. \A name \in New5 : \E i \in 1 .. 9 : Up5[i].name = name
    <3>1. \A n, on : Create(n, on).name = n
      BY DEF Create
    <3> QED
      BY <3>1, Up5Listed DEF New5, Columns5, Checks5
  <2> HIDE DEF script, new
  <2>4. \A i \in DOMAIN script :
          \E name \in new : script[i] = Create(name, On(name))
    BY <2>1, <2>2, Up5Numbers
  <2>5. \A name \in new :
          \E i \in DOMAIN script : script[i] = Create(name, On(name))
    BY <2>1, <2>2, <2>3, Up5Numbers
  <2> QED
    BY <1>1, <2>4, <2>5 DEF script
<1> HIDE DEF script, new
<1>7. r = 1 \/ r = 2 \/ r = 3 \/ r = 4 \/ r = 5
  OBVIOUS
<1> QED
  BY <1>2, <1>3, <1>4, <1>5, <1>6, <1>7 DEF script

LEMMA CreatedObjects ==
  ASSUME NEW v \in 0 .. 5
  PROVE  Objects(NamesAt(v)) =
           {[name |-> s.name, on |-> s.on] :
              s \in UNION {Range(Upgrades[r]) : r \in 1 .. v}}
<1> DEFINE objs == {[name |-> s.name, on |-> s.on] :
                      s \in UNION {Range(Upgrades[r]) : r \in 1 .. v}}
<1>1. \A r \in 1 .. v : r \in 1 .. 5
  OBVIOUS
<1>2. \A r \in 1 .. v : \A q \in r .. v : NamesAt(r) \subseteq NamesAt(q)
  <2>1. /\ Names1 \subseteq Names2 /\ Names2 \subseteq Names3
        /\ Names3 \subseteq Names4 /\ Names4 \subseteq Names5
    BY DEF Names2, Names3, Names4, Names5
  <2>2. \A r \in 1 .. v : \A q \in r .. v :
          /\ r \in {1, 2, 3, 4, 5} /\ q \in {1, 2, 3, 4, 5} /\ r <= q
    OBVIOUS
  <2> QED
    BY <2>1, <2>2, NamesAtFacts
<1>3. \A name \in NamesAt(v) :
        \E r \in 1 .. v : name \in NamesAt(r) \ NamesAt(r - 1)
  <2> SUFFICES ASSUME NEW name \in NamesAt(v)
               PROVE  \E r \in 1 .. v : name \in NamesAt(r) \ NamesAt(r - 1)
    OBVIOUS
  <2> DEFINE G == {r \in Nat : name \in NamesAt(r)}
  <2>1. v \in G /\ G \in SUBSET Nat
    OBVIOUS
  <2>2. PICK r \in G : \A q \in G : r <= q
    <3> HIDE DEF G
    <3> QED
      BY <2>1, LeastNumber
  <2>3. r \in 0 .. v /\ name \in NamesAt(r)
    BY <2>1, <2>2
  <2>4. r # 0
    BY <2>3, NamesAtFacts
  <2>5. r \in 1 .. v /\ r - 1 \in Nat /\ ~ r <= r - 1
    BY <2>3, <2>4
  <2>6. name \notin NamesAt(r - 1)
    BY <2>2, <2>5
  <2> QED
    BY <2>3, <2>5, <2>6
<1>4. \A o \in objs : o \in Objects(NamesAt(v))
  <2> SUFFICES ASSUME NEW r \in 1 .. v, NEW s \in Range(Upgrades[r])
               PROVE  [name |-> s.name, on |-> s.on] \in Objects(NamesAt(v))
    OBVIOUS
  <2>1. [name |-> s.name, on |-> s.on] \in Creations(r)
    BY <1>1, UpgradeCreates
  <2>2. NamesAt(r) \subseteq NamesAt(v)
    <3>1. v \in r .. v
      OBVIOUS
    <3> QED
      BY <1>2, <3>1
  <2> QED
    BY <2>1, <2>2 DEF Creations, Objects
<1>5. \A o \in Objects(NamesAt(v)) : o \in objs
  <2> SUFFICES ASSUME NEW name \in NamesAt(v) PROVE Object(name) \in objs
    BY DEF Objects
  <2>1. PICK r \in 1 .. v : name \in NamesAt(r) \ NamesAt(r - 1)
    BY <1>3
  <2>2. Object(name) \in Creations(r)
    BY <2>1 DEF Creations
  <2>3. \E s \in Range(Upgrades[r]) : Object(name) = [name |-> s.name, on |-> s.on]
    BY <1>1, <2>2, UpgradeCreates
  <2> QED
    BY <2>3
<1> HIDE DEF objs
<1>6. Objects(NamesAt(v)) = objs
  BY <1>4, <1>5
<1> QED
  BY <1>6 DEF objs

-----------------------------------------------------------------------------
LEMMA InvImpliesSchema == MigrationsInv => SchemaInv
<1> SUFFICES ASSUME MigrationsInv PROVE SchemaInv
  OBVIOUS
<1>1. Names(objects) = NamesAt(version) /\ version \in 0 .. 5
  BY NamesOfObjects DEF MigrationsInv
<1>2. ASSUME NEW path \in Paths, documents[path] # Absent
      PROVE  RowFits(documents[path], version)
  BY <1>2 DEF MigrationsInv, RowsAt
<1>3. TypeOK
  <2>1. /\ app.stage \in {"off", "tables", "revision", "vector", "ready"}
        /\ app.stage = "ready" => app.dimension = Dimension
    <3>1. app \in Programs
      BY DEF MigrationsInv
    <3>2. CASE app = Off
      BY <3>2 DEF Off
    <3>3. CASE app # Off
      BY <3>1, <3>3 DEF Programs
    <3> QED
      BY <3>2, <3>3
  <2>2. ASSUME NEW path \in Paths, documents[path] # Absent
        PROVE  /\ "documents" \in Names(objects)
               /\ documents[path].content_hash \in Contents
               /\ documents[path].metadata \in
                    IF "metadata" \in Names(objects) THEN Metas ELSE {Absent}
    <3>1. RowFits(documents[path], version)
      BY <1>2, <2>2
    <3>2. /\ "documents" \in Names(objects) <=> version >= 1
          /\ "metadata" \in Names(objects) <=> version >= 3
      BY <1>1, ColumnsOfRevision
    <3> QED
      BY <3>1, <3>2 DEF RowFits, Row, MetasAt
  <2> QED
    BY <2>1, <2>2, LatestIsFive DEF TypeOK, MigrationsInv
<1>4. SchemaMatchesRevision
  BY <1>1, CreatedObjects DEF SchemaMatchesRevision, MigrationsInv
<1>5. HashMatchesMetadata /\ VectorsFit
  BY <1>2 DEF HashMatchesMetadata, VectorsFit, RowFits, Row
<1>6. MigrationsApply
  BY DEF MigrationsApply, MigrationsInv
<1> QED
  BY <1>3, <1>4, <1>5, <1>6 DEF SchemaInv

(* However a revision was reached, its schema is what its upgrades create, *)
(* no command is ever refused by PostgreSQL, and every row fits the schema *)
(* it is in, its metadata hash and the dimension of its vectors included.  *)
THEOREM SchemaIsRevisions == Spec => []SchemaInv
BY MigrationsInvariant, InvImpliesSchema, PTL

(* No command and no sync touches the vectors of a document that keeps its *)
(* content (0003_document_metadata.py, and replace_document for new and    *)
(* changed documents only).                                                *)
THEOREM MigrationsKeepVectors == Spec => VectorsSurvive
<1>1. ASSUME MigrationsInv, [Next]_vars
      PROVE  [\A path \in Paths :
                (/\ documents[path] # Absent /\ documents'[path] # Absent
                 /\ documents'[path].content_hash = documents[path].content_hash)
                => documents'[path].vector = documents[path].vector]_vars
  <2>1. CASE Migrate
    BY <1>1, <2>1, MigrateStep DEF RowsAt, Kept
  <2>2. CASE EditSource \/ Start \/ Stop \/ CheckTables \/ CheckRevision
             \/ CheckVector
    BY <1>1, <2>2, ProgramSteps
  <2>3. CASE Sync
    BY <1>1, <2>3, SyncStep DEF SyncKeeps
  <2>4. CASE UNCHANGED vars
    BY <2>4
  <2> QED
    BY <1>1, <2>1, <2>2, <2>3, <2>4 DEF Next
<1> QED
  BY <1>1, MigrationsInvariant, PTL DEF VectorsSurvive, Spec

(* A sync commits under the required revision only, and leaves the corpus  *)
(* equal to the source, also after a downgrade has thrown metadata away    *)
(* (PgVectorStore.initialize, the plan of PgVectorStore.synchronize).      *)
THEOREM CommittedSyncRestores == Spec => SyncRestoresMetadata
<1>1. ASSUME MigrationsInv, [Next]_vars
      PROVE  [syncs' # syncs =>
               /\ version = Latest
               /\ \A path \in Paths :
                    IF source[path] = Absent THEN documents'[path] = Absent
                    ELSE /\ documents'[path].content_hash = source[path].content_hash
                         /\ documents'[path].metadata = source[path].metadata_hash]_vars
  <2>1. CASE Migrate
    BY <1>1, <2>1, MigrateStep
  <2>2. CASE EditSource \/ Start \/ Stop \/ CheckTables \/ CheckRevision
             \/ CheckVector
    BY <1>1, <2>2, ProgramSteps
  <2>3. CASE Sync
    BY <1>1, <2>3, SyncStep, LatestIsFive DEF SyncKeeps
  <2>4. CASE UNCHANGED vars
    BY <2>4
  <2> QED
    BY <1>1, <2>1, <2>2, <2>3, <2>4 DEF Next
<1> QED
  BY <1>1, MigrationsInvariant, PTL DEF SyncRestoresMetadata, Spec
=============================================================================
