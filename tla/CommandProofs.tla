---------------------------- MODULE CommandProofs ----------------------------
(***************************************************************************)
(* What commands answer and how they end.  First the queries of `search`   *)
(* and `evaluate`, proved for every value of the constants of Retrieval:   *)
(* any documents, models, datasets, limits and batches, and any syncs      *)
(* between two queries of one report.  Then all commands of CommandLine,   *)
(* their exit codes, pools and lock, for any number of processes, commands *)
(* and schema changes.                                                     *)
(***************************************************************************)
EXTENDS Retrieval, CommandLine, SumTheorems

-----------------------------------------------------------------------------
(* The dataset: what is not blank, and not refused, is a case.             *)

LEMMA DatasetIsCases ==
  ASSUME NEW lines \in Seq(Lines)
  PROVE  load_evaluation_cases(lines) \in Seq(Case)
<1> DEFINE cases == load_evaluation_cases(lines)
           n == Len(lines)
<1>1. n \in Nat /\ DOMAIN lines = 1 .. n
  OBVIOUS
<1>2. CASE \E i \in DOMAIN lines : lines[i] = Invalid
  <2>1. cases = <<>>
    BY <1>2 DEF load_evaluation_cases
  <2> QED
    BY <2>1
<1>3. CASE ~ \E i \in DOMAIN lines : lines[i] = Invalid
  <2> DEFINE step == [at \in Seq(Case) \X (1 .. n) |->
                        Appended(at[1], lines[at[2]])]
             it == CHOOSE i : i = [S \in SUBSET (1 .. n) |->
                     IF S = {} THEN <<>>
                     ELSE Appended(i[S \ {Max(S)}], lines[Max(S)])]
  <2>1. cases = it[1 .. n]
    BY <1>1, <1>3 DEF load_evaluation_cases, FoldLeft, MapThenFoldSet
  <2>2. step \in [Seq(Case) \X (1 .. n) -> Seq(Case)]
    <3>1. ASSUME NEW sofar \in Seq(Case), NEW i \in 1 .. n
          PROVE  Appended(sofar, lines[i]) \in Seq(Case)
      <4>1. lines[i] \in Case \/ lines[i] = Blank
        BY <1>1, <1>3 DEF Lines
      <4> QED
        BY <4>1 DEF Appended
    <3> QED
      BY <3>1
  <2>3. <<>> \in Seq(Case)
    OBVIOUS
  <2> DEFINE Found(i) == i = [S \in SUBSET (1 .. n) |->
                     IF S = {} THEN <<>>
                     ELSE Appended(i[S \ {Max(S)}], lines[Max(S)])]
  <2>4. \E i : Found(i)
    <3> HIDE DEF step
    <3>1. HasRecursion(Seq(Case), <<>>, step, n)
      BY <1>1, <2>2, <2>3, RecursionExists
    <3>2. PICK i \in [SUBSET (1 .. n) -> Seq(Case)] : Recurs(i, <<>>, step, n)
      BY <3>1 DEF HasRecursion
    <3>3. ASSUME NEW S \in SUBSET (1 .. n)
          PROVE  i[S] = IF S = {} THEN <<>>
                        ELSE Appended(i[S \ {Max(S)}], lines[Max(S)])
      <4>1. CASE S = {}
        BY <3>2, <4>1 DEF Recurs
      <4>2. CASE S # {}
        <5>1. Max(S) \in 1 .. n
          BY <1>1, <4>2, LastOfIndices
        <5>2. S \ {Max(S)} \in SUBSET (1 .. n)
          OBVIOUS
        <5>3. i[S] = step[<<i[S \ {Max(S)}], Max(S)>>]
          BY <3>2, <4>2 DEF Recurs
        <5>4. step[<<i[S \ {Max(S)}], Max(S)>>]
                = Appended(i[S \ {Max(S)}], lines[Max(S)])
          BY <3>2, <5>1, <5>2 DEF step
        <5> QED
          BY <4>2, <5>3, <5>4
      <4> QED
        BY <4>1, <4>2
    <3>4. i = [S \in SUBSET (1 .. n) |-> i[S]]
      OBVIOUS
    <3> QED
      BY <3>3, <3>4
  <2>5. Found(it)
    BY <2>4
  <2> HIDE DEF it
  <2>6. it[{}] = <<>>
    BY <2>5
  <2>7. ASSUME NEW m \in 1 .. n, it[1 .. (m - 1)] \in Seq(Case)
        PROVE  it[1 .. m] \in Seq(Case)
    <3>1. Max(1 .. m) = m /\ (1 .. m) \ {m} = 1 .. (m - 1)
      BY LastOfAll
    <3>2. 1 .. m \in SUBSET (1 .. n) /\ 1 .. m # {}
      <4>1. \A x \in 1 .. m : x \in 1 .. n
        BY <1>1
      <4>2. m \in 1 .. m
        OBVIOUS
      <4> QED
        BY <4>1, <4>2
    <3>3. it[1 .. m] = Appended(it[1 .. (m - 1)], lines[m])
      BY <2>5, <3>1, <3>2
    <3>4. lines[m] \in Case \/ lines[m] = Blank
      BY <1>1, <1>3 DEF Lines
    <3> QED
      BY <2>7, <3>3, <3>4 DEF Appended
  <2>8. it[1 .. n] \in Seq(Case)
    BY <1>1, <2>3, <2>6, <2>7, RecursionKeeps
  <2> QED
    BY <2>1, <2>8
<1> QED
  BY <1>2, <1>3

-----------------------------------------------------------------------------
(* Units: every rank has a share of the unit.                              *)

LEMMA UnitIsNat == Unit \in Nat
<1> DEFINE F(f) == f = [n \in 0 .. MaxK |-> IF n = 0 THEN 1 ELSE n * f[n - 1]]
           factorial == CHOOSE f : F(f)
           step == [at \in Nat \X (1 .. MaxK) |-> at[2] * at[1]]
<1>1. Unit = factorial[MaxK]
  BY DEF Unit
<1>2. MaxK \in Nat
  BY BoundsAreNat
<1>3. step \in [Nat \X (1 .. MaxK) -> Nat]
  OBVIOUS
<1>4. \A m \in 1 .. MaxK, v \in Nat : step[<<v, m>>] = m * v
  OBVIOUS
<1> HIDE DEF step
<1>5. HasRecursion(Nat, 1, step, MaxK)
  BY <1>2, <1>3, RecursionExists
<1>6. PICK it \in [SUBSET (1 .. MaxK) -> Nat] : Recurs(it, 1, step, MaxK)
  BY <1>5 DEF HasRecursion
<1> DEFINE f == [n \in 0 .. MaxK |-> it[1 .. n]]
<1>7. ASSUME NEW n \in 0 .. MaxK
      PROVE  /\ f[n] \in Nat
             /\ f[n] = IF n = 0 THEN 1 ELSE n * f[n - 1]
  <2>1. 1 .. n \in SUBSET (1 .. MaxK)
    <3>1. \A x \in 1 .. n : x \in 1 .. MaxK
      BY <1>2
    <3> QED
      BY <3>1
  <2>2. CASE n = 0
    <3>1. 1 .. n = {}
      BY <2>2
    <3>2. it[1 .. n] = 1
      BY <1>6, <2>1, <3>1 DEF Recurs
    <3> QED
      BY <2>2, <3>2
  <2>3. CASE n # 0
    <3>1. Max(1 .. n) = n /\ (1 .. n) \ {n} = 1 .. (n - 1)
      BY <2>3, LastOfAll
    <3>2. n \in 1 .. n /\ n - 1 \in 0 .. MaxK /\ n \in 1 .. MaxK
      BY <1>2, <2>3
    <3>3. it[1 .. n] = step[<<it[1 .. (n - 1)], n>>]
      BY <1>6, <2>1, <3>1, <3>2 DEF Recurs
    <3>4. it[1 .. (n - 1)] \in Nat
      <4>1. \A x \in 1 .. (n - 1) : x \in 1 .. MaxK
        BY <1>2
      <4>2. 1 .. (n - 1) \in SUBSET (1 .. MaxK)
        BY <4>1
      <4> QED
        BY <1>6, <4>2
    <3>5. it[1 .. n] = n * it[1 .. (n - 1)]
      BY <1>4, <3>2, <3>3, <3>4
    <3> QED
      BY <1>6, <2>1, <2>3, <3>2, <3>5
  <2> QED
    BY <2>2, <2>3
<1>8. F(f)
  <2>1. f = [n \in 0 .. MaxK |-> f[n]]
    OBVIOUS
  <2> HIDE DEF f
  <2> QED
    BY <1>7, <2>1
<1>9. F(factorial)
  BY <1>8
<1> HIDE DEF factorial, f
<1> DEFINE G == {m \in Nat : m <= MaxK => factorial[m] \in Nat}
<1>10. 0 \in G
  BY <1>2, <1>9
<1>11. ASSUME NEW m \in G PROVE m + 1 \in G
  <2> SUFFICES ASSUME m + 1 <= MaxK PROVE factorial[m + 1] \in Nat
    OBVIOUS
  <2>1. factorial[m + 1] = (m + 1) * factorial[(m + 1) - 1]
    BY <1>2, <1>9
  <2>2. (m + 1) - 1 = m /\ factorial[m] \in Nat /\ m + 1 \in Nat
    BY <1>2
  <2> QED
    BY <2>1, <2>2
<1>12. G = Nat
  <2> HIDE DEF G
  <2>1. G \in SUBSET Nat
    BY DEF G
  <2> QED
    BY <1>10, <1>11, <2>1, NumberInduction
<1>13. MaxK \in G /\ MaxK <= MaxK
  BY <1>2, <1>12
<1> QED
  BY <1>1, <1>13

LEMMA ReciprocalInUnit ==
  ASSUME NEW rank, rank = Absent \/ rank \in Nat \ {0}
  PROVE  Reciprocal(rank) \in 0 .. Unit /\ Reciprocal(rank) \in Int
<1>1. CASE rank = Absent
  BY <1>1, UnitIsNat DEF Reciprocal
<1>2. CASE rank # Absent
  <2> DEFINE u == Unit
             q == u \div rank
  <2>1. u \in Nat /\ rank \in Nat \ {0}
    BY <1>2, UnitIsNat
  <2> HIDE DEF u
  <2>2. q \in Int /\ rank * q <= u /\ u < rank * (q + 1)
    BY <2>1
  <2> HIDE DEF q
  <2>3. q \in 0 .. u
    BY <2>1, <2>2
  <2> QED
    BY <1>2, <2>3 DEF Reciprocal, u, q
<1> QED
  BY <1>1, <1>2

-----------------------------------------------------------------------------
(* Tables: the rows of chunks, and what a plan examines of them.           *)

(* (document_id, chunk_index) is unique.                                   *)
OneEach(rows) ==
  \A r, s \in rows : (r.path = s.path /\ r.index = s.index) => r = s

Table(rows) == rows \in SUBSET Row /\ IsFiniteSet(rows) /\ OneEach(rows)

Corpora == [Paths -> Document \cup {Absent}]

(* The rows of one document.                                               *)
RowsOf(path, document) ==
  {[path |-> path, index |-> i - 1, point |-> document.text[i],
    model |-> document.model, tags |-> document.tags] :
     i \in DOMAIN document.text}

LEMMA RowsOfDocument ==
  ASSUME NEW path \in Paths, NEW document \in Document
  PROVE  /\ RowsOf(path, document) \in SUBSET Row
         /\ IsFiniteSet(RowsOf(path, document))
         /\ \A r \in RowsOf(path, document) : r.path = path
         /\ \A r, s \in RowsOf(path, document) : r.index = s.index => r = s
<1> DEFINE text == document.text
           F(i) == [path |-> path, index |-> i - 1, point |-> text[i],
                    model |-> document.model, tags |-> document.tags]
<1>1. text \in Seq(Nat) /\ document.model \in Models /\ document.tags \in SUBSET Tags
  BY TextsAreChunked DEF Document
<1>2. Len(text) \in Nat /\ DOMAIN text = 1 .. Len(text)
  BY <1>1
<1>3. RowsOf(path, document) = {F(i) : i \in 1 .. Len(text)}
  BY <1>2 DEF RowsOf
<1> HIDE DEF text
<1>4. ASSUME NEW i \in 1 .. Len(text)
      PROVE  F(i) \in Row /\ F(i).path = path /\ F(i).index = i - 1
  <2>1. text[i] \in Nat /\ i - 1 \in Nat
    BY <1>1, <1>2
  <2> QED
    BY <1>1, <2>1 DEF Row
<1>5. IsFiniteSet({F(i) : i \in 1 .. Len(text)})
  <2> DEFINE T == {F(i) : i \in 1 .. Len(text)}
             f == [i \in 1 .. Len(text) |-> F(i)]
  <2>1. f \in Surjection(1 .. Len(text), T)
    BY DEF Surjection
  <2>2. IsFiniteSet(1 .. Len(text))
    BY <1>2, FS_Interval
  <2> QED
    BY <2>1, <2>2, FS_Surjection
<1>6. ASSUME NEW i \in 1 .. Len(text), NEW j \in 1 .. Len(text),
             F(i).index = F(j).index
      PROVE  F(i) = F(j)
  <2>1. i = j
    BY <1>4, <1>6, <1>2
  <2> QED
    BY <2>1
<1> HIDE DEF F
<1> QED
  BY <1>3, <1>4, <1>5, <1>6

LEMMA RowsAreTable ==
  ASSUME NEW documents \in Corpora
  PROVE  Table(Rows(documents))
<1> DEFINE present == {p \in Paths : documents[p] # Absent}
           tables == {RowsOf(p, documents[p]) : p \in present}
<1>1. Rows(documents) = UNION tables
  BY DEF Rows, RowsOf
<1>2. \A p \in present : p \in Paths /\ documents[p] \in Document
  BY DEF Corpora
<1>3. IsFiniteSet(present)
  <2>1. IsFiniteSet(Paths)
    BY BoundsAreNat, FS_Interval DEF Paths
  <2> QED
    BY <2>1, FS_Subset
<1>4. IsFiniteSet(tables)
  <2> DEFINE f == [p \in present |-> RowsOf(p, documents[p])]
  <2>1. f \in Surjection(present, tables)
    BY DEF Surjection
  <2> QED
    BY <1>3, <2>1, FS_Surjection
<1>5. IsFiniteSet(UNION tables)
  <2>1. \A T \in tables : IsFiniteSet(T)
    BY <1>2, RowsOfDocument
  <2> QED
    BY <1>4, <2>1, FS_UNION
<1>6. UNION tables \in SUBSET Row
  BY <1>2, RowsOfDocument
<1>7. ASSUME NEW r \in UNION tables, NEW s \in UNION tables,
             r.path = s.path, r.index = s.index
      PROVE  r = s
  <2>1. PICK p \in present : r \in RowsOf(p, documents[p])
    OBVIOUS
  <2>2. PICK q \in present : s \in RowsOf(q, documents[q])
    OBVIOUS
  <2>3. p = q
    BY <1>2, <1>7, <2>1, <2>2, RowsOfDocument
  <2> QED
    BY <1>2, <1>7, <2>1, <2>2, <2>3, RowsOfDocument
<1> QED
  BY <1>1, <1>5, <1>6, <1>7 DEF Table, OneEach

LEMMA PartOfTable ==
  ASSUME NEW rows, Table(rows), NEW part \in SUBSET rows
  PROVE  Table(part)
BY FS_Subset DEF Table, OneEach

LEMMA ExaminedAreTables ==
  ASSUME NEW documents \in Corpora, NEW examined \in Examined(documents)
  PROVE  Table(examined)
<1>1. Table(Rows(documents))
  BY RowsAreTable
<1>2. examined \in SUBSET Rows(documents)
  BY DEF Examined, kSubset
<1> QED
  BY <1>1, <1>2, PartOfTable

LEMMA CompatibleAreTable ==
  ASSUME NEW rows, Table(rows), NEW model, NEW filter
  PROVE  Table(Compatible(rows, model, filter))
<1>1. Compatible(rows, model, filter) \in SUBSET rows
  BY DEF Compatible
<1> QED
  BY <1>1, PartOfTable

-----------------------------------------------------------------------------
(* The order of the rows: path and index break every tie.                  *)

LEMMA RowsAreOrdered ==
  ASSUME NEW rows, Table(rows), NEW r \in rows, NEW s \in rows,
         NEW vector, vector.point \in Nat, r # s
  PROVE  Before(vector, r, s) \/ Before(vector, s, r)
<1>1. /\ r.path \in Nat /\ r.index \in Nat /\ r.point \in Nat
      /\ s.path \in Nat /\ s.index \in Nat /\ s.point \in Nat
  BY BoundsAreNat DEF Table, Row, Paths
<1>2. r.path # s.path \/ r.index # s.index
  BY DEF Table, OneEach
<1>3. Distance(vector, r) \in Nat /\ Distance(vector, s) \in Nat
  BY <1>1 DEF Distance
<1> QED
  BY <1>1, <1>2, <1>3 DEF Before

LEMMA RowsAreOrderedOnce ==
  ASSUME NEW r \in Row, NEW s \in Row, NEW vector, vector.point \in Nat,
         Before(vector, r, s)
  PROVE  ~ Before(vector, s, r)
<1>1. /\ r.path \in Nat /\ r.index \in Nat /\ r.point \in Nat
      /\ s.path \in Nat /\ s.index \in Nat /\ s.point \in Nat
  BY BoundsAreNat DEF Row, Paths
<1>3. Distance(vector, r) \in Nat /\ Distance(vector, s) \in Nat
  BY <1>1 DEF Distance
<1> QED
  BY <1>1, <1>3 DEF Before

-----------------------------------------------------------------------------
(* Answers: what ORDER BY and LIMIT leave of a table.                      *)

LEMMA BestFacts ==
  ASSUME NEW rows, Table(rows), NEW vector, NEW limit \in Nat,
         NEW found \in Best(rows, vector, limit)
  PROVE  /\ Cardinality(rows) \in Nat
         /\ found \in Seq(rows)
         /\ Len(found) = Smaller(limit, Cardinality(rows))
         /\ DOMAIN found = 1 .. Len(found)
         /\ Len(found) \in Nat /\ Len(found) <= limit
         /\ \A i \in DOMAIN found : found[i] \in rows
         /\ \A i, j \in DOMAIN found : found[i] = found[j] => i = j
         /\ \A i \in DOMAIN found, s \in rows :
              Before(vector, s, found[i]) =>
                \E j \in 1 .. i - 1 : found[j] = s
<1> DEFINE n == Smaller(limit, Cardinality(rows))
<1>1. Cardinality(rows) \in Nat
  BY FS_CardinalityType DEF Table
<1>2. n \in Nat /\ n <= limit
  BY <1>1 DEF Smaller
<1>3. found \in [1 .. n -> rows]
  BY DEF Best
<1>4. \A i \in DOMAIN found :
        /\ \A j \in 1 .. i - 1 : found[j] # found[i]
        /\ \A s \in rows : Before(vector, s, found[i]) =>
                             \E j \in 1 .. i - 1 : found[j] = s
  BY DEF Best
<1> HIDE DEF n
<1>5. found \in Seq(rows) /\ Len(found) = n /\ DOMAIN found = 1 .. n
  BY <1>2, <1>3
<1>6. ASSUME NEW i \in 1 .. n, NEW j \in 1 .. n, found[i] = found[j]
      PROVE  i = j
  <2>1. ~ i < j
    <3>1. i < j => i \in 1 .. j - 1
      BY <1>2
    <3> QED
      BY <1>4, <1>5, <1>6, <3>1
  <2>2. ~ j < i
    <3>1. j < i => j \in 1 .. i - 1
      BY <1>2
    <3> QED
      BY <1>4, <1>5, <1>6, <3>1
  <2> QED
    BY <1>2, <2>1, <2>2
<1> QED
  BY <1>1, <1>2, <1>3, <1>4, <1>5, <1>6 DEF n

(* An answer is sorted.                                                    *)
LEMMA BestIsSorted ==
  ASSUME NEW rows, Table(rows), NEW vector, vector.point \in Nat,
         NEW limit \in Nat, NEW found \in Best(rows, vector, limit),
         NEW i \in DOMAIN found, NEW j \in DOMAIN found, i < j
  PROVE  Before(vector, found[i], found[j])
<1>1. /\ found[i] \in rows /\ found[j] \in rows /\ found[i] # found[j]
      /\ i \in Nat /\ j \in Nat
  BY BestFacts
<1>2. ~ Before(vector, found[j], found[i])
  <2>1. SUFFICES ASSUME Before(vector, found[j], found[i]) PROVE FALSE
    OBVIOUS
  <2>2. PICK k \in 1 .. i - 1 : found[k] = found[j]
    BY <1>1, <2>1, BestFacts
  <2>3. k \in DOMAIN found
    BY <1>1, BestFacts
  <2>4. k = j
    BY <2>2, <2>3, BestFacts
  <2> QED
    BY <1>1, <2>4
<1> QED
  BY <1>1, <1>2, RowsAreOrdered

(* The rows before the i-th of an answer are its first i - 1.              *)
LEMMA AheadInAnswer ==
  ASSUME NEW rows, Table(rows), NEW vector, vector.point \in Nat,
         NEW limit \in Nat, NEW found \in Best(rows, vector, limit),
         NEW i \in DOMAIN found
  PROVE  Cardinality({s \in rows : Before(vector, s, found[i])}) = i - 1
<1> DEFINE ahead == {s \in rows : Before(vector, s, found[i])}
           f == [j \in 1 .. i - 1 |-> found[j]]
<1>1. i \in Nat \ {0} /\ \A j \in 1 .. i - 1 : j \in DOMAIN found /\ j < i
  BY BestFacts
<1>2. f \in [1 .. i - 1 -> ahead]
  BY <1>1, BestFacts, BestIsSorted
<1>3. \A s \in ahead : \E j \in 1 .. i - 1 : f[j] = s
  BY BestFacts
<1>4. \A j, k \in 1 .. i - 1 : f[j] = f[k] => j = k
  BY <1>1, BestFacts
<1>5. f \in Bijection(1 .. i - 1, ahead)
  <2> HIDE DEF f, ahead
  <2> QED
    BY <1>2, <1>3, <1>4 DEF Bijection, Injection, IsInjective, Surjection
<1>6. ExistsBijection(1 .. i - 1, ahead)
  BY <1>5 DEF ExistsBijection
<1> HIDE DEF ahead
<1>7. Cardinality(ahead) = i - 1
  BY <1>1, <1>6, FS_CountingElements
<1> QED
  BY <1>7 DEF ahead

(* A row that is left out has at least limit rows before it.               *)
LEMMA AheadOfLeftOut ==
  ASSUME NEW rows, Table(rows), NEW vector, vector.point \in Nat,
         NEW limit \in Nat, NEW found \in Best(rows, vector, limit),
         NEW r \in rows, \A i \in DOMAIN found : found[i] # r
  PROVE  /\ Cardinality({s \in rows : Before(vector, s, r)}) \in Nat
         /\ Cardinality({s \in rows : Before(vector, s, r)}) >= limit
<1> DEFINE ahead == {s \in rows : Before(vector, s, r)}
           n == Len(found)
<1>1. /\ n \in Nat /\ DOMAIN found = 1 .. n
      /\ n = Smaller(limit, Cardinality(rows)) /\ Cardinality(rows) \in Nat
  BY BestFacts
<1>2. n = limit
  <2>1. SUFFICES ASSUME n = Cardinality(rows) PROVE FALSE
    BY <1>1 DEF Smaller
  <2>2. found \in Injection(1 .. n, rows)
    <3>1. found \in [1 .. n -> rows]
      BY <1>1 DEF Best
    <3> HIDE DEF n
    <3> QED
      BY <1>1, <3>1, BestFacts DEF Injection, IsInjective
  <2>3. IsFiniteSet(rows) /\ Cardinality(1 .. n) = n
    BY <1>1, FS_Interval DEF Table
  <2>4. found \in Surjection(1 .. n, rows)
    BY <2>1, <2>2, <2>3, FS_Injection
  <2> QED
    BY <1>1, <2>4 DEF Surjection
<1>3. IsFiniteSet(ahead)
  BY FS_Subset DEF Table
<1>4. found \in Injection(1 .. n, ahead)
  <2>1. ASSUME NEW i \in 1 .. n PROVE found[i] \in ahead
    <3>1. found[i] \in rows /\ found[i] # r
      BY <1>1, BestFacts
    <3>2. ~ Before(vector, r, found[i])
      <4>1. SUFFICES ASSUME Before(vector, r, found[i]) PROVE FALSE
        OBVIOUS
      <4>2. PICK j \in 1 .. i - 1 : found[j] = r
        BY <1>1, <4>1, BestFacts
      <4>3. j \in DOMAIN found
        BY <1>1
      <4> QED
        BY <4>2, <4>3
    <3> QED
      BY <3>1, <3>2, RowsAreOrdered
  <2>2. found \in [1 .. n -> rows]
    BY <1>1 DEF Best
  <2> HIDE DEF ahead, n
  <2>3. found \in [1 .. n -> ahead]
    BY <2>1, <2>2
  <2> QED
    BY <1>1, <2>3, BestFacts DEF Injection, IsInjective
<1>5. Cardinality(1 .. n) <= Cardinality(ahead) /\ Cardinality(1 .. n) = n
  BY <1>1, <1>3, <1>4, FS_Injection, FS_Interval
<1>6. Cardinality(ahead) \in Nat
  BY <1>3, FS_CardinalityType
<1> QED
  BY <1>1, <1>2, <1>5, <1>6

-----------------------------------------------------------------------------
(* Ranks: the position in the answer, and the rank the rows give.          *)

LEMMA SmallestNumber ==
  ASSUME NEW S \in SUBSET Nat, S # {}
  PROVE  Min(S) \in S /\ \A x \in S : Min(S) <= x
BY LeastNumber DEF Min

LEMMA RankIsPosition ==
  ASSUME NEW rows, Table(rows), NEW vector, NEW limit \in Nat,
         NEW found \in Best(rows, vector, limit), NEW expected
  PROVE  RankOf(found, expected) = Absent
           \/ RankOf(found, expected) \in Nat \ {0}
<1> DEFINE positions == {i \in DOMAIN found : found[i].path = expected}
<1>1. positions \in SUBSET Nat /\ \A i \in positions : i \in Nat \ {0}
  BY BestFacts
<1>2. RankOf(found, expected) = IF positions = {} THEN Absent ELSE Min(positions)
  BY DEF RankOf
<1> HIDE DEF positions
<1> QED
  BY <1>1, <1>2, SmallestNumber

RowRanks(rows, vector, expected, limit) ==
  {1 + Cardinality({s \in rows : Before(vector, s, r)}) :
     r \in {x \in rows : x.path = expected}} \cap 1 .. limit

Positions(found, expected) == {i \in DOMAIN found : found[i].path = expected}

(* The rows of a document that rank within the limit are the positions it  *)
(* has in the answer.                                                      *)
LEMMA RanksAgree ==
  ASSUME NEW rows, Table(rows), NEW vector, vector.point \in Nat,
         NEW limit \in Nat, NEW found \in Best(rows, vector, limit),
         NEW expected
  PROVE  RowRanks(rows, vector, expected, limit) = Positions(found, expected)
<1> DEFINE Ahead(r) == Cardinality({s \in rows : Before(vector, s, r)})
           wanted == {x \in rows : x.path = expected}
           ranks == {1 + Ahead(r) : r \in wanted} \cap 1 .. limit
           positions == {i \in DOMAIN found : found[i].path = expected}
<1>1. ASSUME NEW i \in DOMAIN found
      PROVE  Ahead(found[i]) = i - 1 /\ i \in 1 .. limit /\ found[i] \in rows
  BY AheadInAnswer, BestFacts
<1>2. ASSUME NEW r \in rows, \A i \in DOMAIN found : found[i] # r
      PROVE  1 + Ahead(r) \notin 1 .. limit
  BY <1>2, AheadOfLeftOut
<1> HIDE DEF Ahead
<1>3. ASSUME NEW i \in positions PROVE i \in ranks
  <2>1. found[i] \in wanted /\ 1 + Ahead(found[i]) = i /\ i \in 1 .. limit
    BY <1>1
  <2> QED
    BY <2>1
<1>4. ASSUME NEW k \in ranks PROVE k \in positions
  <2>1. PICK r \in wanted : k = 1 + Ahead(r)
    OBVIOUS
  <2>2. PICK i \in DOMAIN found : found[i] = r
    BY <1>2, <2>1
  <2>3. k = i
    BY <1>1, <2>1, <2>2
  <2> QED
    BY <2>1, <2>2, <2>3
<1>5. ranks = positions
  BY <1>3, <1>4
<1> QED
  BY <1>5 DEF Ahead, RowRanks, Positions

-----------------------------------------------------------------------------
(* The inductive invariant.                                                *)

Queries ==
  [kind : {"search", "evaluate"},
   stage : {"embedding", "searching", "done", "failed"}, model : Models,
   cases : Seq(Case), limit : 1 .. MaxK, filter : Filters,
   batch_size : Nat \ {0}, embeddings : Seq([model : Models, point : Points]),
   hits : Nat, reciprocals : Nat]

Answers == [rows : Seq(Row), examined : SUBSET Row]

(* The answer is one to the vector.                                        *)
IsAnswer(answer, vector, c) ==
  /\ Table(answer.examined)
  /\ answer.rows \in Selected(answer.examined, vector, c.model, c.limit, c.filter)

Embedded(c, n) == Vector(c.model, c.cases[n].query)

(* Embeddings and answers come in the order of the cases.                  *)
InOrder(c, as) ==
  /\ Len(c.embeddings) <= Len(c.cases) /\ Len(as) <= Len(c.embeddings)
  /\ \A n \in DOMAIN c.embeddings : c.embeddings[n] = Embedded(c, n)
  /\ \A n \in DOMAIN as : IsAnswer(as[n], c.embeddings[n], c)
  /\ c.stage = "embedding" => Len(c.embeddings) < Len(c.cases) /\ as = <<>>
  /\ c.stage = "searching" => /\ Len(c.embeddings) = Len(c.cases)
                              /\ Len(as) < Len(c.cases)
  /\ c.stage = "done" /\ c.kind = "evaluate" => Len(as) = Len(c.cases)

Ranks(c, as) == [n \in DOMAIN as |-> RankOf(as[n].rows, c.cases[n].expected)]
Found(ranks) == {n \in DOMAIN ranks : ranks[n] # Absent}
Shares(ranks) == [n \in DOMAIN ranks |-> Reciprocal(ranks[n])]

(* What an evaluation counts is what it has found so far.                  *)
Counted(c, as) ==
  /\ c.hits <= Len(as) /\ c.reciprocals <= Unit * c.hits
  /\ c.kind = "evaluate" =>
       /\ c.filter = Absent
       /\ c.hits = Cardinality(Found(Ranks(c, as)))
       /\ c.reciprocals = SumFunction(Shares(Ranks(c, as)))

Runs(c, as) ==
  c \in Queries /\ as \in Seq(Answers) /\ InOrder(c, as) /\ Counted(c, as)

QueriesInv ==
  /\ corpus \in Corpora /\ configured \in Models /\ commits \in 0 .. MaxCommits
  /\ (command = Idle /\ answers = <<>>) \/ Runs(command, answers)

LEMMA InitInv == Init => QueriesInv
<1> SUFFICES ASSUME Init PROVE QueriesInv
  OBVIOUS
<1>1. corpus \in Corpora
  BY DEF Init, Corpora
<1> QED
  BY <1>1, BoundsAreNat DEF Init, QueriesInv

LEMMA SyncStep ==
  ASSUME QueriesInv, SyncCommits
  PROVE  QueriesInv'
<1>1. PICK scanned \in Versions :
        corpus' = [path \in Paths |->
          LET new == scanned[path]
              old == corpus[path]
          IN  IF new = Absent THEN Absent
              ELSE [text |-> new.text, tags |-> new.tags,
                    model |-> IF old # Absent /\ old.text = new.text
                              THEN old.model ELSE configured]]
  BY DEF SyncCommits
<1>2. ASSUME NEW path \in Paths PROVE corpus'[path] \in Document \cup {Absent}
  <2>1. scanned[path] \in Scanned \cup {Absent}
    BY VersionsAreScans
  <2>2. corpus[path] \in Document \cup {Absent} /\ configured \in Models
    BY DEF QueriesInv, Corpora
  <2>3. CASE scanned[path] = Absent
    BY <1>1, <2>3
  <2>4. CASE scanned[path] # Absent
    <3> DEFINE model == IF corpus[path] # Absent /\ corpus[path].text = scanned[path].text
                        THEN corpus[path].model ELSE configured
    <3>1. model \in Models
      BY <2>2 DEF Document
    <3>2. scanned[path].text \in Texts /\ scanned[path].tags \in SUBSET Tags
      BY <2>1, <2>4 DEF Scanned
    <3>3. corpus'[path] = [text |-> scanned[path].text,
                           tags |-> scanned[path].tags, model |-> model]
      BY <1>1, <2>4
    <3> HIDE DEF model
    <3> QED
      BY <3>1, <3>2, <3>3 DEF Document
  <2> QED
    BY <2>3, <2>4
<1>3. corpus' \in Corpora
  <2>1. DOMAIN corpus' = Paths /\ corpus' = [path \in Paths |-> corpus'[path]]
    BY <1>1
  <2> QED
    BY <1>2, <2>1 DEF Corpora
<1>4. /\ commits' \in 0 .. MaxCommits
      /\ configured' = configured /\ command' = command /\ answers' = answers
  BY BoundsAreNat DEF SyncCommits, QueriesInv
<1> QED
  BY <1>3, <1>4 DEF QueriesInv

LEMMA ReconfigureStep ==
  ASSUME QueriesInv, Reconfigure
  PROVE  QueriesInv'
BY DEF QueriesInv, Reconfigure

(* A command that has just been started.                                   *)
LEMMA CommandStarts ==
  ASSUME NEW kind \in {"search", "evaluate"},
         NEW stage \in {"embedding", "failed"}, NEW cases \in Seq(Case),
         NEW limit \in 1 .. MaxK, NEW filter \in Filters,
         NEW batch_size \in Nat \ {0}, configured \in Models,
         stage = "embedding" => cases # <<>>,
         kind = "evaluate" => filter = Absent
  PROVE  Runs(Command(kind, stage, cases, limit, filter, batch_size), <<>>)
<1> DEFINE c == Command(kind, stage, cases, limit, filter, batch_size)
<1>1. c \in Queries
  BY DEF Command, Queries
<1>2. InOrder(c, <<>>)
  <2>1. Len(cases) \in Nat /\ (cases # <<>> => Len(cases) > 0)
    OBVIOUS
  <2>2. /\ c.embeddings = <<>> /\ c.cases = cases /\ c.stage = stage
    BY DEF Command
  <2> HIDE DEF c
  <2> QED
    BY <2>1, <2>2 DEF InOrder
<1>3. Counted(c, <<>>)
  <2>1. c.hits = 0 /\ c.reciprocals = 0 /\ c.kind = kind /\ c.filter = filter
    BY DEF Command
  <2> HIDE DEF c
  <2>2. Found(Ranks(c, <<>>)) = {}
    BY DEF Found, Ranks
  <2>3. SumFunction(Shares(Ranks(c, <<>>))) = 0
    <3>1. DOMAIN Shares(Ranks(c, <<>>)) = {}
      BY DEF Shares, Ranks
    <3> QED
      BY <3>1, SumOfNone DEF SumFunction
  <2>4. c.hits <= Len(<<>>) /\ c.reciprocals <= Unit * c.hits
    BY <2>1, UnitIsNat
  <2>5. Cardinality(Found(Ranks(c, <<>>))) = 0
    BY <2>2, FS_EmptySet
  <2> QED
    BY <2>1, <2>3, <2>4, <2>5 DEF Counted
<1>4. <<>> \in Seq(Answers)
  OBVIOUS
<1> QED
  BY <1>1, <1>2, <1>3, <1>4 DEF Runs

LEMMA IdleStarts ==
  ASSUME QueriesInv, command.stage = "idle"
  PROVE  answers = <<>>
BY DEF QueriesInv, Runs, Queries, Idle

LEMMA StartSearchStep ==
  ASSUME QueriesInv, StartSearch
  PROVE  QueriesInv'
<1>1. PICK query \in Points, limit \in 1 .. MaxK, filter \in Filters :
        command' = Command("search", "embedding",
                           <<[query |-> query, expected |-> 1]>>,
                           limit, filter, 1)
  BY DEF StartSearch
<1> DEFINE cases == <<[query |-> query, expected |-> 1]>>
<1>2. cases \in Seq(Case) /\ cases # <<>>
  BY BoundsAreNat DEF Case, Paths
<1>3. answers' = <<>> /\ configured \in Models
  BY IdleStarts DEF StartSearch, QueriesInv
<1>4. Runs(command', answers')
  <2> HIDE DEF cases
  <2>1. Runs(Command("search", "embedding", cases, limit, filter, 1), <<>>)
    BY <1>2, <1>3, CommandStarts
  <2> QED
    BY <1>1, <1>3, <2>1 DEF cases
<1> QED
  BY <1>4 DEF QueriesInv, StartSearch

LEMMA StartEvaluationStep ==
  ASSUME QueriesInv, StartEvaluation
  PROVE  QueriesInv'
<1>1. PICK lines \in Datasets, k \in 1 .. MaxK, batch_size \in 1 .. 2 :
        LET cases == load_evaluation_cases(lines)
        IN  command' = Command("evaluate",
                               IF cases = <<>> THEN "failed" ELSE "embedding",
                               cases, k, Absent, batch_size)
  BY DEF StartEvaluation
<1> DEFINE cases == load_evaluation_cases(lines)
<1>2. cases \in Seq(Case)
  <2>1. lines \in Seq(Lines)
    BY DEF Datasets
  <2> QED
    BY <2>1, DatasetIsCases
<1>3. answers' = <<>> /\ configured \in Models
  BY IdleStarts DEF StartEvaluation, QueriesInv
<1>4. Absent \in Filters /\ batch_size \in Nat \ {0}
  BY DEF Filters
<1>5. Runs(command', answers')
  BY <1>1, <1>2, <1>3, <1>4, CommandStarts
<1> QED
  BY <1>5 DEF QueriesInv, StartEvaluation

LEMMA CommandRuns ==
  ASSUME QueriesInv, command.stage \in {"embedding", "searching", "done", "failed"}
  PROVE  Runs(command, answers)
BY DEF QueriesInv, Idle

LEMMA EmbedBatchStep ==
  ASSUME QueriesInv, EmbedBatch
  PROVE  QueriesInv'
<1> DEFINE c == command
           old == c.embeddings
           start == Len(old)
           total == Len(c.cases)
           end == Smaller(start + c.batch_size, total)
           batch == SubSeq(c.cases, start + 1, end)
           vectors == [i \in DOMAIN batch |-> Vector(c.model, batch[i].query)]
           new == old \o vectors
           stage == IF end = total THEN "searching" ELSE c.stage
<1>1. /\ c \in Queries /\ answers = <<>> /\ c.stage = "embedding"
      /\ InOrder(c, answers) /\ Counted(c, answers) /\ start < total
  BY CommandRuns DEF EmbedBatch, Runs, InOrder
<1>2. command' = [c EXCEPT !.embeddings = new, !.stage = stage]
  BY DEF EmbedBatch, Extend
<1>3. /\ start \in Nat /\ total \in Nat /\ end \in start + 1 .. total
      /\ old \in Seq([model : Models, point : Points])
      /\ c.cases \in Seq(Case) /\ c.model \in Models
  BY <1>1 DEF Queries, Smaller
<1>4. /\ Len(batch) = end - start /\ DOMAIN batch = 1 .. end - start
      /\ \A i \in 1 .. end - start : batch[i] = c.cases[start + i]
  <2> HIDE DEF start, end, total
  <2>1. start + 1 \in 1 .. total + 1 /\ end \in 0 .. total /\ start + 1 <= end
    BY <1>3
  <2>2. total = Len(c.cases)
    BY DEF total
  <2> QED
    BY <1>3, <2>1, <2>2
<1>5. /\ DOMAIN vectors = 1 .. end - start
      /\ \A i \in 1 .. end - start : vectors[i] = Embedded(c, start + i)
  BY <1>4 DEF Embedded
<1> HIDE DEF batch, end, total
<1>6. ASSUME NEW n \in 1 .. total
      PROVE  Embedded(c, n) \in [model : Models, point : Points]
  <2>1. c.cases[n] \in Case
    BY <1>3 DEF total
  <2>2. c.cases[n].query \in Points
    BY <2>1 DEF Case
  <2> QED
    BY <1>3, <2>2 DEF Embedded, Vector
<1>7. vectors \in Seq([model : Models, point : Points]) /\ Len(vectors) = end - start
  <2>1. \A i \in 1 .. end - start : start + i \in 1 .. total
    BY <1>3
  <2>2. vectors = [i \in 1 .. end - start |-> vectors[i]]
    BY <1>5
  <2> DEFINE vectorSet == [model : Models, point : Points]
             size == end - start
  <2> HIDE DEF vectors, start
  <2>3. vectors \in [1 .. size -> vectorSet]
    BY <1>5, <1>6, <2>1, <2>2
  <2>4. size \in Nat
    BY <1>3
  <2> HIDE DEF vectorSet, size
  <2>5. vectors \in Seq(vectorSet) /\ Len(vectors) = size
    BY <2>3, <2>4
  <2> QED
    BY <2>5 DEF vectorSet, size
<1> HIDE DEF vectors
<1>8. /\ new \in Seq([model : Models, point : Points]) /\ Len(new) = end
      /\ \A n \in DOMAIN new : new[n] = Embedded(c, n)
  <2>1. /\ new \in Seq([model : Models, point : Points])
        /\ Len(new) = start + (end - start)
    BY <1>3, <1>7
  <2>2. Len(new) = end
    BY <1>3, <2>1
  <2>3. ASSUME NEW n \in 1 .. end PROVE new[n] = Embedded(c, n)
    <3>1. CASE n <= start
      <4>1. n \in DOMAIN old /\ new[n] = old[n]
        BY <1>3, <1>7, <3>1
      <4> QED
        BY <1>1, <4>1 DEF InOrder
    <3>2. CASE n > start
      <4>1. n - start \in 1 .. end - start /\ start + (n - start) = n
        BY <1>3, <3>2
      <4>2. new[n] = vectors[n - start]
        BY <1>3, <1>7, <3>2
      <4> QED
        BY <1>5, <4>1, <4>2
    <3>3. n <= start \/ n > start
      BY <1>3
    <3> QED
      BY <3>1, <3>2, <3>3
  <2> QED
    BY <1>3, <2>1, <2>2, <2>3
<1> HIDE DEF new
<1>9. stage \in {"embedding", "searching"} /\ (stage = "searching" <=> end = total)
  BY <1>1
<1> HIDE DEF stage
<1>10. /\ command'.embeddings = new /\ command'.stage = stage
       /\ command'.cases = c.cases /\ command'.model = c.model
       /\ command'.hits = c.hits /\ command'.reciprocals = c.reciprocals
       /\ command'.kind = c.kind /\ command'.filter = c.filter
       /\ command'.limit = c.limit
  BY <1>1, <1>2 DEF Queries
<1>11. command' \in Queries
  BY <1>1, <1>2, <1>8, <1>9 DEF Queries
<1>12. answers' = <<>>
  BY <1>1 DEF EmbedBatch
<1>13. InOrder(command', answers')
  <2>1. \A n : Embedded(command', n) = Embedded(c, n)
    BY <1>10 DEF Embedded
  <2>2. Len(answers') = 0 /\ DOMAIN answers' = {}
    BY <1>12
  <2>3. Len(command'.cases) = total /\ Len(command'.embeddings) = end
    BY <1>8, <1>10 DEF total
  <2> QED
    BY <1>3, <1>8, <1>9, <1>10, <1>12, <2>1, <2>2, <2>3 DEF InOrder
<1>14. Counted(command', answers')
  <2>1. Ranks(command', answers') = Ranks(c, answers)
    BY <1>1, <1>10, <1>12 DEF Ranks
  <2> QED
    BY <1>1, <1>10, <1>12, <2>1 DEF Counted
<1>15. Runs(command', answers')
  BY <1>11, <1>12, <1>13, <1>14 DEF Runs
<1>16. UNCHANGED <<corpus, configured, commits>>
  BY DEF EmbedBatch
<1> QED
  BY <1>15, <1>16 DEF QueriesInv

LEMMA FailsStep ==
  ASSUME QueriesInv, Fails
  PROVE  QueriesInv'
<1> DEFINE c == command
<1>1. /\ c \in Queries /\ answers \in Seq(Answers)
      /\ InOrder(c, answers) /\ Counted(c, answers)
  BY CommandRuns DEF Fails, Runs
<1>2. command' = [c EXCEPT !.stage = "failed"] /\ answers' = answers
  BY DEF Fails
<1>3. /\ command'.embeddings = c.embeddings /\ command'.stage = "failed"
      /\ command'.cases = c.cases /\ command'.model = c.model
      /\ command'.hits = c.hits /\ command'.reciprocals = c.reciprocals
      /\ command'.kind = c.kind /\ command'.filter = c.filter
      /\ command'.limit = c.limit
      /\ command' \in Queries
  BY <1>1, <1>2 DEF Queries
<1>4. InOrder(command', answers')
  <2>1. \A n : Embedded(command', n) = Embedded(c, n)
    BY <1>3 DEF Embedded
  <2>2. \A a, v : IsAnswer(a, v, command') = IsAnswer(a, v, c)
    BY <1>3 DEF IsAnswer
  <2> QED
    BY <1>1, <1>2, <1>3, <2>1, <2>2 DEF InOrder
<1>5. Counted(command', answers')
  <2>1. Ranks(command', answers') = Ranks(c, answers)
    BY <1>2, <1>3 DEF Ranks
  <2> QED
    BY <1>1, <1>2, <1>3, <2>1 DEF Counted
<1> QED
  BY <1>1, <1>2, <1>3, <1>4, <1>5 DEF QueriesInv, Fails, Runs

(* The next search answers the next case.                                  *)
LEMMA SearchAnswers ==
  ASSUME QueriesInv, command.stage = "searching", NEW answer \in Search
  PROVE  /\ Runs(command, answers)
         /\ Len(answers) + 1 \in DOMAIN command.embeddings
         /\ answer \in Answers
         /\ IsAnswer(answer, command.embeddings[Len(answers) + 1], command)
<1> DEFINE vector == command.embeddings[Len(answers) + 1]
<1>1. Runs(command, answers)
  BY CommandRuns
<1>2. Len(answers) + 1 \in DOMAIN command.embeddings
  BY <1>1 DEF Runs, InOrder, Queries
<1>3. PICK examined \in Examined(corpus) :
        \E found \in Selected(examined, vector, command.model,
                              command.limit, command.filter) :
          answer = [rows |-> found, examined |-> examined]
  BY DEF Search
<1>4. PICK found \in Selected(examined, vector, command.model,
                              command.limit, command.filter) :
        answer = [rows |-> found, examined |-> examined]
  BY <1>3
<1>5. Table(examined)
  BY ExaminedAreTables DEF QueriesInv
<1>6. found \in Seq(Row)
  <2> DEFINE rows == Compatible(examined, command.model, command.filter)
  <2>1. Table(rows) /\ command.limit \in Nat
    BY <1>1, <1>5, CompatibleAreTable DEF Runs, Queries
  <2>2. found \in Best(rows, vector, command.limit)
    BY <1>4 DEF Selected
  <2> HIDE DEF rows, vector
  <2>3. found \in Seq(rows) /\ rows \subseteq Row
    BY <2>1, <2>2, BestFacts DEF Table
  <2> QED
    BY <2>3
<1>7. answer.rows = found /\ answer.examined = examined
  BY <1>4
<1>8. IsAnswer(answer, vector, command)
  BY <1>4, <1>5, <1>7 DEF IsAnswer
<1>9. answer \in Answers
  BY <1>4, <1>5, <1>6 DEF Answers, Table
<1> QED
  BY <1>1, <1>2, <1>8, <1>9

(* What Append does, and the indices of a sequence.                        *)
LEMMA SequenceFacts ==
  ASSUME NEW T, NEW s \in Seq(T)
  PROVE  /\ Len(s) \in Nat /\ DOMAIN s = 1 .. Len(s)
         /\ Len(s) + 1 \notin DOMAIN s /\ IsFiniteSet(DOMAIN s)
<1>1. Len(s) \in Nat /\ DOMAIN s = 1 .. Len(s)
  OBVIOUS
<1> QED
  BY <1>1, FS_Interval

LEMMA AppendFacts ==
  ASSUME NEW T, NEW s \in Seq(T), NEW x \in T
  PROVE  /\ Append(s, x) \in Seq(T) /\ Len(Append(s, x)) = Len(s) + 1
         /\ DOMAIN Append(s, x) = DOMAIN s \cup {Len(s) + 1}
         /\ \A n \in DOMAIN s : Append(s, x)[n] = s[n]
         /\ Append(s, x)[Len(s) + 1] = x
OBVIOUS

(* The n-th answer is appended: the answers before it keep their ranks.    *)
LEMMA OneMoreAnswer ==
  ASSUME NEW c \in Queries, NEW as \in Seq(Answers), InOrder(c, as),
         NEW answer \in Answers, Len(as) + 1 \in DOMAIN c.embeddings,
         IsAnswer(answer, c.embeddings[Len(as) + 1], c)
  PROVE  /\ Append(as, answer) \in Seq(Answers)
         /\ Len(Append(as, answer)) = Len(as) + 1
         /\ \A n \in DOMAIN Append(as, answer) :
              IsAnswer(Append(as, answer)[n], c.embeddings[n], c)
         /\ DOMAIN Ranks(c, Append(as, answer))
              = DOMAIN Ranks(c, as) \cup {Len(as) + 1}
         /\ \A n \in DOMAIN as :
              Ranks(c, Append(as, answer))[n] = Ranks(c, as)[n]
         /\ Ranks(c, Append(as, answer))[Len(as) + 1]
              = RankOf(answer.rows, c.cases[Len(as) + 1].expected)
<1> DEFINE more == Append(as, answer)
           n1 == Len(as) + 1
<1>0. /\ more \in Seq(Answers) /\ Len(more) = Len(as) + 1
      /\ DOMAIN more = DOMAIN as \cup {Len(as) + 1}
      /\ \A n \in DOMAIN as : more[n] = as[n]
      /\ more[Len(as) + 1] = answer
  BY AppendFacts, Zenon
<1>1. /\ more \in Seq(Answers) /\ Len(more) = n1
      /\ \A n \in DOMAIN as : more[n] = as[n]
      /\ more[n1] = answer
  BY <1>0
<1>2. DOMAIN more = DOMAIN as \cup {n1}
  BY <1>0
<1> HIDE DEF more
<1>3. \A n \in DOMAIN more : IsAnswer(more[n], c.embeddings[n], c)
  BY <1>1, <1>2 DEF InOrder
<1>4. n1 \in DOMAIN more /\ \A n \in DOMAIN as : n \in DOMAIN more
  BY <1>2
<1>5. /\ DOMAIN Ranks(c, more) = DOMAIN Ranks(c, as) \cup {n1}
      /\ \A n \in DOMAIN as : Ranks(c, more)[n] = Ranks(c, as)[n]
      /\ Ranks(c, more)[n1] = RankOf(answer.rows, c.cases[n1].expected)
  BY <1>1, <1>2, <1>4 DEF Ranks
<1> QED
  BY <1>1, <1>3, <1>5 DEF more

LEMMA AnswerIsRanked ==
  ASSUME NEW c \in Queries, NEW vector, NEW answer, IsAnswer(answer, vector, c),
         NEW expected
  PROVE  RankOf(answer.rows, expected) = Absent
           \/ RankOf(answer.rows, expected) \in Nat \ {0}
<1> DEFINE rows == Compatible(answer.examined, c.model, c.filter)
<1>1. Table(rows) /\ c.limit \in Nat
  BY CompatibleAreTable DEF IsAnswer, Queries
<1>2. answer.rows \in Best(rows, vector, c.limit)
  BY DEF IsAnswer, Selected
<1> HIDE DEF rows
<1> QED
  BY <1>1, <1>2, RankIsPosition

LEMMA RanksAreRanks ==
  ASSUME NEW c \in Queries, NEW as \in Seq(Answers), InOrder(c, as),
         NEW n \in DOMAIN as
  PROVE  Ranks(c, as)[n] = Absent \/ Ranks(c, as)[n] \in Nat \ {0}
<1>1. IsAnswer(as[n], c.embeddings[n], c)
  BY DEF InOrder
<1>2. Ranks(c, as)[n] = RankOf(as[n].rows, c.cases[n].expected)
  BY DEF Ranks
<1> QED
  BY <1>1, <1>2, AnswerIsRanked

(* What is counted grows by the rank of the answer.                        *)
LEMMA CountsGrow ==
  ASSUME NEW c \in Queries, NEW as \in Seq(Answers), InOrder(c, as),
         NEW answer \in Answers, Len(as) + 1 \in DOMAIN c.embeddings,
         IsAnswer(answer, c.embeddings[Len(as) + 1], c),
         NEW rank, rank = RankOf(answer.rows, c.cases[Len(as) + 1].expected)
  PROVE  /\ Cardinality(Found(Ranks(c, Append(as, answer))))
              = Cardinality(Found(Ranks(c, as))) + (IF rank = Absent THEN 0 ELSE 1)
         /\ SumFunction(Shares(Ranks(c, Append(as, answer))))
              = SumFunction(Shares(Ranks(c, as))) + Reciprocal(rank)
<1> DEFINE n1 == Len(as) + 1
           old == Ranks(c, as)
           new == Ranks(c, Append(as, answer))
<1>1. /\ DOMAIN old = DOMAIN as /\ DOMAIN new = DOMAIN as \cup {n1}
      /\ \A n \in DOMAIN as : new[n] = old[n]
      /\ new[n1] = rank
  <2>1. DOMAIN old = DOMAIN as
    BY DEF Ranks
  <2> QED
    BY <2>1, OneMoreAnswer
<1>2. /\ DOMAIN as = 1 .. Len(as) /\ Len(as) \in Nat /\ n1 \notin DOMAIN as
      /\ IsFiniteSet(DOMAIN as)
  BY SequenceFacts
<1>3. ASSUME NEW n \in DOMAIN as PROVE Reciprocal(old[n]) \in Int
  <2>1. old[n] = Absent \/ old[n] \in Nat \ {0}
    BY RanksAreRanks
  <2> HIDE DEF old
  <2>2. Reciprocal(old[n]) \in 0 .. Unit
    BY <2>1, ReciprocalInUnit
  <2> QED
    BY <2>2
<1>4. Reciprocal(rank) \in Int
  <2>1. rank = Absent \/ rank \in Nat \ {0}
    BY AnswerIsRanked
  <2> QED
    BY <2>1, ReciprocalInUnit
<1> HIDE DEF old, new, n1
<1>5. Cardinality(Found(new)) = Cardinality(Found(old)) + (IF rank = Absent THEN 0 ELSE 1)
  <2>1. Found(new) = IF rank = Absent THEN Found(old) ELSE Found(old) \cup {n1}
    BY <1>1, <1>2 DEF Found
  <2>2. Found(old) \in SUBSET DOMAIN as /\ n1 \notin Found(old)
    BY <1>1, <1>2 DEF Found
  <2>3. IsFiniteSet(Found(old))
    BY <1>2, <2>2, FS_Subset
  <2>4. Cardinality(Found(old)) \in Nat
    BY <2>3, FS_CardinalityType
  <2>5. Cardinality(Found(old) \cup {n1}) = Cardinality(Found(old)) + 1
    BY <2>2, <2>3, FS_AddElement
  <2>6. CASE rank = Absent
    BY <2>1, <2>4, <2>6
  <2>7. CASE rank # Absent
    BY <2>1, <2>5, <2>7
  <2> QED
    BY <2>6, <2>7
<1>7. Shares(new)[n1] = Reciprocal(rank)
  BY <1>1 DEF Shares
<1>6. Prolongs(Shares(new), Shares(old), DOMAIN as, n1)
  <2>1. Shares(new)[n1] \in Int
    BY <1>4, <1>7, Zenon
  <2>2. ASSUME NEW n \in DOMAIN as
        PROVE  Shares(old)[n] \in Int /\ Shares(new)[n] = Shares(old)[n]
    BY <1>1, <1>3 DEF Shares
  <2>3. /\ DOMAIN Shares(old) = DOMAIN as
        /\ DOMAIN Shares(new) = DOMAIN as \cup {n1}
    BY <1>1 DEF Shares
  <2> QED
    BY <1>2, <2>1, <2>2, <2>3 DEF Prolongs
<1>8. SumFunction(Shares(new)) = SumFunction(Shares(old)) + Shares(new)[n1]
  <2> DEFINE g == Shares(old)
             h == Shares(new)
             S == DOMAIN as
  <2>1. Prolongs(h, g, S, n1)
    BY <1>6
  <2> HIDE DEF g, h, S
  <2>2. SumFunction(h) = SumFunction(g) + h[n1]
    BY <2>1, SumFunctionGrows
  <2> QED
    BY <2>2 DEF g, h
<1> QED
  BY <1>5, <1>7, <1>8 DEF old, new

LEMMA AnswerSearchStep ==
  ASSUME QueriesInv, AnswerSearch
  PROVE  QueriesInv'
<1> DEFINE c == command
           n1 == Len(answers) + 1
<1>1. PICK answer \in Search : answers' = Append(answers, answer)
  BY DEF AnswerSearch
<1>2. c.stage = "searching" /\ c.kind = "search"
      /\ command' = [c EXCEPT !.stage = "done"]
  BY DEF AnswerSearch
<1>3. /\ Runs(c, answers) /\ n1 \in DOMAIN c.embeddings /\ answer \in Answers
      /\ IsAnswer(answer, c.embeddings[n1], c)
  BY <1>2, SearchAnswers
<1>4. /\ c \in Queries /\ answers \in Seq(Answers)
      /\ InOrder(c, answers) /\ Counted(c, answers)
  BY <1>3 DEF Runs
<1>5. /\ answers' \in Seq(Answers) /\ Len(answers') = n1
      /\ \A n \in DOMAIN answers' : IsAnswer(answers'[n], c.embeddings[n], c)
  BY <1>1, <1>3, <1>4, OneMoreAnswer
<1>6. /\ command'.embeddings = c.embeddings /\ command'.stage = "done"
      /\ command'.cases = c.cases /\ command'.model = c.model
      /\ command'.hits = c.hits /\ command'.reciprocals = c.reciprocals
      /\ command'.kind = "search" /\ command'.filter = c.filter
      /\ command'.limit = c.limit
      /\ command' \in Queries
  BY <1>2, <1>4 DEF Queries
<1>7. /\ Len(answers) \in Nat /\ Len(c.embeddings) \in Nat
      /\ n1 <= Len(c.embeddings) /\ c.hits \in Nat
  BY <1>3, <1>4 DEF Queries
<1>8. InOrder(command', answers')
  <2>1. \A n : Embedded(command', n) = Embedded(c, n)
    BY <1>6 DEF Embedded
  <2>2. \A a, v : IsAnswer(a, v, command') = IsAnswer(a, v, c)
    BY <1>6 DEF IsAnswer
  <2> HIDE DEF n1
  <2> QED
    BY <1>4, <1>5, <1>6, <1>7, <2>1, <2>2 DEF InOrder
<1>9. Counted(command', answers')
  BY <1>4, <1>5, <1>6, <1>7 DEF Counted
<1>10. Runs(command', answers')
  BY <1>5, <1>6, <1>8, <1>9 DEF Runs
<1>11. UNCHANGED <<corpus, configured, commits>>
  BY DEF AnswerSearch
<1> QED
  BY <1>10, <1>11 DEF QueriesInv

LEMMA SearchCaseStep ==
  ASSUME QueriesInv, SearchCase
  PROVE  QueriesInv'
<1> DEFINE c == command
           n1 == Len(answers) + 1
<1>1. PICK answer \in Search :
        LET rank == RankOf(answer.rows, c.cases[n1].expected)
        IN  /\ answers' = Append(answers, answer)
            /\ command' = [c EXCEPT
                 !.hits = IF rank = Absent THEN @ ELSE @ + 1,
                 !.reciprocals = @ + Reciprocal(rank),
                 !.stage = IF n1 = Len(c.cases) THEN "done" ELSE @]
  BY DEF SearchCase
<1>2. c.stage = "searching" /\ c.kind = "evaluate"
  BY DEF SearchCase
<1>3. /\ Runs(c, answers) /\ n1 \in DOMAIN c.embeddings /\ answer \in Answers
      /\ IsAnswer(answer, c.embeddings[n1], c)
  BY <1>2, SearchAnswers
<1>4. /\ c \in Queries /\ answers \in Seq(Answers)
      /\ InOrder(c, answers) /\ Counted(c, answers)
  BY <1>3 DEF Runs
<1> DEFINE rank == RankOf(answer.rows, c.cases[n1].expected)
           gain == IF rank = Absent THEN 0 ELSE 1
           share == Reciprocal(rank)
           hits == c.hits + gain
           reciprocals == c.reciprocals + share
           stage == IF n1 = Len(c.cases) THEN "done" ELSE "searching"
<1>5. /\ answers' \in Seq(Answers) /\ Len(answers') = n1
      /\ \A n \in DOMAIN answers' : IsAnswer(answers'[n], c.embeddings[n], c)
  BY <1>1, <1>3, <1>4, OneMoreAnswer
<1>6. /\ Cardinality(Found(Ranks(c, answers'))) = Cardinality(Found(Ranks(c, answers))) + gain
      /\ SumFunction(Shares(Ranks(c, answers'))) = SumFunction(Shares(Ranks(c, answers))) + share
  BY <1>1, <1>3, <1>4, CountsGrow
<1>7. /\ share \in 0 .. Unit /\ gain \in {0, 1} /\ (gain = 0 => share = 0)
  <2>1. rank = Absent \/ rank \in Nat \ {0}
    BY <1>3, <1>4, AnswerIsRanked
  <2>2. rank = Absent => share = 0
    BY DEF Reciprocal
  <2> HIDE DEF rank
  <2> QED
    BY <2>1, <2>2, ReciprocalInUnit
<1>8. c.hits \in Nat /\ c.reciprocals \in Nat
  BY <1>4 DEF Queries
<1>9. command' = [c EXCEPT !.hits = hits, !.reciprocals = reciprocals, !.stage = stage]
  <2>1. hits = IF rank = Absent THEN c.hits ELSE c.hits + 1
    <3> HIDE DEF rank
    <3> QED
      BY <1>8
  <2> HIDE DEF hits, rank
  <2> QED
    BY <1>1, <1>2, <2>1 DEF rank
<1> HIDE DEF rank, gain, share
<1>10. /\ hits \in Nat /\ reciprocals \in Nat
       /\ hits <= c.hits + 1 /\ reciprocals <= Unit * hits
  <2> DEFINE u == Unit
             h == c.hits
             r == c.reciprocals
  <2>1. u \in Nat /\ h \in Nat /\ r \in Nat /\ r <= u * h
    BY <1>4, <1>8, UnitIsNat DEF Counted
  <2>2. share \in 0 .. u /\ gain \in {0, 1} /\ (gain = 0 => share = 0)
    BY <1>7
  <2> HIDE DEF u, h, r
  <2>3. u * (h + 1) = u * h + u
    BY <2>1
  <2>4. u * h \in Nat
    BY <2>1
  <2>5. /\ h + gain \in Nat /\ r + share \in Nat
        /\ h + gain <= h + 1
    BY <2>1, <2>2
  <2>6. r + share <= u * (h + gain)
    <3>1. CASE gain = 0
      <4>1. h + gain = h /\ r + share = r
        BY <2>1, <2>2, <3>1
      <4> QED
        BY <2>1, <4>1
    <3>2. CASE gain = 1
      BY <2>1, <2>2, <2>3, <2>4, <3>2
    <3> QED
      BY <2>2, <3>1, <3>2
  <2> QED
    BY <2>5, <2>6 DEF u, h, r
<1>11. stage \in {"searching", "done"} /\ (stage = "done" <=> n1 = Len(c.cases))
  OBVIOUS
<1> HIDE DEF hits, reciprocals, stage
<1>12. /\ command'.embeddings = c.embeddings /\ command'.stage = stage
       /\ command'.cases = c.cases /\ command'.model = c.model
       /\ command'.hits = hits /\ command'.reciprocals = reciprocals
       /\ command'.kind = c.kind /\ command'.filter = c.filter
       /\ command'.limit = c.limit
       /\ command' \in Queries
  BY <1>4, <1>9, <1>10, <1>11 DEF Queries
<1>13. /\ Len(answers) \in Nat /\ Len(c.embeddings) \in Nat
       /\ n1 <= Len(c.embeddings) /\ Len(c.cases) \in Nat
       /\ Len(c.embeddings) = Len(c.cases)
  BY <1>2, <1>3, <1>4 DEF Queries, InOrder
<1>14. InOrder(command', answers')
  <2>1. \A n : Embedded(command', n) = Embedded(c, n)
    BY <1>12 DEF Embedded
  <2>2. \A a, v : IsAnswer(a, v, command') = IsAnswer(a, v, c)
    BY <1>12 DEF IsAnswer
  <2> HIDE DEF n1
  <2> QED
    BY <1>4, <1>5, <1>11, <1>12, <1>13, <2>1, <2>2 DEF InOrder
<1>15. Counted(command', answers')
  <2>1. Ranks(command', answers') = Ranks(c, answers')
    BY <1>12 DEF Ranks
  <2>2. /\ c.hits <= Len(answers) /\ c.filter = Absent
        /\ c.hits = Cardinality(Found(Ranks(c, answers)))
        /\ c.reciprocals = SumFunction(Shares(Ranks(c, answers)))
    BY <1>2, <1>4 DEF Counted
  <2>3. /\ hits = Cardinality(Found(Ranks(c, answers')))
        /\ reciprocals = SumFunction(Shares(Ranks(c, answers')))
    BY <1>6, <2>2 DEF hits, reciprocals
  <2>4. hits <= n1
    BY <1>8, <1>10, <1>13, <2>2
  <2> QED
    BY <1>5, <1>10, <1>12, <2>1, <2>2, <2>3, <2>4 DEF Counted
<1>16. Runs(command', answers')
  BY <1>5, <1>12, <1>14, <1>15 DEF Runs
<1>17. UNCHANGED <<corpus, configured, commits>>
  BY DEF SearchCase
<1> QED
  BY <1>16, <1>17 DEF QueriesInv

LEMMA InvNext ==
  ASSUME QueriesInv, [Next]_vars
  PROVE  QueriesInv'
<1>1. CASE UNCHANGED vars
  BY <1>1 DEF vars, QueriesInv
<1> QED
  BY <1>1, SyncStep, ReconfigureStep, StartSearchStep, StartEvaluationStep,
     EmbedBatchStep, FailsStep, AnswerSearchStep, SearchCaseStep DEF Next

(* Queries run through their cases in order, every answer is the best one *)
(* of what its plan examined, and what an evaluation has counted is what   *)
(* it has found, whatever syncs commit between its queries.                *)
THEOREM QueriesInvariant == Spec => []QueriesInv
<1>1. Init => QueriesInv
  BY InitInv
<1>2. QueriesInv /\ [Next]_vars => QueriesInv'
  BY InvNext
<1> QED
  BY <1>1, <1>2, PTL DEF Spec

-----------------------------------------------------------------------------
(* What the invariant says of the answers and of the report.               *)

LEMMA NothingIsAnswered ==
  ASSUME command = Idle, answers = <<>>
  PROVE  DOMAIN answers = {} /\ command.stage = "idle"
BY DEF Idle

(* The n-th answer is one to the n-th query.                               *)
LEMMA AnswerOfCase ==
  ASSUME QueriesInv, NEW n \in DOMAIN answers
  PROVE  /\ Runs(command, answers) /\ command.limit \in 1 .. MaxK
         /\ n \in DOMAIN command.embeddings
         /\ command.embeddings[n] = Query(n)
         /\ Query(n).point \in Nat /\ Query(n).model = command.model
         /\ IsAnswer(answers[n], Query(n), command)
<1>1. Runs(command, answers)
  BY NothingIsAnswered DEF QueriesInv
<1>2. /\ command \in Queries /\ answers \in Seq(Answers)
      /\ InOrder(command, answers)
  BY <1>1 DEF Runs
<1>3. n \in DOMAIN command.embeddings /\ command.limit \in 1 .. MaxK
  BY <1>2 DEF InOrder, Queries
<1>4. n \in DOMAIN command.cases
  BY <1>2, <1>3 DEF InOrder, Queries
<1>5. command.embeddings[n] = Query(n)
  BY <1>2, <1>3 DEF InOrder, Embedded, Query
<1>6. Query(n).point \in Nat /\ Query(n).model = command.model
  <2>1. command.cases[n] \in Case
    BY <1>2, <1>4 DEF Queries
  <2>2. command.cases[n].query \in Nat
    BY <2>1, TextsAreChunked DEF Case
  <2> QED
    BY <2>2 DEF Query, Vector
<1>7. IsAnswer(answers[n], Query(n), command)
  BY <1>2, <1>5 DEF InOrder
<1> QED
  BY <1>1, <1>3, <1>5, <1>6, <1>7

LEMMA TypesFollow ==
  ASSUME QueriesInv
  PROVE  TypeOK
<1>1. CASE command = Idle /\ answers = <<>>
  BY <1>1, NothingIsAnswered DEF QueriesInv, TypeOK, Corpora
<1>2. CASE Runs(command, answers)
  <2>1. /\ command \in Queries /\ answers \in Seq(Answers)
        /\ InOrder(command, answers) /\ Counted(command, answers)
    BY <1>2 DEF Runs
  <2>2. /\ command.stage \in {"embedding", "searching", "done", "failed"}
        /\ command.cases \in Seq(Case)
        /\ command.hits \in Nat /\ command.reciprocals \in Nat
        /\ Len(answers) \in Nat /\ Len(command.embeddings) \in Nat
        /\ Len(command.cases) \in Nat
    BY <2>1 DEF Queries
  <2>3. Len(answers) <= Len(command.cases)
    BY <2>1, <2>2 DEF InOrder
  <2>4. /\ command.hits \in 0 .. Len(answers)
        /\ command.reciprocals \in 0 .. Unit * command.hits
    <3> DEFINE most == Unit * command.hits
    <3>1. most \in Nat
      BY <2>2, UnitIsNat
    <3> HIDE DEF most
    <3>2. command.reciprocals <= most /\ command.hits <= Len(answers)
      BY <2>1 DEF Counted, most
    <3> QED
      BY <2>2, <3>1, <3>2 DEF most
  <2>5. ASSUME NEW n \in DOMAIN answers
        PROVE  answers[n].rows \in Seq(Row) /\ Len(answers[n].rows) <= command.limit
    <3>1. IsAnswer(answers[n], Query(n), command) /\ command.limit \in Nat
      BY AnswerOfCase
    <3> DEFINE rows == Compatible(answers[n].examined, command.model, command.filter)
    <3>2. Table(rows) /\ answers[n].rows \in Best(rows, Query(n), command.limit)
      BY <3>1, CompatibleAreTable DEF IsAnswer, Selected
    <3> HIDE DEF rows
    <3>3. Len(answers[n].rows) <= command.limit
      BY <3>1, <3>2, BestFacts
    <3>4. answers[n] \in Answers
      BY <2>1
    <3> QED
      BY <3>3, <3>4 DEF Answers
  <2>6. corpus \in Corpora /\ configured \in Models /\ commits \in 0 .. MaxCommits
    BY DEF QueriesInv
  <2> QED
    BY <2>2, <2>3, <2>4, <2>5, <2>6 DEF TypeOK, Corpora
<1> QED
  BY <1>1, <1>2 DEF QueriesInv

LEMMA OneVectorSpaceFollows ==
  ASSUME QueriesInv
  PROVE  OneVectorSpace
<1> SUFFICES ASSUME NEW n \in DOMAIN answers, NEW i \in DOMAIN answers[n].rows
             PROVE  answers[n].rows[i].model = command.embeddings[n].model
  BY DEF OneVectorSpace
<1> DEFINE rows == Compatible(answers[n].examined, command.model, command.filter)
<1>1. /\ IsAnswer(answers[n], Query(n), command) /\ command.limit \in Nat
      /\ command.embeddings[n].model = command.model
  BY AnswerOfCase
<1>2. Table(rows) /\ answers[n].rows \in Best(rows, Query(n), command.limit)
  BY <1>1, CompatibleAreTable DEF IsAnswer, Selected
<1>3. \A r \in rows : r.model = command.model
  BY DEF Compatible
<1> HIDE DEF rows
<1>4. answers[n].rows[i] \in rows
  BY <1>1, <1>2, BestFacts
<1> QED
  BY <1>1, <1>3, <1>4

LEMMA AnswersAreBestFollows ==
  ASSUME QueriesInv
  PROVE  AnswersAreBest
<1> SUFFICES ASSUME NEW n \in DOMAIN answers
             PROVE  LET rows == Compatible(answers[n].examined,
                                           command.model, command.filter)
                        found == answers[n].rows
                    IN  /\ Len(found) = Smaller(command.limit, Cardinality(rows))
                        /\ \A r \in rows \ ToSet(found), i \in DOMAIN found :
                             Distance(Query(n), found[i]) <= Distance(Query(n), r)
  BY DEF AnswersAreBest
<1> DEFINE rows == Compatible(answers[n].examined, command.model, command.filter)
           found == answers[n].rows
           vector == Query(n)
<1>1. /\ IsAnswer(answers[n], vector, command) /\ command.limit \in Nat
      /\ vector.point \in Nat
  BY AnswerOfCase
<1>2. Table(rows) /\ found \in Best(rows, vector, command.limit)
  BY <1>1, CompatibleAreTable DEF IsAnswer, Selected
<1> HIDE DEF rows, found, vector
<1>3. Len(found) = Smaller(command.limit, Cardinality(rows))
  BY <1>1, <1>2, BestFacts
<1>4. ASSUME NEW r \in rows \ ToSet(found), NEW i \in DOMAIN found
      PROVE  Distance(vector, found[i]) <= Distance(vector, r)
  <2>1. found[i] \in rows /\ r \in rows /\ r.point \in Nat /\ found[i].point \in Nat
    BY <1>1, <1>2, BestFacts DEF Table, Row
  <2>2. ~ Before(vector, r, found[i])
    <3>1. SUFFICES ASSUME Before(vector, r, found[i]) PROVE FALSE
      OBVIOUS
    <3>2. PICK j \in 1 .. i - 1 : found[j] = r
      BY <1>1, <1>2, <2>1, <3>1, BestFacts
    <3>3. j \in DOMAIN found
      BY <1>1, <1>2, BestFacts
    <3> QED
      BY <3>2, <3>3 DEF ToSet
  <2>3. Distance(vector, r) \in Nat /\ Distance(vector, found[i]) \in Nat
    BY <1>1, <2>1 DEF Distance
  <2> QED
    BY <2>2, <2>3 DEF Before
<1> QED
  BY <1>3, <1>4 DEF rows, found, vector

(* The state invariant of the run: types, answers in one vector space, and *)
(* no better answer to be had among the rows a plan examined.              *)
THEOREM AnswersHold == Spec => []RetrievalInv
<1>1. QueriesInv => RetrievalInv
  BY TypesFollow, OneVectorSpaceFollows, AnswersAreBestFollows DEF RetrievalInv
<1> QED
  BY <1>1, QueriesInvariant, PTL

(* Two answers to one query rank the rows they share in the same order,    *)
(* whatever was committed in between and whichever plan was used.          *)
THEOREM RankingIsConsistent == Spec => []ConsistentRanking
<1>1. ASSUME QueriesInv PROVE ConsistentRanking
  <2> SUFFICES ASSUME NEW m \in DOMAIN answers, NEW n \in DOMAIN answers,
                      command.cases[m].query = command.cases[n].query,
                      NEW i \in DOMAIN answers[m].rows,
                      NEW j \in DOMAIN answers[m].rows,
                      NEW k \in DOMAIN answers[n].rows,
                      NEW l \in DOMAIN answers[n].rows,
                      answers[m].rows[i] = answers[n].rows[k],
                      answers[m].rows[j] = answers[n].rows[l],
                      i < j
               PROVE  k < l
    BY DEF ConsistentRanking
  <2> DEFINE vector == Query(n)
             one == answers[m].rows
             other == answers[n].rows
             oneRows == Compatible(answers[m].examined, command.model, command.filter)
             otherRows == Compatible(answers[n].examined, command.model, command.filter)
  <2>1. Query(m) = vector
    BY DEF Query
  <2>2. /\ IsAnswer(answers[m], vector, command)
        /\ IsAnswer(answers[n], vector, command)
        /\ command.limit \in Nat /\ vector.point \in Nat
    BY <1>1, <2>1, AnswerOfCase
  <2>3. /\ Table(oneRows) /\ one \in Best(oneRows, vector, command.limit)
        /\ Table(otherRows) /\ other \in Best(otherRows, vector, command.limit)
    BY <2>2, CompatibleAreTable DEF IsAnswer, Selected
  <2>4. one[i] = other[k] /\ one[j] = other[l]
    OBVIOUS
  <2> HIDE DEF vector, one, other, oneRows, otherRows
  <2>5. Before(vector, other[k], other[l])
    <3>1. Before(vector, one[i], one[j])
      BY <2>2, <2>3, BestIsSorted DEF one
    <3> QED
      BY <2>4, <3>1
  <2>6. k \in DOMAIN other /\ l \in DOMAIN other /\ other[k] \in otherRows
    BY <2>2, <2>3, BestFacts DEF other
  <2>7. PICK p \in 1 .. l - 1 : other[p] = other[k]
    BY <2>2, <2>3, <2>5, <2>6, BestFacts
  <2>8. DOMAIN other = 1 .. Len(other) /\ Len(other) \in Nat
    BY <2>2, <2>3, BestFacts
  <2>9. p = k
    <3>1. p \in DOMAIN other
      BY <2>6, <2>8
    <3> QED
      BY <2>2, <2>3, <2>6, <2>7, <3>1, BestFacts
  <2> QED
    BY <2>6, <2>7, <2>8, <2>9
<1> QED
  BY <1>1, QueriesInvariant, PTL

LEMMA ExpectedRankIsFound ==
  ASSUME QueriesInv, NEW n \in DOMAIN answers, command.filter = Absent
  PROVE  ExpectedRank(n) = Ranks(command, answers)[n]
<1> DEFINE rows == Compatible(answers[n].examined, command.model, Absent)
           found == answers[n].rows
           vector == Query(n)
           expected == command.cases[n].expected
           ranks == RowRanks(rows, vector, expected, command.limit)
           positions == Positions(found, expected)
<1>1. /\ IsAnswer(answers[n], vector, command) /\ command.limit \in Nat
      /\ vector.point \in Nat
  BY AnswerOfCase
<1>2. Table(rows) /\ found \in Best(rows, vector, command.limit)
  BY <1>1, CompatibleAreTable DEF IsAnswer, Selected
<1>3. ExpectedRank(n) = IF ranks = {} THEN Absent ELSE Min(ranks)
  BY DEF ExpectedRank, RowRanks
<1>4. Ranks(command, answers)[n] = IF positions = {} THEN Absent ELSE Min(positions)
  BY DEF Ranks, RankOf, Positions
<1>5. ranks = positions
  <2> HIDE DEF rows, found, vector, expected
  <2> QED
    BY <1>1, <1>2, RanksAgree
<1> HIDE DEF ranks, positions
<1> QED
  BY <1>3, <1>4, <1>5

(* A finished report counts every case once, with the rank that its own    *)
(* query gives it, however the queries were batched.                       *)
THEOREM ReportsAreRight == Spec => []ReportIsRight
<1>1. ASSUME QueriesInv PROVE ReportIsRight
  <2> SUFFICES ASSUME command.stage = "done", command.kind = "evaluate"
               PROVE  LET ranks == [n \in DOMAIN command.cases |-> ExpectedRank(n)]
                      IN  /\ Len(answers) = Len(command.cases)
                          /\ command.hits
                               = Cardinality({n \in DOMAIN ranks : ranks[n] # Absent})
                          /\ command.reciprocals =
                               SumFunction([n \in DOMAIN ranks |-> Reciprocal(ranks[n])])
    BY DEF ReportIsRight
  <2>1. Runs(command, answers)
    BY <1>1, CommandRuns
  <2>2. /\ command \in Queries /\ answers \in Seq(Answers)
        /\ InOrder(command, answers) /\ Counted(command, answers)
    BY <2>1 DEF Runs
  <2>3. Len(answers) = Len(command.cases)
    BY <2>2 DEF InOrder
  <2>4. DOMAIN command.cases = DOMAIN answers
    BY <2>2, <2>3 DEF Queries
  <2>5. /\ command.filter = Absent
        /\ command.hits = Cardinality(Found(Ranks(command, answers)))
        /\ command.reciprocals = SumFunction(Shares(Ranks(command, answers)))
    BY <2>2 DEF Counted
  <2> DEFINE ranks == [n \in DOMAIN command.cases |-> ExpectedRank(n)]
  <2>6. ranks = Ranks(command, answers)
    <3>1. \A n \in DOMAIN answers : ExpectedRank(n) = Ranks(command, answers)[n]
      BY <1>1, <2>5, ExpectedRankIsFound
    <3>2. Ranks(command, answers)
            = [n \in DOMAIN answers |-> Ranks(command, answers)[n]]
      BY DEF Ranks
    <3> QED
      BY <2>4, <3>1, <3>2
  <2> HIDE DEF ranks
  <2>7. /\ command.hits = Cardinality({n \in DOMAIN ranks : ranks[n] # Absent})
        /\ command.reciprocals
             = SumFunction([n \in DOMAIN ranks |-> Reciprocal(ranks[n])])
    BY <2>5, <2>6 DEF Found, Shares
  <2> QED
    BY <2>3, <2>7 DEF ranks
<1> QED
  BY <1>1, QueriesInvariant, PTL


-----------------------------------------------------------------------------
(* The commands of CommandLine: the inductive invariant, per command.      *)

Fresh == {"new", "arguments", "settings", "dataset", "open"}
WithStore == {"work", "syncing", "output"}
Working == Fresh \cup {"initialize"} \cup WithStore

(* The errors for which an exit code promises an unchanged corpus.         *)
Refusals == {"usage", "schema", "busy", "dataset"}

(* A command that has met no exception: how far it is decides the rest.    *)
OnItsWay(r) ==
  r.stage \in Working =>
    /\ r.error = "none" /\ ~ r.printed /\ r.stderr = "empty" /\ r.code = 0
    /\ r.pool = IF r.stage \in Fresh THEN "none" ELSE "open"
    /\ r.assigned <=> r.stage \in WithStore
    /\ r.committed <=> r.stage = "output" /\ r.command = "sync"
    /\ r.stage = "dataset" => r.command = "evaluate"
    /\ r.stage = "syncing" => r.command = "sync"
    /\ r.stage = "output" => r.command # "serve-metrics"

(* One that is over, or about to be: what its error says.                  *)
AtItsEnd(r) ==
  /\ r.stage = "handling" => r.error \notin {"none", "usage"} /\ r.stderr = "empty"
  /\ r.stage \in {"closing", "exited"} =>
       /\ r.error = "none" =>
            /\ r.printed /\ r.stderr = "empty" /\ r.command # "serve-metrics"
            /\ r.command = "sync" => r.committed
       /\ r.code = 0 => \/ r.error = "none"
                        \/ r.error = "interrupt" /\ r.command = "serve-metrics"
       /\ r.code \in {2, 3, 4} => r.error \in Refusals
  /\ r.stage \notin Working /\ r.pool = "open" /\ ~ r.assigned =>
       r.error = "interrupt"
  /\ r.stage = "exited" /\ r.pool = "open" => ~ r.assigned
  /\ r.pool = "abandoned" => r.stage = "exited" /\ r.code = 130

Sound(r) ==
  /\ OnItsWay(r) /\ AtItsEnd(r)
  /\ r.error \in Refusals => ~ r.committed
  /\ r.error \in {"usage", "dataset"} => r.pool = "none" /\ ~ r.assigned

(* Whose sync may have the lock. *)
MayHold(r) ==
  \/ r.stage = "syncing"
  \/ /\ r.stage \in {"handling", "closing"} /\ r.error = "interrupt"
     /\ r.assigned /\ r.pool = "open"

CliInv ==
  /\ schema \in BOOLEAN
  /\ lock \in Procs \cup {Nobody}
  /\ cli \in [Procs -> Process]
  /\ \A p \in Procs : Sound(cli[p])
  /\ LockBelongsToSync

-----------------------------------------------------------------------------
(* The order of the stages. *)
LEMMA StagesInOrder ==
  ASSUME NEW r \in Process
  PROVE  /\ r.stage = "arguments" => StageAfter(r) = "settings"
         /\ r.stage = "settings" =>
              StageAfter(r) = IF r.command = "evaluate" THEN "dataset" ELSE "open"
         /\ r.stage = "dataset" /\ r.command = "evaluate" => StageAfter(r) = "open"
         /\ r.stage = "open" => StageAfter(r) = "initialize"
         /\ r.stage = "initialize" => StageAfter(r) = "work"
         /\ r.stage = "work" => StageAfter(r) = "output"
<1> DEFINE order == Order(r.command)
<1>1. ASSUME NEW i \in DOMAIN order, order[i] = r.stage,
             \A j \in DOMAIN order : order[j] = r.stage => j = i
      PROVE  StageAfter(r) = order[i + 1]
  <2> HIDE DEF order
  <2>1. (CHOOSE j \in DOMAIN order : order[j] = r.stage) = i
    BY <1>1
  <2> QED
    BY <2>1 DEF StageAfter, order
<1>2. CASE r.command = "evaluate"
  <2>1. order = <<"arguments", "settings", "dataset", "open", "initialize",
                  "work", "output">>
    BY <1>2 DEF Order
  <2> HIDE DEF order
  <2>2. DOMAIN order = 1 .. 7
    BY <2>1
  <2>3. /\ order[1] = "arguments" /\ order[2] = "settings" /\ order[3] = "dataset"
        /\ order[4] = "open" /\ order[5] = "initialize" /\ order[6] = "work"
        /\ order[7] = "output"
    BY <2>1
  <2>4. \A j \in 1 .. 7 : j = 1 \/ j = 2 \/ j = 3 \/ j = 4 \/ j = 5 \/ j = 6 \/ j = 7
    OBVIOUS
  <2>5. r.stage = "arguments" => StageAfter(r) = order[1 + 1]
    BY <1>1, <2>2, <2>3, <2>4
  <2>6. r.stage = "settings" => StageAfter(r) = order[2 + 1]
    BY <1>1, <2>2, <2>3, <2>4
  <2>7. r.stage = "dataset" => StageAfter(r) = order[3 + 1]
    BY <1>1, <2>2, <2>3, <2>4
  <2>8. r.stage = "open" => StageAfter(r) = order[4 + 1]
    BY <1>1, <2>2, <2>3, <2>4
  <2>9. r.stage = "initialize" => StageAfter(r) = order[5 + 1]
    BY <1>1, <2>2, <2>3, <2>4
  <2>10. r.stage = "work" => StageAfter(r) = order[6 + 1]
    BY <1>1, <2>2, <2>3, <2>4
  <2> QED
    BY <1>2, <2>3, <2>5, <2>6, <2>7, <2>8, <2>9, <2>10
<1>3. CASE r.command # "evaluate"
  <2>1. order = <<"arguments", "settings", "open", "initialize", "work", "output">>
    BY <1>3 DEF Order
  <2> HIDE DEF order
  <2>2. DOMAIN order = 1 .. 6
    BY <2>1
  <2>3. /\ order[1] = "arguments" /\ order[2] = "settings"
        /\ order[3] = "open" /\ order[4] = "initialize" /\ order[5] = "work"
        /\ order[6] = "output"
    BY <2>1
  <2>4. \A j \in 1 .. 6 : j = 1 \/ j = 2 \/ j = 3 \/ j = 4 \/ j = 5 \/ j = 6
    OBVIOUS
  <2>5. r.stage = "arguments" => StageAfter(r) = order[1 + 1]
    BY <1>1, <2>2, <2>3, <2>4
  <2>6. r.stage = "settings" => StageAfter(r) = order[2 + 1]
    BY <1>1, <2>2, <2>3, <2>4
  <2>7. r.stage = "open" => StageAfter(r) = order[3 + 1]
    BY <1>1, <2>2, <2>3, <2>4
  <2>8. r.stage = "initialize" => StageAfter(r) = order[4 + 1]
    BY <1>1, <2>2, <2>3, <2>4
  <2>9. r.stage = "work" => StageAfter(r) = order[5 + 1]
    BY <1>1, <2>2, <2>3, <2>4
  <2> QED
    BY <1>3, <2>3, <2>5, <2>6, <2>7, <2>8, <2>9
<1> QED
  BY <1>2, <1>3

(* A stage that raises nothing leads to the next one; initialize() and the *)
(* work with the store are apart.                                          *)
LEMMA PassedIsSound ==
  ASSUME NEW r \in Process, Sound(r),
         \/ r.stage \in {"arguments", "settings", "dataset"}
         \/ r.stage = "work" /\ r.command \notin {"sync", "serve-metrics"}
  PROVE  Passed(r) \in Process /\ Sound(Passed(r))
<1>1. /\ StageAfter(r) \in {"settings", "dataset", "open", "output"}
      /\ StageAfter(r) = "dataset" => r.command = "evaluate"
      /\ StageAfter(r) = "output" <=> r.stage = "work"
  BY StagesInOrder DEF Sound, OnItsWay, Working, Fresh
<1> DEFINE after == StageAfter(r)
           next == [r EXCEPT !.stage = after]
<1>2. Passed(r) = next
  BY DEF Passed
<1> HIDE DEF after
<1>3. next \in Process
  BY <1>1 DEF Process, Stages, after
<1>4. Sound(next)
  BY <1>1 DEF Process, Sound, OnItsWay, AtItsEnd, Working, Fresh, WithStore, Refusals, after
<1> QED
  BY <1>2, <1>3, <1>4

(* An exception on its way out, or out already. *)
LEMMA RaisedIsSound ==
  ASSUME NEW r \in Process, Sound(r), r.stage \in Working \ {"new"},
         NEW error \in Errors \ {"none"},
         error = "usage" => r.stage = "arguments",
         r.stage \in {"arguments", "settings"} => error \in {"usage", "other", "interrupt"},
         error = "dataset" => r.stage = "dataset",
         r.stage = "initialize" => error = "interrupt",
         error \in Refusals => r.stage # "output"
  PROVE  /\ Raised(r, error) \in Process /\ Sound(Raised(r, error))
         /\ Raised(r, error).stage \in {"handling", "exited"}
         /\ Raised(r, error).error = error
<1>1. CASE r.stage \in {"arguments", "settings"}
  <2> DEFINE code == Code(error, FALSE)
             stderr == IF error = "usage" THEN "usage" ELSE "traceback"
             next == [r EXCEPT !.stage = "exited", !.error = error, !.code = code,
                               !.stderr = stderr]
  <2>1. Raised(r, error) = next
    BY <1>1 DEF Raised
  <2>2. code = IF error = "usage" THEN 2 ELSE IF error = "interrupt" THEN 130 ELSE 1
    BY <1>1 DEF Code
  <2> HIDE DEF code
  <2>3. next \in Process
    <3>1. code \in {0, 1, 2, 3, 4, 130}
      BY <2>2
    <3>2. stderr \in {"empty", "report", "usage", "traceback"}
      OBVIOUS
    <3> HIDE DEF stderr
    <3> QED
      BY <3>1, <3>2 DEF Process, Stages
  <2>4. Sound(next)
    BY <1>1, <2>2 DEF Process, Sound, OnItsWay, AtItsEnd, Working, Fresh, WithStore, Refusals
  <2>5. next.stage = "exited" /\ next.error = error
    BY DEF Process
  <2> HIDE DEF next
  <2> QED
    BY <2>1, <2>3, <2>4, <2>5
<1>2. CASE r.stage \notin {"arguments", "settings"}
  <2> DEFINE next == [r EXCEPT !.stage = "handling", !.error = error]
  <2>1. Raised(r, error) = next
    BY <1>2 DEF Raised
  <2>2. next \in Process
    BY DEF Process, Stages
  <2>3. Sound(next)
    BY <1>2 DEF Process, Sound, OnItsWay, AtItsEnd, Working, Fresh, WithStore, Refusals
  <2>4. next.stage = "handling" /\ next.error = error
    BY DEF Process
  <2> HIDE DEF next
  <2> QED
    BY <2>1, <2>2, <2>3, <2>4
<1> QED
  BY <1>1, <1>2

(* Whether a sync has committed is open after these errors.                *)
LEMMA CommittedIsSound ==
  ASSUME NEW r \in Process, Sound(r), r.stage \in {"handling", "exited"},
         r.error \in {"failed", "other", "interrupt"}, NEW committed \in BOOLEAN
  PROVE  /\ [r EXCEPT !.committed = committed] \in Process
         /\ Sound([r EXCEPT !.committed = committed])
         /\ [r EXCEPT !.committed = committed].stage = r.stage
<1> DEFINE next == [r EXCEPT !.committed = committed]
<1>1. next \in Process /\ next.stage = r.stage
  BY DEF Process
<1>2. Sound(next)
  BY DEF Process, Sound, OnItsWay, AtItsEnd, Working, Fresh, WithStore, Refusals
<1> QED
  BY <1>1, <1>2

(* make_store has closed what it could not initialize.                     *)
LEMMA FailedInitializeIsSound ==
  ASSUME NEW r \in Process, Sound(r), r.stage = "initialize",
         NEW error \in {"schema", "other"}
  PROVE  LET next == AfterFailedInitialize(Raised(r, error))
         IN  next \in Process /\ Sound(next) /\ next.stage = "handling"
<1> DEFINE next == [[r EXCEPT !.stage = "handling", !.error = error] EXCEPT !.pool = "closed"]
<1>1. AfterFailedInitialize(Raised(r, error)) = next
  BY DEF AfterFailedInitialize, Raised
<1>2. error \in Errors
  BY DEF Errors
<1>3. next \in Process /\ next.stage = "handling"
  BY <1>2 DEF Process, Stages
<1>4. Sound(next)
  BY DEF Process, Sound, OnItsWay, AtItsEnd, Working, Fresh, WithStore, Refusals
<1> HIDE DEF next
<1> QED
  BY <1>1, <1>3, <1>4

(* A step of one process to a sound state, that takes the lock if it       *)
(* enters a sync, and gives it back if it leaves one or its session ends.  *)
LockAgrees(p, next) ==
  \/ lock' = lock /\ (MayHold(cli[p]) => MayHold(next))
  \/ lock' = p /\ MayHold(next)
  \/ lock' \in {Nobody, Unlocked(p)}

LEMMA StepIsSound ==
  ASSUME CliInv, NEW p \in Procs, NEW next \in Process, Sound(next),
         Proceed(p, next), LockAgrees(p, next)
  PROVE  CliInv'
<1>1. UNCHANGED schema /\ cli' = [cli EXCEPT ![p] = next]
  BY DEF Proceed, Unstarted
<1>2. /\ cli' \in [Procs -> Process] /\ cli'[p] = next
      /\ \A q \in Procs \ {p} : cli'[q] = cli[q]
  BY <1>1 DEF CliInv
<1>3. lock' \in Procs \cup {Nobody}
  BY DEF CliInv, LockAgrees, Unlocked
<1>4. \A q \in Procs : Sound(cli'[q])
  BY <1>2 DEF CliInv
<1>5. LockBelongsToSync'
  BY <1>2 DEF CliInv, LockBelongsToSync, MayHold, LockAgrees, Unlocked
<1> QED
  BY <1>1, <1>2, <1>3, <1>4, <1>5 DEF CliInv

(* The record of a process. *)
LEMMA RecordOf ==
  ASSUME CliInv, NEW p \in Procs
  PROVE  cli[p] \in Process /\ Sound(cli[p])
BY DEF CliInv

(* An exception while the lock is not held by p. *)
LEMMA RaiseStep ==
  ASSUME CliInv, NEW p \in Procs, UNCHANGED lock,
         cli[p].stage \in Working \ {"new", "syncing"},
         NEW error \in Errors \ {"none"}, Proceed(p, Raised(cli[p], error)),
         error = "usage" => cli[p].stage = "arguments",
         cli[p].stage \in {"arguments", "settings"} => error \in {"usage", "other", "interrupt"},
         error = "dataset" => cli[p].stage = "dataset",
         cli[p].stage = "initialize" => error = "interrupt",
         error \in Refusals => cli[p].stage # "output"
  PROVE  CliInv'
<1> DEFINE r == cli[p]
           next == Raised(r, error)
<1>1. r \in Process /\ Sound(r) /\ r.stage # "syncing"
  BY RecordOf
<1> HIDE DEF r
<1>2. next \in Process /\ Sound(next)
  BY <1>1, RaisedIsSound DEF r
<1>3. Proceed(p, next) /\ LockAgrees(p, next)
  BY <1>1 DEF r, LockAgrees, MayHold, Working, Fresh, WithStore
<1> HIDE DEF next
<1> QED
  BY <1>2, <1>3, StepIsSound

LEMMA PassStep ==
  ASSUME CliInv, NEW p \in Procs, UNCHANGED lock, Proceed(p, Passed(cli[p])),
         \/ cli[p].stage \in {"arguments", "settings", "dataset"}
         \/ cli[p].stage = "work" /\ cli[p].command \notin {"sync", "serve-metrics"}
  PROVE  CliInv'
<1> DEFINE r == cli[p]
           next == Passed(r)
<1>1. r \in Process /\ Sound(r) /\ r.stage # "syncing"
  BY RecordOf
<1> HIDE DEF r
<1>2. next \in Process /\ Sound(next)
  BY <1>1, PassedIsSound DEF r
<1>3. Proceed(p, next) /\ LockAgrees(p, next)
  BY <1>1 DEF r, LockAgrees, MayHold
<1> HIDE DEF next
<1> QED
  BY <1>2, <1>3, StepIsSound

-----------------------------------------------------------------------------
(* The actions. *)

LEMMA MigrateSchemaStep == CliInv /\ MigrateSchema => CliInv'
BY DEF CliInv, MigrateSchema, LockBelongsToSync

LEMMA BegunIsSound ==
  ASSUME NEW name \in Commands
  PROVE  /\ Begun(name) \in Process /\ Sound(Begun(name))
         /\ [Begun(name) EXCEPT !.stage = "new"] \in Process
         /\ Sound([Begun(name) EXCEPT !.stage = "new"])
<1>1. Begun(name) \in Process
  BY DEF Begun, Process, Stages, Errors
<1>2. Sound(Begun(name))
  BY DEF Begun, Sound, OnItsWay, AtItsEnd, Working, Fresh, WithStore, Refusals
<1> DEFINE new == [Begun(name) EXCEPT !.stage = "new"]
<1>3. new \in Process
  BY <1>1 DEF Process, Stages
<1>4. Sound(new)
  BY DEF Begun, Sound, OnItsWay, AtItsEnd, Working, Fresh, WithStore, Refusals
<1> QED
  BY <1>1, <1>2, <1>3, <1>4

LEMMA StartStep ==
  ASSUME CliInv, NEW p \in Procs, Start(p)
  PROVE  CliInv'
<1>1. PICK name \in Commands : cli' = [cli EXCEPT ![p] = Begun(name)]
  BY DEF Start
<1> DEFINE next == Begun(name)
<1>2. next \in Process /\ Sound(next)
  BY BegunIsSound
<1> HIDE DEF next
<1>3. /\ cli' \in [Procs -> Process] /\ cli'[p] = next
      /\ \A q \in Procs \ {p} : cli'[q] = cli[q]
  BY <1>1, <1>2 DEF CliInv, next
<1>4. UNCHANGED <<schema, lock>> /\ cli[p].stage \in {"new", "exited"}
  BY DEF Start
<1>5. LockBelongsToSync'
  BY <1>3, <1>4 DEF CliInv, LockBelongsToSync
<1>6. \A q \in Procs : Sound(cli'[q])
  BY <1>2, <1>3 DEF CliInv
<1> QED
  BY <1>3, <1>4, <1>5, <1>6 DEF CliInv

LEMMA CheckArgumentsStep ==
  ASSUME CliInv, NEW p \in Procs, CheckArguments(p)
  PROVE  CliInv'
<1>1. UNCHANGED lock /\ cli[p].stage = "arguments"
  BY DEF CheckArguments
<1>2. CASE Proceed(p, Passed(cli[p]))
  BY <1>1, <1>2, PassStep
<1>3. ASSUME NEW error \in {"usage", "other"}, Proceed(p, Raised(cli[p], error))
      PROVE  CliInv'
  BY <1>1, <1>3, RaiseStep DEF Errors, Working, Fresh, Refusals
<1> QED
  BY <1>2, <1>3 DEF CheckArguments

LEMMA LoadSettingsStep ==
  ASSUME CliInv, NEW p \in Procs, LoadSettings(p)
  PROVE  CliInv'
<1>1. UNCHANGED lock /\ cli[p].stage = "settings"
  BY DEF LoadSettings
<1>2. CASE Proceed(p, Passed(cli[p]))
  BY <1>1, <1>2, PassStep
<1>3. ASSUME NEW error \in {"other"}, Proceed(p, Raised(cli[p], error))
      PROVE  CliInv'
  BY <1>1, <1>3, RaiseStep DEF Errors, Working, Fresh, Refusals
<1> QED
  BY <1>2, <1>3 DEF LoadSettings

LEMMA LoadDatasetStep ==
  ASSUME CliInv, NEW p \in Procs, LoadDataset(p)
  PROVE  CliInv'
<1>1. UNCHANGED lock /\ cli[p].stage = "dataset"
  BY DEF LoadDataset
<1>2. CASE Proceed(p, Passed(cli[p]))
  BY <1>1, <1>2, PassStep
<1>3. ASSUME NEW error \in {"dataset"}, Proceed(p, Raised(cli[p], error))
      PROVE  CliInv'
  BY <1>1, <1>3, RaiseStep DEF Errors, Working, Fresh, Refusals
<1> QED
  BY <1>2, <1>3 DEF LoadDataset

LEMMA OpenPoolStep ==
  ASSUME CliInv, NEW p \in Procs, OpenPool(p)
  PROVE  CliInv'
<1> DEFINE r == cli[p]
           after == StageAfter(r)
           next == [[r EXCEPT !.stage = after] EXCEPT !.pool = "open"]
<1>1. r \in Process /\ Sound(r) /\ r.stage = "open" /\ UNCHANGED lock
  BY RecordOf DEF OpenPool
<1>2. Proceed(p, next)
  BY DEF OpenPool, Passed
<1> HIDE DEF r
<1>3. after = "initialize"
  BY <1>1, StagesInOrder
<1> HIDE DEF after
<1>4. next \in Process
  BY <1>1, <1>3 DEF Process, Stages
<1>5. Sound(next)
  BY <1>1, <1>3 DEF Process, Sound, OnItsWay, AtItsEnd, Working, Fresh, WithStore, Refusals
<1>6. LockAgrees(p, next)
  BY <1>1 DEF r, LockAgrees, MayHold
<1> HIDE DEF next
<1> QED
  BY <1>2, <1>4, <1>5, <1>6, StepIsSound

LEMMA InitializeStep ==
  ASSUME CliInv, NEW p \in Procs, Initialize(p)
  PROVE  CliInv'
<1> DEFINE r == cli[p]
           after == StageAfter(r)
           next == [[r EXCEPT !.stage = after] EXCEPT !.assigned = TRUE]
<1>1. r \in Process /\ Sound(r) /\ r.stage = "initialize" /\ UNCHANGED lock
  BY RecordOf DEF Initialize
<1>2. Proceed(p, next)
  BY DEF Initialize, Passed
<1> HIDE DEF r
<1>3. after = "work"
  BY <1>1, StagesInOrder
<1> HIDE DEF after
<1>4. next \in Process
  BY <1>1, <1>3 DEF Process, Stages
<1>5. Sound(next)
  BY <1>1, <1>3 DEF Process, Sound, OnItsWay, AtItsEnd, Working, Fresh, WithStore, Refusals
<1>6. LockAgrees(p, next)
  BY <1>1 DEF r, LockAgrees, MayHold
<1> HIDE DEF next
<1> QED
  BY <1>2, <1>4, <1>5, <1>6, StepIsSound

LEMMA InitializeFailsStep ==
  ASSUME CliInv, NEW p \in Procs, InitializeFails(p)
  PROVE  CliInv'
<1>1. PICK error \in {"schema", "other"} :
        Proceed(p, AfterFailedInitialize(Raised(cli[p], error)))
  BY DEF InitializeFails
<1> DEFINE r == cli[p]
           next == AfterFailedInitialize(Raised(r, error))
<1>2. r \in Process /\ Sound(r) /\ r.stage = "initialize" /\ UNCHANGED lock
  BY RecordOf DEF InitializeFails
<1>3. Proceed(p, next)
  BY <1>1
<1>4. LockAgrees(p, next)
  BY <1>2 DEF LockAgrees, MayHold
<1> HIDE DEF r
<1>5. next \in Process /\ Sound(next)
  BY <1>2, FailedInitializeIsSound
<1> HIDE DEF next
<1> QED
  BY <1>3, <1>4, <1>5, StepIsSound

LEMMA ReadStep ==
  ASSUME CliInv, NEW p \in Procs, Read(p)
  PROVE  CliInv'
<1>1. UNCHANGED lock /\ cli[p].stage = "work" /\ cli[p].command # "sync"
  BY DEF Read
<1>2. CASE cli[p].command # "serve-metrics" /\ Proceed(p, Passed(cli[p]))
  BY <1>1, <1>2, PassStep
<1>3. ASSUME NEW error \in {"other"}, Proceed(p, Raised(cli[p], error))
      PROVE  CliInv'
  BY <1>1, <1>3, RaiseStep DEF Errors, Working, WithStore, Refusals
<1> QED
  BY <1>2, <1>3 DEF Read

LEMMA StartSyncStep ==
  ASSUME CliInv, NEW p \in Procs, StartSync(p)
  PROVE  CliInv'
<1>1. cli[p].stage = "work" /\ cli[p].command = "sync"
  BY DEF StartSync
<1>2. CASE lock = Nobody /\ lock' = p /\ Proceed(p, [cli[p] EXCEPT !.stage = "syncing"])
  <2> DEFINE r == cli[p]
             next == [r EXCEPT !.stage = "syncing"]
  <2>1. r \in Process /\ Sound(r)
    BY RecordOf
  <2>2. Proceed(p, next)
    BY <1>2
  <2>3. r.stage = "work" /\ r.command = "sync"
    BY <1>1
  <2> HIDE DEF r
  <2>4. next \in Process /\ next.stage = "syncing"
    BY <2>1 DEF Process, Stages
  <2>5. Sound(next)
    BY <2>1, <2>3 DEF Process, Sound, OnItsWay, AtItsEnd, Working, Fresh, WithStore, Refusals
  <2> HIDE DEF next
  <2> QED
    BY <1>2, <2>2, <2>4, <2>5, StepIsSound DEF LockAgrees, MayHold
<1>3. ASSUME NEW error \in {"busy", "other"}, UNCHANGED lock,
             Proceed(p, Raised(cli[p], error))
      PROVE  CliInv'
  BY <1>1, <1>3, RaiseStep DEF Errors, Working, WithStore, Refusals
<1> QED
  BY <1>2, <1>3 DEF StartSync

(* An exception in a sync, or on the way into it; it may have committed.   *)
LEMMA SyncRaises ==
  ASSUME CliInv, NEW p \in Procs,
         NEW error \in {"failed", "other", "interrupt"}, NEW committed \in BOOLEAN,
         \/ cli[p].stage = "syncing"
         \/ cli[p].stage = "work" /\ error = "interrupt",
         Proceed(p, [Raised(cli[p], error) EXCEPT !.committed = committed]),
         \/ lock' \in {Nobody, Unlocked(p)}
         \/ lock' = p /\ error = "interrupt"
  PROVE  CliInv'
<1> DEFINE r == cli[p]
           raised == Raised(r, error)
           next == [raised EXCEPT !.committed = committed]
<1>1. r \in Process /\ Sound(r) /\ Proceed(p, next)
  BY RecordOf
<1>2. r.stage \in {"syncing", "work"}
  OBVIOUS
<1> HIDE DEF r
<1>3. /\ raised \in Process /\ Sound(raised) /\ raised.error = error
      /\ raised.stage \in {"handling", "exited"}
  BY <1>1, <1>2, RaisedIsSound DEF Errors, Working, WithStore, Refusals
<1>4. MayHold(raised) \/ error # "interrupt"
  <2>1. raised = [r EXCEPT !.stage = "handling", !.error = error]
    BY <1>2 DEF Raised
  <2>2. r.assigned /\ r.pool = "open"
    BY <1>1, <1>2 DEF Sound, OnItsWay, Working, Fresh, WithStore
  <2> QED
    BY <1>1, <2>1, <2>2 DEF Process, MayHold
<1> HIDE DEF raised
<1>5. next \in Process /\ Sound(next)
  BY <1>3, CommittedIsSound
<1>6. MayHold(raised) => MayHold(next)
  BY <1>3 DEF MayHold, Process
<1>7. LockAgrees(p, next)
  BY <1>4, <1>6 DEF LockAgrees
<1> HIDE DEF next
<1> QED
  BY <1>1, <1>5, <1>7, StepIsSound

LEMMA EndSyncStep ==
  ASSUME CliInv, NEW p \in Procs, EndSync(p)
  PROVE  CliInv'
<1>1. cli[p].stage = "syncing" /\ lock' = Unlocked(p)
  BY DEF EndSync
<1>2. CASE Proceed(p, [cli[p] EXCEPT !.stage = "output", !.committed = TRUE])
  <2> DEFINE r == cli[p]
             next == [r EXCEPT !.stage = "output", !.committed = TRUE]
  <2>1. r \in Process /\ Sound(r) /\ r.stage = "syncing"
    BY <1>1, RecordOf
  <2>2. Proceed(p, next)
    BY <1>2
  <2> HIDE DEF r
  <2>3. next \in Process
    BY <2>1 DEF Process, Stages
  <2>4. Sound(next)
    BY <2>1 DEF Process, Sound, OnItsWay, AtItsEnd, Working, Fresh, WithStore, Refusals
  <2>5. LockAgrees(p, next)
    BY <1>1 DEF LockAgrees, Unlocked
  <2> HIDE DEF next
  <2> QED
    BY <2>2, <2>3, <2>4, <2>5, StepIsSound
<1>3. ASSUME NEW error \in {"failed", "other"}, NEW committed \in BOOLEAN,
             Proceed(p, [Raised(cli[p], error) EXCEPT !.committed = committed])
      PROVE  CliInv'
  BY <1>1, <1>3, SyncRaises DEF Unlocked
<1> QED
  BY <1>2, <1>3 DEF EndSync

LEMMA PrintResultStep ==
  ASSUME CliInv, NEW p \in Procs, PrintResult(p)
  PROVE  CliInv'
<1>1. cli[p].stage = "output" /\ UNCHANGED lock
  BY DEF PrintResult
<1>2. CASE Proceed(p, [cli[p] EXCEPT !.printed = TRUE, !.stage = "closing"])
  <2> DEFINE r == cli[p]
             next == [r EXCEPT !.printed = TRUE, !.stage = "closing"]
  <2>1. r \in Process /\ Sound(r) /\ r.stage = "output"
    BY <1>1, RecordOf
  <2>2. Proceed(p, next)
    BY <1>2
  <2>3. LockAgrees(p, next)
    BY <1>1 DEF LockAgrees, MayHold
  <2> HIDE DEF r
  <2>4. next \in Process
    BY <2>1 DEF Process, Stages
  <2>5. Sound(next)
    BY <2>1 DEF Process, Sound, OnItsWay, AtItsEnd, Working, Fresh, WithStore, Refusals
  <2> HIDE DEF next
  <2> QED
    BY <2>2, <2>3, <2>4, <2>5, StepIsSound
<1>3. ASSUME NEW error \in {"other"}, Proceed(p, Raised(cli[p], error))
      PROVE  CliInv'
  BY <1>1, <1>3, RaiseStep DEF Errors, Working, WithStore, Refusals
<1> QED
  BY <1>2, <1>3 DEF PrintResult

LEMMA InterruptStep ==
  ASSUME CliInv, NEW p \in Procs, Interrupt(p)
  PROVE  CliInv'
<1>1. PICK committed \in IF cli[p].stage = "syncing" THEN BOOLEAN ELSE {cli[p].committed} :
        Proceed(p, [Raised(cli[p], "interrupt") EXCEPT !.committed = committed])
  BY DEF Interrupt
<1> DEFINE r == cli[p]
<1>2. /\ r \in Process /\ Sound(r) /\ r.stage \notin {"new", "handling", "closing", "exited"}
      /\ lock' \in LocksAfterInterrupt(p)
  BY RecordOf DEF Interrupt
<1>3. CASE r.stage = "syncing" \/ (r.stage = "work" /\ lock' # lock)
  <2>1. lock' \in {Nobody, p}
    BY <1>2, <1>3 DEF LocksAfterInterrupt
  <2>2. committed \in BOOLEAN
    BY <1>2 DEF Process
  <2> QED
    BY <1>1, <1>3, <2>1, <2>2, SyncRaises
<1>4. CASE ~ (r.stage = "syncing" \/ (r.stage = "work" /\ lock' # lock))
  <2> DEFINE raised == Raised(r, "interrupt")
             next == [raised EXCEPT !.committed = committed]
  <2>2. committed = r.committed /\ Proceed(p, next)
    BY <1>1, <1>4
  <2>3. LockAgrees(p, next)
    BY <1>2, <1>4 DEF LockAgrees, MayHold, LocksAfterInterrupt
  <2> HIDE DEF r
  <2>4. r.stage \in Working \ {"new"}
    BY <1>2 DEF Process, Stages, Working, Fresh, WithStore
  <2>5. /\ raised \in Process /\ Sound(raised) /\ raised.error = "interrupt"
        /\ raised.stage \in {"handling", "exited"}
    BY <1>2, <2>4, RaisedIsSound DEF Errors, Refusals
  <2>6. committed \in BOOLEAN
    BY <1>2, <2>2 DEF Process
  <2> HIDE DEF raised
  <2>7. next \in Process /\ Sound(next)
    BY <2>5, <2>6, CommittedIsSound
  <2> HIDE DEF next
  <2> QED
    BY <2>2, <2>3, <2>7, StepIsSound
<1> QED
  BY <1>3, <1>4

(* An interrupt of the except clauses: the lock is not held any more.      *)
LEMMA InterruptHandlerStep ==
  ASSUME CliInv, NEW p \in Procs, InterruptHandler(p)
  PROVE  CliInv'
<1> DEFINE r == cli[p]
           code == Code("interrupt", FALSE)
           next == [r EXCEPT !.stage = "closing", !.error = "interrupt",
                             !.code = code, !.stderr = "traceback"]
<1>1. /\ r \in Process /\ Sound(r) /\ r.stage = "handling"
      /\ r.error # "interrupt" /\ UNCHANGED lock /\ Proceed(p, next)
  BY RecordOf DEF InterruptHandler
<1>2. LockAgrees(p, next)
  BY <1>1 DEF LockAgrees, MayHold
<1>3. code = 130
  BY DEF Code
<1> HIDE DEF r, code
<1>4. next \in Process
  BY <1>1, <1>3 DEF Process, Stages, Errors
<1>5. Sound(next)
  BY <1>1, <1>3 DEF Process, Sound, OnItsWay, AtItsEnd, Working, Fresh, WithStore, Refusals
<1> HIDE DEF next
<1> QED
  BY <1>1, <1>2, <1>4, <1>5, StepIsSound

(* ... and of the clean-up. *)
LEMMA InterruptCloseStep ==
  ASSUME CliInv, NEW p \in Procs, InterruptClose(p)
  PROVE  CliInv'
<1> DEFINE r == cli[p]
           code == Code("interrupt", FALSE)
           pool == IF r.assigned THEN "abandoned" ELSE r.pool
           next == [r EXCEPT !.stage = "exited", !.error = "interrupt",
                             !.code = code, !.stderr = "traceback", !.pool = pool]
<1>1. /\ r \in Process /\ Sound(r) /\ r.stage = "closing"
      /\ r.error # "interrupt" /\ UNCHANGED lock
  BY RecordOf DEF InterruptClose
<1>2. Proceed(p, next)
  <2>1. next = [r EXCEPT !.stage = "exited", !.error = "interrupt",
                         !.code = code, !.stderr = "traceback",
                         !.pool = IF r.assigned THEN "abandoned" ELSE @]
    BY <1>1 DEF Process
  <2> QED
    BY <2>1 DEF InterruptClose
<1>3. LockAgrees(p, next)
  BY <1>1 DEF LockAgrees, MayHold
<1>4. code = 130
  BY DEF Code
<1> HIDE DEF r, code
<1>5. /\ pool \in {"none", "open", "closed", "abandoned"}
      /\ pool = "open" => ~ r.assigned
  BY <1>1 DEF Process
<1> HIDE DEF pool
<1>6. next \in Process
  <2>1. "exited" \in Stages /\ "interrupt" \in Errors
    BY DEF Stages, Errors
  <2> QED
    BY <1>1, <1>4, <1>5, <2>1 DEF Process
<1>7. Sound(next)
  BY <1>1, <1>4, <1>5 DEF Process, Sound, OnItsWay, AtItsEnd, Working, Fresh, WithStore, Refusals
<1> HIDE DEF next
<1> QED
  BY <1>2, <1>3, <1>6, <1>7, StepIsSound

LEMMA HandleStep ==
  ASSUME CliInv, NEW p \in Procs, Handle(p)
  PROVE  CliInv'
<1> DEFINE r == cli[p]
           caught == r.error \in Catches(r.command)
           code == Code(r.error, caught)
           stderr == IF caught THEN "report" ELSE "traceback"
           next == [r EXCEPT !.stage = "closing", !.code = code, !.stderr = stderr]
<1>1. r \in Process /\ Sound(r) /\ r.stage = "handling" /\ UNCHANGED lock
  BY RecordOf DEF Handle
<1>2. Proceed(p, next)
  BY DEF Handle
<1>3. LockAgrees(p, next)
  BY <1>1 DEF LockAgrees, MayHold, Process
<1> HIDE DEF r
<1>4. caught \in BOOLEAN
  OBVIOUS
<1>5. r.error = "interrupt" /\ caught => r.command = "serve-metrics"
  <2>1. r.command \in Commands
    BY <1>1 DEF Process
  <2> QED
    BY <2>1 DEF Catches, Commands
<1>6. r.error \in Errors \ {"none", "usage"}
  BY <1>1 DEF Process, Sound, AtItsEnd
<1>7. code = IF r.error = "schema" THEN 2 ELSE IF r.error = "busy" THEN 3
             ELSE IF r.error = "dataset" THEN 4
             ELSE IF r.error = "interrupt" THEN IF caught THEN 0 ELSE 130 ELSE 1
  <2> HIDE DEF caught
  <2> QED
    BY <1>6 DEF Code, Errors
<1> HIDE DEF caught, code
<1>8. code \in {0, 1, 2, 3, 4, 130}
  BY <1>4, <1>7
<1>9. stderr \in {"empty", "report", "usage", "traceback"}
  OBVIOUS
<1> HIDE DEF stderr
<1>10. next \in Process
  BY <1>1, <1>8, <1>9 DEF Process, Stages
<1>11. /\ code = 0 => r.error = "interrupt" /\ r.command = "serve-metrics"
       /\ code \in {2, 3, 4} => r.error \in Refusals
  BY <1>4, <1>5, <1>7 DEF Refusals
<1>12. Sound(next)
  BY <1>1, <1>6, <1>11 DEF Process, Sound, OnItsWay, AtItsEnd, Working, Fresh, WithStore, Refusals
<1> HIDE DEF next
<1> QED
  BY <1>2, <1>3, <1>10, <1>12, StepIsSound

LEMMA CloseStep ==
  ASSUME CliInv, NEW p \in Procs, Close(p)
  PROVE  CliInv'
<1> DEFINE r == cli[p]
           pool == IF r.assigned THEN "closed" ELSE r.pool
           next == [r EXCEPT !.stage = "exited", !.pool = pool]
<1>1. r \in Process /\ Sound(r) /\ r.stage = "closing"
  BY RecordOf DEF Close
<1>2. Proceed(p, next)
  <2>1. next = [r EXCEPT !.stage = "exited", !.pool = IF r.assigned THEN "closed" ELSE @]
    BY <1>1 DEF Process
  <2> QED
    BY <2>1 DEF Close
<1>3. LockAgrees(p, next)
  BY DEF LockAgrees, Close
<1> HIDE DEF r
<1>4. pool \in {"none", "open", "closed", "abandoned"}
  BY <1>1 DEF Process
<1>5. next \in Process
  <2> HIDE DEF pool
  <2> QED
    BY <1>1, <1>4 DEF Process, Stages
<1>6. r.error \in {"usage", "dataset"} => pool = "none"
  <2>1. r.error \in {"usage", "dataset"} => ~ r.assigned
    BY <1>1 DEF Sound
  <2> QED
    BY <1>1, <2>1 DEF Sound
<1>7. Sound(next)
  BY <1>1, <1>6 DEF Process, Sound, OnItsWay, AtItsEnd, Working, Fresh, WithStore, Refusals
<1> HIDE DEF next
<1> QED
  BY <1>2, <1>3, <1>5, <1>7, StepIsSound

-----------------------------------------------------------------------------
(* What holds of the commands.                                             *)

LEMMA CliInvStarts == CliInit => CliInv
<1> SUFFICES ASSUME CliInit PROVE CliInv
  OBVIOUS
<1> DEFINE new == [Begun("status") EXCEPT !.stage = "new"]
<1>1. new \in Process /\ Sound(new)
  BY BegunIsSound DEF Commands
<1>2. schema \in BOOLEAN /\ lock = Nobody /\ cli = [p \in Procs |-> new]
  BY DEF CliInit
<1> HIDE DEF new
<1> QED
  BY <1>1, <1>2 DEF CliInv, LockBelongsToSync

LEMMA CliInvStep == CliInv /\ [CliNext]_CliVars => CliInv'
<1> SUFFICES ASSUME CliInv, [CliNext]_CliVars PROVE CliInv'
  OBVIOUS
<1>1. CASE UNCHANGED CliVars
  BY <1>1 DEF CliInv, CliVars, LockBelongsToSync
<1> QED
  BY <1>1, MigrateSchemaStep, StartStep, CheckArgumentsStep, LoadSettingsStep,
     LoadDatasetStep, OpenPoolStep, InitializeStep, InitializeFailsStep, ReadStep,
     StartSyncStep, EndSyncStep, PrintResultStep, InterruptStep,
     InterruptHandlerStep, InterruptCloseStep, HandleStep, CloseStep DEF CliNext

(* The inductive invariant holds of every behaviour of the commands.       *)
THEOREM CommandsInvariant == CliSpec => []CliInv
BY CliInvStarts, CliInvStep, PTL DEF CliSpec

(* However a command ends, its pool is closed (but for an interrupt inside *)
(* make_store, cli.py:51, or close(), cli.py:208), a mistake of the user   *)
(* reaches no database, and no sync leaves the lock behind, wherever it is *)
(* interrupted.                                                            *)
THEOREM CommandsCleanUp == CliSpec => []CommandInv
<1>1. CliInv => CommandInv
  <2> SUFFICES ASSUME CliInv PROVE CommandInv
    OBVIOUS
  <2>1. CliTypeOK
    BY DEF CliInv, CliTypeOK, Sound, OnItsWay, Working, Fresh, WithStore
  <2>2. PoolsAreClosed
    BY DEF CliInv, PoolsAreClosed, Exited, Sound, AtItsEnd, Working, Fresh, WithStore
  <2>3. InvalidInputOpensNothing
    BY DEF CliInv, InvalidInputOpensNothing, Sound
  <2>4. LockBelongsToSync
    BY DEF CliInv
  <2> QED
    BY <2>1, <2>2, <2>3, <2>4 DEF CommandInv
<1> QED
  BY <1>1, CommandsInvariant, PTL

(* Exit code 0 means that the result was printed and a sync has committed; *)
(* 2, 3 and 4 that the corpus is as it was (docs/OPERATIONS.md:93).        *)
THEOREM ExitCodesTellTheTruth == CliSpec => []ExitCodesAreRight
<1>1. CliInv => ExitCodesAreRight
  <2> SUFFICES ASSUME CliInv PROVE ExitCodesAreRight
    OBVIOUS
  <2>1. ZeroMeansDone
    BY DEF CliInv, ZeroMeansDone, Exited, Sound, AtItsEnd
  <2>2. RefusedChangesNothing
    BY DEF CliInv, RefusedChangesNothing, Exited, Sound, AtItsEnd
  <2> QED
    BY <2>1, <2>2 DEF ExitCodesAreRight
<1> QED
  BY <1>1, CommandsInvariant, PTL
=============================================================================
