----------------------- MODULE OverlappingSyncsProofs -----------------------
(***************************************************************************)
(* Synchronizations that overlap, proved for every value of the constants  *)
(* of OverlappingSyncs: any number of processes, lost lock sessions and    *)
(* documents.                                                              *)
(***************************************************************************)
EXTENDS OverlappingSyncs, SumTheorems

-----------------------------------------------------------------------------
(* The inductive invariant.                                                *)

(* What each run has scanned.                                              *)
Found == [r \in Runs |-> IF scan_of[r] = 0 THEN NoScan ELSE history[scan_of[r]]]

(* Runs have different ids; a run has no ledger entry before it ends, and  *)
(* has scanned the source once it plans.                                   *)
RunsInv ==
  /\ \A p \in Procs : pc[p] # "idle" => run[p] \in Runs /\ run[p] < next_run
  /\ \A p, q \in Procs :
       p # q /\ pc[p] # "idle" /\ pc[q] # "idle" => run[p] # run[q]
  /\ \A r \in Runs : r >= next_run => ledger[r] = "none" /\ scan_of[r] = 0
  /\ \A p \in Procs :
       pc[p] \in {"scanning", "beginning", "writing", "failing"} =>
         ledger[run[p]] = "none"
  /\ \A p \in Procs : pc[p] = "scanning" => scan_of[run[p]] = 0
  /\ \A p \in Procs : pc[p] \in {"beginning", "writing"} =>
       scan_of[run[p]] # 0 /\ work[p].scanned = Found[run[p]]
  /\ \A r \in Succeeded : scan_of[r] # 0

(* A row is absent, or its id names the run that has stored it: its        *)
(* content is what this run found at the path.                             *)
RowOf(found, row, path) ==
  row # Absent =>
    LET item == found[row.id[1]][path]
    IN  row.id[2] = path /\ item # Absent /\ row.content_hash = item.content_hash

RowsInv == \A path \in Paths : RowOf(Found, db[path], path)

(* What is still to do is part of the plan.                                *)
PartOfPlan(w) ==
  LET plan == diff_source(w.scanned, w.previous)
  IN  /\ w.todo.new \subseteq plan.new
      /\ w.todo.changed \subseteq plan.changed
      /\ w.todo.metadata_changed \subseteq plan.metadata_changed
      /\ w.todo.deleted \subseteq plan.deleted

ToStore(w) == w.todo.new \cup w.todo.changed
ToAlter(w) == w.todo.metadata_changed \cup w.todo.deleted

(* What a transaction has done at a path.  A document that is still to be  *)
(* stored is at most deleted; ...                                          *)
RowsHold(found, w, path) ==
  /\ RowOf(found, w.previous[path], path)
  /\ w.mine[path] # Untouched => RowOf(found, w.mine[path], path)
  /\ path \in ToStore(w) => w.mine[path] \in {Untouched, Absent}

(* ... what the plan is done with, if written, is as in the scan; if not,  *)
(* it already was so, unless another run has committed in between.         *)
DoneHolds(count, w, path) ==
  path \notin ToStore(w) =>
    /\ w.mine[path] # Untouched => Hashes(w.mine[path]) = w.scanned[path]
    /\ path \notin ToAlter(w) /\ w.mine[path] = Untouched /\ w.base = count =>
         Hashes(w.previous[path]) = w.scanned[path]

WorkInv(found, rows, count, w) ==
  /\ PartOfPlan(w)
  /\ w.base <= count
  /\ w.base = count => w.previous = rows
  /\ \A path \in Paths : RowsHold(found, w, path) /\ DoneHolds(count, w, path)

NothingWritten == [path \in Paths |-> Untouched]

TransactionsInv ==
  \A p \in Procs :
    IF pc[p] = "writing" THEN WorkInv(Found, db, commits, work[p])
    ELSE work[p].mine = NothingWritten

(* As long as no lock session is lost, the run that holds the lock is      *)
(* alone, and no other commits after it has scanned.                       *)
AloneInv ==
  losses = 0 => \A p \in Procs :
    /\ pc[p] # "idle" => lock = p
    /\ pc[p] \in {"beginning", "writing"} => published <= scan_of[run[p]]
    /\ pc[p] = "writing" => work[p].base = commits

SyncsInv ==
  /\ TypeOK /\ RunsInv /\ RowsInv /\ TransactionsInv /\ AloneInv
  /\ EachPathFromOneRun

-----------------------------------------------------------------------------
(* A set of paths that is not empty has a first one. *)
LEMMA FirstIsMember ==
  ASSUME NEW S \in SUBSET Paths, S # {}
  PROVE  First(S) \in S
<1>1. S \in SUBSET Int
  BY PathsAreOrdered
<1>2. IsFiniteSet(S)
  BY PathsAreOrdered, FS_Subset
<1>3. PICK path \in S : \A other \in S : path <= other
  BY <1>1, <1>2, FirstOfFinite
<1> QED
  BY <1>3 DEF First

(* What the categories of diff_source tell of a path.                      *)
LEMMA DiffFacts ==
  ASSUME NEW scanned \in Scans, NEW previous \in [Paths -> Row \cup {Absent}],
         NEW path \in Paths, NEW plan, plan = diff_source(scanned, previous)
  PROVE  /\ plan \in Diffs
         /\ path \in plan.new \cup plan.changed =>
              /\ scanned[path] # Absent
              /\ path \notin plan.metadata_changed \cup plan.deleted
         /\ path \in plan.metadata_changed =>
              /\ scanned[path] # Absent /\ previous[path] # Absent
              /\ scanned[path].content_hash = previous[path].content_hash
         /\ path \in plan.deleted => scanned[path] = Absent /\ previous[path] # Absent
         /\ path \notin plan.new \cup plan.changed
              /\ path \notin plan.metadata_changed \cup plan.deleted =>
                Hashes(previous[path]) = scanned[path]
<1>1. plan \in Diffs
  BY DEF diff_source, Diffs, Present
<1>2. /\ path \in plan.new <=> scanned[path] # Absent /\ previous[path] = Absent
      /\ path \in plan.deleted <=> scanned[path] = Absent /\ previous[path] # Absent
      /\ path \in plan.changed <=>
           /\ scanned[path] # Absent /\ previous[path] # Absent
           /\ scanned[path].content_hash # previous[path].content_hash
      /\ path \in plan.metadata_changed <=>
           /\ scanned[path] # Absent /\ previous[path] # Absent
           /\ scanned[path].content_hash = previous[path].content_hash
           /\ scanned[path].metadata_hash # previous[path].metadata_hash
  BY DEF diff_source, Present
<1>3. ASSUME path \notin plan.new \cup plan.changed,
             path \notin plan.metadata_changed \cup plan.deleted
      PROVE  Hashes(previous[path]) = scanned[path]
  <2>1. CASE scanned[path] = Absent
    BY <1>2, <1>3, <2>1 DEF Hashes
  <2>2. CASE scanned[path] # Absent
    <3>1. /\ scanned[path] \in ScannedDocument /\ previous[path] # Absent
          /\ scanned[path].content_hash = previous[path].content_hash
          /\ scanned[path].metadata_hash = previous[path].metadata_hash
      BY <1>2, <1>3, <2>2 DEF Scans
    <3> QED
      BY <3>1 DEF Hashes, ScannedDocument
  <2> QED
    BY <2>1, <2>2
<1> QED
  BY <1>1, <1>2, <1>3

(* The statement of a run is one of what it has still to do.               *)
LEMMA StatementFacts ==
  ASSUME TypeOK, NEW p \in Procs, NEW s, s = Statement(p)
  PROVE  /\ s.kind = "update" => s.path \in work[p].todo.metadata_changed
         /\ s.kind = "delete" => s.path \in work[p].todo.deleted
         /\ s.kind \in {"prior", "path", "insert"} => s.path \in ToStore(work[p])
         /\ s.kind = "none" => ToStore(work[p]) = {} /\ ToAlter(work[p]) = {}
<1> DEFINE w == work[p]
           stored == IF w.todo.new # {} THEN w.todo.new ELSE w.todo.changed
<1>1. w \in Work /\ w.todo \in Diffs
  BY DEF TypeOK, Work
<1>2. CASE w.todo.metadata_changed # {}
  <2>1. First(w.todo.metadata_changed) \in w.todo.metadata_changed
    BY <1>1, <1>2, FirstIsMember DEF Diffs
  <2> QED
    BY <1>2, <2>1 DEF Statement
<1>3. CASE w.todo.metadata_changed = {} /\ w.todo.deleted # {}
  <2>1. First(w.todo.deleted) \in w.todo.deleted
    BY <1>1, <1>3, FirstIsMember DEF Diffs
  <2> QED
    BY <1>3, <2>1 DEF Statement
<1>4. CASE /\ w.todo.metadata_changed = {} /\ w.todo.deleted = {}
           /\ stored # {}
  <2>1. First(stored) \in stored
    BY <1>1, <1>4, FirstIsMember DEF Diffs
  <2>2. First(stored) \in ToStore(w)
    BY <1>1, <2>1 DEF ToStore
  <2>3. w.next \in {"prior", "path", "insert"}
    BY <1>1 DEF Work
  <2> QED
    BY <1>4, <2>2, <2>3 DEF Statement
<1>5. CASE /\ w.todo.metadata_changed = {} /\ w.todo.deleted = {}
           /\ stored = {}
  <2>1. ToStore(w) = {} /\ ToAlter(w) = {}
    BY <1>5 DEF ToStore, ToAlter
  <2> QED
    BY <1>5, <2>1 DEF Statement
<1> QED
  BY <1>2, <1>3, <1>4, <1>5

-----------------------------------------------------------------------------
(* A statement of p leaves w of its work: the plan stays, and the          *)
(* invariant holds.                                                        *)
Leaves(p, w) ==
  /\ w \in Work /\ WorkInv(Found, db, commits, w)
  /\ w.scanned = work[p].scanned /\ w.base = work[p].base

(* What is known where p runs a statement.                                 *)
Writing(p) ==
  /\ TypeOK /\ RowsInv
  /\ p \in Procs /\ pc[p] = "writing"
  /\ WorkInv(Found, db, commits, work[p])
  /\ run[p] \in Runs /\ Found[run[p]] = work[p].scanned

(* The row a transaction sees is a row of some run.                        *)
LEMMA ViewFacts ==
  ASSUME NEW p, Writing(p), NEW path \in Paths
  PROVE  /\ work[p] \in Work /\ work[p].todo \in Diffs
         /\ work[p].mine[path] \in Row \cup {Absent, Untouched}
         /\ View(p, path) \in Row \cup {Absent}
         /\ View(p, path) # Untouched
         /\ RowOf(Found, View(p, path), path)
<1>1. work[p] \in Work /\ db[path] \in Row \cup {Absent}
  BY DEF Writing, TypeOK
<1>2. work[p].todo \in Diffs /\ work[p].mine[path] \in Row \cup {Absent, Untouched}
  BY <1>1 DEF Work
<1>3. RowOf(Found, db[path], path)
  BY DEF Writing, RowsInv
<1>4. work[p].mine[path] # Untouched => RowOf(Found, work[p].mine[path], path)
  BY DEF Writing, WorkInv, RowsHold
<1> QED
  BY <1>1, <1>2, <1>3, <1>4, MarksAreNoRows DEF View

(* What the plan and the invariant say of the row of one path.             *)
LEMMA PathFacts ==
  ASSUME NEW p, Writing(p), NEW path \in Paths
  PROVE  /\ RowsHold(Found, work[p], path) /\ DoneHolds(commits, work[p], path)
         /\ path \in ToStore(work[p]) => work[p].scanned[path] \in ScannedDocument
         /\ path \in ToStore(work[p]) => path \notin ToAlter(work[p])
         /\ path \in work[p].todo.metadata_changed =>
              /\ work[p].scanned[path] \in ScannedDocument
              /\ work[p].previous[path] # Absent
              /\ work[p].scanned[path].content_hash
                   = work[p].previous[path].content_hash
         /\ path \in work[p].todo.deleted =>
              work[p].scanned[path] = Absent /\ work[p].previous[path] # Absent
<1> DEFINE w == work[p]
<1>1. w \in Work
  BY DEF Writing, TypeOK
<1>2. w.scanned \in Scans /\ w.previous \in [Paths -> Row \cup {Absent}]
  BY <1>1 DEF Work
<1>3. WorkInv(Found, db, commits, w)
  BY DEF Writing
<1>4. RowsHold(Found, w, path) /\ DoneHolds(commits, w, path)
  BY <1>3 DEF WorkInv
<1>5. PICK plan : plan = diff_source(w.scanned, w.previous)
  OBVIOUS
<1>6. /\ w.todo.new \subseteq plan.new
      /\ w.todo.changed \subseteq plan.changed
      /\ w.todo.metadata_changed \subseteq plan.metadata_changed
      /\ w.todo.deleted \subseteq plan.deleted
  BY <1>3, <1>5 DEF WorkInv, PartOfPlan
<1>7. w.scanned[path] \in ScannedDocument \cup {Absent}
  BY <1>2 DEF Scans
<1> HIDE DEF w
<1>8. /\ path \in plan.new \cup plan.changed =>
           /\ w.scanned[path] # Absent
           /\ path \notin plan.metadata_changed \cup plan.deleted
      /\ path \in plan.metadata_changed =>
           /\ w.scanned[path] # Absent /\ w.previous[path] # Absent
           /\ w.scanned[path].content_hash = w.previous[path].content_hash
      /\ path \in plan.deleted => w.scanned[path] = Absent /\ w.previous[path] # Absent
  BY <1>2, <1>5, DiffFacts
<1>9. /\ path \in ToStore(w) => w.scanned[path] \in ScannedDocument
      /\ path \in ToStore(w) => path \notin ToAlter(w)
      /\ path \in w.todo.metadata_changed =>
           /\ w.scanned[path] \in ScannedDocument
           /\ w.previous[path] # Absent
           /\ w.scanned[path].content_hash = w.previous[path].content_hash
      /\ path \in w.todo.deleted =>
           w.scanned[path] = Absent /\ w.previous[path] # Absent
  BY <1>6, <1>7, <1>8 DEF ToStore, ToAlter
<1> QED
  BY <1>4, <1>9 DEF w

(* After a statement on one path, only that path has to be looked at.      *)
LEMMA OtherPathsStay ==
  ASSUME NEW p, Writing(p), NEW path \in Paths, NEW w \in Work,
         w.scanned = work[p].scanned, w.previous = work[p].previous,
         w.base = work[p].base,
         \A x \in Paths \ {path} : w.mine[x] = work[p].mine[x],
         w.todo.new \subseteq work[p].todo.new,
         w.todo.changed \subseteq work[p].todo.changed,
         w.todo.metadata_changed \subseteq work[p].todo.metadata_changed,
         w.todo.deleted \subseteq work[p].todo.deleted,
         \A x \in Paths \ {path} : x \in ToStore(w) <=> x \in ToStore(work[p]),
         \A x \in Paths \ {path} : x \in ToAlter(w) <=> x \in ToAlter(work[p]),
         RowsHold(Found, w, path), DoneHolds(commits, w, path)
  PROVE  Leaves(p, w)
<1>1. WorkInv(Found, db, commits, work[p])
  BY DEF Writing
<1>2. PartOfPlan(w)
  BY <1>1 DEF WorkInv, PartOfPlan
<1>3. ASSUME NEW x \in Paths
      PROVE  RowsHold(Found, w, x) /\ DoneHolds(commits, w, x)
  <2>1. CASE x = path
    BY <2>1
  <2>2. CASE x # path
    <3>1. RowsHold(Found, work[p], x) /\ DoneHolds(commits, work[p], x)
      BY <1>1 DEF WorkInv
    <3>2. /\ w.mine[x] = work[p].mine[x]
          /\ x \in ToStore(w) <=> x \in ToStore(work[p])
          /\ x \in ToAlter(w) <=> x \in ToAlter(work[p])
      BY <2>2
    <3>3. RowsHold(Found, w, x)
      BY <3>1, <3>2 DEF RowsHold
    <3>4. DoneHolds(commits, w, x)
      BY <3>1, <3>2 DEF DoneHolds
    <3> QED
      BY <3>3, <3>4
  <2> QED
    BY <2>1, <2>2
<1>4. WorkInv(Found, db, commits, w)
  BY <1>1, <1>2, <1>3 DEF WorkInv
<1> QED
  BY <1>4 DEF Leaves

(* An update by id: the row that is found has the planned content.         *)
LEMMA UpdateLeaves ==
  ASSUME NEW p, Writing(p), NEW path, path = Statement(p).path,
         UpdateMetadata(p), UpdateFinds(p, path)
  PROVE  \E w : Leaves(p, w) /\ work' = [work EXCEPT ![p] = w] /\ UNCHANGED pc
<1> DEFINE old == work[p]
           row == [View(p, path) EXCEPT !.metadata_hash =
                     old.scanned[path].metadata_hash]
           w == [old EXCEPT
                  !.todo = [old.todo EXCEPT !.metadata_changed =
                              old.todo.metadata_changed \ {path}],
                  !.mine = [old.mine EXCEPT ![path] = row]]
<1>1. path \in old.todo.metadata_changed /\ path \in Paths
  BY StatementFacts DEF UpdateMetadata, Ready, Writing, TypeOK, Work, Diffs
<1>2. /\ old \in Work /\ View(p, path) \in Row \cup {Absent}
      /\ RowOf(Found, View(p, path), path) /\ old.todo \in Diffs
  BY <1>1, ViewFacts
<1>3. /\ View(p, path) # Absent /\ View(p, path).id = old.previous[path].id
  BY DEF UpdateFinds, FindsPlanned
<1>4. /\ RowsHold(Found, old, path) /\ DoneHolds(commits, old, path)
      /\ path \notin ToStore(old)
      /\ old.scanned[path] \in ScannedDocument
      /\ old.previous[path] # Absent
      /\ old.scanned[path].content_hash = old.previous[path].content_hash
  BY <1>1, PathFacts DEF ToAlter
<1>5. /\ row \in Row /\ row.id = View(p, path).id
      /\ row.content_hash = View(p, path).content_hash
      /\ row.metadata_hash = old.scanned[path].metadata_hash
  BY <1>2, <1>3, <1>4 DEF Row, ScannedDocument
<1>6. RowOf(Found, row, path) /\ Hashes(row) = old.scanned[path]
  <2>1. RowOf(Found, old.previous[path], path)
    BY <1>4 DEF RowsHold
  <2>2. RowOf(Found, row, path) /\ row.content_hash = old.scanned[path].content_hash
    BY <1>2, <1>3, <1>4, <1>5, <2>1 DEF RowOf
  <2>3. row # Absent
    BY <1>5, MarksAreNoRows
  <2> HIDE DEF row
  <2> QED
    BY <1>4, <1>5, <2>2, <2>3 DEF Hashes, ScannedDocument
<1>7. work' = [work EXCEPT ![p] = w] /\ UNCHANGED pc
  BY <1>1, <1>2 DEF UpdateMetadata, Work, Diffs, Writing, TypeOK
<1> HIDE DEF row
<1>8. /\ w \in Work /\ w.scanned = old.scanned /\ w.previous = old.previous
      /\ w.base = old.base /\ w.mine[path] = row
      /\ \A x \in Paths \ {path} : w.mine[x] = old.mine[x]
      /\ w.todo.new = old.todo.new /\ w.todo.changed = old.todo.changed
      /\ w.todo.metadata_changed = old.todo.metadata_changed \ {path}
      /\ w.todo.deleted = old.todo.deleted
  BY <1>1, <1>2, <1>5 DEF Work, Diffs
<1> HIDE DEF w
<1>9. RowsHold(Found, w, path) /\ DoneHolds(commits, w, path)
  <2>1. row # Untouched /\ path \notin ToStore(w)
    BY <1>4, <1>5, <1>8, MarksAreNoRows DEF ToStore
  <2>2. RowOf(Found, old.previous[path], path)
    BY <1>4 DEF RowsHold
  <2> QED
    BY <1>6, <1>8, <2>1, <2>2 DEF RowsHold, DoneHolds
<1>10. /\ \A x \in Paths \ {path} : x \in ToStore(w) <=> x \in ToStore(old)
       /\ \A x \in Paths \ {path} : x \in ToAlter(w) <=> x \in ToAlter(old)
  BY <1>8 DEF ToStore, ToAlter
<1>11. Leaves(p, w)
  <2>1. /\ w.todo.new \subseteq old.todo.new /\ w.todo.changed \subseteq old.todo.changed
        /\ w.todo.metadata_changed \subseteq old.todo.metadata_changed
        /\ w.todo.deleted \subseteq old.todo.deleted
    BY <1>8
  <2> QED
    BY <1>1, <1>8, <1>9, <1>10, <2>1, OtherPathsStay
<1> QED
  BY <1>7, <1>11

(* A deletion by id: if no other run has committed, the planned row is     *)
(* there; else whoever has taken it away has deleted the document.         *)
LEMMA DeleteLeaves ==
  ASSUME NEW p, Writing(p), DeleteDocument(p)
  PROVE  \E w : Leaves(p, w) /\ work' = [work EXCEPT ![p] = w] /\ UNCHANGED pc
<1> DEFINE old == work[p]
           path == Statement(p).path
           row == AfterDelete(p, path)
           w == [old EXCEPT
                  !.todo = [old.todo EXCEPT !.deleted = old.todo.deleted \ {path}],
                  !.mine = [old.mine EXCEPT ![path] = row]]
<1>1. path \in old.todo.deleted /\ path \in Paths
  BY StatementFacts DEF DeleteDocument, Ready, Writing, TypeOK, Work, Diffs
<1>2. /\ old \in Work /\ old.mine[path] \in Row \cup {Absent, Untouched}
      /\ old.todo \in Diffs
  BY <1>1, ViewFacts
<1>3. /\ RowsHold(Found, old, path) /\ DoneHolds(commits, old, path)
      /\ path \notin ToStore(old)
      /\ old.scanned[path] = Absent /\ old.previous[path] # Absent
  BY <1>1, PathFacts DEF ToAlter
<1>4. /\ row \in Row \cup {Absent, Untouched}
      /\ row # Untouched => Hashes(row) = old.scanned[path]
      /\ row # Untouched => RowOf(Found, row, path)
  <2>1. CASE FindsPlanned(p, path)
    BY <1>3, <2>1, MarksAreNoRows DEF AfterDelete, Hashes, RowOf
  <2>2. CASE ~ FindsPlanned(p, path)
    BY <1>2, <1>3, <2>2 DEF AfterDelete, RowsHold, DoneHolds
  <2> QED
    BY <2>1, <2>2
<1>5. row = Untouched => old.base # commits
  <2> SUFFICES ASSUME row = Untouched, old.base = commits PROVE FALSE
    OBVIOUS
  <2>1. ~ FindsPlanned(p, path) /\ old.mine[path] = Untouched
    BY MarksAreNoRows DEF AfterDelete
  <2>2. View(p, path) = old.previous[path]
    BY <2>1 DEF View, Writing, WorkInv
  <2> QED
    BY <1>3, <2>1, <2>2 DEF FindsPlanned
<1>6. work' = [work EXCEPT ![p] = w] /\ UNCHANGED pc
  BY <1>1, <1>2 DEF DeleteDocument, Work, Diffs, Writing, TypeOK
<1> HIDE DEF row, path
<1>7. /\ w \in Work /\ w.scanned = old.scanned /\ w.previous = old.previous
      /\ w.base = old.base /\ w.mine[path] = row
      /\ \A x \in Paths \ {path} : w.mine[x] = old.mine[x]
      /\ w.todo.new = old.todo.new /\ w.todo.changed = old.todo.changed
      /\ w.todo.metadata_changed = old.todo.metadata_changed
      /\ w.todo.deleted = old.todo.deleted \ {path}
  BY <1>1, <1>2, <1>4 DEF Work, Diffs
<1> HIDE DEF w
<1>8. RowsHold(Found, w, path) /\ DoneHolds(commits, w, path)
  <2>1. path \notin ToStore(w)
    BY <1>3, <1>7 DEF ToStore
  <2>2. RowOf(Found, old.previous[path], path)
    BY <1>3 DEF RowsHold
  <2> QED
    BY <1>4, <1>5, <1>7, <2>1, <2>2 DEF RowsHold, DoneHolds
<1>9. /\ \A x \in Paths \ {path} : x \in ToStore(w) <=> x \in ToStore(old)
      /\ \A x \in Paths \ {path} : x \in ToAlter(w) <=> x \in ToAlter(old)
  BY <1>7 DEF ToStore, ToAlter
<1>10. Leaves(p, w)
  <2>1. /\ w.todo.new \subseteq old.todo.new /\ w.todo.changed \subseteq old.todo.changed
        /\ w.todo.metadata_changed \subseteq old.todo.metadata_changed
        /\ w.todo.deleted \subseteq old.todo.deleted
    BY <1>7
  <2> QED
    BY <1>1, <1>7, <1>8, <1>9, <2>1, OtherPathsStay
<1> QED
  BY <1>6, <1>10

(* The two deletions before an insertion leave the old row or none.        *)
LEMMA ClearedLeaves ==
  ASSUME NEW p, Writing(p), NEW path \in ToStore(work[p]),
         NEW next \in {"prior", "path", "insert"}, NEW seen \in Row \cup {Absent},
         NEW row \in {Absent, work[p].mine[path]}
  PROVE  /\ path \in Paths
         /\ Leaves(p, [work[p] EXCEPT !.next = next, !.seen = seen,
                                      !.mine = [work[p].mine EXCEPT ![path] = row]])
<1> DEFINE old == work[p]
           w == [old EXCEPT !.next = next, !.seen = seen,
                            !.mine = [old.mine EXCEPT ![path] = row]]
<1>1. path \in Paths
  BY DEF Writing, TypeOK, Work, Diffs, ToStore
<1>2. /\ old \in Work /\ old.mine[path] \in Row \cup {Absent, Untouched}
  BY <1>1, ViewFacts
<1>3. /\ RowsHold(Found, old, path)
  BY <1>1, PathFacts
<1>4. row \in {Untouched, Absent}
  BY <1>3 DEF RowsHold
<1>5. /\ w \in Work /\ w.scanned = old.scanned /\ w.previous = old.previous
      /\ w.base = old.base /\ w.mine[path] = row /\ w.todo = old.todo
      /\ \A x \in Paths \ {path} : w.mine[x] = old.mine[x]
  BY <1>1, <1>2, <1>4 DEF Work
<1> HIDE DEF w
<1>6. /\ \A x : x \in ToStore(w) <=> x \in ToStore(old)
      /\ \A x : x \in ToAlter(w) <=> x \in ToAlter(old)
  BY <1>5 DEF ToStore, ToAlter
<1>7. RowsHold(Found, w, path) /\ DoneHolds(commits, w, path)
  BY <1>3, <1>4, <1>5, <1>6 DEF RowsHold, DoneHolds, RowOf
<1>8. Leaves(p, w)
  BY <1>1, <1>5, <1>6, <1>7, OtherPathsStay
<1> QED
  BY <1>1, <1>8 DEF w

(* An insertion stores what the run has scanned, under an id of its own.   *)
LEMMA InsertLeaves ==
  ASSUME NEW p, Writing(p), NEW path, path = Statement(p).path,
         InsertDocument(p), View(p, path) = Absent
  PROVE  \E w : Leaves(p, w) /\ work' = [work EXCEPT ![p] = w] /\ UNCHANGED pc
<1> DEFINE old == work[p]
           item == old.scanned[path]
           row == [id |-> <<run[p], path>>, content_hash |-> item.content_hash,
                   metadata_hash |-> item.metadata_hash]
           w == [old EXCEPT
                  !.next = "prior",
                  !.todo.new = @ \ {path},
                  !.todo.changed = @ \ {path},
                  !.mine[path] = row]
<1>1. path \in ToStore(old) /\ path \in Paths
  BY StatementFacts DEF InsertDocument, Ready, Writing, TypeOK, Work, Diffs, ToStore
<1>2. old \in Work /\ old.todo \in Diffs
  BY <1>1, ViewFacts
<1>3. /\ RowsHold(Found, old, path) /\ path \notin ToAlter(old)
      /\ item \in ScannedDocument
  BY <1>1, PathFacts
<1>4. run[p] \in Runs /\ Found[run[p]] = old.scanned
  BY DEF Writing
<1>5. row \in Row /\ row # Absent /\ row # Untouched
  <2>1. row \in Row
    BY <1>1, <1>3, <1>4 DEF Row, ScannedDocument
  <2> QED
    BY <2>1, MarksAreNoRows
<1>6. item # Absent
  BY <1>3, AbsentIsNoDocument
<1>7. RowOf(Found, row, path) /\ Hashes(row) = item
  BY <1>3, <1>4, <1>5, <1>6 DEF RowOf, Hashes, ScannedDocument
<1>8. work' = [work EXCEPT ![p] = w] /\ UNCHANGED pc
  <2>1. /\ work' = [work EXCEPT
               ![p].next = "prior",
               ![p].todo.new = @ \ {path},
               ![p].todo.changed = @ \ {path},
               ![p].mine[path] = row]
        /\ UNCHANGED pc
    BY DEF InsertDocument
  <2>2. work \in [Procs -> Work] /\ p \in Procs
    BY DEF Writing, TypeOK
  <2> HIDE DEF row
  <2> QED
    BY <1>1, <1>2, <2>1, <2>2 DEF Work, Diffs
<1> HIDE DEF row
<1>9. /\ w \in Work /\ w.scanned = old.scanned /\ w.previous = old.previous
      /\ w.base = old.base /\ w.mine[path] = row
      /\ \A x \in Paths \ {path} : w.mine[x] = old.mine[x]
      /\ w.todo.new = old.todo.new \ {path}
      /\ w.todo.changed = old.todo.changed \ {path}
      /\ w.todo.metadata_changed = old.todo.metadata_changed
      /\ w.todo.deleted = old.todo.deleted
  BY <1>1, <1>2, <1>5 DEF Work, Diffs
<1> HIDE DEF w, item
<1>10. RowsHold(Found, w, path) /\ DoneHolds(commits, w, path)
  <2>1. path \notin ToStore(w)
    BY <1>9 DEF ToStore
  <2>2. RowOf(Found, old.previous[path], path)
    BY <1>3 DEF RowsHold
  <2> QED
    BY <1>5, <1>7, <1>9, <2>1, <2>2 DEF RowsHold, DoneHolds, item
<1>11. /\ \A x \in Paths \ {path} : x \in ToStore(w) <=> x \in ToStore(old)
       /\ \A x \in Paths \ {path} : x \in ToAlter(w) <=> x \in ToAlter(old)
  BY <1>9 DEF ToStore, ToAlter
<1>12. Leaves(p, w)
  <2>1. /\ w.todo.new \subseteq old.todo.new /\ w.todo.changed \subseteq old.todo.changed
        /\ w.todo.metadata_changed \subseteq old.todo.metadata_changed
        /\ w.todo.deleted \subseteq old.todo.deleted
    BY <1>9
  <2> QED
    BY <1>1, <1>9, <1>10, <1>11, <2>1, OtherPathsStay
<1> QED
  BY <1>8, <1>12

(* The steps of a transaction that is under way. *)
Statements(p) ==
  \/ UpdateMetadata(p) \/ DeleteDocument(p) \/ DeletePrior(p) \/ WaitWithRow(p)
  \/ DeletePath(p) \/ InsertDocument(p) \/ DeadlockDetected(p)

(* Each either leaves work that is as planned, or raises.                  *)
LEMMA StatementLeaves ==
  ASSUME NEW p, Writing(p), Statements(p)
  PROVE  \/ \E w : Leaves(p, w) /\ work' = [work EXCEPT ![p] = w] /\ UNCHANGED pc
         \/ Raise(p)
<1> DEFINE path == Statement(p).path
<1>1. /\ work[p] \in Work /\ work \in [Procs -> Work]
      /\ db \in [Paths -> Row \cup {Absent}]
  BY DEF Writing, TypeOK
<1>2. CASE UpdateMetadata(p)
  <2>1. CASE UpdateFinds(p, path)
    BY <1>2, <2>1, UpdateLeaves
  <2>2. CASE ~ UpdateFinds(p, path)
    BY <1>2, <2>2 DEF UpdateMetadata
  <2> QED
    BY <2>1, <2>2
<1>3. CASE DeleteDocument(p)
  BY <1>3, DeleteLeaves
<1>4. CASE DeletePrior(p)
  <2> DEFINE w == [work[p] EXCEPT
                     !.next = "path", !.seen = work[p].seen,
                     !.mine = [work[p].mine EXCEPT ![path] = AfterDelete(p, path)]]
  <2>1. path \in ToStore(work[p])
    BY <1>4, StatementFacts DEF DeletePrior, Ready, Writing
  <2>2. AfterDelete(p, path) \in {Absent, work[p].mine[path]}
    BY DEF AfterDelete
  <2>3. work[p].seen \in Row \cup {Absent}
    BY <1>1 DEF Work
  <2>4. Leaves(p, w)
    BY <2>1, <2>2, <2>3, ClearedLeaves
  <2>5. work' = [work EXCEPT ![p] = w] /\ UNCHANGED pc
    BY <1>1, <1>4 DEF DeletePrior, Work
  <2> QED
    BY <2>4, <2>5
<1>5. CASE WaitWithRow(p)
  <2> DEFINE w == [work[p] EXCEPT
                     !.next = work[p].next, !.seen = db[path],
                     !.mine = [work[p].mine EXCEPT ![path] = work[p].mine[path]]]
  <2>1. path \in ToStore(work[p])
    BY <1>5, StatementFacts DEF WaitWithRow, Writing
  <2>2. path \in Paths
    BY <1>1, <2>1 DEF ToStore, Work, Diffs
  <2>3. db[path] \in Row \cup {Absent} /\ work[p].next \in {"prior", "path", "insert"}
    BY <1>1, <2>2 DEF Work
  <2>4. Leaves(p, w)
    BY <2>1, <2>3, ClearedLeaves
  <2>5. work' = [work EXCEPT ![p] = w] /\ UNCHANGED pc
    BY <1>1, <1>5, <2>2 DEF WaitWithRow, Work
  <2> QED
    BY <2>4, <2>5
<1>6. CASE DeletePath(p)
  <2> DEFINE row == IF FindsByPath(p, path) THEN Absent ELSE work[p].mine[path]
             w == [work[p] EXCEPT
                     !.next = "insert", !.seen = Absent,
                     !.mine = [work[p].mine EXCEPT ![path] = row]]
  <2>1. path \in ToStore(work[p])
    BY <1>6, StatementFacts DEF DeletePath, Ready, Writing
  <2>2. row \in {Absent, work[p].mine[path]}
    OBVIOUS
  <2>3. path \in Paths
    BY <1>1, <2>1 DEF ToStore, Work, Diffs
  <2>4. work' = [work EXCEPT ![p] = w] /\ UNCHANGED pc
    BY <1>1, <1>6, <2>3 DEF DeletePath, Work
  <2> HIDE DEF row
  <2>5. Leaves(p, w)
    BY <2>1, <2>2, ClearedLeaves
  <2> QED
    BY <2>4, <2>5
<1>7. CASE InsertDocument(p)
  <2>1. CASE View(p, path) = Absent
    BY <1>7, <2>1, InsertLeaves
  <2>2. CASE View(p, path) # Absent
    BY <1>7, <2>2 DEF InsertDocument
  <2> QED
    BY <2>1, <2>2
<1>8. CASE DeadlockDetected(p)
  BY <1>8 DEF DeadlockDetected
<1> QED
  BY <1>2, <1>3, <1>4, <1>5, <1>6, <1>7, <1>8 DEF Statements

-----------------------------------------------------------------------------
(* What a run has found does not change. *)
LEMMA FoundStays ==
  ASSUME UNCHANGED <<history, scan_of>>
  PROVE  Found' = Found
BY DEF Found

LEMMA RowStays ==
  ASSUME NEW found, NEW later, \A r \in Runs : found[r] = NoScan \/ later[r] = found[r],
         NEW row \in Row \cup {Absent}, NEW path \in Paths, RowOf(found, row, path)
  PROVE  RowOf(later, row, path)
BY DEF RowOf, Row, NoScan

(* A transaction is as planned whatever other runs do meanwhile.           *)
LEMMA WorkStays ==
  ASSUME NEW found, NEW later, \A r \in Runs : found[r] = NoScan \/ later[r] = found[r],
         NEW count \in Nat, NEW counted \in Nat, NEW rows, NEW others,
         counted > count \/ (counted = count /\ others = rows),
         NEW w \in Work, WorkInv(found, rows, count, w)
  PROVE  WorkInv(later, others, counted, w)
<1>1. w.base \in Nat /\ w.previous \in [Paths -> Row \cup {Absent}]
  BY DEF Work
<1>2. PartOfPlan(w) /\ w.base <= counted /\ (w.base = counted => w.previous = others)
  BY <1>1 DEF WorkInv
<1>3. ASSUME NEW path \in Paths
      PROVE  RowsHold(later, w, path) /\ DoneHolds(counted, w, path)
  <2>1. RowsHold(found, w, path) /\ DoneHolds(count, w, path)
    BY DEF WorkInv
  <2>2. w.previous[path] \in Row \cup {Absent}
    BY <1>1
  <2>3. w.mine[path] # Untouched => w.mine[path] \in Row \cup {Absent}
    BY DEF Work
  <2>4. RowsHold(later, w, path)
    BY <2>1, <2>2, <2>3, RowStays DEF RowsHold
  <2>5. w.base = counted => w.base = count
    BY <1>1 DEF WorkInv
  <2>6. DoneHolds(counted, w, path)
    BY <2>1, <2>5 DEF DoneHolds
  <2> QED
    BY <2>4, <2>6
<1> QED
  BY <1>2, <1>3 DEF WorkInv

-----------------------------------------------------------------------------
LEMMA InitSyncsInv == Init => SyncsInv
<1> SUFFICES ASSUME Init PROVE SyncsInv
  OBVIOUS
<1>1. NoScan \in Scans /\ NoScan \in [Paths -> Row \cup {Absent}]
  BY DEF NoScan, Scans
<1>2. NoWork \in Work
  BY <1>1 DEF NoWork, Work, NoDiff, Diffs
<1>3. history \in Seq(Scans) /\ history # <<>> /\ Len(history) = 1
  BY VersionsAreScans DEF Init
<1>4. TypeOK
  BY <1>1, <1>2, <1>3, BoundsAreNat DEF Init, TypeOK, Stages, Runs
<1>5. RunsInv
  BY DEF Init, RunsInv, Succeeded
<1>6. RowsInv
  BY DEF Init, RowsInv, RowOf, NoScan
<1>7. TransactionsInv
  BY DEF Init, TransactionsInv, NoWork, NothingWritten
<1>8. AloneInv /\ EachPathFromOneRun
  BY DEF Init, AloneInv, EachPathFromOneRun
<1> QED
  BY <1>4, <1>5, <1>6, <1>7, <1>8 DEF SyncsInv

(* The source changes: what runs have scanned stays.                       *)
LEMMA EditKeeps ==
  ASSUME SyncsInv, EditSource
  PROVE  SyncsInv'
<1>1. PICK scan \in Versions : history' = Append(history, scan)
  BY DEF EditSource
<1>2. /\ history \in Seq(Scans) /\ scan \in Scans /\ Len(history) \in Nat
      /\ history # <<>>
  BY VersionsAreScans DEF SyncsInv, TypeOK
<1>3. /\ history' \in Seq(Scans) /\ history' # <<>>
      /\ Len(history') = Len(history) + 1
      /\ \A i \in 1 .. Len(history) : history'[i] = history[i]
  BY <1>1, <1>2
<1>4. UNCHANGED <<db, ledger, lock, pc, run, next_run, work, outcome, losses,
                  faults, scan_of, published, commits>>
  BY DEF EditSource
<1>5. \A r \in Runs : scan_of[r] # 0 => history'[scan_of[r]] = history[scan_of[r]]
  BY <1>2, <1>3 DEF SyncsInv, TypeOK
<1>6. Found' = Found
  BY <1>4, <1>5 DEF Found
<1>7. TypeOK'
  <2>1. 0 .. Len(history) \subseteq 0 .. Len(history')
    BY <1>2, <1>3
  <2> QED
    BY <1>3, <1>4, <2>1 DEF SyncsInv, TypeOK
<1>8. RunsInv'
  BY <1>4, <1>6 DEF SyncsInv, RunsInv, Succeeded
<1>9. RowsInv' /\ TransactionsInv' /\ AloneInv'
  BY <1>4, <1>6 DEF SyncsInv, RowsInv, TransactionsInv, AloneInv
<1>10. EachPathFromOneRun'
  BY <1>4, <1>5 DEF SyncsInv, RunsInv, EachPathFromOneRun, Succeeded
<1> QED
  BY <1>7, <1>8, <1>9, <1>10 DEF SyncsInv

(* A run starts: it has an id of its own, and as long as no session is     *)
(* lost no other run is under way.                                         *)
LEMMA AcquireKeeps ==
  ASSUME SyncsInv, NEW p \in Procs, AcquireLock(p)
  PROVE  SyncsInv'
<1>1. /\ pc[p] = "idle" /\ next_run \in Runs /\ lock = NoProc /\ lock' = p
      /\ pc' = [pc EXCEPT ![p] = "scanning"]
      /\ run' = [run EXCEPT ![p] = next_run]
      /\ next_run' = next_run + 1
      /\ outcome' = [outcome EXCEPT ![p] = "none"]
      /\ UNCHANGED <<db, ledger, published, commits, history, work, losses,
                     faults, scan_of>>
  BY DEF AcquireLock, LockIsFree, committed
<1>2. TypeOK
  BY DEF SyncsInv
<1>3. /\ pc \in [Procs -> Stages] /\ run \in [Procs -> Runs \cup {0}]
      /\ next_run \in Nat /\ MaxRuns \in Nat
  BY <1>1, <1>2, BoundsAreNat DEF TypeOK, Runs
<1>4. TypeOK'
  BY <1>1, <1>2, <1>3 DEF TypeOK, Stages, Runs
<1>5. Found' = Found
  BY <1>1, FoundStays
<1>6. RunsInv'
  BY <1>1, <1>3, <1>5 DEF SyncsInv, RunsInv, Succeeded, Runs
<1>7. RowsInv' /\ EachPathFromOneRun'
  BY <1>1, <1>5 DEF SyncsInv, RowsInv, EachPathFromOneRun, Succeeded
<1>8. TransactionsInv'
  BY <1>1, <1>3, <1>5 DEF SyncsInv, TransactionsInv
<1>9. AloneInv'
  BY <1>1, <1>3, NoProcIsNoProcess DEF SyncsInv, AloneInv
<1> QED
  BY <1>4, <1>6, <1>7, <1>8, <1>9 DEF SyncsInv

LEMMA LoseKeeps ==
  ASSUME SyncsInv, NEW p \in Procs, LoseLock(p)
  PROVE  SyncsInv'
<1>1. /\ losses < MaxLosses /\ losses' = losses + 1 /\ lock' = NoProc
      /\ UNCHANGED <<db, ledger, published, commits, history, pc, run, next_run,
                     work, outcome, faults, scan_of>>
  BY DEF LoseLock, committed
<1>2. losses \in 0 .. MaxLosses /\ MaxLosses \in Nat
  BY BoundsAreNat DEF SyncsInv, TypeOK
<1>3. Found' = Found
  BY <1>1, FoundStays
<1>4. TypeOK' /\ AloneInv'
  BY <1>1, <1>2 DEF SyncsInv, TypeOK, AloneInv
<1>5. RunsInv' /\ RowsInv' /\ TransactionsInv' /\ EachPathFromOneRun'
  BY <1>1, <1>3 DEF SyncsInv, RunsInv, RowsInv, TransactionsInv,
                    EachPathFromOneRun, Succeeded
<1> QED
  BY <1>4, <1>5 DEF SyncsInv

(* A run scans: until then its id is on no row. *)
LEMMA ScanKeeps ==
  ASSUME SyncsInv, NEW p \in Procs, Scan(p)
  PROVE  SyncsInv'
<1> DEFINE w == [work[p] EXCEPT !.scanned = source]
           n == Len(history)
<1>1. /\ pc[p] = "scanning"
      /\ pc' = [pc EXCEPT ![p] = "beginning"]
      /\ work' = [work EXCEPT ![p].scanned = source]
      /\ scan_of' = [scan_of EXCEPT ![run[p]] = n]
      /\ UNCHANGED <<db, ledger, published, commits, history, lock, run,
                     next_run, outcome, losses, faults>>
  BY DEF Scan, committed
<1>2. TypeOK
  BY DEF SyncsInv
<1>3. /\ pc \in [Procs -> Stages] /\ work \in [Procs -> Work]
      /\ scan_of \in [Runs -> 0 .. n] /\ published \in 0 .. n
      /\ history \in Seq(Scans) /\ n \in Nat \ {0}
  BY <1>2 DEF TypeOK
<1>4. /\ run[p] \in Runs /\ run[p] < next_run /\ scan_of[run[p]] = 0
      /\ ledger[run[p]] = "none"
      /\ \A q \in Procs \ {p} : pc[q] # "idle" => run[q] # run[p]
  BY <1>1 DEF SyncsInv, RunsInv
<1>5. w \in Work /\ work' = [work EXCEPT ![p] = w] /\ source \in Scans
  <2>1. source \in Scans
    BY <1>3 DEF source
  <2>2. w \in Work
    BY <1>3, <2>1 DEF Work
  <2>3. work' = [work EXCEPT ![p] = w]
    BY <1>1, <1>3
  <2> QED
    BY <2>1, <2>2, <2>3
<1>6. w.scanned = source /\ w.mine = work[p].mine
  BY <1>3 DEF Work
<1> HIDE DEF w
<1>7. /\ Found' = [Found EXCEPT ![run[p]] = source]
      /\ Found[run[p]] = NoScan
  BY <1>1, <1>3, <1>4 DEF Found, source
<1>8. \A r \in Runs : Found[r] = NoScan \/ Found'[r] = Found[r]
  BY <1>4, <1>7 DEF Found
<1>9. TypeOK'
  <2>1. scan_of' \in [Runs -> 0 .. Len(history')]
    BY <1>1, <1>3, <1>4
  <2> QED
    BY <1>1, <1>2, <1>3, <1>5, <2>1 DEF TypeOK, Stages
<1>10. RunsInv'
  <2>1. /\ scan_of'[run[p]] # 0 /\ work'[p].scanned = Found'[run[p]]
        /\ \A r \in Runs \ {run[p]} : scan_of'[r] = scan_of[r] /\ Found'[r] = Found[r]
    BY <1>1, <1>3, <1>4, <1>5, <1>6, <1>7 DEF Found
  <2>2. \A q \in Procs \ {p} : work'[q] = work[q] /\ pc'[q] = pc[q]
    BY <1>1, <1>3, <1>5
  <2>3. pc'[p] = "beginning"
    BY <1>1, <1>3
  <2>4. Succeeded' = Succeeded /\ run[p] \notin Succeeded /\ Succeeded \subseteq Runs
    BY <1>1, <1>4 DEF Succeeded
  <2>5. ~ (run[p] >= next_run)
    BY <1>2, <1>4, BoundsAreNat DEF TypeOK, Runs
  <2> QED
    BY <1>1, <1>4, <2>1, <2>2, <2>3, <2>4, <2>5 DEF SyncsInv, RunsInv
<1>11. RowsInv'
  <2>1. ASSUME NEW path \in Paths PROVE RowOf(Found', db[path], path)
    <3>1. db[path] \in Row \cup {Absent} /\ RowOf(Found, db[path], path)
      BY <1>2 DEF TypeOK, SyncsInv, RowsInv
    <3> HIDE DEF Found
    <3> QED
      BY <1>8, <3>1, RowStays
  <2> QED
    BY <1>1, <2>1 DEF RowsInv
<1>12. TransactionsInv'
  <2> SUFFICES ASSUME NEW q \in Procs
               PROVE  IF pc'[q] = "writing" THEN WorkInv(Found', db', commits', work'[q])
                      ELSE work'[q].mine = NothingWritten
    BY DEF TransactionsInv
  <2>1. CASE q = p
    BY <1>1, <1>3, <1>5, <1>6, <2>1 DEF SyncsInv, TransactionsInv
  <2>2. CASE q # p
    <3>1. pc'[q] = pc[q] /\ work'[q] = work[q] /\ work[q] \in Work
      BY <1>1, <1>3, <1>5, <2>2
    <3>2. CASE pc[q] = "writing"
      <4>1. WorkInv(Found, db, commits, work[q]) /\ commits \in Nat
        BY <1>2, <3>2 DEF SyncsInv, TransactionsInv, TypeOK
      <4> HIDE DEF Found
      <4>2. WorkInv(Found', db, commits, work[q])
        BY <1>8, <3>1, <4>1, WorkStays
      <4> QED
        BY <1>1, <3>1, <3>2, <4>2
    <3>3. CASE pc[q] # "writing"
      BY <3>1, <3>3 DEF SyncsInv, TransactionsInv
    <3> QED
      BY <3>2, <3>3
  <2> QED
    BY <2>1, <2>2
<1>13. AloneInv'
  <2> SUFFICES ASSUME losses = 0 PROVE
        \A q \in Procs :
          /\ pc'[q] # "idle" => lock = q
          /\ pc'[q] \in {"beginning", "writing"} => published <= scan_of'[run[q]]
          /\ pc'[q] = "writing" => work'[q].base = commits
    BY <1>1 DEF AloneInv
  <2>1. lock = p /\ \A q \in Procs : pc[q] # "idle" => q = p
    BY <1>1 DEF SyncsInv, AloneInv
  <2>2. /\ pc'[p] = "beginning" /\ scan_of'[run[p]] = n
        /\ \A q \in Procs \ {p} : pc'[q] = pc[q]
    BY <1>1, <1>3, <1>4
  <2>3. \A q \in Procs \ {p} : pc'[q] = "idle"
    BY <2>1, <2>2
  <2>4. published <= n
    BY <1>3
  <2> HIDE DEF n
  <2> QED
    BY <2>1, <2>2, <2>3, <2>4
<1>14. EachPathFromOneRun'
  BY <1>1, <1>3, <1>4 DEF SyncsInv, EachPathFromOneRun, Succeeded
<1> QED
  BY <1>9, <1>10, <1>11, <1>12, <1>13, <1>14 DEF SyncsInv

(* A plan is made from the committed rows: at first all of it is to do.    *)
LEMMA BeginKeeps ==
  ASSUME SyncsInv, NEW p \in Procs, BeginTransaction(p)
  PROVE  SyncsInv'
<1> DEFINE plan == diff_source(work[p].scanned, db)
           w == [work[p] EXCEPT !.previous = db, !.todo = plan, !.base = commits]
<1>1. /\ pc[p] = "beginning"
      /\ pc' = [pc EXCEPT ![p] = "writing"]
      /\ work' = [work EXCEPT ![p].previous = db, ![p].todo = plan,
                              ![p].base = commits]
      /\ UNCHANGED <<db, ledger, published, commits, history, lock, run,
                     next_run, outcome, losses, faults, scan_of>>
  BY DEF BeginTransaction, committed, environment
<1>2. TypeOK
  BY DEF SyncsInv
<1>3. /\ pc \in [Procs -> Stages] /\ work \in [Procs -> Work] /\ commits \in Nat
      /\ db \in [Paths -> Row \cup {Absent}] /\ work[p] \in Work
      /\ work[p].scanned \in Scans
  BY <1>2 DEF TypeOK, Work
<1>4. plan \in Diffs
  BY DEF diff_source, Diffs, Present
<1>5. work[p].mine = NothingWritten
  BY <1>1 DEF SyncsInv, TransactionsInv
<1>6. work' = [work EXCEPT ![p] = w]
  <2> HIDE DEF plan
  <2> QED
    BY <1>1, <1>3
<1>7. /\ w \in Work /\ w.scanned = work[p].scanned /\ w.previous = db
      /\ w.todo = plan /\ w.base = commits /\ w.mine = NothingWritten
  <2> HIDE DEF plan
  <2> QED
    BY <1>3, <1>4, <1>5 DEF Work
<1> HIDE DEF w
<1>8. WorkInv(Found, db, commits, w)
  <2>1. PartOfPlan(w)
    BY <1>7 DEF PartOfPlan
  <2>2. ASSUME NEW path \in Paths
        PROVE  RowsHold(Found, w, path) /\ DoneHolds(commits, w, path)
    <3>1. RowOf(Found, db[path], path)
      BY DEF SyncsInv, RowsInv
    <3>2. w.mine[path] = Untouched
      BY <1>7 DEF NothingWritten
    <3>3. path \notin ToStore(w) \cup ToAlter(w) => Hashes(db[path]) = w.scanned[path]
      <4>1. ToStore(w) = plan.new \cup plan.changed
            /\ ToAlter(w) = plan.metadata_changed \cup plan.deleted
        BY <1>7 DEF ToStore, ToAlter
      <4> HIDE DEF Hashes
      <4> QED
        BY <1>3, <1>7, <4>1, DiffFacts
    <3> QED
      BY <1>7, <3>1, <3>2, <3>3 DEF RowsHold, DoneHolds
  <2> QED
    BY <1>3, <1>7, <2>1, <2>2 DEF WorkInv
<1>9. Found' = Found
  BY <1>1, FoundStays
<1>10. TypeOK'
  <2>1. work' \in [Procs -> Work] /\ pc' \in [Procs -> Stages]
    <3>1. pc' = [pc EXCEPT ![p] = "writing"]
      BY <1>1
    <3> QED
      BY <1>3, <1>6, <1>7, <3>1 DEF Stages
  <2>2. UNCHANGED <<db, ledger, published, commits, history, lock, run,
                    next_run, outcome, losses, faults, scan_of>>
    BY <1>1
  <2> QED
    BY <1>2, <2>1, <2>2 DEF TypeOK
<1>11. \A q \in Procs \ {p} : work'[q] = work[q] /\ pc'[q] = pc[q]
  BY <1>1, <1>3, <1>6
<1>12. work'[p] = w /\ pc'[p] = "writing"
  BY <1>1, <1>3, <1>6
<1>13. RunsInv'
  <2>1. pc[p] = "beginning" /\ UNCHANGED <<ledger, run, next_run, scan_of>>
    BY <1>1
  <2> QED
    BY <1>7, <1>9, <1>11, <1>12, <2>1 DEF SyncsInv, RunsInv, Succeeded
<1>14. RowsInv' /\ EachPathFromOneRun'
  BY <1>1, <1>9 DEF SyncsInv, RowsInv, EachPathFromOneRun, Succeeded
<1>15. TransactionsInv'
  BY <1>1, <1>8, <1>9, <1>11, <1>12 DEF SyncsInv, TransactionsInv
<1>16. AloneInv'
  BY <1>1, <1>7, <1>11, <1>12 DEF SyncsInv, AloneInv
<1> QED
  BY <1>10, <1>13, <1>14, <1>15, <1>16 DEF SyncsInv

(* An exception undoes the transaction. *)
LEMMA RaiseKeeps ==
  ASSUME SyncsInv, NEW p \in Procs, pc[p] \in {"scanning", "beginning", "writing"},
         Raise(p), faults' \in 0 .. MaxFaults,
         UNCHANGED <<environment, committed, lock, outcome>>
  PROVE  SyncsInv'
<1>1. /\ pc' = [pc EXCEPT ![p] = "failing"]
      /\ work' = [work EXCEPT ![p] = NoWork]
      /\ UNCHANGED <<db, ledger, published, commits, history, lock, run,
                     next_run, outcome, losses, scan_of>>
  BY DEF Raise, committed, environment
<1>2. TypeOK
  BY DEF SyncsInv
<1>3. NoWork \in Work /\ NoWork.mine = NothingWritten
  BY DEF NoWork, Work, NoDiff, Diffs, NoScan, Scans, NothingWritten
<1>4. Found' = Found
  BY <1>1, FoundStays
<1>5. TypeOK'
  BY <1>1, <1>2, <1>3 DEF TypeOK, Stages
<1>6. /\ pc'[p] = "failing" /\ work'[p] = NoWork
      /\ \A q \in Procs \ {p} : work'[q] = work[q] /\ pc'[q] = pc[q]
  BY <1>1, <1>2 DEF TypeOK
<1>7. RunsInv'
  BY <1>1, <1>4, <1>6 DEF SyncsInv, RunsInv, Succeeded
<1>8. RowsInv' /\ EachPathFromOneRun'
  BY <1>1, <1>4 DEF SyncsInv, RowsInv, EachPathFromOneRun, Succeeded
<1>9. TransactionsInv'
  BY <1>1, <1>3, <1>4, <1>6 DEF SyncsInv, TransactionsInv
<1>10. AloneInv'
  BY <1>1, <1>6 DEF SyncsInv, AloneInv
<1> QED
  BY <1>5, <1>7, <1>8, <1>9, <1>10 DEF SyncsInv

(* A run that writes is where the lemmas on its statements start.          *)
LEMMA WritingFacts ==
  ASSUME SyncsInv, NEW p \in Procs, pc[p] = "writing"
  PROVE  Writing(p)
<1>1. run[p] \in Runs /\ work[p].scanned = Found[run[p]]
  BY DEF SyncsInv, RunsInv
<1> QED
  BY <1>1 DEF SyncsInv, Writing, TransactionsInv

(* Whoever another transaction waits for has written rows.                 *)
LEMMA WaitsForWriter ==
  ASSUME SyncsInv, NEW p \in Procs, NEW q \in Procs, p \in WaitsFor(q)
  PROVE  pc[p] = "writing"
<1> DEFINE path == Statement(q).path
<1>1. pc[q] = "writing" /\ p \in Writers(q, path)
  BY DEF WaitsFor
<1>2. Statement(q).kind \in {"update", "delete", "prior", "path", "insert"}
  BY DEF WaitsFor
<1>3. path \in ToStore(work[q]) \cup ToAlter(work[q])
  BY <1>2, StatementFacts DEF SyncsInv, ToAlter
<1>4. path \in Paths
  BY <1>3 DEF ToStore, ToAlter, SyncsInv, TypeOK, Work, Diffs
<1>5. work[p].mine[path] # Untouched
  BY <1>1 DEF Writers
<1> QED
  BY <1>4, <1>5 DEF SyncsInv, TransactionsInv, NothingWritten

LEMMA StatementKeeps ==
  ASSUME SyncsInv, NEW p \in Procs, Statements(p)
  PROVE  SyncsInv'
<1>1. pc[p] = "writing"
  <2>1. CASE DeadlockDetected(p)
    <3>1. PICK cycle \in SUBSET Procs :
            p \in cycle /\ UNION {WaitsFor(q) : q \in cycle} = cycle
      BY <2>1 DEF DeadlockDetected, InDeadlock
    <3>2. PICK q \in cycle : p \in WaitsFor(q)
      BY <3>1
    <3> QED
      BY <3>1, <3>2, WaitsForWriter
  <2>2. CASE ~ DeadlockDetected(p)
    BY <2>2 DEF Statements, UpdateMetadata, DeleteDocument, DeletePrior,
                WaitWithRow, DeletePath, InsertDocument, Ready
  <2> QED
    BY <2>1, <2>2
<1>2. Writing(p)
  BY <1>1, WritingFacts
<1>3. UNCHANGED <<environment, committed, lock, outcome, faults>>
  BY DEF Statements, UpdateMetadata, DeleteDocument, DeletePrior, WaitWithRow,
         DeletePath, InsertDocument, DeadlockDetected
<1>4. CASE Raise(p)
  <2>1. faults' \in 0 .. MaxFaults
    BY <1>3 DEF SyncsInv, TypeOK
  <2> QED
    BY <1>1, <1>3, <1>4, <2>1, RaiseKeeps
<1>5. ASSUME NEW w, Leaves(p, w), work' = [work EXCEPT ![p] = w], UNCHANGED pc
      PROVE  SyncsInv'
  <2>1. UNCHANGED <<db, ledger, published, commits, history, lock, run, next_run,
                    outcome, losses, faults, scan_of, pc>>
    BY <1>3, <1>5 DEF environment, committed
  <2>2. Found' = Found
    BY <2>1, FoundStays
  <2>3. TypeOK
    BY DEF SyncsInv
  <2>4. /\ work'[p] = w /\ w \in Work
        /\ \A q \in Procs \ {p} : work'[q] = work[q]
    BY <1>5, <2>3 DEF TypeOK, Leaves
  <2>5. /\ w.scanned = work[p].scanned /\ w.base = work[p].base
        /\ WorkInv(Found, db, commits, w)
    BY <1>5 DEF Leaves
  <2>6. TypeOK'
    BY <1>5, <2>1, <2>3, <2>4 DEF TypeOK
  <2>7. RunsInv'
    BY <2>1, <2>2, <2>4, <2>5 DEF SyncsInv, RunsInv, Succeeded
  <2>8. RowsInv' /\ EachPathFromOneRun'
    BY <2>1, <2>2 DEF SyncsInv, RowsInv, EachPathFromOneRun, Succeeded
  <2>9. TransactionsInv'
    BY <1>1, <2>1, <2>2, <2>4, <2>5 DEF SyncsInv, TransactionsInv
  <2>10. AloneInv'
    BY <2>1, <2>4, <2>5 DEF SyncsInv, AloneInv
  <2> QED
    BY <2>6, <2>7, <2>8, <2>9, <2>10 DEF SyncsInv
<1> QED
  BY <1>2, <1>4, <1>5, StatementLeaves

-----------------------------------------------------------------------------
(* At a commit every path that the run has written is as it has scanned    *)
(* it; the others are, if no other run has committed in between, and stay  *)
(* as they are in any case.                                                *)
LEMMA CommitFacts ==
  ASSUME SyncsInv, NEW p \in Procs, Commit(p), NEW path \in Paths
  PROVE  /\ db'[path] \in Row \cup {Absent}
         /\ RowOf(Found, db'[path], path)
         /\ \/ Hashes(db'[path]) = work[p].scanned[path]
            \/ work[p].base < commits /\ db'[path] = db[path]
<1> DEFINE w == work[p]
<1>1. pc[p] = "writing" /\ Statement(p).kind = "none" /\ db' = AfterCommit(p)
  BY DEF Commit, Ready
<1>2. Writing(p) /\ TypeOK
  BY <1>1, WritingFacts DEF SyncsInv
<1>3. db'[path] = View(p, path)
  BY <1>1 DEF AfterCommit
<1>4. path \notin ToStore(w) /\ path \notin ToAlter(w)
  BY <1>1, <1>2, StatementFacts
<1>5. View(p, path) \in Row \cup {Absent} /\ RowOf(Found, View(p, path), path)
  BY <1>2, ViewFacts
<1>6. DoneHolds(commits, w, path)
  BY <1>2, PathFacts
<1>7. /\ w.base <= commits /\ (w.base = commits => w.previous = db)
      /\ w.base \in Nat /\ commits \in Nat
  BY <1>2 DEF Writing, WorkInv, TypeOK, Work
<1>8. CASE w.mine[path] # Untouched
  BY <1>3, <1>4, <1>6, <1>8, <1>5 DEF View, DoneHolds
<1>9. CASE w.mine[path] = Untouched
  <2>1. db'[path] = db[path]
    BY <1>3, <1>9 DEF View
  <2>2. CASE w.base = commits
    BY <1>3, <1>4, <1>5, <1>6, <1>7, <1>9, <2>1, <2>2 DEF DoneHolds
  <2>3. CASE w.base # commits
    <3>1. w.base < commits
      BY <1>7, <2>3
    <3> QED
      BY <1>3, <1>5, <2>1, <3>1
  <2> QED
    BY <2>2, <2>3
<1> QED
  BY <1>8, <1>9

LEMMA CommitKeeps ==
  ASSUME SyncsInv, NEW p \in Procs, Commit(p)
  PROVE  SyncsInv'
<1>1. /\ pc[p] = "writing" /\ db' = AfterCommit(p)
      /\ ledger' = [ledger EXCEPT ![run[p]] = "succeeded"]
      /\ published' = scan_of[run[p]]
      /\ commits' = commits + 1
      /\ pc' = [pc EXCEPT ![p] = "unlocking"]
      /\ work' = [work EXCEPT ![p] = NoWork]
      /\ outcome' = [outcome EXCEPT ![p] = "succeeded"]
      /\ UNCHANGED <<history, run, next_run, losses, scan_of, lock, faults>>
  BY DEF Commit, Ready, environment
<1>2. TypeOK
  BY DEF SyncsInv
<1>3. NoWork \in Work /\ NoWork.mine = NothingWritten
  BY DEF NoWork, Work, NoDiff, Diffs, NoScan, Scans, NothingWritten
<1>4. Found' = Found
  BY <1>1, FoundStays
<1>5. /\ pc'[p] = "unlocking" /\ work'[p] = NoWork
      /\ \A q \in Procs \ {p} : work'[q] = work[q] /\ pc'[q] = pc[q]
  BY <1>1, <1>2 DEF TypeOK
<1>6. /\ run[p] \in Runs /\ run[p] < next_run /\ ledger[run[p]] = "none"
      /\ scan_of[run[p]] # 0 /\ work[p].scanned = Found[run[p]]
      /\ \A q \in Procs \ {p} : pc[q] # "idle" => run[q] # run[p]
  BY <1>1 DEF SyncsInv, RunsInv
<1>7. db' \in [Paths -> Row \cup {Absent}]
  <2>1. db' = [path \in Paths |-> db'[path]]
    BY <1>1 DEF AfterCommit
  <2> QED
    BY <2>1, CommitFacts
<1>8. TypeOK'
  BY <1>1, <1>2, <1>3, <1>6, <1>7 DEF TypeOK, Stages
<1>9. /\ ledger'[run[p]] = "succeeded"
      /\ \A r \in Runs \ {run[p]} : ledger'[r] = ledger[r]
      /\ Succeeded' = Succeeded \cup {run[p]}
  BY <1>1, <1>2, <1>6 DEF TypeOK, Succeeded
<1>10. RunsInv'
  <2>1. next_run \in Nat /\ run[p] \in Nat
    BY <1>2, <1>6 DEF TypeOK, Runs
  <2>2. ~ (run[p] >= next_run)
    BY <1>6, <2>1
  <2> QED
    BY <1>1, <1>4, <1>5, <1>6, <1>9, <2>2 DEF SyncsInv, RunsInv
<1>11. RowsInv'
  BY <1>4, CommitFacts DEF RowsInv
<1>12. TransactionsInv'
  <2>1. ASSUME NEW q \in Procs \ {p}, pc[q] = "writing"
        PROVE  WorkInv(Found, db', commits', work[q])
    <3>1. /\ WorkInv(Found, db, commits, work[q]) /\ work[q] \in Work
          /\ commits \in Nat /\ commits' \in Nat /\ commits' > commits
      BY <1>1, <1>2, <2>1 DEF SyncsInv, TransactionsInv, TypeOK
    <3> HIDE DEF Found
    <3> QED
      BY <3>1, WorkStays
  <2> QED
    BY <1>3, <1>4, <1>5, <2>1 DEF SyncsInv, TransactionsInv
<1>13. AloneInv'
  <2>1. losses = 0 => \A q \in Procs \ {p} : pc[q] = "idle"
    BY <1>1 DEF SyncsInv, AloneInv
  <2> QED
    BY <1>1, <1>5, <2>1 DEF SyncsInv, AloneInv
<1>14. EachPathFromOneRun'
  <2> SUFFICES ASSUME NEW path \in Paths
               PROVE  \E r \in Succeeded' : Hashes(db'[path]) = history[scan_of[r]][path]
    BY <1>1 DEF EachPathFromOneRun
  <2>1. CASE Hashes(db'[path]) = work[p].scanned[path]
    BY <1>6, <1>9, <2>1 DEF Found
  <2>2. CASE work[p].base < commits /\ db'[path] = db[path]
    <3>1. commits > 0
      BY <1>2, <2>2 DEF TypeOK, Work
    <3>2. PICK r \in Succeeded : Hashes(db[path]) = history[scan_of[r]][path]
      BY <3>1 DEF SyncsInv, EachPathFromOneRun
    <3> QED
      BY <1>9, <2>2, <3>2
  <2> QED
    BY <2>1, <2>2, CommitFacts
<1> QED
  BY <1>8, <1>10, <1>11, <1>12, <1>13, <1>14 DEF SyncsInv

LEMMA FailureKeeps ==
  ASSUME SyncsInv, NEW p \in Procs, RecordFailure(p)
  PROVE  SyncsInv'
<1>1. /\ pc[p] = "failing"
      /\ ledger' = [ledger EXCEPT ![run[p]] = "failed"]
      /\ pc' = [pc EXCEPT ![p] = "unlocking"]
      /\ outcome' = [outcome EXCEPT ![p] = "failed"]
      /\ UNCHANGED <<history, run, next_run, losses, scan_of, db, lock, work,
                     faults, published, commits>>
  BY DEF RecordFailure, environment
<1>2. TypeOK
  BY DEF SyncsInv
<1>3. Found' = Found
  BY <1>1, FoundStays
<1>4. /\ run[p] \in Runs /\ run[p] < next_run /\ ledger[run[p]] = "none"
      /\ \A q \in Procs \ {p} : pc[q] # "idle" => run[q] # run[p]
  BY <1>1 DEF SyncsInv, RunsInv
<1>5. /\ pc'[p] = "unlocking"
      /\ \A q \in Procs \ {p} : pc'[q] = pc[q]
      /\ \A r \in Runs \ {run[p]} : ledger'[r] = ledger[r]
      /\ Succeeded' = Succeeded
  BY <1>1, <1>2, <1>4 DEF TypeOK, Succeeded
<1>6. TypeOK'
  BY <1>1, <1>2, <1>4 DEF TypeOK, Stages
<1>7. RunsInv'
  <2>1. ~ (run[p] >= next_run)
    BY <1>2, <1>4 DEF TypeOK, Runs
  <2> QED
    BY <1>1, <1>3, <1>4, <1>5, <2>1 DEF SyncsInv, RunsInv
<1>8. RowsInv' /\ TransactionsInv'
  BY <1>1, <1>3, <1>5 DEF SyncsInv, RowsInv, TransactionsInv
<1>9. AloneInv' /\ EachPathFromOneRun'
  BY <1>1, <1>5 DEF SyncsInv, AloneInv, EachPathFromOneRun
<1> QED
  BY <1>6, <1>7, <1>8, <1>9 DEF SyncsInv

LEMMA UnlockKeeps ==
  ASSUME SyncsInv, NEW p \in Procs, Unlock(p)
  PROVE  SyncsInv'
<1>1. /\ pc[p] = "unlocking"
      /\ pc' = [pc EXCEPT ![p] = "idle"]
      /\ lock' \in {lock, NoProc}
      /\ outcome' \in {outcome, [outcome EXCEPT ![p] = "error"]}
      /\ UNCHANGED <<history, run, next_run, losses, scan_of, db, ledger,
                     published, commits, work, faults>>
  BY DEF Unlock, environment, committed
<1>2. TypeOK
  BY DEF SyncsInv
<1>3. Found' = Found
  BY <1>1, FoundStays
<1>4. pc'[p] = "idle" /\ \A q \in Procs \ {p} : pc'[q] = pc[q]
  BY <1>1, <1>2 DEF TypeOK
<1>5. TypeOK'
  BY <1>1, <1>2 DEF TypeOK, Stages
<1>6. RunsInv'
  BY <1>1, <1>3, <1>4 DEF SyncsInv, RunsInv, Succeeded
<1>7. RowsInv' /\ TransactionsInv' /\ EachPathFromOneRun'
  BY <1>1, <1>3, <1>4 DEF SyncsInv, RowsInv, TransactionsInv, EachPathFromOneRun,
                          Succeeded
<1>8. AloneInv'
  <2>1. losses = 0 => \A q \in Procs \ {p} : pc[q] = "idle"
    BY <1>1 DEF SyncsInv, AloneInv
  <2> QED
    BY <1>1, <1>4, <2>1 DEF SyncsInv, AloneInv
<1> QED
  BY <1>5, <1>6, <1>7, <1>8 DEF SyncsInv

-----------------------------------------------------------------------------
LEMMA NextSyncsInv == SyncsInv /\ [Next]_vars => SyncsInv'
<1> SUFFICES ASSUME SyncsInv, [Next]_vars PROVE SyncsInv'
  OBVIOUS
<1>1. CASE UNCHANGED vars
  <2>1. Found' = Found
    BY <1>1, FoundStays DEF vars
  <2> QED
    BY <1>1, <2>1 DEF vars, SyncsInv, TypeOK, RunsInv, RowsInv, TransactionsInv,
                      AloneInv, EachPathFromOneRun, Succeeded
<1>2. CASE EditSource
  BY <1>2, EditKeeps
<1>3. ASSUME NEW p \in Procs, AcquireLock(p) \/ LoseLock(p) \/ Fault(p)
      PROVE  SyncsInv'
  <2>1. CASE Fault(p)
    <3>1. faults' \in 0 .. MaxFaults
      BY <2>1, BoundsAreNat DEF Fault, SyncsInv, TypeOK
    <3>2. /\ pc[p] \in {"scanning", "beginning", "writing"} /\ Raise(p)
          /\ UNCHANGED <<environment, committed, lock, outcome>>
      BY <2>1 DEF Fault
    <3> QED
      BY <3>1, <3>2, RaiseKeeps
  <2> QED
    BY <1>3, <2>1, AcquireKeeps, LoseKeeps
<1>4. ASSUME NEW p \in Procs, Step(p)
      PROVE  SyncsInv'
  <2>1. CASE Statements(p)
    BY <2>1, StatementKeeps
  <2>2. CASE ~ Statements(p)
    BY <1>4, <2>2, ScanKeeps, BeginKeeps, CommitKeeps, FailureKeeps, UnlockKeeps
       DEF Step, Statements
  <2> QED
    BY <2>1, <2>2
<1> QED
  BY <1>1, <1>2, <1>3, <1>4 DEF Next, Rest

(* The inductive invariant holds of every behaviour. *)
THEOREM SyncsInvariant == Spec => []SyncsInv
BY InitSyncsInv, NextSyncsInv, PTL DEF Spec

(* Whatever runs overlap, however their statements wait, find rows that    *)
(* others have replaced, or end in a deadlock: each path shows what one    *)
(* successful run has found there (pgvector_store.py:222-253, 290-314).    *)
THEOREM NoRowIsMixed == Spec => []OverlapInv
<1>1. SyncsInv => OverlapInv
  BY DEF SyncsInv, OverlapInv
<1> QED
  BY <1>1, SyncsInvariant, PTL

-----------------------------------------------------------------------------
(* A commit with no other commit since its plan leaves the scan.           *)
LEMMA CommitPublishes ==
  ASSUME SyncsInv, NEW p \in Procs, Commit(p), work[p].base = commits
  PROVE  Corpus(db') = work[p].scanned
<1>1. work[p].scanned \in Scans /\ commits \in Nat
  BY DEF SyncsInv, TypeOK, Work
<1>2. \A path \in Paths : Hashes(db'[path]) = work[p].scanned[path]
  BY <1>1, CommitFacts
<1> QED
  BY <1>1, <1>2 DEF Corpus, Scans

(* Only a commit takes a run from its transaction to the lock's release.   *)
LEMMA OnlyCommitEnds ==
  ASSUME SyncsInv, Next, NEW p \in Procs, pc[p] = "writing", pc'[p] = "unlocking"
  PROVE  Commit(p)
<1>1. pc \in [Procs -> Stages]
  BY DEF SyncsInv, TypeOK
<1>2. pc' # pc
  OBVIOUS
<1>3. ASSUME NEW q \in Procs, Statements(q) \/ Fault(q)
      PROVE  pc'[p] # "unlocking"
  <2>1. Raise(q)
    <3>1. CASE Fault(q)
      BY <3>1 DEF Fault
    <3>2. CASE Statements(q)
      BY <1>2, <3>2 DEF Statements, UpdateMetadata, DeleteDocument, DeletePrior,
            WaitWithRow, DeletePath, InsertDocument, DeadlockDetected
    <3> QED
      BY <1>3, <3>1, <3>2
  <2> QED
    BY <1>1, <2>1 DEF Raise
<1>4. ASSUME NEW q \in Procs,
             \/ AcquireLock(q) \/ LoseLock(q) \/ Scan(q) \/ BeginTransaction(q)
             \/ Commit(q) \/ RecordFailure(q) \/ Unlock(q)
      PROVE  Commit(p)
  BY <1>1, <1>4 DEF AcquireLock, LoseLock, Scan, BeginTransaction, Commit, Ready,
       RecordFailure, Unlock
<1> QED
  BY <1>2, <1>3, <1>4 DEF Next, Step, Statements, EditSource, Rest, vars

(* An overlap heals: a run in whose transaction no other run commits       *)
(* leaves exactly its scan, whatever was there (pipeline.py:107-240).      *)
THEOREM OverlapHeals == Spec => RepairsAfterOverlap
<1>1. SyncsInv /\ [Next]_vars =>
        [\A p \in Procs :
           pc[p] = "writing" /\ pc'[p] = "unlocking" /\ work[p].base = commits
             => Corpus(db') = work[p].scanned]_vars
  <2> SUFFICES ASSUME SyncsInv, Next, NEW p \in Procs, pc[p] = "writing",
                      pc'[p] = "unlocking", work[p].base = commits
               PROVE  Corpus(db') = work[p].scanned
    OBVIOUS
  <2> QED
    BY OnlyCommitEnds, CommitPublishes
<1> QED
  BY <1>1, SyncsInvariant, PTL DEF Spec, RepairsAfterOverlap

-----------------------------------------------------------------------------
(* The initial states are initial states of AtomicCorpus.                  *)
LEMMA InitImplements == Init => Atomic!AtomicInit
<1> SUFFICES ASSUME Init PROVE Atomic!AtomicInit
  OBVIOUS
<1>1. Corpus(db) = NoScan
  BY DEF Init, Corpus, NoScan, Hashes
<1>2. history \in {<<scan>> : scan \in Scans}
  BY VersionsAreScans DEF Init
<1> QED
  BY <1>1, <1>2
     DEF Init, Atomic!AtomicInit, Atomic!NoScan, NoScan, Atomic!Scans, Scans,
         Atomic!ScannedDocument, ScannedDocument

(* As long as no session is lost, a commit publishes the scan of its run,  *)
(* which is no older than what was published, and logs the run.            *)
LEMMA CommitImplements ==
  ASSUME SyncsInv, NEW p \in Procs, Commit(p), losses = 0
  PROVE  run[p] \in Runs /\ Atomic!PublishScan(run[p])
<1> DEFINE r == run[p]
           version == scan_of[run[p]]
<1>1. /\ pc[p] = "writing" /\ published' = version
      /\ ledger' = [ledger EXCEPT ![r] = "succeeded"] /\ UNCHANGED history
  BY DEF Commit, Ready, environment
<1>2. /\ r \in Runs /\ ledger[r] = "none" /\ version # 0
      /\ work[p].scanned = history[version]
  BY <1>1 DEF SyncsInv, RunsInv, Found
<1>3. version >= published /\ version \in 1 .. Len(history)
  <2>1. published <= version
    BY <1>1 DEF SyncsInv, AloneInv
  <2>2. /\ history \in Seq(Scans) /\ version \in 0 .. Len(history)
        /\ published \in 0 .. Len(history)
    BY <1>2 DEF SyncsInv, TypeOK
  <2> HIDE DEF version
  <2> QED
    BY <1>2, <2>1, <2>2
<1>4. Corpus(db)' = history[version]
  <2>1. work[p].base = commits
    BY <1>1 DEF SyncsInv, AloneInv
  <2>2. Corpus(db') = work[p].scanned
    BY <2>1, CommitPublishes
  <2> QED
    BY <1>2, <2>2
<1> HIDE DEF r, version
<1>5. Atomic!PublishScan(r)
  BY <1>1, <1>2, <1>3, <1>4 DEF Atomic!PublishScan
<1> QED
  BY <1>2, <1>5 DEF r

LEMMA FailureImplements ==
  ASSUME SyncsInv, NEW p \in Procs, RecordFailure(p)
  PROVE  run[p] \in Runs /\ Atomic!LogFailure(run[p])
<1>1. /\ pc[p] = "failing"
      /\ ledger' = [ledger EXCEPT ![run[p]] = "failed"]
      /\ UNCHANGED <<history, db, published>>
  BY DEF RecordFailure, environment
<1>2. run[p] \in Runs /\ ledger[run[p]] = "none"
  BY <1>1 DEF SyncsInv, RunsInv
<1>3. UNCHANGED Corpus(db)
  BY <1>1 DEF Corpus
<1> QED
  BY <1>1, <1>2, <1>3 DEF Atomic!LogFailure

(* Every step before a session is lost is a step of AtomicCorpus, or one   *)
(* it does not see.                                                        *)
LEMMA NextImplements ==
  ASSUME SyncsInv, Next, losses' = 0
  PROVE  Atomic!AtomicNext \/ UNCHANGED Atomic!abstractVars
<1>1. losses = 0
  <2>1. losses \in Nat
    BY BoundsAreNat DEF SyncsInv, TypeOK
  <2>2. \/ UNCHANGED losses
        \/ losses' = losses + 1
    BY DEF Next, Step, EditSource, AcquireLock, LoseLock, Fault, Rest, Scan,
         BeginTransaction, UpdateMetadata, DeleteDocument, DeletePrior,
         WaitWithRow, DeletePath, InsertDocument, DeadlockDetected, Commit,
         RecordFailure, Unlock, environment, vars
  <2> QED
    BY <2>1, <2>2
<1>2. CASE EditSource
  <2>1. PICK scan \in Versions : history' = Append(history, scan)
    BY <1>2 DEF EditSource
  <2>2. scan \in Atomic!Scans
    BY VersionsAreScans DEF Scans, Atomic!Scans, ScannedDocument,
                            Atomic!ScannedDocument
  <2>3. UNCHANGED <<ledger, published, Corpus(db)>>
    BY <1>2 DEF EditSource, Corpus
  <2>4. Atomic!Edit
    BY <2>1, <2>2, <2>3 DEF Atomic!Edit
  <2> QED
    BY <2>4 DEF Atomic!AtomicNext
<1>3. ASSUME NEW p \in Procs, Commit(p)
      PROVE  Atomic!AtomicNext
  BY <1>1, <1>3, CommitImplements DEF Atomic!AtomicNext
<1>4. ASSUME NEW p \in Procs, RecordFailure(p)
      PROVE  Atomic!AtomicNext
  BY <1>4, FailureImplements DEF Atomic!AtomicNext
<1>5. CASE UNCHANGED <<history, db, ledger, published>>
  BY <1>5 DEF Atomic!abstractVars, Corpus
<1>6. ASSUME NEW p \in Procs,
             \/ AcquireLock(p) \/ LoseLock(p) \/ Fault(p) \/ Scan(p)
             \/ BeginTransaction(p) \/ Unlock(p) \/ Statements(p)
      PROVE  UNCHANGED <<history, db, ledger, published>>
  BY <1>6 DEF AcquireLock, LoseLock, Fault, Scan, BeginTransaction, Unlock,
       Statements, UpdateMetadata, DeleteDocument, DeletePrior, WaitWithRow,
       DeletePath, InsertDocument, DeadlockDetected, environment, committed
<1>7. CASE Rest
  BY <1>7, <1>5 DEF Rest, vars
<1> QED
  BY <1>2, <1>3, <1>4, <1>5, <1>6, <1>7 DEF Next, Step, Statements

(* Statement by statement under READ COMMITTED, with row locks instead of  *)
(* a private copy of the tables, synchronization implements AtomicCorpus   *)
(* as long as no lock session is lost (pipeline.py:107-240,                *)
(* pgvector_store.py:121-180).                                             *)
THEOREM StatementsImplementAtomicCorpus == Spec => ImplementsAtomicCorpus
<1>1. SyncsInv /\ [Next]_vars =>
        [losses' = 0 => Atomic!AtomicNext \/ UNCHANGED Atomic!abstractVars]_vars
  BY NextImplements
<1> QED
  BY <1>1, InitImplements, SyncsInvariant, PTL DEF Spec, ImplementsAtomicCorpus
=============================================================================
