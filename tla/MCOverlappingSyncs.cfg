SPECIFICATION FairSpec
CONSTANTS
  p1 = p1 p2 = p2 c1 = c1 c2 = c2 m1 = m1 m2 = m2
  Procs = {p1, p2}
  NoProc = NoProc
  Absent = Absent
  Untouched = Untouched
  Paths = {1, 2}
  Contents = {c1, c2}
  Metas = {m1, m2}
  InitialSource <- MCInitialSource
  Versions <- MCVersions
  MaxRuns = 3
  MaxEdits = 2
  MaxLosses = 1
  MaxFaults = 1
INVARIANTS
  OverlapInv
PROPERTIES
  RepairsAfterOverlap
  ImplementsAtomicCorpus
  SyncEnds
