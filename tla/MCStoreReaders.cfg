SPECIFICATION Spec
CONSTANTS
  p1 = p1 p2 = p2 a = a
  Procs = {p1, p2}
  NoProc = NoProc
  Paths = {a}
  MaxChunks = 2
  NoRun = NoRun
  MaxRuns = 3
  MaxTime = 1
  MaxBackSteps = 1
SYMMETRY Symmetry
INVARIANTS
  ReadersInv
  StatusNamesNoOlderRun
  LastRunIsNewest
PROPERTIES
  CountersNeverDecrease
