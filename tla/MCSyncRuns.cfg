SPECIFICATION Spec
CONSTANTS
  p1 = p1 p2 = p2 c1 = c1 c2 = c2 m1 = m1 m2 = m2 a = a b = b
  Procs = {p1, p2}
  NoProc = NoProc
  Absent = Absent
  Paths = {a, b}
  Contents = {c1, c2}
  Metas = {m1, m2}
  ChunkCount <- MCChunkCount
  InitialSource <- MCInitialSource
  VerifyOnLoad = TRUE
  MaxRuns = 3
  MaxEdits = 2
  MaxFaults = 2
SYMMETRY Symmetry
INVARIANTS
  TypeOK
  OneWriter
  TransactionIsolated
  CorpusIsPublishedScan
  DocumentsComeFromSucceededRuns
  IndexedBodiesMatchHashes
  LedgerExplainsCorpus
  LedgerTellsOutcomes
PROPERTIES
  SameContentKeepsChunks
  ImplementsAtomicCorpus
