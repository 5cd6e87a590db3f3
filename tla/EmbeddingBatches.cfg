SPECIFICATION Spec
CONSTANTS
  MaxDocuments = 3
  MaxChunks = 4
  MaxBatchSize = 5
INVARIANTS
  TypeOK
  EmbeddingsAligned
  StoredInOrder
  PendingIsBounded
  CountersExact
PROPERTIES
  LoopEnds
