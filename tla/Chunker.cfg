SPECIFICATION ChunkerSpec
CONSTANTS
  MaxLength = 7
  MaxSize = 3
INVARIANTS
  ChunkerInv
  TextIsCovered
