SPECIFICATION Spec
CONSTANTS
  Paths = {p}
  Contents = {a, b}
  Metas = {none, hr}
  Absent = Absent
  Empty = none
  Dimensions <- MCDimensions
  Dimension = 384
  MaxMigrations = 4
  MaxEdits = 2
  MaxSyncs = 3
INVARIANTS
  SchemaInv
PROPERTIES
  SyncRestoresMetadata
  VectorsSurvive
