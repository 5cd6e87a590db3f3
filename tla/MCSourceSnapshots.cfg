SPECIFICATION Spec
CONSTANTS
  c1 = c1 c2 = c2 m1 = m1
  Keys = {1, 2, 3, 4}
  Kind <- MCKind
  Contents = {c1, c2}
  Size <- MCSize
  Metas = {m1}
  NoMeta = NoMeta
  Manifests <- MCManifests
  Invalid = Invalid
  Absent = Absent
  Initial <- MCInitial
  Setups <- MCSetups
  MaxEdits = 3
  MaxScans = 2
INVARIANTS
  SourcesInv
  ScanIsOneMoment
  LoadServesLatestScan
