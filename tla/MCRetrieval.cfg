SPECIFICATION Spec
CONSTANTS
  t = t
  PathCount = 2
  Versions <- MCVersions
  Texts <- MCTexts
  Tags = {t}
  Models = {m1, m2}
  Points <- MCPoints
  MaxK = 2
  MaxLines = 2
  EfSearch = 2
  MaxCommits = 2
  Absent = Absent
  Blank = Blank
  Invalid = Invalid
INVARIANTS
  RetrievalInv
  ConsistentRanking
  ReportIsRight
