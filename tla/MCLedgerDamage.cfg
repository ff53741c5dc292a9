SPECIFICATION Spec
CONSTANTS
  e1 = e1
  e2 = e2
  e3 = e3
  c1 = c1
  c2 = c2
  EventIds = {e1, e2}
  Contents = {c1, c2}
  Interval = 2
  Installations <- New
  OtherLogs <- SampleLogs
  OtherArchives <- SampleArchives
  OtherCheckpointLogs <- SampleCheckpointLogs
  OtherCheckpointArchives <- SampleCheckpointArchives
  MaxDamage = 2
  Absent = Absent
  Damaged = Damaged
SYMMETRY Symmetry
INVARIANTS
  VerifiedMeansComplete
