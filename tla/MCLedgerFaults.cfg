SPECIFICATION FairSpec
CONSTANTS
  e1 = e1
  e2 = e2
  e3 = e3
  c1 = c1
  c2 = c2
  EventIds = {e1, e2, e3}
  Contents = {c1, c2}
  Interval = 2
  Installations <- NewOrLegacy
  OtherLogs <- NoOther
  OtherArchives <- NoOther
  OtherCheckpointLogs <- NoOther
  OtherCheckpointArchives <- NoOther
  MaxDamage = 0
  Absent = Absent
  Damaged = Damaged
INVARIANTS
  TypeOK
  ReceiptsDurable
  ReceiptsAgree
  NoFalseAlarm
  MemoryMatchesDisk
PROPERTIES
  EvidenceOnlyGrows
  ImplementsPromise
  OffersAreAnswered
