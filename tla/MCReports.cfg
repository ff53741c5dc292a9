SPECIFICATION Spec
CONSTANTS
  MaxDays = 2
  LateDays = 1
  MaxEvents = 2
  MaxRequests = 1
  MaxCrashes = 1
  MaxTorn = 1
INVARIANTS
  TypeOK
  UnfinishedIsLatest
  LaterShowsMore
PROPERTIES
  VersionsStay
CHECK_DEADLOCK FALSE
