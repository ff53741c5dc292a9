SPECIFICATION FairSpec
CONSTANTS
  QueueLimit = 2
  BatchSize = 2
  AttemptLimit = 1
  MaxEvents = 3
  MaxCodes = 1
  MaxTries = 1
  MaxFaults = 2
INVARIANTS
  TypeOK
  GapsAccounted
PROPERTIES
  QueuedIsRecorded
