SPECIFICATION Spec
CONSTANTS
  QueueLimit = 2
  BatchSize = 1
  AttemptLimit = 2
  MaxEvents = 2
  MaxCodes = 2
  MaxTries = 3
  MaxFaults = 1
INVARIANTS
  InOrder
  NothingLost
  CodePairsOnce
  PairingsDurable
  RevokedStayOut
