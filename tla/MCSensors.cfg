SPECIFICATION FairSpec
CONSTANTS
  MaxPids = 2
  MaxProcesses = 3
  Ports = {1, 2}
  MaxSockets = 3
  MinSamples = 3
  MaxSamples = 3
  MaxContacts = 2
  Hour = 7
  MaxTime = 7
  Setups <- EachSensor
INVARIANTS
  TypeOK
  EndsAreTrue
  PollingIsExact
  BeaconsAreReconnections
PROPERTIES
  RecordCatchesUp
CHECK_DEADLOCK FALSE
