SPECIFICATION FairSpec
CONSTANTS
  MaxDays = 3
  LateDays = 0
  MaxEvents = 1
  MaxRequests = 0
  MaxCrashes = 1
  MaxTorn = 0
PROPERTIES
  DaysAreFinished
CHECK_DEADLOCK FALSE
