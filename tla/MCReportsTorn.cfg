SPECIFICATION FairSpec
CONSTANTS
  MaxDays = 4
  LateDays = 0
  MaxEvents = 2
  MaxRequests = 0
  MaxCrashes = 0
  MaxTorn = 1
PROPERTIES
  MissingDaysAreFilled
CHECK_DEADLOCK FALSE
