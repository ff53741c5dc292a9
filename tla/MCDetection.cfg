SPECIFICATION FairSpec
CONSTANTS
  p1 = p1
  p2 = p2
  d1 = d1
  d2 = d2
  Pages = {p1, p2}
  Window = 2
  MaxRecent = 3
  MaxEmitted = 2
  MaxEvents = 4
  MaxClock = 3
  Dashboards = {d1, d2}
  ClientLimits = {1, 2}
  MaxDisturbances = 2
  Setups <- Looks
INVARIANTS
  TypeOK
  OneFindingPerWindow
  PairsAreFound
  NoChangeIsMissed
PROPERTIES
  DashboardCatchesUp
CHECK_DEADLOCK FALSE
