SPECIFICATION FairSpec
CONSTANTS
  watchdog = watchdog
  sensor = sensor
  route1 = route1
  route2 = route2
  e1 = e1
  e2 = e2
  Threads = {watchdog}
  Tasks = {sensor}
  Routes = {route1, route2}
  Events = {e1, e2}
  MaxCalls = 3
INVARIANTS
  TypeOK
  NotifiedOnce
  HandedOverIsKnown
  DrainCoversTheRest
PROPERTIES
  ShutdownEnds
CHECK_DEADLOCK FALSE
