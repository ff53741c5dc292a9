SPECIFICATION Spec
CONSTANTS
  watchdog = watchdog
  sensor = sensor
  route1 = route1
  route2 = route2
  e1 = e1
  e2 = e2
  Threads = {watchdog}
  Tasks = {sensor}
  Routes = {}
  Events = {e1, e2}
  MaxCalls = 2
INVARIANTS
  DrainedBeforeReport
CHECK_DEADLOCK FALSE
