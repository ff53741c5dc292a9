--------------------------- MODULE MCHostSensors ---------------------------
(* Three processes on two pids for the process watcher, two on one for the   *)
(* network engine.                                                           *)
EXTENDS HostSensors

EachSensor ==
  {[sensor |-> "process", pids |-> {1, 2}, processes |-> 3],
   [sensor |-> "network", pids |-> {1}, processes |-> 2]}

=============================================================================
