----------------------------- MODULE MCEventBus -----------------------------
(***************************************************************************)
(* Instances of EventBus for TLC.                                          *)
(***************************************************************************)
EXTENDS EventBus

CONSTANTS watchdog, sensor, route1, route2, e1, e2

=============================================================================
