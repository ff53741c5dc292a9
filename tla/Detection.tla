----------------------------- MODULE Detection -----------------------------
(***************************************************************************)
(* Observations on their way to somebody's eyes: each one that is stored   *)
(* reaches the correlation engine, whose findings are stored as well, and  *)
(* everything stored is a change the dashboards are told of.               *)
(*                                                                         *)
(* `setup` bounds what happens for what is looked at; where there are no   *)
(* dashboards the changes are not counted, and where there are some no time *)
(* passes for the engine.                                                  *)
(***************************************************************************)
EXTENDS CorrelationEngine, LiveUpdates

CONSTANT Setups

ASSUME SetupsAssumption ==
  Setups \subseteq [events : 0..MaxEvents, observations : SUBSET Observations,
                   watching : SUBSET Dashboards, limit : ClientLimits,
                   disturbances : 0..MaxDisturbances]

VARIABLE setup

vars == <<engineVars, liveVars, setup>>

Init ==
  /\ EngineInit /\ LiveInit
  /\ setup \in Setups /\ maxClients = setup.limit
  /\ disturbances = setup.disturbances

Change == IF setup.watching = {} THEN UNCHANGED liveVars ELSE Store

\* publish: an observation is stored, then handled.
Observe ==
  /\ Len(handled) < setup.events
  /\ \E o \in setup.observations : OnEvent(o)
  /\ Change

Report == (\E j \in DOMAIN calls : Published(j)) /\ Change

EngineStep ==
  /\ \/ setup.watching = {} /\ Tick
     \/ \E j \in DOMAIN calls : SkipMatch(j) \/ RaiseFinding(j) \/ PublishFails(j)
  /\ UNCHANGED liveVars

Watch ==
  /\ \/ Notify
     \/ setup.watching # {} /\ Heartbeat
     \/ Discard
     \/ \E d \in setup.watching : DashboardStep(d)
  /\ UNCHANGED engineVars

Next == (Observe \/ Report \/ EngineStep \/ Watch) /\ UNCHANGED setup

Spec == Init /\ [][Next]_vars

\* A page's timers fire and its polls end; nothing is asked of the streams.
FairSpec ==
  /\ Spec
  /\ \A d \in Dashboards :
       /\ WF_vars(Interval(d) /\ UNCHANGED <<engineVars, setup>>)
       /\ WF_vars(PageStep(d) /\ UNCHANGED <<engineVars, setup>>)

-----------------------------------------------------------------------------
(* Properties.                                                               *)

\* Every variable has its type, and the tables and queues their limits.
TypeOK == EngineTypeOK /\ LiveTypeOK

=============================================================================
