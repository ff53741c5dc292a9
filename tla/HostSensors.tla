---------------------------- MODULE HostSensors ----------------------------
(***************************************************************************)
(* The process and the network sensor over one machine.  Each runs on its  *)
(* own: one that cannot start leaves the others running (main.py:157-162). *)
(* `setup` names the one that is looked at and bounds the machine for it;  *)
(* the connections, and who started whom, are left out where nobody        *)
(* watches them.                                                           *)
(***************************************************************************)
EXTENDS ProcessWatcher, NetworkEngine

CONSTANT Setups  \* the sensors to look at, each with its bounds

ASSUME SetupsAssumption ==
  Setups \subseteq [sensor : {"process", "network"}, pids : SUBSET Pids, processes : Process]

VARIABLE setup

vars == <<hostVars, watcherVars, networkVars, setup>>

Init ==
  /\ HostInit /\ WatcherInit /\ NetworkInit
  /\ setup \in Setups
  /\ setup.sensor = "network" => native = "none"

ProcessStep ==
  /\ setup.sensor = "process"
  /\ PollStep \/ NativeActive \/ NativeFails \/ NativeStep
  /\ UNCHANGED <<networkVars, setup>>

NetworkStep ==
  /\ setup.sensor = "network"
  /\ NetworkNext
  /\ UNCHANGED <<watcherVars, setup>>

Parents == {NoParent} \cup (IF setup.sensor = "process" THEN running ELSE {})

MachineStep ==
  /\ \/ /\ Len(processes) < setup.processes
        /\ \E pid \in setup.pids, parent \in Parents : WatchedStart(pid, parent)
     \/ \E p \in running : WatchedEnd(p)
     \/ /\ setup.sensor = "network"
        /\ \/ \E p \in running, port \in Ports : OpenSocket(p, port)
           \/ \E s \in established : CloseSocket(s)
        /\ UNCHANGED watcherVars
  /\ UNCHANGED <<networkVars, setup>>

Next == ProcessStep \/ NetworkStep \/ MachineStep

Spec == Init /\ [][Next]_vars

\* The loop of _run goes on, and the thread handles what it is given; the two
\* get the lock in the order they ask for it.
FairSpec ==
  /\ Spec
  /\ WF_vars(PollStep /\ UNCHANGED <<networkVars, setup>>)
  /\ SF_vars(NativeStep /\ UNCHANGED <<networkVars, setup>>)

-----------------------------------------------------------------------------
(* Properties.                                                               *)

\* Every variable has its type, and the histories their limits.
TypeOK == HostTypeOK /\ WatcherTypeOK /\ NetworkTypeOK

\* Once the machine is quiet the record comes to agree with it and stays so,
\* whatever snapshot or trace came late, whether WMI works or fails, and
\* however short a reported process lived (process_watcher.py:136-176).
RecordCatchesUp == setup.sensor = "process" => <>[]RecordIsCurrent

=============================================================================
