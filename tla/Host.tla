-------------------------------- MODULE Host --------------------------------
(***************************************************************************)
(* The machine the sensors watch, as psutil and WMI show it: processes     *)
(* that start, end and leave their pid to another one, and the established *)
(* connections they own.  All of it is outside the repository.             *)
(*                                                                         *)
(* A process is named by its place in the order of starts, which is what   *)
(* its creation time stands for.                                           *)
(***************************************************************************)
EXTENDS Integers, Sequences, FiniteSets, SequencesExt

CONSTANTS
  MaxPids,      \* bound: pids the machine uses
  MaxProcesses, \* bound: processes that ever start
  Ports,        \* local ports of connections
  MaxSockets    \* bound: connections ever opened

ASSUME HostAssumption ==
  /\ MaxPids \in Nat \ {0} /\ MaxProcesses \in Nat \ {0} /\ MaxSockets \in Nat

VARIABLES
  processes,   \* every process so far, in the order they started in
  running,     \* those that have not ended
  sockets,     \* every connection so far
  established  \* those that are open

hostVars == <<processes, running, sockets, established>>

Pids == 1..MaxPids
Process == 1..MaxProcesses
NoParent == 0

PidOf(p) == processes[p].pid
\* The process that has a pid now, 0 for none.
Holder(set, pid) ==
  LET ofPid == {p \in set : PidOf(p) = pid}
  IN IF ofPid = {} THEN 0 ELSE CHOOSE p \in ofPid : TRUE
\* The pid a process gives as its parent's, 0 for none; it never changes.
Ppid(p) == IF processes[p].parent = NoParent THEN 0 ELSE PidOf(processes[p].parent)

\* One process runs before any sensor does.
HostInit ==
  /\ processes = <<[pid |-> 1, parent |-> NoParent]>>
  /\ running = {1}
  /\ sockets = <<>> /\ established = {}

StartProcess(pid, parent) ==
  /\ Len(processes) < MaxProcesses /\ Holder(running, pid) = 0
  /\ processes' = Append(processes, [pid |-> pid, parent |-> parent])
  /\ running' = running \cup {Len(processes')}
  /\ UNCHANGED <<sockets, established>>

\* The connections of a process end with it.
EndProcess(p) ==
  /\ running' = running \ {p}
  /\ established' = {s \in established : sockets[s].owner # p}
  /\ UNCHANGED <<processes, sockets>>

OpenSocket(owner, port) ==
  /\ Len(sockets) < MaxSockets
  /\ \A s \in established : sockets[s].port # port
  /\ sockets' = Append(sockets, [owner |-> owner, port |-> port])
  /\ established' = established \cup {Len(sockets')}
  /\ UNCHANGED <<processes, running>>

CloseSocket(s) ==
  /\ established' = established \ {s}
  /\ UNCHANGED <<processes, running, sockets>>

HostTypeOK ==
  /\ processes \in Seq([pid : Pids, parent : Process \cup {NoParent}])
  /\ running \subseteq DOMAIN processes
  /\ sockets \in Seq([owner : Process, port : Ports])
  /\ established \subseteq DOMAIN sockets

=============================================================================
