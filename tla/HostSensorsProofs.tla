-------------------------- MODULE HostSensorsProofs --------------------------
(***************************************************************************)
(* Proofs about HostSensors, for any number of pids, processes, ports and  *)
(* connections: that what the process sensor records is true, and exact    *)
(* without WMI, and that what the network sensor takes for a beacon is a   *)
(* series of connections of one process.                                   *)
(***************************************************************************)
EXTENDS HostSensors, SequenceTheorems, SetLemmas, TLAPS

-----------------------------------------------------------------------------
(* The machine.                                                              *)

Started == 1..Len(processes)
Opened == 1..Len(sockets)

\* A parent runs when its child starts: it is the last to have had its pid.
ParentRan(p) ==
  LET r == processes[p].parent IN
  r # NoParent =>
    /\ r \in 1..(p - 1) /\ PidOf(r) # PidOf(p)
    /\ \A h \in (r + 1)..(p - 1) : PidOf(h) # PidOf(r)

\* A pid is given away only when its process has ended, and what has ended does
\* not run again; a connection is open only while its owner runs.
MachineInv ==
  /\ HostTypeOK /\ Len(processes) <= MaxProcesses /\ Len(sockets) <= MaxSockets
  /\ \A p, q \in Started : p < q /\ PidOf(p) = PidOf(q) => p \notin running
  /\ \A p \in Started : ParentRan(p)
  /\ \A s \in Opened : sockets[s].owner \in Started
  /\ \A s \in established : sockets[s].owner \in running

LEMMA MachineTypes ==
  ASSUME MachineInv
  PROVE  /\ Len(processes) \in Nat /\ Started \subseteq Process /\ running \subseteq Started
         /\ \A p \in Started : PidOf(p) \in Pids /\ processes[p].parent \in Process \cup {NoParent}
         /\ Len(sockets) \in Nat /\ Opened \subseteq 1..MaxSockets /\ established \subseteq Opened
         /\ \A s \in Opened : sockets[s].owner \in Process /\ sockets[s].port \in Ports
<1>1. /\ processes \in Seq([pid : Pids, parent : Process \cup {NoParent}])
      /\ sockets \in Seq([owner : Process, port : Ports])
      /\ running \subseteq DOMAIN processes /\ established \subseteq DOMAIN sockets
  BY DEF MachineInv, HostTypeOK
<1>2. /\ Len(processes) \in Nat /\ DOMAIN processes = Started
      /\ Len(sockets) \in Nat /\ DOMAIN sockets = Opened
  BY <1>1 DEF Started, Opened
<1>3. Started \subseteq Process /\ Opened \subseteq 1..MaxSockets
  BY <1>2, HostAssumption DEF MachineInv, Started, Opened, Process
<1>4. \A p \in Started : processes[p] \in [pid : Pids, parent : Process \cup {NoParent}]
  BY <1>1, ElementOfSeq DEF Started
<1>5. \A s \in Opened : sockets[s] \in [owner : Process, port : Ports]
  BY <1>1, ElementOfSeq DEF Opened
<1> QED  BY <1>1, <1>2, <1>3, <1>4, <1>5 DEF PidOf

LEMMA Numbers == Process \subseteq Nat \ {0} /\ Pids \subseteq Nat \ {0} /\ MaxProcesses \in Nat
BY HostAssumption DEF Process, Pids

LEMMA HolderFound ==
  ASSUME NEW set, NEW pid
  PROVE  \/ Holder(set, pid) = 0 /\ \A p \in set : PidOf(p) # pid
         \/ Holder(set, pid) \in set /\ PidOf(Holder(set, pid)) = pid
BY DEF Holder

\* Two running processes have two pids.
LEMMA RunningApart ==
  ASSUME MachineInv, NEW p \in running, NEW q \in running, PidOf(p) = PidOf(q)
  PROVE  p = q
<1>1. p \in Started /\ q \in Started /\ p \in Nat /\ q \in Nat
  BY MachineTypes, Numbers
<1>2. ~(p < q) /\ ~(q < p)
  BY <1>1 DEF MachineInv
<1> QED  BY <1>1, <1>2

LEMMA HolderIs ==
  ASSUME MachineInv, NEW p \in running
  PROVE  Holder(running, PidOf(p)) = p
<1>1. p # 0
  BY MachineTypes, Numbers
<1> QED  BY <1>1, HolderFound, RunningApart

\* What a step of the machine leaves of the past.
Onward ==
  /\ Len(processes') \in Nat /\ Len(processes) <= Len(processes')
  /\ \A p \in Started : processes'[p] = processes[p] /\ (p \in running' => p \in running)
  /\ Len(sockets') \in Nat /\ Len(sockets) <= Len(sockets')
  /\ \A s \in Opened : sockets'[s] = sockets[s] /\ (s \in established' => s \in established)

LEMMA StartMachine ==
  ASSUME MachineInv, NEW pid \in Pids, NEW parent \in {NoParent} \cup running,
         StartProcess(pid, parent)
  PROVE  MachineInv' /\ Onward /\ Len(processes') = Len(processes) + 1
         /\ running' = running \cup {Len(processes) + 1}
<1>0. PICK n \in Nat : n = Len(processes)
  BY MachineTypes
<1> DEFINE new == [pid |-> pid, parent |-> parent]
           Entry == [pid : Pids, parent : Process \cup {NoParent}]
<1>1. /\ n \in Nat /\ n < MaxProcesses /\ processes \in Seq(Entry) /\ running \subseteq Started
      /\ Started = 1..n /\ MaxProcesses \in Nat /\ Started \subseteq Process
      /\ UNCHANGED <<sockets, established>> /\ processes' = Append(processes, new)
      /\ \A p \in running : PidOf(p) # pid
  <2>1. \A p \in running : PidOf(p) # pid
    BY HolderFound, MachineTypes, Numbers DEF StartProcess
  <2> QED  BY <1>0, <2>1, MachineTypes, HostAssumption DEF StartProcess, MachineInv, HostTypeOK, Started
<1>2. new \in Entry
  BY <1>1 DEF NoParent
<1> HIDE DEF new, Entry
<1>3. /\ processes' \in Seq(Entry) /\ Len(processes') = n + 1 /\ processes'[n + 1] = new
      /\ \A p \in Started : processes'[p] = processes[p]
  BY <1>0, <1>1, <1>2, AppendProperties
<1>4. running' = running \cup {n + 1} /\ Started' = Started \cup {n + 1} /\ n + 1 \notin Started
  BY <1>1, <1>3 DEF StartProcess, Started
<1>5. Onward
  BY <1>0, <1>1, <1>3, <1>4, MachineTypes DEF Onward, Opened
<1>6. \A p \in Started : PidOf(p)' = PidOf(p)
  BY <1>3 DEF PidOf
<1>7. PidOf(n + 1)' = pid
  BY <1>3 DEF PidOf, new
<1>8. HostTypeOK' /\ Len(processes)' <= MaxProcesses /\ Len(sockets)' <= MaxSockets
  <2>1. DOMAIN processes' = 1..(n + 1)
    BY <1>3
  <2>2. running' \subseteq DOMAIN processes'
    BY <1>1, <1>4, <2>1
  <2> QED  BY <1>1, <1>3, <2>2 DEF MachineInv, HostTypeOK, Entry
<1>9. ASSUME NEW p \in Started', NEW q \in Started', p < q, PidOf(p)' = PidOf(q)'
      PROVE  p \notin running'
  <2>1. p \in Started
    BY <1>1, <1>4, <1>9
  <2>2. CASE q \in Started
    BY <1>1, <1>4, <1>6, <1>9, <2>1, <2>2 DEF MachineInv
  <2>3. CASE q = n + 1
    BY <1>1, <1>4, <1>6, <1>7, <1>9, <2>1, <2>3
  <2> QED  BY <1>4, <2>2, <2>3
<1>10. ASSUME NEW p \in Started' PROVE ParentRan(p)'
  <2>1. CASE p \in Started
    <3>1. ParentRan(p) /\ processes'[p] = processes[p] /\ p \in 1..n
      BY <1>1, <1>3, <2>1 DEF MachineInv
    <3>2. \A h \in 1..p : PidOf(h)' = PidOf(h)
      BY <1>1, <1>6, <2>1
    <3>3. processes[p].parent # NoParent => processes[p].parent \in 1..(p - 1)
      BY <3>1 DEF ParentRan
    <3>4. \A h \in (processes[p].parent + 1)..(p - 1) :
            processes[p].parent \in 1..(p - 1) => h \in 1..p
      BY <1>1, <3>1
    <3>5. p \in 1..p /\ \A h \in 1..(p - 1) : h \in 1..p
      BY <3>1
    <3> QED  BY <3>1, <3>2, <3>3, <3>4, <3>5 DEF ParentRan
  <2>2. CASE p = n + 1
    <3>1. processes'[p].parent = parent /\ PidOf(p)' = pid
      BY <1>3, <1>7, <2>2 DEF new
    <3> SUFFICES ASSUME parent # NoParent
                 PROVE  /\ parent \in 1..n /\ PidOf(parent)' # pid
                        /\ \A h \in (parent + 1)..n : PidOf(h)' # PidOf(parent)'
      BY <1>1, <2>2, <3>1 DEF ParentRan
    <3>2. parent \in running /\ parent \in Started /\ parent \in 1..n
      BY <1>1
    <3>3. PidOf(parent)' = PidOf(parent) /\ PidOf(parent) # pid
      BY <1>1, <1>6, <3>2
    <3>4. ASSUME NEW h \in (parent + 1)..n, PidOf(h)' = PidOf(parent)' PROVE FALSE
      <4>1. h \in Started /\ parent < h /\ PidOf(h) = PidOf(parent)
        BY <1>1, <1>6, <3>2, <3>3, <3>4
      <4> QED  BY <3>2, <4>1 DEF MachineInv
    <3> QED  BY <3>2, <3>3, <3>4
  <2> QED  BY <1>4, <2>1, <2>2
<1>11. /\ \A s \in Opened' : sockets'[s].owner \in Started'
       /\ \A s \in established' : sockets'[s].owner \in running'
  BY <1>1, <1>4 DEF MachineInv, Opened
<1> QED  BY <1>0, <1>3, <1>4, <1>5, <1>8, <1>9, <1>10, <1>11 DEF MachineInv

LEMMA EndMachine ==
  ASSUME MachineInv, UNCHANGED <<processes, sockets>>,
         running' \subseteq running, established' \subseteq established,
         \A s \in established' : sockets[s].owner \in running'
  PROVE  MachineInv' /\ Onward
<1>1. Started' = Started /\ Opened' = Opened /\ (\A p : PidOf(p)' = PidOf(p))
      /\ (\A p : ParentRan(p)' <=> ParentRan(p))
  BY DEF Started, Opened, PidOf, ParentRan
<1>2. Onward
  BY MachineTypes DEF Onward, Started, Opened
<1> QED  BY <1>1, <1>2 DEF MachineInv, HostTypeOK

LEMMA OpenMachine ==
  ASSUME MachineInv, NEW p \in running, NEW port \in Ports, OpenSocket(p, port)
  PROVE  MachineInv' /\ Onward /\ UNCHANGED <<processes, running>>
<1>0. PICK n \in Nat : n = Len(sockets)
  BY MachineTypes
<1> DEFINE new == [owner |-> p, port |-> port]
           Entry == [owner : Process, port : Ports]
<1>1. /\ n \in Nat /\ n < MaxSockets /\ sockets \in Seq(Entry) /\ p \in Started
      /\ Opened = 1..n /\ MaxSockets \in Nat /\ Started \subseteq Process
      /\ established \subseteq Opened
      /\ UNCHANGED <<processes, running>> /\ sockets' = Append(sockets, new)
  BY <1>0, MachineTypes, HostAssumption DEF OpenSocket, MachineInv, HostTypeOK, Opened
<1>2. new \in Entry
  BY <1>1
<1> HIDE DEF new, Entry
<1>3. /\ sockets' \in Seq(Entry) /\ Len(sockets') = n + 1 /\ sockets'[n + 1] = new
      /\ \A s \in Opened : sockets'[s] = sockets[s]
  BY <1>0, <1>1, <1>2, AppendProperties
<1>4. established' = established \cup {n + 1} /\ Opened' = Opened \cup {n + 1} /\ n + 1 \notin Opened
  BY <1>1, <1>3 DEF OpenSocket, Opened
<1>5. Onward
  BY <1>0, <1>1, <1>3, <1>4, MachineTypes DEF Onward, Started
<1>6. Started' = Started /\ (\A q : PidOf(q)' = PidOf(q))
      /\ \A q : ParentRan(q)' <=> ParentRan(q)
  BY <1>1 DEF Started, PidOf, ParentRan
<1>7. HostTypeOK' /\ Len(processes)' <= MaxProcesses /\ Len(sockets)' <= MaxSockets
  <2>1. DOMAIN sockets' = 1..(n + 1)
    BY <1>3
  <2>2. established' \subseteq DOMAIN sockets'
    BY <1>1, <1>4, <2>1
  <2> QED  BY <1>1, <1>3, <2>2 DEF MachineInv, HostTypeOK, Entry
<1>8. /\ \A s \in Opened' : sockets'[s].owner \in Started
      /\ \A s \in established' : sockets'[s].owner \in running
  BY <1>1, <1>3, <1>4 DEF MachineInv, new
<1> QED  BY <1>1, <1>5, <1>6, <1>7, <1>8 DEF MachineInv

\* What a step leaves that does not touch the machine.
LEMMA StillMachine ==
  ASSUME MachineInv, UNCHANGED hostVars
  PROVE  MachineInv' /\ Onward
BY EndMachine DEF hostVars, MachineInv

-----------------------------------------------------------------------------
(* The record of the process sensor, for a table of processes and a list of  *)
(* what is published.                                                        *)

Record == [kind : {"start", "end"}, process : Process, parent : Nat, over : BOOLEAN]

\* Two lists have the same record at i, and of the same pid.
AgreeAt(table, list, table2, list2, i) ==
  /\ list2[i] = list[i] /\ table2[list[i].process].pid = table[list[i].process].pid

OpenIn(table, list, n, pid) ==
  LET ofPid == {i \in 1..n : table[list[i].process].pid = pid}
  IN IF ofPid = {} THEN (IF pid = 1 THEN 1 ELSE 0)
     ELSE LET last == list[Max(ofPid)] IN IF last.kind = "start" THEN last.process ELSE 0

\* What EndsAreTrue says of one record, when `open` holds its pid.
RecordTrue(table, e, open) ==
  IF e.kind = "start" THEN open = 0
  ELSE /\ open = e.process
       /\ e.over \/ \E p \in 1..(e.process - 1) : table[p].pid = table[e.process].pid

Consistent(table, list, kn) ==
  /\ list \in Seq(Record)
  /\ \A i \in 1..Len(list) :
       RecordTrue(table, list[i], OpenIn(table, list, i - 1, table[list[i].process].pid))
  /\ \A pid \in Pids : OpenIn(table, list, Len(list), pid) = kn[pid].process

LEMMA MaxIsGreatest ==
  ASSUME NEW S \in SUBSET Nat, S # {}, IsFiniteSet(S)
  PROVE  Max(S) \in S /\ \A y \in S : y <= Max(S)
<1>1. \E x \in S : \A y \in S : x >= y
  BY GreatestExists
<1> QED  BY <1>1 DEF Max

LEMMA PlacesFinite ==
  ASSUME NEW n \in Nat, NEW S \in SUBSET (1..n)
  PROVE  IsFiniteSet(S) /\ S \in SUBSET Nat
<1>1. IsFiniteSet(1..n)
  BY FS_Interval
<1>2. IsFiniteSet(S)
  BY <1>1, FS_Subset
<1> QED  BY <1>2

\* What holds a pid depends on the records so far and their processes' pids only.
LEMMA OpenInSame ==
  ASSUME NEW table, NEW table2, NEW list, NEW list2, NEW n \in Nat, NEW pid,
         \A i \in 1..n : AgreeAt(table, list, table2, list2, i)
  PROVE  OpenIn(table2, list2, n, pid) = OpenIn(table, list, n, pid)
<1> DEFINE P == {i \in 1..n : table[list[i].process].pid = pid}
           P2 == {i \in 1..n : table2[list2[i].process].pid = pid}
<1>1. P2 = P
  BY DEF AgreeAt
<1>2. P # {} => Max(P) \in 1..n
  <2>1. IsFiniteSet(P) /\ P \in SUBSET Nat
    BY PlacesFinite
  <2> QED  BY <2>1, MaxIsGreatest
<1>3. P # {} => list2[Max(P)] = list[Max(P)]
  BY <1>2 DEF AgreeAt
<1> QED  BY <1>1, <1>3 DEF OpenIn

\* The next record changes the holder of its own pid.
LEMMA OpenInNext ==
  ASSUME NEW table, NEW list, NEW n \in Nat, NEW pid
  PROVE  OpenIn(table, list, n + 1, pid) =
           IF table[list[n + 1].process].pid = pid
           THEN IF list[n + 1].kind = "start" THEN list[n + 1].process ELSE 0
           ELSE OpenIn(table, list, n, pid)
<1> DEFINE P == {i \in 1..n : table[list[i].process].pid = pid}
           P1 == {i \in 1..(n + 1) : table[list[i].process].pid = pid}
<1>1. CASE table[list[n + 1].process].pid = pid
  <2>1. n + 1 \in P1
    BY <1>1
  <2>2. IsFiniteSet(P1) /\ P1 \in SUBSET Nat
    BY PlacesFinite, n + 1 \in Nat
  <2>3. Max(P1) = n + 1
    <3>1. Max(P1) \in P1 /\ n + 1 <= Max(P1)
      BY <2>1, <2>2, MaxIsGreatest
    <3>2. Max(P1) \in 1..(n + 1)
      BY <3>1
    <3> HIDE DEF P1
    <3> QED  BY <3>1, <3>2
  <2> HIDE DEF P1
  <2>4. OpenIn(table, list, n + 1, pid) =
          IF list[Max(P1)].kind = "start" THEN list[Max(P1)].process ELSE 0
    BY <2>1 DEF OpenIn, P1
  <2> QED  BY <1>1, <2>3, <2>4
<1>2. CASE table[list[n + 1].process].pid # pid
  <2>1. P1 = P
    BY <1>2
  <2> QED  BY <1>2, <2>1 DEF OpenIn
<1> QED  BY <1>1, <1>2

\* What came before a further record stays.
LEMMA OpenInAppend ==
  ASSUME NEW table, NEW list \in Seq(Record), NEW e \in Record, NEW pid
  PROVE  /\ \A m \in 0..Len(list) :
              OpenIn(table, Append(list, e), m, pid) = OpenIn(table, list, m, pid)
         /\ OpenIn(table, Append(list, e), Len(list) + 1, pid) =
              IF table[e.process].pid = pid THEN IF e.kind = "start" THEN e.process ELSE 0
              ELSE OpenIn(table, list, Len(list), pid)
<1>1. PICK n \in Nat : n = Len(list)
  BY LenProperties
<1>2. PICK list2 : list2 = Append(list, e)
  OBVIOUS
<1>3. list2[n + 1] = e /\ \A i \in 1..n : list2[i] = list[i]
  BY <1>1, <1>2, AppendProperties
<1>4. ASSUME NEW m \in 0..n
      PROVE  OpenIn(table, list2, m, pid) = OpenIn(table, list, m, pid)
  <2>1. m \in Nat /\ \A i \in 1..m : AgreeAt(table, list, table, list2, i)
    BY <1>3 DEF AgreeAt
  <2> QED  BY <2>1, OpenInSame
<1>5. OpenIn(table, list2, n + 1, pid) =
        IF table[e.process].pid = pid THEN IF e.kind = "start" THEN e.process ELSE 0
        ELSE OpenIn(table, list, n, pid)
  <2>1. OpenIn(table, list2, n + 1, pid) =
          IF table[list2[n + 1].process].pid = pid
          THEN IF list2[n + 1].kind = "start" THEN list2[n + 1].process ELSE 0
          ELSE OpenIn(table, list2, n, pid)
    BY OpenInNext
  <2>2. OpenIn(table, list2, n, pid) = OpenIn(table, list, n, pid)
    BY <1>4
  <2> QED  BY <1>3, <2>1, <2>2
<1> QED  BY <1>1, <1>2, <1>4, <1>5

\* A true record keeps the whole consistent.
LEMMA AddRecord ==
  ASSUME NEW table, NEW list, NEW kn, NEW kn2, NEW e \in Record, NEW id \in Pids,
         Consistent(table, list, kn), table[e.process].pid = id,
         RecordTrue(table, e, kn[id].process),
         kn2[id].process = IF e.kind = "start" THEN e.process ELSE 0,
         \A other \in Pids \ {id} : kn2[other].process = kn[other].process
  PROVE  Consistent(table, Append(list, e), kn2)
<1>0. PICK list2 : list2 = Append(list, e)
  OBVIOUS
<1>1. PICK n \in Nat : n = Len(list)
  BY LenProperties DEF Consistent
<1>2. /\ list2 \in Seq(Record) /\ Len(list2) = n + 1 /\ list2[n + 1] = e
      /\ \A i \in 1..n : list2[i] = list[i]
  BY <1>0, <1>1, AppendProperties DEF Consistent
<1>3. \A other : \A m \in 0..n : OpenIn(table, list2, m, other) = OpenIn(table, list, m, other)
  BY <1>0, <1>1, OpenInAppend DEF Consistent
<1>4. ASSUME NEW i \in 1..(n + 1)
      PROVE  RecordTrue(table, list2[i], OpenIn(table, list2, i - 1, table[list2[i].process].pid))
  <2>1. CASE i \in 1..n
    <3>1. i - 1 \in 0..n /\ list2[i] = list[i]
      BY <1>2, <2>1
    <3> QED  BY <1>1, <1>3, <2>1, <3>1 DEF Consistent
  <2>2. CASE i = n + 1
    <3>1. i - 1 = n /\ n \in 0..n /\ list2[i] = e
      BY <1>2, <2>2
    <3>2. OpenIn(table, list2, n, id) = kn[id].process
      BY <1>1, <1>3, <3>1 DEF Consistent
    <3> QED  BY <3>1, <3>2
  <2> QED  BY <2>1, <2>2
<1>5. ASSUME NEW other \in Pids
      PROVE  OpenIn(table, list2, n + 1, other) = kn2[other].process
  <2>1. OpenIn(table, list2, n, other) = kn[other].process
    <3>1. n \in 0..n
      OBVIOUS
    <3> QED  BY <1>1, <1>3, <3>1 DEF Consistent
  <2>2. OpenIn(table, list2, n + 1, other) =
          IF id = other THEN IF e.kind = "start" THEN e.process ELSE 0
          ELSE OpenIn(table, list, n, other)
    BY <1>0, <1>1, OpenInAppend DEF Consistent
  <2>3. n \in 0..n
    OBVIOUS
  <2> QED  BY <1>3, <2>1, <2>2, <2>3
<1> QED  BY <1>0, <1>2, <1>4, <1>5 DEF Consistent

\* Processes that start later change nothing in it.
LEMMA OthersStart ==
  ASSUME NEW table, NEW table2, NEW list, NEW kn, Consistent(table, list, kn),
         NEW n \in Nat, \A p \in 1..n : table2[p] = table[p],
         \A i \in 1..Len(list) : list[i].process \in 1..n
  PROVE  Consistent(table2, list, kn)
<1>1. /\ Len(list) \in Nat
      /\ \A i \in 1..Len(list) : table2[list[i].process].pid = table[list[i].process].pid
  BY LenProperties DEF Consistent
<1>2. ASSUME NEW m \in 0..Len(list), NEW pid
      PROVE  OpenIn(table2, list, m, pid) = OpenIn(table, list, m, pid)
  <2>1. m \in Nat /\ \A i \in 1..m : i \in 1..Len(list)
    BY <1>1
  <2>2. \A i \in 1..m : AgreeAt(table, list, table2, list, i)
    BY <1>1, <2>1 DEF AgreeAt
  <2> QED  BY <2>1, <2>2, OpenInSame
<1>3. ASSUME NEW i \in 1..Len(list)
      PROVE  RecordTrue(table2, list[i], OpenIn(table2, list, i - 1, table2[list[i].process].pid))
  <2>1. i - 1 \in 0..Len(list)
    BY <1>1
  <2>2. RecordTrue(table, list[i], OpenIn(table2, list, i - 1, table2[list[i].process].pid))
    BY <1>1, <1>2, <2>1 DEF Consistent
  <2>3. ASSUME NEW p \in 1..(list[i].process - 1) PROVE table2[p] = table[p]
    <3>1. p \in 1..n
      BY <2>3
    <3> QED  BY <3>1
  <2> QED  BY <1>1, <2>2, <2>3 DEF RecordTrue
<1>4. ASSUME NEW pid \in Pids PROVE OpenIn(table2, list, Len(list), pid) = kn[pid].process
  <2>1. Len(list) \in 0..Len(list)
    BY <1>1
  <2> QED  BY <1>2, <2>1 DEF Consistent
<1> QED  BY <1>3, <1>4 DEF Consistent

-----------------------------------------------------------------------------
(* What the process sensor knows.                                            *)

\* An observation of one of n processes; `run` are those that run.  One that is
\* described by its trace is over.
Observed(info, n, run) ==
  /\ info \in Info /\ info.process \in 1..n
  /\ info.by = "trace" => info.process \notin run

KnownInv ==
  /\ known \in [Pids -> Info \cup {Unknown}]
  /\ \A pid \in Pids : known[pid] # Unknown =>
       Observed(known[pid], Len(processes), running) /\ PidOf(known[pid].process) = pid

HandInv ==
  /\ inHand \in [pc : {"none", "parent", "lock"}, process : Process \cup {0},
                 by : {"psutil", "trace"}, parent : Process \cup {0}]
  /\ inHand.pc # "none" =>
       Observed([process |-> inHand.process, by |-> inHand.by], Len(processes), running)

TracesInv ==
  /\ traces \in Seq(Started) /\ delivered \subseteq Process
  /\ native \in {"none", "starting", "active", "unavailable"}

\* Once the snapshot is taken, who started before the poll and still runs is in it.
SnapshotInv ==
  /\ poll \in [pc : {"idle", "read", "lock", "locked"}, started : Nat,
               snapshot : SUBSET Process, todo : SUBSET Process]
  /\ poll.todo \subseteq poll.snapshot /\ poll.snapshot \subseteq Started
  /\ poll.started <= Len(processes)
  /\ poll.pc # "locked" => poll.todo = {}
  /\ poll.pc \in {"lock", "locked"} =>
       \A p \in running : p <= poll.started => p \in poll.snapshot

RecordInv ==
  /\ Consistent(processes, recorded, known)
  /\ \A i \in 1..Len(recorded) : recorded[i].process \in Started

\* The edges lead to the processes that are known.
GraphInv ==
  \A edge \in graph.edges :
    /\ edge[2] \in Pids /\ known[edge[2]].process # 0
    /\ edge[1] = Ppid(known[edge[2]].process)

WatchInv == KnownInv /\ HandInv /\ TracesInv /\ SnapshotInv /\ RecordInv /\ GraphInv

LEMMA ObservedStays ==
  ASSUME NEW info, NEW n \in Nat, NEW n2 \in Nat, n <= n2, NEW run, NEW run2,
         \A p \in 1..n : p \in run2 => p \in run, Observed(info, n, run)
  PROVE  Observed(info, n2, run2)
BY DEF Observed

\* What is known is of a process that started.
LEMMA KnownTypes ==
  ASSUME MachineInv, KnownInv, NEW pid \in Pids, known[pid] # Unknown
  PROVE  /\ known[pid] \in Info /\ known[pid].process \in Started /\ known[pid].process # 0
         /\ PidOf(known[pid].process) = pid /\ Observed(known[pid], Len(processes), running)
<1>1. Observed(known[pid], Len(processes), running) /\ PidOf(known[pid].process) = pid
  BY DEF KnownInv
<1>2. known[pid] \in Info /\ known[pid].process \in Started
  BY <1>1 DEF Observed, Started
<1>3. known[pid].process # 0
  BY <1>2, MachineTypes DEF Started
<1> QED  BY <1>1, <1>2, <1>3

LEMMA KnownStays ==
  ASSUME MachineInv, Onward, KnownInv, UNCHANGED known
  PROVE  KnownInv'
<1> SUFFICES ASSUME NEW pid \in Pids, known[pid] # Unknown
             PROVE  Observed(known[pid], Len(processes'), running') /\ PidOf(known[pid].process)' = pid
  BY DEF KnownInv
<1>1. /\ known[pid].process \in Started /\ PidOf(known[pid].process) = pid
      /\ Observed(known[pid], Len(processes), running)
  BY KnownTypes
<1>2. /\ Len(processes) \in Nat /\ Len(processes') \in Nat /\ Len(processes) <= Len(processes')
      /\ \A p \in 1..Len(processes) : p \in running' => p \in running
  BY MachineTypes DEF Onward, Started
<1>3. Observed(known[pid], Len(processes'), running')
  BY <1>1, <1>2, ObservedStays
<1>4. PidOf(known[pid].process)' = PidOf(known[pid].process)
  BY <1>1 DEF Onward, PidOf
<1> QED  BY <1>1, <1>3, <1>4

LEMMA HandStays ==
  ASSUME MachineInv, Onward, HandInv, UNCHANGED inHand
  PROVE  HandInv'
<1>1. /\ Len(processes) \in Nat /\ Len(processes') \in Nat /\ Len(processes) <= Len(processes')
      /\ \A p \in 1..Len(processes) : p \in running' => p \in running
  BY MachineTypes DEF Onward, Started
<1>2. inHand.pc # "none" =>
        Observed([process |-> inHand.process, by |-> inHand.by], Len(processes'), running')
  <2> DEFINE info == [process |-> inHand.process, by |-> inHand.by]
  <2>1. inHand.pc # "none" => Observed(info, Len(processes), running)
    BY DEF HandInv
  <2> HIDE DEF info
  <2>2. inHand.pc # "none" => Observed(info, Len(processes'), running')
    BY <1>1, <2>1, ObservedStays
  <2> QED  BY <2>2 DEF info
<1> QED  BY <1>2 DEF HandInv

LEMMA StartedGrows ==
  ASSUME MachineInv, Onward
  PROVE  Started \subseteq Started'
BY MachineTypes DEF Onward, Started

LEMMA TracesStay ==
  ASSUME MachineInv, Onward, TracesInv, UNCHANGED <<traces, delivered, native>>
  PROVE  TracesInv'
<1>1. traces \in Seq(Started')
  BY StartedGrows, SeqMonotonic DEF TracesInv
<1> QED  BY <1>1 DEF TracesInv

LEMMA SnapshotStays ==
  ASSUME MachineInv, MachineInv', Onward, SnapshotInv, UNCHANGED poll
  PROVE  SnapshotInv'
<1>1. /\ Len(processes) \in Nat /\ Len(processes') \in Nat /\ Len(processes) <= Len(processes')
      /\ \A p \in 1..Len(processes) : p \in running' => p \in running
      /\ running' \subseteq Nat \ {0}
  <2>1. running' \subseteq Nat \ {0}
    <3>1. processes' \in Seq([pid : Pids, parent : Process \cup {NoParent}])
          /\ running' \subseteq DOMAIN processes'
      BY DEF MachineInv, HostTypeOK
    <3> QED  BY <3>1
  <2> QED  BY <2>1, MachineTypes DEF Onward, Started
<1>2. poll.started \in Nat /\ poll.started <= Len(processes')
  BY <1>1 DEF SnapshotInv
<1>3. ASSUME poll.pc \in {"lock", "locked"}, NEW p \in running', p <= poll.started
      PROVE  p \in poll.snapshot
  <2>1. p \in 1..Len(processes)
    BY <1>1, <1>3 DEF SnapshotInv
  <2> QED  BY <1>1, <1>3, <2>1 DEF SnapshotInv
<1>4. poll.snapshot \subseteq Started'
  BY StartedGrows DEF SnapshotInv
<1> QED  BY <1>2, <1>3, <1>4 DEF SnapshotInv

LEMMA RecordStays ==
  ASSUME MachineInv, Onward, KnownInv, RecordInv, GraphInv, UNCHANGED <<known, recorded, graph>>
  PROVE  RecordInv' /\ GraphInv'
<1>1. /\ Len(processes) \in Nat /\ \A p \in 1..Len(processes) : processes'[p] = processes[p]
      /\ \A i \in 1..Len(recorded) : recorded[i].process \in 1..Len(processes)
  BY MachineTypes DEF Onward, Started, RecordInv
<1>2. Consistent(processes', recorded, known)
  BY <1>1, OthersStart DEF RecordInv
<1>3. RecordInv'
  BY <1>2, StartedGrows DEF RecordInv
<1>4. ASSUME NEW pid \in Pids, known[pid].process # 0
      PROVE  Ppid(known[pid].process)' = Ppid(known[pid].process)
  <2>1. known[pid] # Unknown
    BY <1>4 DEF Unknown
  <2>2. known[pid].process \in Started
    BY <2>1, KnownTypes
  <2>3. PICK p \in Started : p = known[pid].process
    BY <2>2
  <2>4. processes'[p] = processes[p] /\ p \in 1..Len(processes)
    BY <2>3 DEF Onward, Started
  <2>5. processes[p].parent # NoParent => processes[p].parent \in Started
    BY <1>1, <2>3, <2>4 DEF MachineInv, ParentRan, Started
  <2>6. processes[p].parent # NoParent =>
          processes'[processes[p].parent] = processes[processes[p].parent]
    BY <2>5 DEF Onward
  <2> QED  BY <2>3, <2>4, <2>6 DEF Ppid, PidOf
<1>5. GraphInv'
  BY <1>4 DEF GraphInv
<1> QED  BY <1>3, <1>5

\* An end is recorded truly when its process is over, or another had its pid.
EndTrue(info) ==
  \/ info.process \notin running
  \/ \E p \in 1..(info.process - 1) : PidOf(p) = PidOf(info.process)

\* One who takes over the pid of another has ended it, or came late himself.
LEMMA TakenOver ==
  ASSUME MachineInv, KnownInv, NEW info, Observed(info, Len(processes), running),
         known[PidOf(info.process)] # Unknown, known[PidOf(info.process)] # info
  PROVE  EndTrue(known[PidOf(info.process)])
<1>1. /\ info \in Info /\ info.process \in Started /\ PidOf(info.process) \in Pids
      /\ info.by = "trace" => info.process \notin running
  BY MachineTypes DEF Observed, Started
<1>2. PICK previous \in Info : previous = known[PidOf(info.process)]
  BY <1>1, KnownTypes
<1>3. /\ previous.process \in Started /\ PidOf(previous.process) = PidOf(info.process)
      /\ previous.by = "trace" => previous.process \notin running
  BY <1>1, <1>2, KnownTypes DEF Observed
<1>4. info.process \in Nat /\ previous.process \in Nat
  BY <1>1, <1>3, MachineTypes, Numbers
<1>5. CASE previous.process < info.process
  BY <1>1, <1>2, <1>3, <1>5 DEF MachineInv, EndTrue
<1>6. CASE previous.process = info.process
  <2>1. previous.by # info.by
    BY <1>1, <1>2, <1>6 DEF Info
  <2>2. previous.by = "trace" \/ info.by = "trace"
    BY <1>1, <2>1 DEF Info
  <2> QED  BY <1>1, <1>2, <1>3, <1>6, <2>2 DEF EndTrue
<1>7. CASE info.process < previous.process
  <2>1. info.process \in 1..(previous.process - 1)
    BY <1>1, <1>4, <1>7, MachineTypes, Numbers
  <2> QED  BY <1>2, <1>3, <2>1 DEF EndTrue
<1> QED  BY <1>4, <1>5, <1>6, <1>7

\* What recording an end makes of the record and of the graph.
LEMMA AddEnd ==
  ASSUME MachineInv, KnownInv, RecordInv, GraphInv,
         NEW pid \in Pids, known[pid] # Unknown, EndTrue(known[pid])
  PROVE  /\ End(known[pid]) \in Record /\ End(known[pid]).process \in Started
         /\ Consistent(processes, Append(recorded, End(known[pid])),
                       [known EXCEPT ![pid] = Unknown])
         /\ OnTerminate(graph, End(known[pid])).edges = {edge \in graph.edges : pid \notin {edge[1], edge[2]}}
<1> DEFINE kn == [known EXCEPT ![pid] = Unknown]
<1>1. PICK info \in Info : info = known[pid]
  BY KnownTypes
<1>2. info.process \in Started /\ info.process # 0 /\ PidOf(info.process) = pid
  BY <1>1, KnownTypes
<1>3. PICK e : e = End(info)
  OBVIOUS
<1>4. /\ e \in Record /\ e.kind = "end" /\ e.process = info.process
      /\ e.over = (info.process \notin running)
  <2>1. (info.process \notin running) \in BOOLEAN /\ info.process \in Process /\ 0 \in Nat
    BY <1>2, MachineTypes
  <2> QED  BY <1>3, <2>1 DEF End, Record
<1>5. RecordTrue(processes, e, known[pid].process)
  <2>1. e.over \/ \E p \in 1..(e.process - 1) : PidOf(p) = PidOf(e.process)
    BY <1>1, <1>4 DEF EndTrue
  <2> QED  BY <1>1, <1>4, <2>1 DEF RecordTrue, PidOf
<1>6. /\ kn[pid].process = 0
      /\ \A other \in Pids \ {pid} : kn[other].process = known[other].process
  BY DEF KnownInv, Unknown
<1>7. Consistent(processes, Append(recorded, e), kn)
  <2> HIDE DEF kn
  <2>1. processes[e.process].pid = pid
    BY <1>2, <1>4 DEF PidOf
  <2>2. kn[pid].process = IF e.kind = "start" THEN e.process ELSE 0
    BY <1>4, <1>6
  <2> QED  BY <1>4, <1>5, <1>6, <2>1, <2>2, AddRecord DEF RecordInv
<1>8. OnTerminate(graph, e).edges = {edge \in graph.edges : pid \notin {edge[1], edge[2]}}
  BY <1>2, <1>4 DEF OnTerminate
<1> QED  BY <1>1, <1>2, <1>3, <1>4, <1>7, <1>8

\* Recording that a process starts, and before it that another of its pid ends.
LEMMA EmitKeeps ==
  ASSUME MachineInv, KnownInv, RecordInv, GraphInv, UNCHANGED hostVars,
         NEW info, Observed(info, Len(processes), running), NEW parent \in Nat,
         EmitSpawn(info, parent)
  PROVE  KnownInv' /\ RecordInv' /\ GraphInv'
<1>1. Onward /\ MachineInv'
  BY StillMachine
<1>2. CASE UNCHANGED <<known, recorded, graph>>
  BY <1>1, <1>2, KnownStays, RecordStays
<1>3. CASE /\ known[PidOf(info.process)] # info
           /\ recorded' = recorded \o EndOf(known[PidOf(info.process)])
                            \o <<Start(info, ParentOf(info.process, parent))>>
           /\ graph' = OnSpawn(AfterEnd(known[PidOf(info.process)]),
                               Start(info, ParentOf(info.process, parent)))
           /\ known' = [known EXCEPT ![PidOf(info.process)] = info]
  <2>1. /\ info \in Info /\ info.process \in Started /\ info.process # 0 /\ info # Unknown
        /\ PidOf(info.process) \in Pids
    BY MachineTypes, Numbers DEF Observed, Started, Unknown
  <2>2. PICK pid \in Pids : pid = PidOf(info.process)
    BY <2>1
  <2>3. PICK start : start = Start(info, ParentOf(info.process, parent))
    OBVIOUS
  <2>4. start \in Record /\ start.kind = "start" /\ start.process = info.process
    <3>1. ParentOf(info.process, parent) \in Nat /\ info.process \in Process
      BY <2>1, MachineTypes DEF ParentOf, NoParent
    <3>2. FALSE \in BOOLEAN
      OBVIOUS
    <3> QED  BY <2>3, <3>1, <3>2 DEF Start, Record
  <2>5. known' = [known EXCEPT ![pid] = info] /\ DOMAIN known = Pids
    BY <1>3, <2>2 DEF KnownInv
  <2>6. KnownInv'
    <3>1. /\ Len(processes') = Len(processes) /\ running' = running
          /\ \A p : PidOf(p)' = PidOf(p)
      BY DEF hostVars, PidOf
    <3>2. known' \in [Pids -> Info \cup {Unknown}]
      BY <2>1, <2>5 DEF KnownInv
    <3>3. ASSUME NEW other \in Pids, known'[other] # Unknown
          PROVE  /\ Observed(known'[other], Len(processes'), running')
                 /\ PidOf(known[other].process)' = other
      <4>1. CASE other = pid
        <5>1. known'[other] = info
          BY <2>5, <4>1
        <5>2. Observed(known'[other], Len(processes'), running')
          BY <3>1, <5>1
        <5> QED  BY <2>2, <3>1, <4>1, <5>1, <5>2 DEF hostVars, PidOf
      <4>2. CASE other # pid
        <5>1. known'[other] = known[other]
          BY <2>5, <4>2
        <5> QED  BY <3>1, <3>3, <5>1 DEF KnownInv, hostVars, PidOf
      <4> QED  BY <4>1, <4>2
    <3> QED  BY <3>2, <3>3 DEF KnownInv
  \* What is recorded before the start: the end of the one before, if there is one.
  <2>7. PICK before, kn, g :
          /\ before \in Seq(Record) /\ Consistent(processes, before, kn)
          /\ kn[pid].process = 0
          /\ \A other \in Pids \ {pid} : kn[other].process = known[other].process
          /\ \A i \in 1..Len(before) : before[i].process \in Started
          /\ recorded' = Append(before, start) /\ graph' = OnSpawn(g, start)
          /\ \A edge \in g.edges : edge \in graph.edges /\ edge[2] # pid
    <3>1. recorded \in Seq(Record)
      BY DEF RecordInv, Consistent
    <3>2. CASE known[pid] = Unknown
      <4>1. EndOf(known[pid]) = <<>> /\ AfterEnd(known[pid]) = graph
        BY <3>2 DEF EndOf, AfterEnd
      <4>2. recorded' = recorded \o <<start>>
        BY <1>3, <2>2, <2>3, <3>1, <4>1, ConcatEmptySeq
      <4>3. recorded' = Append(recorded, start)
        BY <2>4, <3>1, <4>2, AppendIsConcat
      <4>4. known[pid].process = 0
        BY <3>2 DEF Unknown
      <4>5. \A edge \in graph.edges : edge[2] # pid
        BY <4>4 DEF GraphInv
      <4>6. graph' = OnSpawn(graph, start)
        BY <1>3, <2>2, <2>3, <4>1
      <4>7. Consistent(processes, recorded, known) /\ \A i \in 1..Len(recorded) : recorded[i].process \in Started
        BY DEF RecordInv
      <4> QED  BY <3>1, <4>3, <4>4, <4>5, <4>6, <4>7
    <3>3. CASE known[pid] # Unknown
      <4>1. PICK end : end = End(known[pid])
        OBVIOUS
      <4>2. PICK kn : kn = [known EXCEPT ![pid] = Unknown]
        OBVIOUS
      <4>3. EndTrue(known[pid])
        BY <1>3, <2>2, <3>3, TakenOver
      <4>4. /\ end \in Record /\ end.process \in Started
            /\ Consistent(processes, Append(recorded, end), kn)
            /\ OnTerminate(graph, end).edges = {edge \in graph.edges : pid \notin {edge[1], edge[2]}}
        BY <3>3, <4>1, <4>2, <4>3, AddEnd
      <4>5. /\ Append(recorded, end) \in Seq(Record) /\ Append(recorded, end) = recorded \o <<end>>
            /\ \A i \in 1..Len(Append(recorded, end)) : Append(recorded, end)[i].process \in Started
        <5>1. PICK list : list = Append(recorded, end)
          OBVIOUS
        <5>2. /\ list \in Seq(Record) /\ Len(list) = Len(recorded) + 1 /\ list[Len(recorded) + 1] = end
              /\ \A i \in 1..Len(recorded) : list[i] = recorded[i]
          BY <3>1, <4>4, <5>1, AppendProperties
        <5>3. Len(recorded) \in Nat
          BY <3>1
        <5>4. \A i \in 1..Len(list) : list[i].process \in Started
          BY <4>4, <5>2, <5>3 DEF RecordInv
        <5> QED  BY <3>1, <4>4, <5>1, <5>2, <5>4, AppendIsConcat
      <4>6. EndOf(known[pid]) = <<end>> /\ AfterEnd(known[pid]) = OnTerminate(graph, end)
        BY <3>3, <4>1 DEF EndOf, AfterEnd
      <4>7. recorded' = Append(Append(recorded, end), start)
        <5>1. recorded' = Append(recorded, end) \o <<start>>
          BY <1>3, <2>2, <2>3, <4>5, <4>6
        <5> QED  BY <2>4, <4>5, <5>1, AppendIsConcat
      <4>8. graph' = OnSpawn(OnTerminate(graph, end), start)
        BY <1>3, <2>2, <2>3, <4>6
      <4>9. /\ kn[pid].process = 0
            /\ \A other \in Pids \ {pid} : kn[other].process = known[other].process
        BY <2>5, <4>2 DEF Unknown
      <4>10. PICK list, g : list = Append(recorded, end) /\ g = OnTerminate(graph, end)
        OBVIOUS
      <4>11. \A edge \in g.edges : edge \in graph.edges /\ edge[2] # pid
        BY <4>4, <4>10
      <4>12. /\ list \in Seq(Record) /\ \A i \in 1..Len(list) : list[i].process \in Started
             /\ recorded' = Append(list, start) /\ graph' = OnSpawn(g, start)
             /\ Consistent(processes, list, kn)
        BY <4>4, <4>5, <4>7, <4>8, <4>10
      <4> QED  BY <4>9, <4>11, <4>12
    <3> QED  BY <3>2, <3>3
  <2>8. Consistent(processes, recorded', known')
    <3>1. /\ known'[pid].process = info.process
          /\ \A other \in Pids \ {pid} : known'[other].process = kn[other].process
      BY <2>5, <2>7
    <3>2. processes[start.process].pid = pid
      BY <2>2, <2>4 DEF PidOf
    <3>3. RecordTrue(processes, start, kn[pid].process)
      BY <2>4, <2>7 DEF RecordTrue
    <3> QED  BY <2>4, <2>7, <3>1, <3>2, <3>3, AddRecord
  <2>9. RecordInv'
    <3>1. /\ Len(before) \in Nat /\ Len(recorded') = Len(before) + 1
          /\ recorded'[Len(before) + 1] = start
          /\ \A i \in 1..Len(before) : recorded'[i] = before[i]
      BY <2>4, <2>7, AppendProperties
    <3>2. \A i \in 1..Len(recorded') : recorded'[i].process \in Started
      BY <2>1, <2>4, <2>7, <3>1
    <3> QED  BY <2>8, <3>2 DEF RecordInv, hostVars, Started
  <2>10. GraphInv'
    <3>1. /\ \A other \in Pids \ {pid} : known'[other] = known[other]
          /\ known'[pid].process = info.process
      BY <2>5
    <3>2. ASSUME NEW edge \in graph'.edges
          PROVE  /\ edge[2] \in Pids /\ known'[edge[2]].process # 0
                 /\ edge[1] = Ppid(known'[edge[2]].process)
      <4>1. CASE edge \in g.edges
        BY <2>7, <3>1, <4>1 DEF GraphInv
      <4>2. CASE edge = <<Ppid(info.process), pid>>
        BY <2>1, <3>1, <4>2
      <4>3. graph'.edges \subseteq g.edges \cup {<<Ppid(info.process), pid>>}
        BY <2>2, <2>4, <2>7 DEF OnSpawn
      <4> QED  BY <4>1, <4>2, <4>3
    <3>3. \A p : Ppid(p)' = Ppid(p)
      BY DEF Ppid, PidOf, hostVars
    <3> QED  BY <3>2 DEF GraphInv, hostVars, Ppid, PidOf
  <2> QED  BY <2>6, <2>9, <2>10
<1> QED  BY <1>2, <1>3 DEF EmitSpawn, SameProcess

\* Who is missing in the snapshot of a poll that has the lock is over.
LEMMA GoneIsOver ==
  ASSUME MachineInv, KnownInv, SnapshotInv, poll.pc = "locked", NEW pid \in Gone
  PROVE  known[pid] # Unknown /\ known[pid].process \notin running
<1>1. pid \in Pids /\ known[pid] # Unknown /\ Missing(known[pid])
  BY DEF Gone
<1>2. PICK p \in Started : p = known[pid].process /\ PidOf(p) = pid
  BY <1>1, KnownTypes
<1>3. p \notin poll.snapshot
  <2>1. ASSUME p \in poll.snapshot PROVE Holder(poll.snapshot, pid) # 0
    <3>1. \A q \in poll.snapshot : q # 0
      BY MachineTypes, Numbers DEF SnapshotInv
    <3> QED  BY <1>2, <2>1, <3>1, HolderFound
  <2> QED  BY <1>1, <1>2, <2>1 DEF Missing
<1> QED  BY <1>1, <1>2, <1>3 DEF SnapshotInv, Missing

LEMMA PollEndKeeps ==
  ASSUME MachineInv, KnownInv, SnapshotInv, RecordInv, GraphInv, NEW pid \in Gone, PollEnd(pid)
  PROVE  KnownInv' /\ RecordInv' /\ GraphInv'
<1>1. /\ pid \in Pids /\ known[pid] # Unknown /\ known[pid].process \notin running
      /\ UNCHANGED hostVars /\ Onward /\ MachineInv'
  BY GoneIsOver, StillMachine DEF PollEnd, Gone
<1>2. PICK end : end = End(known[pid])
  OBVIOUS
<1>3. /\ known' = [known EXCEPT ![pid] = Unknown] /\ recorded' = Append(recorded, end)
      /\ graph' = OnTerminate(graph, end)
  BY <1>2 DEF PollEnd
<1>4. /\ end \in Record /\ end.process \in Started /\ Consistent(processes, recorded', known')
      /\ graph'.edges = {edge \in graph.edges : pid \notin {edge[1], edge[2]}}
  BY <1>1, <1>2, <1>3, AddEnd DEF EndTrue
<1>5. /\ known' \in [Pids -> Info \cup {Unknown}] /\ known'[pid] = Unknown
      /\ \A other \in Pids \ {pid} : known'[other] = known[other]
  BY <1>1, <1>3 DEF KnownInv
<1>6. KnownInv'
  <2>1. ASSUME NEW other \in Pids, known'[other] # Unknown
        PROVE  /\ Observed(known'[other], Len(processes'), running')
               /\ PidOf(known[other].process)' = other
    BY <1>1, <1>5, <2>1 DEF KnownInv, hostVars, PidOf
  <2> QED  BY <1>5, <2>1 DEF KnownInv
<1>7. RecordInv'
  <2>1. recorded \in Seq(Record)
    BY DEF RecordInv, Consistent
  <2>2. /\ Len(recorded) \in Nat /\ Len(recorded') = Len(recorded) + 1
        /\ recorded'[Len(recorded) + 1] = end
        /\ \A i \in 1..Len(recorded) : recorded'[i] = recorded[i]
    BY <1>3, <1>4, <2>1, AppendProperties
  <2>3. \A i \in 1..Len(recorded') : recorded'[i].process \in Started
    BY <1>4, <2>2 DEF RecordInv
  <2> QED  BY <1>1, <1>4, <2>3 DEF RecordInv, hostVars, Started
<1>8. GraphInv'
  <2>1. ASSUME NEW edge \in graph'.edges
        PROVE  /\ edge[2] \in Pids /\ known'[edge[2]].process # 0
               /\ edge[1] = Ppid(known'[edge[2]].process)
    <3>1. edge \in graph.edges /\ edge[2] # pid
      BY <1>4
    <3> QED  BY <1>5, <3>1 DEF GraphInv
  <2> QED  BY <1>1, <2>1 DEF GraphInv, hostVars, Ppid, PidOf
<1> QED  BY <1>6, <1>7, <1>8

\* The machine goes on while the sensor waits.
LEMMA WatchOnward ==
  ASSUME MachineInv, MachineInv', Onward, WatchInv, TracesInv',
         UNCHANGED <<known, poll, inHand, recorded, graph>>
  PROVE  WatchInv'
BY KnownStays, HandStays, SnapshotStays, RecordStays DEF WatchInv

LEMMA WatchInitially ==
  ASSUME Init
  PROVE  MachineInv /\ WatchInv
<1>1. /\ processes = <<[pid |-> 1, parent |-> NoParent]>> /\ running = {1}
      /\ sockets = <<>> /\ established = {}
  BY DEF Init, HostInit
<1>2. /\ Len(processes) = 1 /\ processes[1] = [pid |-> 1, parent |-> NoParent]
      /\ Started = {1} /\ Opened = {} /\ PidOf(1) = 1 /\ Len(sockets) = 0
      /\ DOMAIN processes = {1} /\ DOMAIN sockets = {}
  BY <1>1 DEF Started, Opened, PidOf
<1>3. 1 \in Pids /\ 1 \in Process
  BY HostAssumption DEF Pids, Process
<1>4. MachineInv
  <2>1. [pid |-> 1, parent |-> NoParent] \in [pid : Pids, parent : Process \cup {NoParent}]
    BY <1>3
  <2>2. processes \in Seq([pid : Pids, parent : Process \cup {NoParent}])
    BY <1>1, <2>1
  <2>3. sockets \in Seq([owner : Process, port : Ports])
    BY <1>1, EmptySeq
  <2>4. HostTypeOK
    BY <1>1, <1>2, <2>2, <2>3 DEF HostTypeOK
  <2>5. Len(processes) <= MaxProcesses /\ Len(sockets) <= MaxSockets
    BY <1>2, HostAssumption
  <2>6. \A p \in Started : ParentRan(p)
    BY <1>2 DEF ParentRan
  <2> QED  BY <1>1, <1>2, <2>4, <2>5, <2>6 DEF MachineInv
<1>5. /\ known = [pid \in Pids |->
           LET p == Holder(running, pid) IN IF p = 0 THEN Unknown ELSE Read(p)]
      /\ poll = Idle /\ native \in {"none", "starting"}
      /\ traces = <<>> /\ inHand = NoTrace
      /\ recorded = <<>> /\ graph = EmptyGraph /\ delivered = {}
  BY DEF Init, WatcherInit
<1>6. /\ known[1] = Read(1) /\ \A pid \in Pids \ {1} : known[pid] = Unknown
  <2>1. Holder(running, 1) = 1
    BY <1>1, <1>2, HolderFound
  <2>2. \A pid \in Pids \ {1} : Holder(running, pid) = 0
    BY <1>1, <1>2, HolderFound
  <2> QED  BY <1>3, <1>5, <2>1, <2>2
<1>7. KnownInv
  <2>1. Read(1) \in Info /\ Observed(Read(1), 1, running) /\ Read(1).process = 1
    BY <1>3 DEF Read, Info, Observed
  <2>2. known \in [Pids -> Info \cup {Unknown}]
    BY <1>5, <1>6, <2>1
  <2>3. ASSUME NEW pid \in Pids, known[pid] # Unknown
        PROVE  Observed(known[pid], Len(processes), running) /\ PidOf(known[pid].process) = pid
    <3>1. pid = 1
      BY <1>6, <2>3
    <3> QED  BY <1>2, <1>6, <2>1, <3>1
  <2> QED  BY <2>2, <2>3 DEF KnownInv
<1>8. HandInv
  BY <1>5 DEF HandInv, NoTrace
<1>9. TracesInv
  BY <1>5, EmptySeq DEF TracesInv
<1>10. SnapshotInv
  BY <1>2, <1>5 DEF SnapshotInv, Idle
<1>11. RecordInv
  <2>1. recorded \in Seq(Record) /\ Len(recorded) = 0
    BY <1>5, EmptySeq
  <2>2. \A pid \in Pids : OpenIn(processes, recorded, 0, pid) = IF pid = 1 THEN 1 ELSE 0
    BY DEF OpenIn
  <2>3. \A pid \in Pids : known[pid].process = IF pid = 1 THEN 1 ELSE 0
    BY <1>6 DEF Read, Unknown
  <2> QED  BY <2>1, <2>2, <2>3 DEF RecordInv, Consistent
<1>12. GraphInv
  BY <1>5 DEF GraphInv, EmptyGraph
<1> QED  BY <1>4, <1>7, <1>8, <1>9, <1>10, <1>11, <1>12 DEF WatchInv

LEMMA SensorsLeaveMachine ==
  ASSUME ProcessStep \/ NetworkStep
  PROVE  UNCHANGED hostVars
<1>1. ASSUME PollStep PROVE UNCHANGED hostVars
  BY <1>1 DEF PollStep, PollStart, TakeSnapshot, PollLock, PollDone, PollSpawn, PollEnd
<1>2. ASSUME NativeActive \/ NativeFails \/ NativeStep PROVE UNCHANGED hostVars
  BY <1>2 DEF NativeActive, NativeFails, NativeStep, ReadTraced, ReadParent, OnNative
<1>3. ASSUME NetworkNext PROVE UNCHANGED hostVars
  BY <1>3 DEF NetworkNext, ListConnections, ReadOwner, HandleSample
<1> QED  BY <1>1, <1>2, <1>3 DEF ProcessStep, NetworkStep

\* The three kinds of step of the machine.
MachineStarts == \E pid \in Pids, parent \in {NoParent} \cup running : WatchedStart(pid, parent)
MachineEnds == \E p \in running : WatchedEnd(p)
MachineConnects ==
  /\ \/ \E p \in running, port \in Ports : OpenSocket(p, port)
     \/ \E s \in established : CloseSocket(s)
  /\ UNCHANGED watcherVars

LEMMA MachineCases ==
  ASSUME setup \in Setups, MachineStep
  PROVE  (MachineStarts \/ MachineEnds \/ MachineConnects) /\ UNCHANGED networkVars
<1>1. setup.pids \subseteq Pids /\ Parents \subseteq {NoParent} \cup running
  BY SetupsAssumption DEF Parents
<1> QED  BY <1>1 DEF MachineStep, MachineStarts, MachineEnds, MachineConnects

LEMMA MachineKeeps ==
  ASSUME MachineInv, setup \in Setups, Next
  PROVE  MachineInv' /\ Onward
<1>1. CASE ProcessStep \/ NetworkStep
  BY <1>1, SensorsLeaveMachine, StillMachine
<1>2. CASE MachineStarts
  BY <1>2, StartMachine DEF MachineStarts, WatchedStart
<1>3. CASE MachineEnds
  <2>1. PICK p \in running : EndProcess(p)
    BY <1>3 DEF MachineEnds, WatchedEnd
  <2>2. /\ UNCHANGED <<processes, sockets>> /\ running' \subseteq running
        /\ established' \subseteq established
        /\ \A s \in established' : sockets[s].owner \in running'
    BY <2>1 DEF EndProcess, MachineInv
  <2> QED  BY <2>2, EndMachine
<1>4. CASE MachineConnects
  <2>1. CASE \E p \in running, port \in Ports : OpenSocket(p, port)
    BY <2>1, OpenMachine
  <2>2. CASE \E s \in established : CloseSocket(s)
    <3>1. /\ UNCHANGED <<processes, running, sockets>> /\ established' \subseteq established
          /\ running' \subseteq running
          /\ \A s \in established' : sockets[s].owner \in running'
      BY <2>2 DEF CloseSocket, MachineInv
    <3> QED  BY <3>1, EndMachine
  <2> QED  BY <1>4, <2>1, <2>2 DEF MachineConnects
<1> QED  BY <1>1, <1>2, <1>3, <1>4, MachineCases DEF Next

\* A step of a poll.
LEMMA PollKeeps ==
  ASSUME MachineInv, WatchInv, PollStep
  PROVE  WatchInv'
<1>1. MachineInv' /\ Onward /\ UNCHANGED hostVars
  <2>1. UNCHANGED hostVars
    BY DEF PollStep, PollStart, TakeSnapshot, PollLock, PollDone, PollSpawn, PollEnd
  <2> QED  BY <2>1, StillMachine
<1>2. HandInv' /\ TracesInv'
  <2>1. UNCHANGED <<inHand, traces, delivered, native>>
    BY DEF PollStep, PollStart, TakeSnapshot, PollLock, PollDone, PollSpawn, PollEnd
  <2> QED  BY <1>1, <2>1, HandStays, TracesStay DEF WatchInv
<1>3. /\ Len(processes) \in Nat /\ running \subseteq Started /\ Started \subseteq Process
      /\ Started' = Started
  BY <1>1, MachineTypes DEF hostVars, Started
<1>4. KnownInv /\ SnapshotInv /\ RecordInv /\ GraphInv
  BY DEF WatchInv
<1>5. ASSUME UNCHANGED <<known, recorded, graph>>, SnapshotInv' PROVE WatchInv'
  BY <1>1, <1>2, <1>4, <1>5, KnownStays, RecordStays DEF WatchInv
<1>6. CASE PollStart
  <2>1. poll' = [pc |-> "read", started |-> Len(processes), snapshot |-> {}, todo |-> {}]
    BY <1>6 DEF PollStart, Idle
  <2>2. SnapshotInv'
    BY <1>1, <1>3, <2>1 DEF SnapshotInv, hostVars
  <2> QED  BY <1>5, <1>6, <2>2 DEF PollStart
<1>7. CASE TakeSnapshot
  <2>1. poll' = [poll EXCEPT !.pc = "lock", !.snapshot = running] /\ poll.pc = "read"
    BY <1>7 DEF TakeSnapshot
  <2>2. ASSUME poll.todo = {} PROVE SnapshotInv'
    BY <1>1, <1>3, <1>4, <2>1, <2>2 DEF SnapshotInv, hostVars
  <2> QED  BY <1>4, <1>5, <1>7, <2>2 DEF TakeSnapshot, SnapshotInv
<1>8. CASE PollLock
  <2>1. SnapshotInv'
    BY <1>1, <1>3, <1>4, <1>8 DEF PollLock, SnapshotInv, hostVars
  <2> QED  BY <1>5, <1>8, <2>1 DEF PollLock
<1>9. CASE PollDone
  <2>1. SnapshotInv'
    BY <1>1, <1>3, <1>9 DEF PollDone, SnapshotInv, Idle, hostVars
  <2> QED  BY <1>5, <1>9, <2>1 DEF PollDone
<1>10. CASE \E p \in poll.todo : PollSpawn(p)
  <2>1. PICK p \in poll.todo : PollSpawn(p)
    BY <1>10
  <2>2. SnapshotInv'
    BY <1>1, <1>3, <1>4, <2>1 DEF PollSpawn, SnapshotInv, hostVars
  <2>3. PICK info, parent : info = Read(p) /\ parent = Holder(poll.snapshot, Ppid(p))
    OBVIOUS
  <2>4. p \in Started /\ Observed(info, Len(processes), running)
    BY <1>3, <1>4, <2>3 DEF SnapshotInv, Observed, Read, Info, Started
  <2>5. parent \in Nat
    <3>1. \A q \in poll.snapshot : q \in Nat
      BY <1>3, <1>4, Numbers DEF SnapshotInv
    <3> QED  BY <2>3, <3>1, HolderFound
  <2>6. EmitSpawn(info, parent)
    BY <2>1, <2>3 DEF PollSpawn
  <2> QED  BY <1>1, <1>2, <1>4, <2>2, <2>4, <2>5, <2>6, EmitKeeps DEF WatchInv
<1>11. CASE \E pid \in Gone : PollEnd(pid)
  <2>1. PICK pid \in Gone : PollEnd(pid)
    BY <1>11
  <2>2. SnapshotInv'
    BY <1>1, <1>4, <2>1, SnapshotStays DEF PollEnd
  <2> QED  BY <1>2, <1>4, <2>1, <2>2, PollEndKeeps DEF WatchInv
<1> QED  BY <1>6, <1>7, <1>8, <1>9, <1>10, <1>11 DEF PollStep

\* A step of the thread or of its source.
LEMMA NativeKeeps ==
  ASSUME MachineInv, WatchInv, NativeActive \/ NativeFails \/ NativeStep
  PROVE  WatchInv'
<1>1. MachineInv' /\ Onward /\ UNCHANGED <<processes, running>>
  <2>1. UNCHANGED hostVars
    BY DEF NativeActive, NativeFails, NativeStep, ReadTraced, ReadParent, OnNative
  <2> QED  BY <2>1, StillMachine DEF hostVars
<1>2. SnapshotInv'
  <2>1. UNCHANGED poll
    BY DEF NativeActive, NativeFails, NativeStep, ReadTraced, ReadParent, OnNative
  <2> QED  BY <1>1, <2>1, SnapshotStays DEF WatchInv
<1>3. KnownInv /\ HandInv /\ TracesInv /\ RecordInv /\ GraphInv
  BY DEF WatchInv
<1>4. /\ Len(processes) \in Nat /\ running \subseteq Started /\ Started \subseteq Process
      /\ Started' = Started
  BY <1>1, MachineTypes DEF Started
<1>5. ASSUME UNCHANGED <<known, recorded, graph>>, HandInv', TracesInv' PROVE WatchInv'
  BY <1>1, <1>2, <1>3, <1>5, KnownStays, RecordStays DEF WatchInv
<1>6. CASE NativeActive
  <2>1. HandInv'
    BY <1>1, <1>3, <1>6, HandStays DEF NativeActive
  <2>2. TracesInv'
    BY <1>3, <1>4, <1>6 DEF NativeActive, TracesInv
  <2> QED  BY <1>5, <1>6, <2>1, <2>2 DEF NativeActive
<1>7. CASE NativeFails
  <2>1. HandInv'
    BY <1>1, <1>3, <1>7, HandStays DEF NativeFails
  <2>2. TracesInv'
    BY <1>3, <1>7, EmptySeq DEF NativeFails, TracesInv
  <2> QED  BY <1>5, <1>7, <2>1, <2>2 DEF NativeFails
<1>8. CASE ReadTraced
  <2>1. PICK p \in Started : p = Head(traces)
    BY <1>3, <1>8, HeadTailProperties DEF TracesInv, ReadTraced
  <2>2. inHand' = [NoTrace EXCEPT !.pc = "parent", !.process = p,
                                  !.by = IF p \in running THEN "psutil" ELSE "trace"]
    BY <1>8, <2>1 DEF ReadTraced
  <2>3. HandInv'
    BY <1>1, <1>4, <2>1, <2>2 DEF HandInv, NoTrace, Observed, Info, Started
  <2>4. TracesInv'
    BY <1>3, <1>4, <1>8, HeadTailProperties DEF TracesInv, ReadTraced
  <2> QED  BY <1>5, <1>8, <2>3, <2>4 DEF ReadTraced
<1>9. CASE ReadParent
  <2>1. PICK parent \in Process \cup {0} : parent = Holder(running, Ppid(inHand.process))
    BY <1>4, HolderFound
  <2>2. inHand' = [inHand EXCEPT !.pc = "lock", !.parent = parent] /\ inHand.pc = "parent"
    BY <1>9, <2>1 DEF ReadParent
  <2>3. HandInv'
    BY <1>1, <1>3, <2>2 DEF HandInv
  <2>4. TracesInv'
    BY <1>1, <1>3, <1>9, TracesStay DEF ReadParent
  <2> QED  BY <1>5, <1>9, <2>3, <2>4 DEF ReadParent
<1>10. CASE OnNative
  <2>1. PICK info, parent :
          /\ info = [process |-> inHand.process, by |-> inHand.by]
          /\ parent = IF inHand.parent = 0 /\ Ppid(inHand.process) # 0
                      THEN known[Ppid(inHand.process)].process ELSE inHand.parent
    OBVIOUS
  <2>2. EmitSpawn(info, parent) /\ inHand.pc = "lock" /\ inHand' = NoTrace
        /\ UNCHANGED <<traces, delivered, native>>
    BY <1>10, <2>1 DEF OnNative
  <2>3. Observed(info, Len(processes), running)
    BY <1>3, <2>1, <2>2 DEF HandInv
  <2>4. parent \in Nat
    <3>1. inHand.process \in Started /\ inHand.parent \in Nat
      <4>1. info.process \in Started /\ info.process = inHand.process
        BY <2>1, <2>3 DEF Observed, Started
      <4>2. inHand.parent \in Process \cup {0}
        BY <1>3 DEF HandInv
      <4>3. Process \cup {0} \subseteq Nat
        BY Numbers
      <4> QED  BY <4>1, <4>2, <4>3
    <3>2. ASSUME Ppid(inHand.process) # 0 PROVE Ppid(inHand.process) \in Pids
      <4>1. processes[inHand.process].parent \in Started
        BY <1>4, <3>1, <3>2 DEF MachineInv, ParentRan, Ppid, Started
      <4> QED  BY <3>2, <4>1, MachineTypes DEF Ppid
    <3>3. \A pid \in Pids : known[pid].process \in Nat
      <4>1. ASSUME NEW pid \in Pids PROVE known[pid].process \in Nat
        <5>1. CASE known[pid] = Unknown
          BY <5>1 DEF Unknown
        <5>2. CASE known[pid] # Unknown
          BY <1>3, <1>4, <5>2, KnownTypes, Numbers
        <5> QED  BY <5>1, <5>2
      <4> QED  BY <4>1
    <3> QED  BY <2>1, <3>1, <3>2, <3>3
  <2>5. HandInv'
    BY <2>2 DEF HandInv, NoTrace
  <2>6. TracesInv'
    BY <1>1, <1>3, <2>2, TracesStay
  <2>7. UNCHANGED hostVars
    BY <1>10 DEF OnNative
  <2> QED  BY <1>2, <1>3, <2>2, <2>3, <2>4, <2>5, <2>6, <2>7, EmitKeeps DEF WatchInv
<1> QED  BY <1>6, <1>7, <1>8, <1>9, <1>10 DEF NativeStep

LEMMA WatchKeeps ==
  ASSUME MachineInv, WatchInv, setup \in Setups, Next
  PROVE  WatchInv'
<1>1. MachineInv' /\ Onward
  BY MachineKeeps
<1>2. CASE ProcessStep
  BY <1>2, PollKeeps, NativeKeeps DEF ProcessStep
<1>3. CASE UNCHANGED watcherVars
  BY <1>1, <1>3, WatchOnward, TracesStay DEF watcherVars, WatchInv
<1>4. CASE MachineStarts
  <2>1. PICK pid \in Pids, parent \in {NoParent} \cup running : WatchedStart(pid, parent)
    BY <1>4 DEF MachineStarts
  <2>2. PICK p \in Nat : p = Len(processes')
    BY <1>1 DEF Onward
  <2>3. p \in Started' /\ p \in Process
    <3>1. p = Len(processes) + 1 /\ p <= MaxProcesses /\ Len(processes) \in Nat
      BY <1>1, <2>1, <2>2, StartMachine, MachineTypes DEF WatchedStart, MachineInv
    <3> QED  BY <2>2, <3>1 DEF Started, Process
  <2>4. traces \in Seq(Started')
    BY StartedGrows, SeqMonotonic, <1>1 DEF TracesInv, WatchInv
  <2>5. TracesInv'
    <3>1. CASE native = "active"
      <4>1. /\ traces' = Append(traces, p) /\ delivered' = delivered \cup {p}
            /\ UNCHANGED native
        BY <2>1, <2>2, <3>1 DEF WatchedStart
      <4>2. traces' \in Seq(Started')
        BY <2>3, <2>4, <4>1, AppendProperties
      <4> QED  BY <2>3, <4>1, <4>2 DEF TracesInv, WatchInv
    <3>2. CASE native # "active"
      <4>1. UNCHANGED <<traces, delivered, native>>
        BY <2>1, <3>2 DEF WatchedStart
      <4> QED  BY <2>4, <4>1 DEF TracesInv, WatchInv
    <3> QED  BY <3>1, <3>2
  <2> QED  BY <1>1, <2>1, <2>5, WatchOnward DEF WatchedStart
<1> QED
  BY <1>2, <1>3, <1>4, MachineCases
  DEF Next, NetworkStep, MachineEnds, WatchedEnd, MachineConnects

\* What holds of the process sensor in every state.
SensorInv == MachineInv /\ WatchInv /\ setup \in Setups

LEMMA SensorStep ==
  ASSUME SensorInv, [Next]_vars
  PROVE  SensorInv'
<1>1. CASE Next
  <2>1. setup' = setup
    BY <1>1 DEF Next, ProcessStep, NetworkStep, MachineStep
  <2> QED  BY <1>1, <2>1, MachineKeeps, WatchKeeps DEF SensorInv
<1>2. CASE UNCHANGED vars
  <2>1. UNCHANGED <<hostVars, watcherVars, setup>>
    BY <1>2 DEF vars
  <2>2. MachineInv' /\ Onward
    BY <2>1, StillMachine DEF SensorInv
  <2> QED  BY <2>1, <2>2, WatchOnward, TracesStay DEF SensorInv, WatchInv, watcherVars
<1> QED  BY <1>1, <1>2

LEMMA SensorInitially == ASSUME Init PROVE SensorInv
BY WatchInitially DEF SensorInv, Init

LEMMA SensorAlways == Spec => []SensorInv
<1>1. Init => SensorInv
  BY SensorInitially
<1>2. SensorInv /\ [Next]_vars => SensorInv'
  BY SensorStep
<1> QED  BY <1>1, <1>2, PTL DEF Spec

LEMMA RecordsMeanTruth == ASSUME SensorInv PROVE EndsAreTrue
<1>1. \A pid, n : OpenAfter(n, pid) = OpenIn(processes, recorded, n, pid)
  BY DEF OpenAfter, OpenIn, PidOf
<1>2. ASSUME NEW i \in DOMAIN recorded
      PROVE  LET e == recorded[i]
                 open == OpenAfter(i - 1, PidOf(e.process))
             IN IF e.kind = "start" THEN open = 0
                ELSE /\ open = e.process
                     /\ e.over \/ \E p \in 1..(e.process - 1) : PidOf(p) = PidOf(e.process)
  <2>1. recorded \in Seq(Record) /\ i \in 1..Len(recorded)
    BY DEF SensorInv, WatchInv, RecordInv, Consistent
  <2>2. RecordTrue(processes, recorded[i],
                   OpenIn(processes, recorded, i - 1, processes[recorded[i].process].pid))
    BY <2>1 DEF SensorInv, WatchInv, RecordInv, Consistent
  <2> QED  BY <1>1, <2>2 DEF RecordTrue, PidOf
<1>3. ASSUME NEW edge \in graph.edges
      PROVE  OpenOf(edge[2]) # 0 /\ edge[1] = Ppid(OpenOf(edge[2]))
  <2>1. /\ edge[2] \in Pids /\ known[edge[2]].process # 0
        /\ edge[1] = Ppid(known[edge[2]].process)
    BY DEF SensorInv, WatchInv, GraphInv
  <2>2. OpenOf(edge[2]) = known[edge[2]].process
    BY <1>1, <2>1 DEF OpenOf, SensorInv, WatchInv, RecordInv, Consistent
  <2> QED  BY <2>1, <2>2
<1> QED  BY <1>2, <1>3 DEF EndsAreTrue

\* Whatever order snapshots and traces come in, the record of a pid alternates
\* between its holders, one is recorded to end only when it is over or has taken
\* its pid over, and the edges of the graph lead to those that hold their pid
\* (process_watcher.py:136-151,179-211, mitre_engine.py:88-124).
THEOREM EndsAreRecordedTruly == Spec => []EndsAreTrue
<1>1. SensorInv => EndsAreTrue
  BY RecordsMeanTruth
<1> QED  BY <1>1, SensorAlways, PTL

-----------------------------------------------------------------------------
(* Polling alone is exact.                                                   *)

StartedIn(list, p) == \E i \in 1..Len(list) : list[i].kind = "start" /\ list[i].process = p

ExactRecord(table, e) ==
  IF e.kind = "start" THEN e.parent \in {NoParent, table[e.process].parent} ELSE e.over

ExactList(table, list) ==
  /\ \A i \in 1..Len(list) : ExactRecord(table, list[i])
  /\ \A i, j \in 1..Len(list) :
       /\ list[i].kind = "start" /\ list[j].kind = "start"
       /\ list[i].process = list[j].process
       => i = j

\* Nobody had the pid of one in the snapshot from when it started to when the
\* last of the snapshot did, and what is known of a pid is not younger than the
\* one that the snapshot has for it.
SnapshotExact ==
  /\ \A p \in poll.snapshot : known[PidOf(p)].process <= p
  /\ \A h, p \in poll.snapshot : \A r \in Started : h < r /\ r <= p => PidOf(r) # PidOf(h)
  /\ \A p \in poll.snapshot : StartedIn(recorded, p) => known[PidOf(p)].process = p

PollingInv ==
  native = "none" =>
    /\ traces = <<>> /\ inHand.pc = "none"
    /\ \A pid \in Pids : known[pid].by = "psutil"
    /\ SnapshotExact
    /\ \A p \in running : StartedIn(recorded, p) => known[PidOf(p)].process = p
    /\ ExactList(processes, recorded)

LEMMA AppendExact ==
  ASSUME NEW table, NEW list \in Seq(Record), NEW e \in Record, ExactList(table, list),
         ExactRecord(table, e), e.kind = "start" => ~StartedIn(list, e.process)
  PROVE  /\ ExactList(table, Append(list, e))
         /\ \A p : StartedIn(Append(list, e), p) <=>
                     StartedIn(list, p) \/ (e.kind = "start" /\ e.process = p)
<1>1. PICK n \in Nat : n = Len(list)
  BY LenProperties
<1>2. PICK list2 : list2 = Append(list, e)
  OBVIOUS
<1>3. Len(list2) = n + 1 /\ list2[n + 1] = e /\ \A i \in 1..n : list2[i] = list[i]
  BY <1>1, <1>2, AppendProperties
<1>4. \A i \in 1..(n + 1) : ExactRecord(table, list2[i])
  BY <1>1, <1>3 DEF ExactList
<1>5. ASSUME NEW i \in 1..(n + 1), NEW j \in 1..(n + 1),
             list2[i].kind = "start", list2[j].kind = "start",
             list2[i].process = list2[j].process
      PROVE  i = j
  <2>1. CASE i \in 1..n /\ j \in 1..n
    <3>1. list2[i] = list[i] /\ list2[j] = list[j]
      BY <1>3, <2>1
    <3> QED  BY <1>1, <1>5, <2>1, <3>1 DEF ExactList
  <2>2. CASE i = n + 1 /\ j \in 1..n
    <3>1. list2[i] = e /\ list2[j] = list[j]
      BY <1>3, <2>2
    <3> QED  BY <1>1, <1>5, <2>2, <3>1 DEF StartedIn
  <2>3. CASE j = n + 1 /\ i \in 1..n
    <3>1. list2[j] = e /\ list2[i] = list[i]
      BY <1>3, <2>3
    <3> QED  BY <1>1, <1>5, <2>3, <3>1 DEF StartedIn
  <2> QED  BY <2>1, <2>2, <2>3
<1>6. ASSUME NEW p
      PROVE  StartedIn(list2, p) <=> StartedIn(list, p) \/ (e.kind = "start" /\ e.process = p)
  <2>1. ASSUME StartedIn(list2, p)
        PROVE  StartedIn(list, p) \/ (e.kind = "start" /\ e.process = p)
    <3>1. PICK i \in 1..(n + 1) : list2[i].kind = "start" /\ list2[i].process = p
      BY <1>3, <2>1 DEF StartedIn
    <3>2. CASE i \in 1..n
      BY <1>1, <1>3, <3>1, <3>2 DEF StartedIn
    <3>3. CASE i = n + 1
      BY <1>3, <3>1, <3>3
    <3> QED  BY <3>2, <3>3
  <2>2. ASSUME StartedIn(list, p) PROVE StartedIn(list2, p)
    <3>1. PICK i \in 1..n : list[i].kind = "start" /\ list[i].process = p
      BY <1>1, <2>2 DEF StartedIn
    <3>2. i \in 1..(n + 1) /\ list2[i] = list[i]
      BY <1>3
    <3> QED  BY <1>3, <3>1, <3>2 DEF StartedIn
  <2>3. ASSUME e.kind = "start", e.process = p PROVE StartedIn(list2, p)
    <3>1. n + 1 \in 1..(n + 1)
      OBVIOUS
    <3> QED  BY <1>3, <2>3, <3>1 DEF StartedIn
  <2> QED  BY <2>1, <2>2, <2>3
<1> QED  BY <1>2, <1>3, <1>4, <1>5, <1>6 DEF ExactList

\* The parent that a snapshot gives a process is the true one, or is left out.
LEMMA ParentFound ==
  ASSUME MachineInv, SnapshotInv, SnapshotExact, NEW p \in poll.snapshot
  PROVE  ParentOf(p, Holder(poll.snapshot, Ppid(p))) \in {NoParent, processes[p].parent}
<1>1. /\ p \in Started /\ p \in Nat /\ ParentRan(p) /\ poll.snapshot \subseteq Started
      /\ poll.snapshot \subseteq Nat \ {0}
  BY MachineTypes, Numbers DEF SnapshotInv, MachineInv
<1>2. PICK h : h = Holder(poll.snapshot, Ppid(p))
  OBVIOUS
<1>3. CASE h = 0
  BY <1>2, <1>3 DEF ParentOf, NoParent
<1>4. CASE h # 0
  <2>1. h \in poll.snapshot /\ PidOf(h) = Ppid(p) /\ h \in Nat /\ h \in Started
    BY <1>1, <1>2, <1>4, HolderFound
  <2>2. PICK r : r = processes[p].parent
    OBVIOUS
  <2>3. r # NoParent
    <3>1. PidOf(h) # 0
      BY <2>1, MachineTypes, Numbers
    <3> QED  BY <2>1, <2>2, <3>1 DEF Ppid
  <2>4. /\ r \in 1..(p - 1) /\ PidOf(r) # PidOf(p) /\ PidOf(h) = PidOf(r)
        /\ \A q \in (r + 1)..(p - 1) : PidOf(q) # PidOf(r)
    BY <1>1, <2>1, <2>2, <2>3 DEF ParentRan, Ppid
  <2>5. CASE h > p
    BY <1>2, <2>5 DEF ParentOf
  <2>6. CASE h <= p
    <3>1. h # p
      BY <2>4
    <3>2. h <= r
      <4>1. ~(h \in (r + 1)..(p - 1))
        BY <2>4
      <4> QED  BY <1>1, <2>1, <2>4, <2>6, <3>1, <4>1
    <3>3. ~(h < r)
      <4>1. r \in Started /\ r <= p
        BY <1>1, <2>4 DEF Started
      <4> QED  BY <2>1, <2>4, <4>1 DEF SnapshotExact
    <3>4. h = r
      BY <2>1, <2>4, <3>2, <3>3
    <3> QED  BY <1>2, <2>2, <2>6, <3>4 DEF ParentOf
  <2> QED  BY <1>1, <2>1, <2>5, <2>6
<1> QED  BY <1>3, <1>4

\* What the machine does, or a poll that only drops its snapshot, leaves the
\* record exact.
LEMMA PollingStays ==
  ASSUME MachineInv, MachineInv', Onward, SensorInv, PollingInv, native' = "none",
         native = "none", UNCHANGED <<known, recorded, traces, inHand>>,
         poll'.snapshot \subseteq poll.snapshot
  PROVE  PollingInv'
<1>1. /\ poll.snapshot \subseteq Started /\ Started \subseteq Started'
      /\ \A p \in Started : PidOf(p)' = PidOf(p) /\ processes'[p] = processes[p]
      /\ Started' = 1..Len(processes') /\ Started = 1..Len(processes)
      /\ Len(processes) \in Nat /\ Len(processes') \in Nat
  BY StartedGrows, MachineTypes DEF Onward, SensorInv, WatchInv, SnapshotInv, PidOf, Started
<1>2. \A i \in 1..Len(recorded) : recorded[i].process \in Started
  BY DEF SensorInv, WatchInv, RecordInv
<1>3. SnapshotExact'
  <2>1. \A p \in poll'.snapshot : known[PidOf(p)].process' <= p
    BY <1>1 DEF PollingInv, SnapshotExact
  <2>2. ASSUME NEW h \in poll'.snapshot, NEW p \in poll'.snapshot, NEW r \in Started', h < r, r <= p
        PROVE  PidOf(r)' # PidOf(h)'
    <3>1. p \in Started /\ h \in Started
      BY <1>1
    <3>2. r \in Started
      BY <1>1, <2>2, <3>1
    <3>3. PidOf(r) # PidOf(h)
      BY <2>2, <3>2 DEF PollingInv, SnapshotExact
    <3> QED  BY <1>1, <3>1, <3>2, <3>3
  <2>3. \A p \in poll'.snapshot : StartedIn(recorded, p) => known[PidOf(p)].process' = p
    BY <1>1 DEF PollingInv, SnapshotExact
  <2> QED  BY <2>1, <2>2, <2>3 DEF SnapshotExact
<1>4. ASSUME NEW p \in running', StartedIn(recorded, p) PROVE known[PidOf(p)].process' = p
  <2>1. p \in Started
    BY <1>2, <1>4 DEF StartedIn
  <2>2. p \in running
    BY <1>4, <2>1 DEF Onward
  <2> QED  BY <1>1, <1>4, <2>1, <2>2 DEF PollingInv
<1>5. ExactList(processes', recorded)
  <2>1. ASSUME NEW i \in 1..Len(recorded) PROVE ExactRecord(processes', recorded[i])
    <3>1. PICK p \in Started : p = recorded[i].process
      BY <1>2
    <3>2. processes'[p] = processes[p] /\ ExactRecord(processes, recorded[i])
      BY <1>1 DEF PollingInv, ExactList
    <3> QED  BY <3>1, <3>2 DEF ExactRecord
  <2> QED  BY <2>1 DEF PollingInv, ExactList
<1> QED  BY <1>3, <1>4, <1>5 DEF PollingInv

LEMMA SnapshotIsExact ==
  ASSUME SensorInv, PollingInv, native = "none", TakeSnapshot
  PROVE  PollingInv'
<1>1. /\ MachineInv /\ KnownInv /\ UNCHANGED <<hostVars, known, native, traces, inHand, recorded>>
      /\ poll'.snapshot = running
  BY DEF SensorInv, WatchInv, TakeSnapshot, SnapshotInv
<1>2. /\ running \subseteq Started /\ Started \subseteq Process /\ Process \subseteq Nat \ {0}
      /\ \A p \in Started : PidOf(p) \in Pids
  BY <1>1, MachineTypes, Numbers
<1>3. ASSUME NEW p \in running PROVE known[PidOf(p)].process <= p
  <2>1. CASE known[PidOf(p)] = Unknown
    BY <1>2, <2>1 DEF Unknown
  <2>2. CASE known[PidOf(p)] # Unknown
    <3>1. PICK q \in Started : q = known[PidOf(p)].process /\ PidOf(q) = PidOf(p)
      BY <1>1, <1>2, <2>2, KnownTypes
    <3>2. ~(p < q)
      BY <1>1, <1>2, <3>1 DEF MachineInv
    <3> QED  BY <1>2, <3>1, <3>2
  <2> QED  BY <2>1, <2>2
<1>4. ASSUME NEW h \in running, NEW p \in running, NEW r \in Started, h < r, r <= p
      PROVE  PidOf(r) # PidOf(h)
  BY <1>1, <1>2, <1>4 DEF MachineInv
<1>5. SnapshotExact'
  BY <1>1, <1>3, <1>4 DEF SnapshotExact, PollingInv, hostVars, PidOf, Started
<1> QED  BY <1>1, <1>5 DEF PollingInv, hostVars, PidOf

\* A poll that records a start, and before it an end.
LEMMA SpawnIsExact ==
  ASSUME SensorInv, PollingInv, native = "none", NEW p \in poll.todo, PollSpawn(p)
  PROVE  PollingInv'
<1>1. /\ MachineInv /\ KnownInv /\ SnapshotInv /\ RecordInv /\ GraphInv
      /\ UNCHANGED <<hostVars, native, traces, inHand>> /\ UNCHANGED poll.snapshot
      /\ SnapshotExact /\ ExactList(processes, recorded) /\ recorded \in Seq(Record)
  BY DEF SensorInv, WatchInv, PollSpawn, SnapshotInv, PollingInv, RecordInv, Consistent
<1>2. /\ p \in poll.snapshot /\ p \in Started /\ p \in Process /\ p \in Nat \ {0}
      /\ PidOf(p) \in Pids /\ poll.snapshot \subseteq Started /\ running \subseteq Started
      /\ Started \subseteq Nat \ {0} /\ \A q \in Started : PidOf(q) \in Pids
  BY <1>1, MachineTypes, Numbers DEF SnapshotInv
<1>3. PICK parent : parent = ParentOf(p, Holder(poll.snapshot, Ppid(p)))
  OBVIOUS
<1>4. PICK pid \in Pids : pid = PidOf(p)
  BY <1>2
<1>5. CASE UNCHANGED <<known, recorded>>
  BY <1>1, <1>5, StillMachine, PollingStays
<1>6. CASE /\ known[pid] # Read(p)
           /\ recorded' = recorded \o EndOf(known[pid]) \o <<Start(Read(p), parent)>>
           /\ known' = [known EXCEPT ![pid] = Read(p)]
  <2>1. PICK start : start = Start(Read(p), parent)
    OBVIOUS
  <2>2. /\ start \in Record /\ start.kind = "start" /\ start.process = p
        /\ ExactRecord(processes, start)
    <3>1. parent \in {NoParent, processes[p].parent}
      BY <1>1, <1>2, <1>3, ParentFound
    <3>2. processes[p].parent \in Nat /\ NoParent \in Nat
      <4>1. processes[p].parent \in Process \cup {NoParent} /\ Process \subseteq Nat
        BY <1>1, <1>2, MachineTypes, Numbers
      <4>2. NoParent \in Nat
        BY DEF NoParent
      <4> QED  BY <4>1, <4>2
    <3>3. FALSE \in BOOLEAN /\ parent \in Nat
      BY <3>1, <3>2
    <3> QED  BY <1>2, <2>1, <3>1, <3>3 DEF Start, Read, Record, ExactRecord
  <2>3. ~StartedIn(recorded, p)
    <3>1. ASSUME known[pid].process = p PROVE FALSE
      <4>1. known[pid] # Unknown
        BY <1>2, <3>1 DEF Unknown
      <4>2. known[pid] \in Info /\ known[pid].by = "psutil"
        BY <1>1, <4>1, KnownTypes DEF PollingInv
      <4> QED  BY <1>6, <3>1, <4>2 DEF Info, Read
    <3> QED  BY <1>1, <1>2, <1>4, <3>1 DEF SnapshotExact
  \* Two of the snapshot have two pids.
  <2>4. ASSUME NEW q \in poll.snapshot, PidOf(q) = pid PROVE q = p
    <3>1. q \in Started /\ q \in Nat /\ p \in Nat
      BY <1>2
    <3>2. ~(q < p /\ p <= p) /\ ~(p < q /\ q <= q)
      BY <1>1, <1>2, <1>4, <2>4, <3>1 DEF SnapshotExact
    <3> QED  BY <3>1, <3>2
  <2>5. /\ known'[pid] = Read(p) /\ \A other \in Pids \ {pid} : known'[other] = known[other]
    BY <1>1, <1>6 DEF KnownInv
  <2>6. PICK before :
          /\ before \in Seq(Record) /\ ExactList(processes, before)
          /\ recorded' = Append(before, start)
          /\ \A q : StartedIn(before, q) <=> StartedIn(recorded, q)
    <3>1. CASE known[pid] = Unknown
      <4>1. recorded' = recorded \o <<start>>
        BY <1>1, <1>6, <2>1, <3>1, ConcatEmptySeq DEF EndOf
      <4>2. recorded' = Append(recorded, start)
        BY <1>1, <2>2, <4>1, AppendIsConcat
      <4> QED  BY <1>1, <4>2
    <3>2. CASE known[pid] # Unknown
      <4>1. PICK end, list : end = End(known[pid]) /\ list = Append(recorded, end)
        OBVIOUS
      <4>2. PICK h \in Started : h = known[pid].process /\ PidOf(h) = pid
        BY <1>1, <3>2, KnownTypes
      <4>3. h \notin running
        <5>1. h <= p
          BY <1>1, <1>2, <1>4, <4>2 DEF SnapshotExact
        <5>2. h # p
          <6>1. known[pid] \in Info /\ known[pid].by = "psutil"
            BY <1>1, <3>2, KnownTypes DEF PollingInv
          <6> QED  BY <1>6, <4>2, <6>1 DEF Info, Read
        <5>3. h < p
          BY <1>2, <5>1, <5>2
        <5> QED  BY <1>1, <1>2, <1>4, <4>2, <5>3 DEF MachineInv
      <4>4. end \in Record /\ end.kind = "end" /\ ExactRecord(processes, end)
        <5>1. end \in Record
          BY <1>1, <3>2, <4>1, <4>2, <4>3, AddEnd DEF EndTrue
        <5>2. end.kind = "end" /\ end.over
          BY <4>1, <4>2, <4>3 DEF End
        <5> QED  BY <5>1, <5>2 DEF ExactRecord
      <4>5. /\ ExactList(processes, list)
            /\ \A q : StartedIn(list, q) <=> StartedIn(recorded, q)
        BY <1>1, <4>1, <4>4, AppendExact
      <4>6. list \in Seq(Record) /\ list = recorded \o <<end>>
        BY <1>1, <4>1, <4>4, AppendProperties, AppendIsConcat
      <4>7. recorded' = list \o <<start>>
        BY <1>6, <2>1, <3>2, <4>1, <4>6 DEF EndOf
      <4>8. recorded' = Append(list, start)
        BY <2>2, <4>6, <4>7, AppendIsConcat
      <4> QED  BY <4>5, <4>6, <4>8
    <3> QED  BY <3>1, <3>2
  <2>7. /\ ExactList(processes, recorded')
        /\ \A q : StartedIn(recorded', q) <=> StartedIn(recorded, q) \/ q = p
    BY <2>2, <2>3, <2>6, AppendExact
  <2>8. \A other \in Pids : known'[other].by = "psutil"
    BY <2>5 DEF PollingInv, Read
  <2>9. SnapshotExact'
    <3>1. ASSUME NEW q \in poll.snapshot
          PROVE  /\ known'[PidOf(q)].process <= q
                 /\ StartedIn(recorded', q) => known'[PidOf(q)].process = q
      <4>1. CASE PidOf(q) = pid
        BY <1>2, <2>4, <2>5, <4>1 DEF Read
      <4>2. CASE PidOf(q) # pid
        <5>1. known'[PidOf(q)] = known[PidOf(q)] /\ q # p
          BY <1>2, <1>4, <2>5, <4>2
        <5> QED  BY <1>1, <2>7, <5>1 DEF SnapshotExact
      <4> QED  BY <4>1, <4>2
    <3> QED  BY <1>1, <3>1 DEF SnapshotExact, hostVars, PidOf, Started
  <2>10. ASSUME NEW q \in running, StartedIn(recorded', q) PROVE known'[PidOf(q)].process = q
    <3>1. CASE q = p
      BY <1>4, <2>5, <3>1 DEF Read
    <3>2. CASE q # p
      <4>1. StartedIn(recorded, q) /\ known[PidOf(q)].process = q /\ q # 0
        BY <1>2, <2>7, <2>10, <3>2 DEF PollingInv
      <4>2. CASE PidOf(q) # pid
        BY <1>2, <2>5, <4>1, <4>2
      \* It holds the pid of p and runs, so it is not older; nor is it younger,
      \* because it is known, and p was running in the snapshot.
      <4>3. CASE PidOf(q) = pid
        <5>1. ~(q < p)
          BY <1>1, <1>2, <1>4, <4>3 DEF MachineInv
        <5>2. q <= p
          BY <1>1, <1>2, <1>4, <4>1, <4>3 DEF SnapshotExact
        <5> QED  BY <1>2, <3>2, <5>1, <5>2
      <4> QED  BY <4>2, <4>3
    <3> QED  BY <3>1, <3>2
  <2> QED  BY <1>1, <2>7, <2>8, <2>9, <2>10 DEF PollingInv, hostVars, PidOf
<1>7. UNCHANGED <<known, recorded>> \/
      /\ known[pid] # Read(p)
      /\ recorded' = recorded \o EndOf(known[pid]) \o <<Start(Read(p), parent)>>
      /\ known' = [known EXCEPT ![pid] = Read(p)]
  <2>1. EmitSpawn(Read(p), Holder(poll.snapshot, Ppid(p))) /\ Read(p).process = p
    BY DEF PollSpawn, Read
  <2> QED  BY <1>3, <1>4, <2>1 DEF EmitSpawn, SameProcess
<1> QED  BY <1>5, <1>6, <1>7

LEMMA EndIsExact ==
  ASSUME SensorInv, PollingInv, native = "none", NEW pid \in Gone, PollEnd(pid)
  PROVE  PollingInv'
<1>1. /\ MachineInv /\ KnownInv /\ SnapshotInv /\ RecordInv /\ GraphInv
      /\ UNCHANGED <<hostVars, native, traces, inHand, poll>> /\ poll.pc = "locked"
      /\ SnapshotExact /\ ExactList(processes, recorded) /\ recorded \in Seq(Record)
      /\ pid \in Pids /\ known[pid] # Unknown
  BY DEF SensorInv, WatchInv, PollEnd, PollingInv, RecordInv, Consistent, Gone
<1>2. known[pid].process \notin running
  BY <1>1, GoneIsOver
<1>3. PICK end : end = End(known[pid])
  OBVIOUS
<1>4. /\ end \in Record /\ end.kind = "end" /\ ExactRecord(processes, end)
  <2>1. end \in Record
    BY <1>1, <1>2, <1>3, AddEnd DEF EndTrue
  <2>2. end.kind = "end" /\ end.over
    BY <1>2, <1>3 DEF End
  <2> QED  BY <2>1, <2>2 DEF ExactRecord
<1>5. recorded' = Append(recorded, end) /\ known' = [known EXCEPT ![pid] = Unknown]
  BY <1>3 DEF PollEnd
<1>6. /\ ExactList(processes, recorded')
      /\ \A q : StartedIn(recorded', q) <=> StartedIn(recorded, q)
  BY <1>1, <1>4, <1>5, AppendExact
<1>7. /\ known'[pid] = Unknown /\ \A other \in Pids \ {pid} : known'[other] = known[other]
  BY <1>1, <1>5 DEF KnownInv
<1>8. \A other \in Pids : known'[other].by = "psutil"
  BY <1>7 DEF PollingInv, Unknown
<1>9. /\ poll.snapshot \subseteq Started /\ running \subseteq Started
      /\ Started \subseteq Nat \ {0} /\ \A q \in Started : PidOf(q) \in Pids
  BY <1>1, MachineTypes, Numbers DEF SnapshotInv
<1>10. \A q \in poll.snapshot : PidOf(q) # pid
  <2>1. Holder(poll.snapshot, pid) = 0
    BY <1>1, KnownTypes DEF Gone, Missing
  <2> QED  BY <1>9, <2>1, HolderFound
<1>11. SnapshotExact'
  <2>1. ASSUME NEW q \in poll.snapshot
        PROVE  /\ known'[PidOf(q)].process <= q
               /\ StartedIn(recorded', q) => known'[PidOf(q)].process = q
    <3>1. known'[PidOf(q)] = known[PidOf(q)]
      BY <1>7, <1>9, <1>10
    <3> QED  BY <1>1, <1>6, <3>1 DEF SnapshotExact
  <2> QED  BY <1>1, <2>1 DEF SnapshotExact, hostVars, PidOf, Started
<1>12. ASSUME NEW q \in running, StartedIn(recorded', q) PROVE known'[PidOf(q)].process = q
  <2>1. known[PidOf(q)].process = q
    BY <1>6, <1>12 DEF PollingInv
  <2>2. PidOf(q) # pid
    BY <1>2, <2>1
  <2> QED  BY <1>7, <1>9, <2>1, <2>2
<1> QED  BY <1>1, <1>6, <1>8, <1>11, <1>12 DEF PollingInv, hostVars, PidOf

LEMMA PollingKeeps ==
  ASSUME SensorInv, PollingInv, Next
  PROVE  PollingInv'
<1>1. MachineInv /\ MachineInv' /\ Onward /\ setup \in Setups
  BY MachineKeeps DEF SensorInv
<1>2. ASSUME native # "none" PROVE native' # "none"
  <2>1. CASE MachineStep
    BY <1>1, <1>2, <2>1, MachineCases
    DEF MachineStarts, MachineEnds, MachineConnects, WatchedStart, WatchedEnd, watcherVars
  <2>2. CASE PollStep
    BY <1>2, <2>2 DEF PollStep, PollStart, TakeSnapshot, PollLock, PollDone, PollSpawn, PollEnd
  <2>3. CASE NativeActive \/ NativeFails \/ NativeStep
    BY <1>2, <2>3 DEF NativeActive, NativeFails, NativeStep, ReadTraced, ReadParent, OnNative
  <2>4. CASE NetworkStep
    BY <1>2, <2>4 DEF NetworkStep, watcherVars
  <2> QED  BY <2>1, <2>2, <2>3, <2>4 DEF Next, ProcessStep
<1>3. CASE native = "none"
  <2>1. traces = <<>> /\ inHand.pc = "none"
    BY <1>3 DEF PollingInv
  <2>2. CASE PollStep
    <3>1. CASE PollStart \/ PollDone
      <4>1. poll'.snapshot = {}
        <5>1. CASE PollStart
          BY <5>1 DEF PollStart, Idle
        <5>2. CASE PollDone
          BY <5>2 DEF PollDone, Idle
        <5> QED  BY <3>1, <5>1, <5>2
      <4>2. poll'.snapshot \subseteq poll.snapshot
        BY <4>1
      <4>3. UNCHANGED <<known, recorded, traces, inHand, native>>
        BY <3>1 DEF PollStart, PollDone
      <4> QED  BY <1>1, <1>3, <4>2, <4>3, PollingStays
    <3>2. CASE PollLock
      <4>1. poll'.snapshot = poll.snapshot /\ UNCHANGED <<known, recorded, traces, inHand, native>>
        BY <3>2 DEF PollLock, SensorInv, WatchInv, SnapshotInv
      <4> QED  BY <1>1, <1>3, <4>1, PollingStays
    <3> QED  BY <1>3, <2>2, <3>1, <3>2, SnapshotIsExact, SpawnIsExact, EndIsExact DEF PollStep
  <2>3. CASE NativeActive \/ NativeFails \/ NativeStep
    BY <1>3, <2>1, <2>3 DEF NativeActive, NativeFails, NativeStep, ReadTraced, ReadParent, OnNative, NoTrace
  <2>4. CASE UNCHANGED watcherVars
    BY <1>1, <1>3, <2>4, PollingStays DEF watcherVars
  <2>5. CASE MachineStarts
    <3>1. UNCHANGED <<known, poll, native, inHand, recorded, traces>>
      BY <1>3, <2>5 DEF MachineStarts, WatchedStart
    <3> QED  BY <1>1, <1>3, <3>1, PollingStays
  <2> QED
    BY <1>1, <2>2, <2>3, <2>4, <2>5, MachineCases
    DEF Next, ProcessStep, NetworkStep, MachineEnds, WatchedEnd, MachineConnects
<1> QED  BY <1>2, <1>3 DEF PollingInv

LEMMA PollingInitially == ASSUME Init PROVE PollingInv
<1>1. /\ known = [pid \in Pids |->
           LET p == Holder(running, pid) IN IF p = 0 THEN Unknown ELSE Read(p)]
      /\ poll = Idle /\ traces = <<>> /\ inHand = NoTrace /\ recorded = <<>>
  BY DEF Init, WatcherInit
<1>2. \A pid \in Pids : known[pid].by = "psutil"
  BY <1>1 DEF Unknown, Read
<1>3. \A p : ~StartedIn(recorded, p)
  BY <1>1 DEF StartedIn
<1>4. ExactList(processes, recorded)
  BY <1>1 DEF ExactList
<1>5. SnapshotExact
  BY <1>1 DEF SnapshotExact, Idle
<1> QED  BY <1>1, <1>2, <1>3, <1>4, <1>5 DEF PollingInv, NoTrace

LEMMA ExactMeans == ASSUME SensorInv, PollingInv PROVE PollingIsExact
<1> SUFFICES ASSUME native = "none"
             PROVE  /\ \A p \in DOMAIN processes : Cardinality(Starts(p)) <= 1
                    /\ \A i \in DOMAIN recorded :
                         IF recorded[i].kind = "start"
                         THEN recorded[i].parent \in {NoParent, processes[recorded[i].process].parent}
                         ELSE recorded[i].over
  BY DEF PollingIsExact
<1>1. /\ ExactList(processes, recorded) /\ recorded \in Seq(Record)
      /\ DOMAIN recorded = 1..Len(recorded)
  BY DEF PollingInv, SensorInv, WatchInv, RecordInv, Consistent
<1>2. ASSUME NEW p PROVE Cardinality(Starts(p)) <= 1
  <2>1. CASE Starts(p) = {}
    BY <2>1, FS_EmptySet
  <2>2. CASE Starts(p) # {}
    <3>1. PICK i : i \in Starts(p)
      BY <2>2
    <3>2. \A j \in Starts(p) : j = i
      BY <1>1, <3>1 DEF Starts, ExactList
    <3>3. Starts(p) = {i}
      BY <3>1, <3>2
    <3> QED  BY <3>3, FS_Singleton
  <2> QED  BY <2>1, <2>2
<1>3. \A i \in DOMAIN recorded :
        IF recorded[i].kind = "start"
        THEN recorded[i].parent \in {NoParent, processes[recorded[i].process].parent}
        ELSE recorded[i].over
  BY <1>1 DEF ExactList, ExactRecord
<1> QED  BY <1>2, <1>3

\* Without WMI the record is exact: one start of a process at most, with its true
\* parent or none, and ends only of those that are over
\* (process_watcher.py:136-151,187-190).
THEOREM PollingRecordsExactly == Spec => []PollingIsExact
<1>1. Init => PollingInv
  BY PollingInitially
<1>2. SensorInv /\ PollingInv /\ [Next]_vars => PollingInv'
  <2>1. ASSUME SensorInv, PollingInv, UNCHANGED vars PROVE PollingInv'
    <3>1. UNCHANGED <<hostVars, known, recorded, traces, inHand, native, poll>>
      BY <2>1 DEF vars, watcherVars
    <3>2. MachineInv /\ MachineInv' /\ Onward
      BY <2>1, <3>1, StillMachine DEF SensorInv
    <3>3. CASE native = "none"
      BY <2>1, <3>1, <3>2, <3>3, PollingStays
    <3>4. CASE native # "none"
      BY <3>1, <3>4 DEF PollingInv
    <3> QED  BY <3>3, <3>4
  <2> QED  BY <2>1, PollingKeeps
<1>3. SensorInv /\ PollingInv => PollingIsExact
  BY ExactMeans
<1> QED  BY <1>1, <1>2, <1>3, SensorAlways, PTL DEF Spec

-----------------------------------------------------------------------------
(* What the network sensor keeps.                                            *)

OwnerOf(s) == sockets[s].owner
TrueIdentity(s) == <<PidOf(OwnerOf(s)), OwnerOf(s), sockets[s].port>>

Contact == [at : Nat, socket : Nat]
Holds(history, s) == \E i \in 1..Len(history) : history[i].socket = s

\* A history of contacts is one of different connections of one pid and, but for
\* the first, of the process of its key.
GoodHistory(key, history) ==
  /\ history \in Seq(Contact) /\ Len(history) \in 1..MaxSamples
  /\ \A i \in 1..Len(history) :
       history[i].socket \in Opened /\ PidOf(OwnerOf(history[i].socket)) = key[1]
  /\ \A i, j \in 1..Len(history) : history[i].socket = history[j].socket => i = j
  /\ key[2] # 0 => \A i \in 2..Len(history) : OwnerOf(history[i].socket) = key[2]

GoodKey(key) ==
  /\ key \in Pids \X (Process \cup {0})
  /\ key[2] # 0 => key[2] \in Started /\ PidOf(key[2]) = key[1]

GoodAlert(alert) ==
  /\ \E n \in Nat : n >= MinSamples /\ DOMAIN alert.sockets = 1..n /\ Len(alert.sockets) = n
  /\ \A i \in DOMAIN alert.sockets : alert.sockets[i] \in Opened
  /\ \A i, j \in DOMAIN alert.sockets : alert.sockets[i] = alert.sockets[j] => i = j
  /\ alert.key[2] # 0 => \A i \in DOMAIN alert.sockets :
       i = 1 \/ OwnerOf(alert.sockets[i]) = alert.key[2]

ContactsInv ==
  /\ \A key \in DOMAIN contacts : GoodKey(key) /\ GoodHistory(key, contacts[key])
  /\ Cardinality(DOMAIN contacts) <= MaxContacts
  /\ DOMAIN alertedAt \subseteq DOMAIN contacts
  /\ \A alert \in alerts : GoodAlert(alert)
  /\ polledAt \in 0..MaxTime

\* A connection that is still open, or that the sample is about.
Live(s) == s \in established \/ s \in netPoll.listed \/ \E o \in netPoll.observed : o.socket = s

\* Of an open connection the sensor reads the true owner, and goes on to see it.
SampleInv ==
  /\ netPoll \in [pc : {"idle", "owners"}, listed : SUBSET (1..MaxSockets), observed : SUBSET Observation]
  /\ netPoll.pc = "idle" => netPoll.listed = {} /\ netPoll.observed = {}
  /\ netPoll.listed \subseteq Opened
  /\ \A o \in netPoll.observed :
       /\ o.socket \in Opened
       /\ o.owner # 0 => o.owner \in Started /\ PidOf(o.owner) = OwnerPid(o)
       /\ o.socket \in established => o.owner = OwnerOf(o.socket)
  /\ active \subseteq Pids \X (Process \cup {0}) \X Ports

\* A connection in a history is known for what it is as long as it is open, and
\* is no more if it was taken for one of another process.
SeenInv ==
  \A key \in DOMAIN contacts, s \in Opened : Holds(contacts[key], s) /\ Live(s) =>
    /\ TrueIdentity(s) \in active /\ key[2] = OwnerOf(s)
    /\ s \in established /\ netPoll.pc = "owners" =>
         s \in netPoll.listed \/ \E o \in netPoll.observed : o.socket = s /\ o.owner = OwnerOf(s)

\* One that took over the pid of a connection's owner during the sample has no
\* history yet.
TakenInv ==
  /\ \A o \in netPoll.observed :
       o.owner # 0 /\ o.owner # OwnerOf(o.socket) => Key(o) \notin DOMAIN contacts
  /\ \A s \in netPoll.listed, x \in Process :
       x # OwnerOf(s) /\ <<PidOf(OwnerOf(s)), x>> \in DOMAIN contacts => x \notin running

NetworkInv == ContactsInv /\ SampleInv /\ SeenInv /\ TakenInv

\* What a new contact makes of a history: it goes to the end, and the first d of
\* the others leave.
Lengthened(history, n, new, r) ==
  \E d \in 0..n :
    /\ r \in Seq(Contact) /\ Len(r) = n - d + 1 /\ Len(r) <= MaxSamples
    /\ \A i \in 1..(n - d) : r[i] = history[i + d]
    /\ r[n - d + 1] = new

LEMMA ExtendedShape ==
  ASSUME NEW key, NEW s \in Nat, NEW now \in Nat, HistoryOf(key) \in Seq(Contact),
         NEW n \in Nat, n = Len(HistoryOf(key)), n <= MaxSamples
  PROVE  Lengthened(HistoryOf(key), n, [at |-> now, socket |-> s], Extended(key, s, now))
<1>1. PICK history \in Seq(Contact) : history = HistoryOf(key) /\ n = Len(history)
  OBVIOUS
<1>2. PICK r : r = Extended(key, s, now)
  OBVIOUS
<1>3. PICK first : first = Min({i \in 1..(n + 1) : i <= n => now - history[i].at <= Hour})
  OBVIOUS
<1>4. first \in 1..(n + 1)
  <2> DEFINE S == {i \in 1..(n + 1) : i <= n => now - history[i].at <= Hour}
  <2>1. S \in SUBSET Nat /\ n + 1 \in S
    OBVIOUS
  <2>2. Min(S) \in S
    BY <2>1, MinIsLeast
  <2> QED  BY <1>3, <2>2
<1>5. PICK new : new = [at |-> now, socket |-> s]
  OBVIOUS
<1>6. PICK recent, all : recent = SubSeq(history, first, n) /\ all = Append(recent, new)
  OBVIOUS
<1>7. /\ recent \in Seq(Contact) /\ Len(recent) = n - first + 1
      /\ \A i \in 1..(n - first + 1) : recent[i] = history[first + i - 1]
  <2>1. \A i \in first..n : history[i] \in Contact
    BY <1>1, <1>4, ElementOfSeq
  <2>2. /\ recent \in Seq(Contact) /\ Len(recent) = IF first <= n THEN n - first + 1 ELSE 0
        /\ \A i \in 1..(n - first + 1) : recent[i] = history[first + i - 1]
    BY <1>4, <1>6, <2>1, SubSeqProperties
  <2> QED  BY <1>4, <2>2
<1>8. new \in Contact
  BY <1>5 DEF Contact
<1>9. /\ all \in Seq(Contact) /\ Len(all) = n - first + 2 /\ all[n - first + 2] = new
      /\ \A i \in 1..(n - first + 1) : all[i] = recent[i]
  <2>1. /\ all \in Seq(Contact) /\ Len(all) = Len(recent) + 1 /\ all[Len(recent) + 1] = new
        /\ \A i \in 1..Len(recent) : all[i] = recent[i]
    BY <1>6, <1>7, <1>8, AppendProperties
  <2> QED  BY <1>4, <1>7, <2>1
<1>10. r = IF Len(all) > MaxSamples THEN Tail(all) ELSE all
  BY <1>1, <1>2, <1>3, <1>5, <1>6 DEF Extended
<1>12. SUFFICES \E d \in 0..n :
                  /\ r \in Seq(Contact) /\ Len(r) = n - d + 1 /\ Len(r) <= MaxSamples
                  /\ \A i \in 1..(n - d) : r[i] = history[i + d]
                  /\ r[n - d + 1] = new
  BY <1>1, <1>2, <1>5 DEF Lengthened
<1>13. CASE Len(all) <= MaxSamples
  <2>1. r = all
    BY <1>9, <1>10, <1>13, NetworkAssumption
  <2>2. first - 1 \in 0..n /\ n - (first - 1) = n - first + 1
    BY <1>4
  <2>3. ASSUME NEW i \in 1..(n - (first - 1)) PROVE r[i] = history[i + (first - 1)]
    <3>1. i \in 1..(n - first + 1) /\ first + i - 1 = i + (first - 1)
      BY <1>4
    <3>2. r[i] = recent[i] /\ recent[i] = history[first + i - 1]
      BY <1>7, <1>9, <2>1, <3>1
    <3> QED  BY <3>1, <3>2
  <2>4. Len(r) = n - (first - 1) + 1 /\ r[n - (first - 1) + 1] = new
    BY <1>4, <1>9, <2>1
  <2> QED  BY <1>9, <1>13, <2>1, <2>2, <2>3, <2>4
<1>14. CASE Len(all) > MaxSamples
  <2>1. r = Tail(all) /\ all # <<>>
    BY <1>4, <1>9, <1>10, <1>14
  <2>2. /\ r \in Seq(Contact) /\ Len(r) = n - first + 1
        /\ \A i \in 1..Len(r) : r[i] = all[i + 1]
    <3>1. /\ r \in Seq(Contact) /\ Len(r) = Len(all) - 1
          /\ \A i \in 1..Len(r) : r[i] = all[i + 1]
      BY <1>9, <2>1, HeadTailProperties
    <3>2. Len(r) = n - first + 1
      BY <1>4, <1>9, <3>1
    <3> QED  BY <3>1, <3>2
  <2>3. n <= MaxSamples /\ MaxSamples \in Nat /\ MaxSamples >= 1
    BY NetworkAssumption
  <2>4. first = 1 /\ Len(r) = n /\ n >= 1
    BY <1>4, <1>9, <1>14, <2>2, <2>3
  <2>5. \A i \in 1..(n - 1) : r[i] = history[i + 1]
    <3>1. ASSUME NEW i \in 1..(n - 1) PROVE r[i] = history[i + 1]
      <4>1. i + 1 \in 1..(n - first + 1) /\ i \in 1..Len(r)
        BY <2>4
      <4>2. r[i] = all[i + 1] /\ all[i + 1] = recent[i + 1] /\ recent[i + 1] = history[first + (i + 1) - 1]
        BY <1>7, <1>9, <2>2, <4>1
      <4> QED  BY <2>4, <4>2
    <3> QED  BY <3>1
  <2>6. r[n] = new
    BY <1>9, <2>2, <2>4
  <2>7. 1 \in 0..n /\ n - 1 + 1 = n
    BY <2>4
  <2> QED  BY <2>2, <2>3, <2>4, <2>5, <2>6, <2>7
<1> QED  BY <1>9, <1>4, <1>13, <1>14, NetworkAssumption

LEMMA SocketTypes ==
  ASSUME MachineInv, NEW s \in Opened
  PROVE  /\ s \in 1..MaxSockets /\ s \in Nat /\ OwnerOf(s) \in Started /\ OwnerOf(s) # 0
         /\ PidOf(OwnerOf(s)) \in Pids /\ sockets[s].port \in Ports
         /\ TrueIdentity(s) \in Pids \X (Process \cup {0}) \X Ports
         /\ s \in established => OwnerOf(s) \in running
<1>1. s \in 1..MaxSockets /\ s \in Nat /\ sockets[s].port \in Ports
  BY MachineTypes, HostAssumption
<1>2. OwnerOf(s) \in Started /\ (s \in established => OwnerOf(s) \in running)
  BY DEF MachineInv, OwnerOf
<1>3. OwnerOf(s) # 0 /\ OwnerOf(s) \in Process /\ PidOf(OwnerOf(s)) \in Pids
  BY <1>2, MachineTypes, Numbers
<1> QED  BY <1>1, <1>2, <1>3 DEF TrueIdentity

LEMMA PastStays ==
  ASSUME MachineInv, Onward
  PROVE  /\ Started \subseteq Started' /\ Opened \subseteq Opened'
         /\ \A p \in Started : PidOf(p)' = PidOf(p) /\ (p \in running' => p \in running)
         /\ \A s \in Opened : /\ sockets'[s] = sockets[s] /\ (s \in established' => s \in established)
                              /\ OwnerOf(s)' = OwnerOf(s)
                              /\ PidOf(OwnerOf(s))' = PidOf(OwnerOf(s))
                              /\ TrueIdentity(s)' = TrueIdentity(s)
<1>1. /\ Started \subseteq Started' /\ Opened \subseteq Opened'
      /\ \A p \in Started : PidOf(p)' = PidOf(p) /\ (p \in running' => p \in running)
      /\ \A s \in Opened : sockets'[s] = sockets[s] /\ (s \in established' => s \in established)
  <2>1. Opened \subseteq Opened'
    BY MachineTypes DEF Onward, Opened
  <2> QED  BY <2>1, StartedGrows DEF Onward, PidOf
<1>2. ASSUME NEW s \in Opened
      PROVE  /\ OwnerOf(s)' = OwnerOf(s) /\ PidOf(OwnerOf(s))' = PidOf(OwnerOf(s))
             /\ TrueIdentity(s)' = TrueIdentity(s)
  <2>1. PICK p \in Started : p = OwnerOf(s)
    BY SocketTypes
  <2>2. OwnerOf(s)' = p
    BY <1>1, <2>1 DEF OwnerOf
  <2>3. PidOf(OwnerOf(s))' = PidOf(p) /\ PidOf(OwnerOf(s)) = PidOf(p)
    BY <1>1, <2>1, <2>2 DEF PidOf
  <2> QED  BY <1>1, <2>1, <2>2, <2>3 DEF TrueIdentity
<1> QED  BY <1>1, <1>2

\* A history, and an alert made of one, stay good.
LEMMA HistoryStays ==
  ASSUME MachineInv, Onward, NEW key, NEW history, GoodKey(key), GoodHistory(key, history)
  PROVE  GoodKey(key)' /\ GoodHistory(key, history)'
<1>1. GoodKey(key)'
  BY PastStays DEF GoodKey
<1>2. GoodHistory(key, history)'
  BY PastStays DEF GoodHistory
<1> QED  BY <1>1, <1>2

LEMMA AlertStays ==
  ASSUME MachineInv, Onward, NEW alert, GoodAlert(alert)
  PROVE  GoodAlert(alert)'
BY PastStays DEF GoodAlert

LEMMA ContactsStay ==
  ASSUME MachineInv, Onward, ContactsInv, UNCHANGED <<polledAt, contacts, alertedAt, alerts>>
  PROVE  ContactsInv'
<1>1. ASSUME NEW key \in DOMAIN contacts PROVE GoodKey(key)' /\ GoodHistory(key, contacts[key])'
  <2>1. PICK history : history = contacts[key]
    OBVIOUS
  <2>2. GoodKey(key)' /\ GoodHistory(key, history)'
    BY <2>1, HistoryStays DEF ContactsInv
  <2> QED  BY <2>1, <2>2 DEF GoodHistory
<1>2. \A alert \in alerts : GoodAlert(alert)'
  BY AlertStays DEF ContactsInv
<1> QED  BY <1>1, <1>2 DEF ContactsInv

LEMMA NetworkStays ==
  ASSUME MachineInv, MachineInv', Onward, NetworkInv, UNCHANGED networkVars
  PROVE  NetworkInv'
<1>1. UNCHANGED <<netPoll, polledAt, active, contacts, alertedAt, alerts>>
  BY DEF networkVars
<1>2. /\ Started \subseteq Started' /\ Opened \subseteq Opened'
      /\ \A p \in Started : PidOf(p)' = PidOf(p) /\ (p \in running' => p \in running)
      /\ \A s \in Opened : sockets'[s] = sockets[s] /\ (s \in established' => s \in established)
  BY PastStays
<1>3. \A s \in Opened : /\ OwnerOf(s)' = OwnerOf(s)
                        /\ PidOf(OwnerOf(s))' = PidOf(OwnerOf(s))
                        /\ TrueIdentity(s)' = TrueIdentity(s)
  BY PastStays
<1>4. ContactsInv'
  BY <1>1, ContactsStay DEF NetworkInv
<1>5. SampleInv'
  <2>1. SampleInv
    BY DEF NetworkInv
  <2>2. ASSUME NEW o \in netPoll.observed
        PROVE  /\ o.socket \in Opened'
               /\ o.owner # 0 => o.owner \in Started' /\ PidOf(o.owner)' = OwnerPid(o)'
               /\ o.socket \in established' => o.owner = OwnerOf(o.socket)'
    <3>1. PICK s \in Opened : s = o.socket
      BY <2>1, <2>2 DEF SampleInv
    <3>2. OwnerPid(o)' = OwnerPid(o)
      BY <1>3, <3>1 DEF OwnerPid, OwnerOf
    <3>3. o.owner # 0 => o.owner \in Started' /\ PidOf(o.owner)' = OwnerPid(o)
      BY <1>2, <2>1, <2>2 DEF SampleInv
    <3>4. s \in established' => o.owner = OwnerOf(s)'
      BY <1>2, <1>3, <2>1, <2>2, <3>1 DEF SampleInv
    <3> QED  BY <1>2, <3>1, <3>2, <3>3, <3>4
  <2>3. netPoll.listed \subseteq Opened'
    BY <1>2, <2>1 DEF SampleInv
  <2> QED  BY <1>1, <2>1, <2>2, <2>3 DEF SampleInv
<1>6. SeenInv'
  <2>1. ASSUME NEW key \in DOMAIN contacts, NEW s \in Opened', Holds(contacts[key], s), Live(s)'
        PROVE  /\ TrueIdentity(s)' \in active /\ key[2] = OwnerOf(s)'
               /\ s \in established' /\ netPoll.pc = "owners" =>
                    \/ s \in netPoll.listed
                    \/ \E o \in netPoll.observed : o.socket = s /\ o.owner = OwnerOf(s)'
    <3>1. s \in Opened
      BY <2>1 DEF Holds, NetworkInv, ContactsInv, GoodHistory
    <3>2. Live(s)
      BY <1>1, <1>2, <2>1, <3>1 DEF Live
    <3> QED  BY <1>2, <1>3, <2>1, <3>1, <3>2 DEF NetworkInv, SeenInv
  <2> QED  BY <1>1, <2>1 DEF SeenInv, Holds
<1>7. TakenInv'
  <2>1. ASSUME NEW o \in netPoll.observed, o.owner # 0, o.owner # OwnerOf(o.socket)'
        PROVE  Key(o)' \notin DOMAIN contacts
    <3>1. o.socket \in Opened
      BY <2>1 DEF NetworkInv, SampleInv
    <3>2. PICK s \in Opened : s = o.socket
      BY <3>1
    <3>3. Key(o)' = Key(o)
      BY <1>3, <3>2 DEF Key, OwnerPid, OwnerOf
    <3>4. o.owner # OwnerOf(o.socket)
      BY <1>3, <2>1, <3>2
    <3> QED  BY <2>1, <3>3, <3>4 DEF NetworkInv, TakenInv
  <2>2. ASSUME NEW s \in netPoll.listed, NEW x \in Process, x # OwnerOf(s)',
               <<PidOf(OwnerOf(s))', x>> \in DOMAIN contacts
        PROVE  x \notin running'
    <3>1. s \in Opened
      BY <2>2 DEF NetworkInv, SampleInv
    <3>2. x # OwnerOf(s) /\ <<PidOf(OwnerOf(s)), x>> \in DOMAIN contacts
      BY <1>3, <2>2, <3>1
    <3>3. x \notin running
      BY <2>2, <3>2 DEF NetworkInv, TakenInv
    <3>4. x \in Started
      <4>1. x # 0
        BY Numbers
      <4> QED  BY <3>2, <4>1 DEF NetworkInv, ContactsInv, GoodKey
    <3> QED  BY <1>2, <3>3, <3>4
  <2> QED  BY <1>1, <2>1, <2>2 DEF TakenInv
<1> QED  BY <1>4, <1>5, <1>6, <1>7 DEF NetworkInv

\* Listing what is open: what has a history is known for what it is.
LEMMA ListingKeeps ==
  ASSUME MachineInv, NetworkInv, ListConnections
  PROVE  NetworkInv'
<1>1. /\ UNCHANGED hostVars /\ UNCHANGED <<polledAt, active, contacts, alertedAt, alerts>>
      /\ netPoll' = [pc |-> "owners", listed |-> established, observed |-> {}]
      /\ netPoll.listed = {} /\ netPoll.observed = {}
      /\ Onward /\ established \subseteq Opened /\ Opened \subseteq 1..MaxSockets
  BY StillMachine, MachineTypes DEF ListConnections, NetworkInv, SampleInv
<1>2. ContactsInv'
  BY <1>1, ContactsStay DEF NetworkInv
<1>3. SampleInv'
  BY <1>1 DEF NetworkInv, SampleInv, hostVars, Opened
<1>4. \A s : Live(s)' => Live(s)
  BY <1>1 DEF Live, hostVars
<1>5. SeenInv'
  <2>1. ASSUME NEW key \in DOMAIN contacts, NEW s \in Opened, Holds(contacts[key], s), Live(s)'
        PROVE  /\ TrueIdentity(s) \in active /\ key[2] = OwnerOf(s)
               /\ s \in established => s \in netPoll'.listed
    BY <1>1, <1>4, <2>1 DEF NetworkInv, SeenInv
  <2> QED  BY <1>1, <2>1 DEF SeenInv, Holds, hostVars, Opened, TrueIdentity, OwnerOf, PidOf
<1>6. TakenInv'
  <2>1. ASSUME NEW s \in established, NEW x \in Process, x # OwnerOf(s),
               <<PidOf(OwnerOf(s)), x>> \in DOMAIN contacts
        PROVE  x \notin running
    <3>1. x # 0
      BY Numbers
    <3>2. PidOf(x) = PidOf(OwnerOf(s))
      BY <2>1, <3>1 DEF NetworkInv, ContactsInv, GoodKey
    <3>3. OwnerOf(s) \in running
      BY <1>1, SocketTypes
    <3> QED  BY <2>1, <3>2, <3>3, RunningApart
  <2> QED  BY <1>1, <2>1 DEF TakenInv, hostVars, OwnerOf, PidOf
<1> QED  BY <1>2, <1>3, <1>5, <1>6 DEF NetworkInv

\* Reading the owner of a connection: the true one as long as it is open.
LEMMA ReadingKeeps ==
  ASSUME MachineInv, NetworkInv, NEW s \in netPoll.listed, ReadOwner(s)
  PROVE  NetworkInv'
<1>1. PICK x : x = Holder(running, PidOf(sockets[s].owner))
  OBVIOUS
<1>2. PICK new : new = [socket |-> s, owner |-> x]
  OBVIOUS
<1>3. /\ UNCHANGED hostVars /\ UNCHANGED <<polledAt, active, contacts, alertedAt, alerts>>
      /\ netPoll.pc = "owners" /\ netPoll'.pc = "owners"
      /\ netPoll'.listed = netPoll.listed \ {s} /\ netPoll'.observed = netPoll.observed \cup {new}
      /\ netPoll' = [pc |-> "owners", listed |-> netPoll.listed \ {s},
                     observed |-> netPoll.observed \cup {new}]
      /\ Onward /\ s \in Opened
  BY <1>1, <1>2, StillMachine DEF ReadOwner, NetworkInv, SampleInv
<1>4. ContactsInv'
  BY <1>3, ContactsStay DEF NetworkInv
<1>5. /\ x \in Process \cup {0} /\ (x # 0 => x \in Started /\ x \in running /\ PidOf(x) = PidOf(OwnerOf(s)))
      /\ s \in established => x = OwnerOf(s)
  <2>1. x # 0 => x \in running /\ PidOf(x) = PidOf(OwnerOf(s))
    BY <1>1, HolderFound DEF OwnerOf
  <2>2. s \in established => x = OwnerOf(s)
    BY <1>1, <1>3, SocketTypes, HolderIs DEF OwnerOf
  <2> QED  BY <2>1, <2>2, MachineTypes
<1>6. new \in Observation /\ new.socket = s /\ new.owner = x
  BY <1>2, <1>3, <1>5, SocketTypes DEF Observation
<1>7. SampleInv'
  <2>1. ASSUME NEW o \in netPoll'.observed
        PROVE  /\ o.socket \in Opened
               /\ o.owner # 0 => o.owner \in Started /\ PidOf(o.owner) = OwnerPid(o)
               /\ o.socket \in established => o.owner = OwnerOf(o.socket)
    <3>1. CASE o \in netPoll.observed
      BY <3>1 DEF NetworkInv, SampleInv
    <3>2. CASE o = new
      BY <1>3, <1>5, <1>6, <3>2 DEF OwnerPid, OwnerOf
    <3> QED  BY <1>3, <3>1, <3>2
  <2>2. netPoll' \in [pc : {"idle", "owners"}, listed : SUBSET (1..MaxSockets), observed : SUBSET Observation]
    BY <1>3, <1>6 DEF NetworkInv, SampleInv
  <2>3. netPoll'.listed \subseteq Opened
    BY <1>3 DEF NetworkInv, SampleInv
  <2>4. active' \subseteq Pids \X (Process \cup {0}) \X Ports
    BY <1>3 DEF NetworkInv, SampleInv
  <2>5. netPoll'.pc # "idle"
    BY <1>3
  <2> QED
    BY <1>3, <2>1, <2>2, <2>3, <2>4, <2>5 DEF SampleInv, hostVars, Opened, Started, OwnerPid, OwnerOf, PidOf
<1>8. \A t : Live(t)' => Live(t)
  BY <1>3, <1>6 DEF Live, hostVars
<1>9. SeenInv'
  <2>1. ASSUME NEW key \in DOMAIN contacts, NEW t \in Opened, Holds(contacts[key], t), Live(t)'
        PROVE  /\ TrueIdentity(t) \in active /\ key[2] = OwnerOf(t)
               /\ t \in established =>
                    \/ t \in netPoll'.listed
                    \/ \E o \in netPoll'.observed : o.socket = t /\ o.owner = OwnerOf(t)
    <3>1. /\ TrueIdentity(t) \in active /\ key[2] = OwnerOf(t)
          /\ t \in established =>
               t \in netPoll.listed \/ \E o \in netPoll.observed : o.socket = t /\ o.owner = OwnerOf(t)
      BY <1>3, <1>8, <2>1 DEF NetworkInv, SeenInv
    <3> QED  BY <1>3, <1>5, <1>6, <3>1
  <2> QED  BY <1>3, <2>1 DEF SeenInv, Holds, hostVars, Opened, TrueIdentity, OwnerOf, PidOf
<1>10. TakenInv'
  <2>1. ASSUME NEW o \in netPoll'.observed, o.owner # 0, o.owner # OwnerOf(o.socket)
        PROVE  Key(o) \notin DOMAIN contacts
    <3>1. CASE o \in netPoll.observed
      BY <2>1, <3>1 DEF NetworkInv, TakenInv
    <3>2. CASE o = new
      <4>1. x \in Process /\ x # OwnerOf(s) /\ x \in running
        BY <1>5, <1>6, <2>1, <3>2
      <4>2. <<PidOf(OwnerOf(s)), x>> \notin DOMAIN contacts
        BY <4>1 DEF NetworkInv, TakenInv
      <4> QED  BY <1>6, <3>2, <4>2 DEF Key, OwnerPid, OwnerOf
    <3> QED  BY <1>3, <3>1, <3>2
  <2>2. \A t \in netPoll'.listed, y \in Process :
          y # OwnerOf(t) /\ <<PidOf(OwnerOf(t)), y>> \in DOMAIN contacts => y \notin running
    BY <1>3 DEF NetworkInv, TakenInv
  <2> QED  BY <1>3, <2>1, <2>2 DEF TakenInv, hostVars, Key, OwnerPid, OwnerOf, PidOf
<1> QED  BY <1>4, <1>7, <1>9, <1>10 DEF NetworkInv

\* What HandleSample works with.
FreshKeys == {Key(o) : o \in New}
SocketFor(key) == Min({o.socket : o \in {x \in New : Key(x) = key}})
HistoriesAt(now) ==
  [key \in DOMAIN contacts \cup FreshKeys |->
     IF key \in FreshKeys THEN Extended(key, SocketFor(key), now) ELSE contacts[key]]
SuspiciousAt(now) == {key \in FreshKeys : Suspicious(key, HistoriesAt(now)[key], now)}

LEMMA ObservedFacts ==
  ASSUME MachineInv, NetworkInv, NEW o \in netPoll.observed
  PROVE  /\ o.socket \in Opened /\ Live(o.socket)
         /\ Identity(o) \in Pids \X (Process \cup {0}) \X Ports
         /\ o.owner = OwnerOf(o.socket) => Identity(o) = TrueIdentity(o.socket)
         /\ GoodKey(Key(o)) /\ Key(o)[1] = PidOf(OwnerOf(o.socket)) /\ Key(o)[2] = o.owner
<1>1. PICK s \in Opened : s = o.socket
  BY DEF NetworkInv, SampleInv
<1>2. PICK x \in Process \cup {0} : x = o.owner
  BY DEF NetworkInv, SampleInv, Observation
<1>3. OwnerPid(o) = PidOf(OwnerOf(s)) /\ OwnerPid(o) \in Pids /\ sockets[s].port \in Ports
  BY <1>1, SocketTypes DEF OwnerPid, OwnerOf
<1>4. x # 0 => x \in Started /\ PidOf(x) = OwnerPid(o)
  BY <1>2 DEF NetworkInv, SampleInv
<1>5. Live(s)
  BY <1>1 DEF Live
<1>6. Identity(o) = <<PidOf(OwnerOf(s)), x, sockets[s].port>>
  BY <1>1, <1>2, <1>3 DEF Identity
<1>7. Key(o) = <<PidOf(OwnerOf(s)), x>>
  BY <1>2, <1>3 DEF Key
<1> QED  BY <1>1, <1>2, <1>3, <1>4, <1>5, <1>6, <1>7 DEF GoodKey, TrueIdentity

LEMMA SocketIsFresh ==
  ASSUME MachineInv, NetworkInv, NEW key \in FreshKeys
  PROVE  \E o \in New : Key(o) = key /\ o.socket = SocketFor(key)
<1> DEFINE S == {o.socket : o \in {x \in New : Key(x) = key}}
<1>1. S # {}
  BY DEF FreshKeys
<1>2. S \in SUBSET Nat
  <2>1. \A o \in New : o.socket \in Nat
    BY ObservedFacts, SocketTypes DEF New
  <2> QED  BY <2>1
<1>3. SocketFor(key) \in S
  <2>1. SocketFor(key) = Min(S)
    BY DEF SocketFor
  <2> HIDE DEF S
  <2> QED  BY <1>1, <1>2, <2>1, MinIsLeast
<1> QED  BY <1>3

\* A history that a new connection extends is good again.
LEMMA ExtendedIsGood ==
  ASSUME MachineInv, NetworkInv, NEW key \in FreshKeys, NEW now \in Nat
  PROVE  /\ GoodKey(key) /\ GoodHistory(key, Extended(key, SocketFor(key), now))
         /\ \A s : Holds(Extended(key, SocketFor(key), now), s) =>
              s = SocketFor(key) \/ (key \in DOMAIN contacts /\ Holds(contacts[key], s))
<1>1. PICK o \in New : Key(o) = key /\ o.socket = SocketFor(key)
  BY SocketIsFresh
<1>2. PICK s \in Opened : s = o.socket
  BY <1>1, ObservedFacts DEF New
<1>3. PICK h : h = HistoryOf(key)
  OBVIOUS
<1>4. /\ GoodKey(key) /\ key[1] = PidOf(OwnerOf(s)) /\ key[2] = o.owner /\ Live(s)
      /\ o.owner = OwnerOf(s) => Identity(o) = TrueIdentity(s)
      /\ Identity(o) \notin active /\ o \in netPoll.observed /\ s \in Nat
  BY <1>1, <1>2, ObservedFacts, SocketTypes DEF New
<1>5. CASE key \notin DOMAIN contacts
  <2>1. h = <<>> /\ h \in Seq(Contact) /\ Len(h) = 0
    BY <1>3, <1>5, EmptySeq DEF HistoryOf
  <2>2. PICK r : r = Extended(key, s, now)
    OBVIOUS
  <2>3. r \in Seq(Contact) /\ Len(r) = 1 /\ r[1] = [at |-> now, socket |-> s] /\ 1 <= MaxSamples
    <3>1. 0 <= MaxSamples
      BY NetworkAssumption
    <3>2. PICK n \in Nat : n = 0
      OBVIOUS
    <3>3. PICK d \in 0..n :
            /\ r \in Seq(Contact) /\ Len(r) = n - d + 1 /\ Len(r) <= MaxSamples
            /\ r[n - d + 1] = [at |-> now, socket |-> s]
      <4>1. HistoryOf(key) \in Seq(Contact) /\ n = Len(HistoryOf(key)) /\ n <= MaxSamples
        BY <1>3, <2>1, <3>1, <3>2
      <4>2. Lengthened(HistoryOf(key), n, [at |-> now, socket |-> s], Extended(key, s, now))
        BY <1>4, <4>1, ExtendedShape
      <4> QED  BY <2>2, <4>2 DEF Lengthened
    <3>4. d = 0
      BY <3>2
    <3> QED  BY <3>2, <3>3, <3>4, NetworkAssumption
  <2>4. \A i \in 1..Len(r) : i = 1
    BY <2>3
  <2>5. r[1].socket = s
    BY <2>3
  <2>6. GoodHistory(key, r)
    BY <1>4, <2>3, <2>4, <2>5, NetworkAssumption DEF GoodHistory
  <2>7. \A t : Holds(r, t) => t = s
    BY <2>4, <2>5 DEF Holds
  <2> QED  BY <1>1, <1>2, <1>4, <2>2, <2>6, <2>7
<1>6. CASE key \in DOMAIN contacts
  <2>1. h = contacts[key] /\ GoodHistory(key, h)
    BY <1>3, <1>6 DEF HistoryOf, NetworkInv, ContactsInv
  <2>2. PICK n \in Nat : n = Len(h)
    BY <2>1, LenProperties DEF GoodHistory
  <2>3. h \in Seq(Contact) /\ n <= MaxSamples
    BY <2>1, <2>2 DEF GoodHistory
  \* The connection is new: in the history it would have been seen as what it is.
  <2>4. ~Holds(h, s)
    <3>1. ASSUME Holds(h, s) PROVE FALSE
      <4>1. TrueIdentity(s) \in active /\ key[2] = OwnerOf(s)
        BY <1>4, <1>6, <2>1, <3>1 DEF NetworkInv, SeenInv
      <4> QED  BY <1>4, <4>1
    <3> QED  BY <3>1
  \* And it is the one of the process of its key, which has a history.
  <2>5. key[2] # 0 => OwnerOf(s) = key[2]
    BY <1>1, <1>2, <1>4, <1>6 DEF NetworkInv, TakenInv
  <2>6. PICK r : r = Extended(key, s, now)
    OBVIOUS
  <2>7. PICK d \in 0..n :
          /\ r \in Seq(Contact) /\ Len(r) = n - d + 1 /\ Len(r) <= MaxSamples
          /\ \A i \in 1..(n - d) : r[i] = h[i + d]
          /\ r[n - d + 1] = [at |-> now, socket |-> s]
    <3>1. HistoryOf(key) \in Seq(Contact) /\ n = Len(HistoryOf(key))
      BY <1>3, <2>2, <2>3
    <3>2. Lengthened(HistoryOf(key), n, [at |-> now, socket |-> s], Extended(key, s, now))
      BY <1>4, <2>3, <3>1, ExtendedShape
    <3> QED  BY <1>3, <2>6, <3>2 DEF Lengthened
  <2>8. PICK m \in 0..n : m = n - d
    BY <2>7
  <2>9. Len(r) = m + 1 /\ r[m + 1].socket = s /\ \A i \in 1..m : i + d \in 1..n /\ r[i] = h[i + d]
    BY <2>7, <2>8
  <2>10. ASSUME NEW i \in 1..(m + 1)
         PROVE  r[i].socket \in Opened /\ PidOf(OwnerOf(r[i].socket)) = key[1]
    <3>1. CASE i \in 1..m
      BY <2>1, <2>2, <2>9, <3>1 DEF GoodHistory
    <3>2. CASE i = m + 1
      BY <1>4, <2>9, <3>2
    <3> QED  BY <3>1, <3>2
  <2>11. ASSUME NEW i \in 1..m PROVE r[i].socket # s
    BY <2>2, <2>4, <2>9, <2>11 DEF Holds
  <2>12. ASSUME NEW i \in 1..(m + 1), NEW j \in 1..(m + 1), r[i].socket = r[j].socket PROVE i = j
    <3>1. CASE i \in 1..m /\ j \in 1..m
      <4>1. h[i + d].socket = h[j + d].socket /\ i + d \in 1..n /\ j + d \in 1..n
        BY <2>9, <2>12, <3>1
      <4>2. i + d = j + d
        BY <2>1, <2>2, <4>1 DEF GoodHistory
      <4> QED  BY <3>1, <4>2
    <3>2. CASE i = m + 1 /\ j \in 1..m
      BY <2>9, <2>11, <2>12, <3>2
    <3>3. CASE i \in 1..m /\ j = m + 1
      BY <2>9, <2>11, <2>12, <3>3
    <3> QED  BY <3>1, <3>2, <3>3
  <2>13. ASSUME key[2] # 0, NEW i \in 2..(m + 1) PROVE OwnerOf(r[i].socket) = key[2]
    <3>1. CASE i \in 1..m
      <4>1. i + d \in 2..n /\ r[i] = h[i + d]
        BY <2>9, <2>13, <3>1
      <4> QED  BY <2>1, <2>2, <2>13, <4>1 DEF GoodHistory
    <3>2. CASE i = m + 1
      BY <2>5, <2>9, <2>13, <3>2
    <3> QED  BY <2>13, <3>1, <3>2
  <2>14. GoodHistory(key, r)
    BY <2>7, <2>9, <2>10, <2>12, <2>13 DEF GoodHistory
  <2>15. ASSUME NEW t, Holds(r, t) PROVE t = s \/ Holds(h, t)
    <3>1. PICK i \in 1..(m + 1) : r[i].socket = t
      BY <2>9, <2>15 DEF Holds
    <3>2. CASE i \in 1..m
      BY <2>2, <2>9, <3>1, <3>2 DEF Holds
    <3>3. CASE i = m + 1
      BY <2>9, <3>1, <3>3
    <3> QED  BY <3>2, <3>3
  <2> QED  BY <1>1, <1>2, <1>4, <1>6, <2>1, <2>6, <2>14, <2>15
<1> QED  BY <1>5, <1>6

LEMMA HistoriesAreGood ==
  ASSUME MachineInv, NetworkInv, NEW now \in Nat, NEW histories, histories = HistoriesAt(now)
  PROVE  /\ DOMAIN histories = DOMAIN contacts \cup FreshKeys
         /\ IsFiniteSet(DOMAIN histories)
         /\ \A key \in DOMAIN histories : GoodKey(key) /\ GoodHistory(key, histories[key])
         /\ \A key \in DOMAIN histories : \A s : Holds(histories[key], s) =>
              \/ key \in FreshKeys /\ s = SocketFor(key)
              \/ key \in DOMAIN contacts /\ Holds(contacts[key], s)
<1>1. DOMAIN histories = DOMAIN contacts \cup FreshKeys
  BY DEF HistoriesAt
<1>2. ASSUME NEW key \in DOMAIN histories
      PROVE  /\ GoodKey(key) /\ GoodHistory(key, histories[key])
             /\ \A s : Holds(histories[key], s) =>
                  \/ key \in FreshKeys /\ s = SocketFor(key)
                  \/ key \in DOMAIN contacts /\ Holds(contacts[key], s)
  <2>1. CASE key \in FreshKeys
    <3>1. histories[key] = Extended(key, SocketFor(key), now)
      BY <1>1, <2>1 DEF HistoriesAt
    <3> QED  BY <2>1, <3>1, ExtendedIsGood
  <2>2. CASE key \notin FreshKeys
    <3>1. key \in DOMAIN contacts /\ histories[key] = contacts[key]
      BY <1>1, <2>2 DEF HistoriesAt
    <3> QED  BY <3>1 DEF NetworkInv, ContactsInv
  <2> QED  BY <2>1, <2>2
<1>3. IsFiniteSet(DOMAIN histories)
  <2>1. IsFiniteSet(Pids) /\ IsFiniteSet(0..MaxProcesses)
    <3>1. MaxPids \in Int /\ 1 \in Int /\ 0 \in Int /\ MaxProcesses \in Int
      BY HostAssumption
    <3> QED  BY <3>1, FS_Interval DEF Pids
  <2>2. IsFiniteSet(Pids \X (0..MaxProcesses))
    BY <2>1, FS_Product
  <2>3. Process \cup {0} \subseteq 0..MaxProcesses
    BY HostAssumption DEF Process
  <2>4. DOMAIN histories \subseteq Pids \X (0..MaxProcesses)
    BY <1>2, <2>3 DEF GoodKey
  <2> QED  BY <2>2, <2>4, FS_Subset
<1> QED  BY <1>1, <1>2, <1>3

\* What follows a sample.
LEMMA HandlingKeeps ==
  ASSUME MachineInv, NetworkInv, NEW now \in (polledAt + 1)..MaxTime, HandleSample(now)
  PROVE  NetworkInv'
<1>1. PICK histories : histories = HistoriesAt(now)
  OBVIOUS
<1>2. PICK suspicious : suspicious = SuspiciousAt(now)
  OBVIOUS
<1>3. /\ netPoll.pc = "owners" /\ netPoll.listed = {}
      /\ UNCHANGED hostVars /\ active' = Seen /\ netPoll' = NetIdle /\ polledAt' = now
      /\ alerts' = alerts \cup
           {[key |-> key, sockets |-> [i \in DOMAIN histories[key] |-> histories[key][i].socket]] :
              key \in suspicious}
  BY <1>1, <1>2 DEF HandleSample, HistoriesAt, SuspiciousAt, FreshKeys, SocketFor
<1>4. PICK keys \in SUBSET DOMAIN histories :
        /\ Kept(histories, keys) /\ contacts' = Restrict(histories, keys)
        /\ alertedAt' = [key \in keys \cap (DOMAIN alertedAt \cup suspicious) |->
                           IF key \in suspicious THEN now ELSE alertedAt[key]]
  <2>1. \E keys \in SUBSET DOMAIN HistoriesAt(now) :
          /\ Kept(HistoriesAt(now), keys) /\ contacts' = Restrict(HistoriesAt(now), keys)
          /\ alertedAt' = [key \in keys \cap (DOMAIN alertedAt \cup SuspiciousAt(now)) |->
                             IF key \in SuspiciousAt(now) THEN now ELSE alertedAt[key]]
    BY DEF HandleSample, HistoriesAt, SuspiciousAt, FreshKeys, SocketFor
  <2> QED  BY <1>1, <1>2, <2>1
<1>5. now \in Nat /\ now <= MaxTime /\ Onward
  <2>1. polledAt \in Nat /\ MaxTime \in Nat
    BY NetworkAssumption DEF NetworkInv, ContactsInv
  <2> QED  BY <1>3, <2>1, StillMachine
<1>6. /\ DOMAIN histories = DOMAIN contacts \cup FreshKeys
      /\ IsFiniteSet(DOMAIN histories)
      /\ \A key \in DOMAIN histories : GoodKey(key) /\ GoodHistory(key, histories[key])
      /\ \A key \in DOMAIN histories : \A s : Holds(histories[key], s) =>
           \/ key \in FreshKeys /\ s = SocketFor(key)
           \/ key \in DOMAIN contacts /\ Holds(contacts[key], s)
  BY <1>1, <1>5, HistoriesAreGood
<1>7. DOMAIN contacts' = keys /\ \A key \in keys : contacts'[key] = histories[key]
  BY <1>4 DEF Restrict
<1>8. Cardinality(keys) <= MaxContacts
  <2>1. PICK n \in Nat : n = Cardinality(DOMAIN histories)
    BY <1>6, FS_CardinalityType
  <2>2. {MaxContacts, n} \in SUBSET Nat /\ {MaxContacts, n} # {} /\ MaxContacts \in {MaxContacts, n}
    BY NetworkAssumption
  <2>3. Min({MaxContacts, n}) <= MaxContacts
    BY <2>2, MinIsLeast
  <2> QED  BY <1>4, <2>1, <2>3 DEF Kept
<1>9. ASSUME NEW key \in suspicious
      PROVE  GoodAlert([key |-> key, sockets |-> [i \in DOMAIN histories[key] |-> histories[key][i].socket]])
  <2>1. PICK h : h = histories[key]
    OBVIOUS
  <2>2. GoodHistory(key, h) /\ Len(h) >= MinSamples
    BY <1>1, <1>2, <1>6, <1>9, <2>1 DEF Suspicious, SuspiciousAt
  <2>3. PICK n \in Nat : n = Len(h) /\ DOMAIN h = 1..n
    BY <2>2, LenProperties DEF GoodHistory
  <2>4. PICK list : list = [i \in 1..n |-> h[i].socket]
    OBVIOUS
  <2>5. Len(list) = n /\ DOMAIN list = 1..n /\ \A i \in 1..n : list[i] = h[i].socket
    BY <2>4
  <2>6. PICK alert : alert = [key |-> key, sockets |-> list]
    OBVIOUS
  <2>7. GoodAlert(alert)
    <3>1. alert.key = key /\ alert.sockets = list
      BY <2>6
    <3>2. /\ \A i \in 1..n : list[i] \in Opened
          /\ \A i, j \in 1..n : list[i] = list[j] => i = j
          /\ key[2] # 0 => \A i \in 1..n : i = 1 \/ OwnerOf(list[i]) = key[2]
      <4>1. \A i \in 1..n : i = 1 \/ i \in 2..n
        OBVIOUS
      <4> QED  BY <2>2, <2>3, <2>5, <4>1 DEF GoodHistory
    <3> QED  BY <2>2, <2>3, <2>5, <3>1, <3>2 DEF GoodAlert
  <2> QED  BY <2>1, <2>3, <2>4, <2>6, <2>7
<1>10. ContactsInv'
  <2>1. ASSUME NEW key \in keys PROVE GoodKey(key)' /\ GoodHistory(key, contacts[key])'
    <3>1. PICK h : h = histories[key]
      OBVIOUS
    <3>2. GoodKey(key)' /\ GoodHistory(key, h)'
      BY <1>5, <1>6, <3>1, HistoryStays
    <3> QED  BY <1>7, <3>1, <3>2 DEF GoodHistory
  <2>2. ASSUME NEW alert \in alerts' PROVE GoodAlert(alert)'
    <3>1. GoodAlert(alert)
      BY <1>3, <1>9, <2>2 DEF NetworkInv, ContactsInv
    <3> QED  BY <1>5, <3>1, AlertStays
  <2>3. DOMAIN alertedAt' \subseteq keys
    BY <1>4
  <2>4. polledAt' \in 0..MaxTime
    BY <1>3, <1>5
  <2>5. \A key \in DOMAIN contacts' : GoodKey(key)' /\ GoodHistory(key, contacts[key])'
    BY <1>7, <2>1
  <2> QED  BY <1>7, <1>8, <2>2, <2>3, <2>4, <2>5 DEF ContactsInv
<1>11. SampleInv'
  <2>1. Seen \subseteq Pids \X (Process \cup {0}) \X Ports
    BY ObservedFacts DEF Seen
  <2>2. netPoll' = [pc |-> "idle", listed |-> {}, observed |-> {}]
    BY <1>3 DEF NetIdle
  <2> QED  BY <1>3, <2>1, <2>2 DEF SampleInv
<1>12. SeenInv'
  <2>1. ASSUME NEW key \in keys, NEW s \in Opened, Holds(histories[key], s), s \in established
        PROVE  TrueIdentity(s) \in Seen /\ key[2] = OwnerOf(s)
    <3>1. ASSUME NEW o \in netPoll.observed, o.socket = s, o.owner = OwnerOf(s)
          PROVE  TrueIdentity(s) \in Seen
      BY <3>1, ObservedFacts DEF Seen
    <3>2. CASE key \in FreshKeys /\ s = SocketFor(key)
      <4>1. PICK o \in New : Key(o) = key /\ o.socket = s
        BY <3>2, SocketIsFresh
      <4>2. o \in netPoll.observed /\ o.owner = OwnerOf(s)
        BY <2>1, <4>1 DEF New, NetworkInv, SampleInv
      <4>3. key[2] = o.owner
        BY <4>1, <4>2, ObservedFacts
      <4> QED  BY <3>1, <4>1, <4>2, <4>3
    <3>3. CASE key \in DOMAIN contacts /\ Holds(contacts[key], s)
      <4>1. /\ key[2] = OwnerOf(s)
            /\ \E o \in netPoll.observed : o.socket = s /\ o.owner = OwnerOf(s)
        BY <1>3, <2>1, <3>3 DEF NetworkInv, SeenInv, Live
      <4> QED  BY <3>1, <4>1
    <3> QED  BY <1>6, <2>1, <3>2, <3>3
  <2>2. netPoll'.pc = "idle" /\ netPoll'.listed = {} /\ netPoll'.observed = {}
    BY <1>3 DEF NetIdle
  <2>3. \A s : Live(s)' => s \in established
    BY <1>3, <2>2 DEF Live, hostVars
  <2>4. ASSUME NEW key \in DOMAIN contacts', NEW s \in Opened, Holds(contacts'[key], s), Live(s)'
        PROVE  TrueIdentity(s) \in active' /\ key[2] = OwnerOf(s)
    <3>1. key \in keys /\ contacts'[key] = histories[key]
      BY <1>7, <2>4
    <3>2. Holds(histories[key], s)
      BY <2>4, <3>1 DEF Holds
    <3> QED  BY <1>3, <2>1, <2>3, <2>4, <3>1, <3>2
  <2> QED  BY <1>3, <2>2, <2>4 DEF SeenInv, Holds, hostVars, Opened, TrueIdentity, OwnerOf, PidOf
<1>13. TakenInv'
  <2>1. netPoll'.listed = {} /\ netPoll'.observed = {}
    BY <1>3 DEF NetIdle
  <2> QED  BY <2>1 DEF TakenInv
<1> QED  BY <1>10, <1>11, <1>12, <1>13 DEF NetworkInv

LEMMA NetworkKeeps ==
  ASSUME SensorInv, NetworkInv, [Next]_vars
  PROVE  NetworkInv'
<1>1. /\ MachineInv /\ setup \in Setups /\ MachineInv'
  BY SensorStep DEF SensorInv
<1>2. CASE NetworkStep
  BY <1>1, <1>2, ListingKeeps, ReadingKeeps, HandlingKeeps DEF NetworkStep, NetworkNext
<1>3. CASE UNCHANGED networkVars
  <2>1. Onward
    <3>1. CASE Next
      BY <1>1, <3>1, MachineKeeps
    <3>2. CASE UNCHANGED vars
      BY <1>1, <3>2, StillMachine DEF vars
    <3> QED  BY <3>1, <3>2
  <2> QED  BY <1>1, <1>3, <2>1, NetworkStays
<1> QED  BY <1>2, <1>3 DEF Next, ProcessStep, MachineStep, vars

LEMMA NetworkInitially == ASSUME Init PROVE NetworkInv
<1>1. /\ netPoll = NetIdle /\ polledAt = 0 /\ active = {}
      /\ contacts = <<>> /\ alertedAt = <<>> /\ alerts = {}
  BY DEF Init, NetworkInit
<1>2. DOMAIN contacts = {} /\ DOMAIN alertedAt = {} /\ Cardinality({}) = 0
  BY <1>1, FS_EmptySet
<1>3. ContactsInv
  BY <1>1, <1>2, NetworkAssumption DEF ContactsInv
<1>4. netPoll = [pc |-> "idle", listed |-> {}, observed |-> {}]
  BY <1>1 DEF NetIdle
<1>5. SampleInv
  BY <1>1, <1>4 DEF SampleInv
<1>6. SeenInv
  BY <1>2 DEF SeenInv
<1>7. TakenInv
  BY <1>4 DEF TakenInv
<1> QED  BY <1>3, <1>5, <1>6, <1>7 DEF NetworkInv

LEMMA NetworkAlways == Spec => []NetworkInv
<1>1. Init => NetworkInv
  BY NetworkInitially
<1>2. SensorInv /\ NetworkInv /\ [Next]_vars => NetworkInv'
  BY NetworkKeeps
<1> QED  BY <1>1, <1>2, SensorAlways, PTL DEF Spec

\* "A socket seen in multiple polls is ONE connection, not repeated beacon
\* traffic": whatever ends and is taken over between the listing and the reading
\* of the owners, behind an alert are enough different connections of the process
\* it names, but for the first (network_engine.py:61-133).
THEOREM AlertsAreReconnections == Spec => []BeaconsAreReconnections
<1>1. NetworkInv => BeaconsAreReconnections
  <2> SUFFICES ASSUME NetworkInv, NEW alert \in alerts
               PROVE  /\ Len(alert.sockets) >= MinSamples
                      /\ \A i, j \in DOMAIN alert.sockets :
                           alert.sockets[i] = alert.sockets[j] => i = j
                      /\ alert.key[2] # 0 => \A i \in DOMAIN alert.sockets :
                           i = 1 \/ sockets[alert.sockets[i]].owner = alert.key[2]
    BY DEF BeaconsAreReconnections
  <2>1. GoodAlert(alert)
    BY DEF NetworkInv, ContactsInv
  <2> QED  BY <2>1 DEF GoodAlert, OwnerOf
<1> QED  BY <1>1, NetworkAlways, PTL

\* Every variable of the machine and of its sensors has its type, and the
\* histories their limits.
THEOREM SensorTypes == Spec => []TypeOK
<1>1. SensorInv /\ NetworkInv => TypeOK
  <2> SUFFICES ASSUME SensorInv, NetworkInv PROVE TypeOK
    OBVIOUS
  <2>1. HostTypeOK
    BY DEF SensorInv, MachineInv
  <2>2. WatcherTypeOK
    <3>1. /\ known \in [Pids -> Info \cup {Unknown}]
          /\ native \in {"none", "starting", "active", "unavailable"} /\ delivered \subseteq Process
      BY DEF SensorInv, WatchInv, KnownInv, TracesInv
    <3>2. /\ Len(processes) \in Nat /\ Len(processes) <= MaxProcesses /\ Started \subseteq Process
      BY MachineTypes DEF SensorInv, MachineInv
    <3>3. traces \in Seq(Process)
      BY <3>2, SeqMonotonic DEF SensorInv, WatchInv, TracesInv
    <3>4. /\ poll.pc \in {"idle", "read", "lock", "locked"} /\ poll.snapshot \subseteq Process
          /\ poll.todo \subseteq poll.snapshot /\ poll.started \in Nat /\ poll.started <= Len(processes)
      BY DEF SensorInv, WatchInv, SnapshotInv
    <3>5. poll.started \in 0..MaxProcesses
      BY <3>2, <3>4, Numbers
    <3>6. inHand.pc \in {"none", "parent", "lock"}
      BY DEF SensorInv, WatchInv, HandInv
    <3>7. \A i \in DOMAIN recorded : recorded[i].kind \in {"start", "end"}
      <4>1. recorded \in Seq(Record)
        BY DEF SensorInv, WatchInv, RecordInv, Consistent
      <4>2. \A i \in DOMAIN recorded : recorded[i] \in Record
        BY <4>1
      <4> QED  BY <4>2 DEF Record
    <3> QED  BY <3>1, <3>3, <3>4, <3>5, <3>6, <3>7 DEF WatcherTypeOK
  <2>3. NetworkTypeOK
    <3>1. \A key \in DOMAIN contacts : Len(contacts[key]) \in 1..MaxSamples
      BY DEF NetworkInv, ContactsInv, GoodHistory
    <3> QED  BY <3>1 DEF NetworkTypeOK, NetworkInv, ContactsInv, SampleInv
  <2> QED  BY <2>1, <2>2, <2>3 DEF TypeOK
<1> QED  BY <1>1, SensorAlways, NetworkAlways, PTL

=============================================================================
