--------------------------- MODULE ProcessWatcher ---------------------------
(***************************************************************************)
(* The process sensor (agent/sensors/process_watcher.py) with its WMI      *)
(* source (windows_process_events.py): once a second it compares a         *)
(* snapshot of the process table with what it knows, and on Windows a      *)
(* thread reports each start as well.  The two read the machine before     *)
(* they take the lock under which they publish.  The MITRE engine's graph  *)
(* (engines/mitre_engine.py) follows what is published.                    *)
(*                                                                         *)
(* Every process is readable while it runs, and a snapshot is taken in one *)
(* step.  A publication that fails is left out: it pauses collection until *)
(* the app is started again, and the sensor with it.                       *)
(***************************************************************************)
EXTENDS Host

VARIABLES
  known,     \* _known
  poll,      \* _poll_once: where it is, and what it has read
  native,    \* the status of the WMI source, "none" off Windows
  traces,    \* the starts WMI has reported and the thread not yet taken
  inHand,    \* the start the thread is handling
  recorded,  \* the starts and ends published, in order
  graph,     \* MitreEngine: the graph its handlers make of what is published
  delivered  \* history: the starts WMI reported to an active source

watcherVars == <<known, poll, native, traces, inHand, recorded, graph, delivered>>

\* What is known of a process carries the creation time psutil gives it, or
\* the one of the trace, which is another number for the same process.
Info == [process : Process, by : {"psutil", "trace"}]
Unknown == [process |-> 0, by |-> "psutil"]
Read(p) == [process |-> p, by |-> "psutil"]

Idle == [pc |-> "idle", started |-> 0, snapshot |-> {}, todo |-> {}]
NoTrace == [pc |-> "none", process |-> 0, by |-> "psutil", parent |-> 0]

\* Outside the locked section of a poll the lock is free: the section of a
\* native start is one step.
LockFree == poll.pc # "locked"

Start(info, parent) ==
  [kind |-> "start", process |-> info.process, parent |-> parent, over |-> FALSE]
End(info) ==
  [kind |-> "end", process |-> info.process, parent |-> 0,
   over |-> info.process \notin running]

EmptyGraph == [nodes |-> {}, edges |-> {}]

\* The first snapshot of _run is what is known before anything is published.
WatcherInit ==
  /\ known = [pid \in Pids |->
       LET p == Holder(running, pid) IN IF p = 0 THEN Unknown ELSE Read(p)]
  /\ poll = Idle /\ native \in {"none", "starting"}
  /\ traces = <<>> /\ inHand = NoTrace
  /\ recorded = <<>> /\ graph = EmptyGraph /\ delivered = {}

-----------------------------------------------------------------------------
(* The machine, as WMI reports it.                                           *)

WatchedStart(pid, parent) ==
  /\ StartProcess(pid, parent)
  /\ LET p == Len(processes') IN
     IF native = "active"
     THEN traces' = Append(traces, p) /\ delivered' = delivered \cup {p}
     ELSE UNCHANGED <<traces, delivered>>
  /\ UNCHANGED <<known, poll, native, inHand, recorded, graph>>

WatchedEnd(p) == EndProcess(p) /\ UNCHANGED watcherVars

-----------------------------------------------------------------------------
(* MitreEngine: its handlers of what is published.                           *)

OnSpawn(g, e) ==
  LET pid == PidOf(e.process)
      edge == IF Ppid(e.process) = 0 THEN {} ELSE {<<Ppid(e.process), pid>>}
  IN [nodes |-> g.nodes \cup {pid}, edges |-> g.edges \cup edge]

OnTerminate(g, e) ==
  LET pid == PidOf(e.process)
  IN [nodes |-> g.nodes \ {pid}, edges |-> {d \in g.edges : pid \notin {d[1], d[2]}}]

-----------------------------------------------------------------------------
(* What both ways of observing share.                                        *)

\* Mutant: the parent is whatever has its pid.
AnyParent(p, parent) == parent
\* A parent that is younger than its child has only taken over the pid.
ParentOf(p, parent) == IF parent > p THEN NoParent ELSE parent

\* Mutant: a pid that is known is not news.
PidKnown(previous, info) == previous # Unknown
SameProcess(previous, info) == previous = info
EndOf(previous) == IF previous = Unknown THEN <<>> ELSE <<End(previous)>>
AfterEnd(previous) == IF previous = Unknown THEN graph ELSE OnTerminate(graph, End(previous))

\* _emit_spawn, without _check_anti_forensic, which publishes more of the same.
EmitSpawn(info, parent) ==
  LET pid == PidOf(info.process)
      previous == known[pid]
      start == Start(info, ParentOf(info.process, parent))
  IN \/ /\ SameProcess(previous, info)
        /\ UNCHANGED <<known, recorded, graph>>
     \/ /\ ~SameProcess(previous, info)
        /\ recorded' = recorded \o EndOf(previous) \o <<start>>
        /\ graph' = OnSpawn(AfterEnd(previous), start)
        /\ known' = [known EXCEPT ![pid] = info]

-----------------------------------------------------------------------------
(* _poll_once.                                                               *)

PollStart ==
  /\ poll.pc = "idle"
  /\ poll' = [Idle EXCEPT !.pc = "read", !.started = Len(processes)]
  /\ UNCHANGED <<hostVars, known, native, traces, inHand, recorded, graph, delivered>>

TakeSnapshot ==
  /\ poll.pc = "read"
  /\ poll' = [poll EXCEPT !.pc = "lock", !.snapshot = running]
  /\ UNCHANGED <<hostVars, known, native, traces, inHand, recorded, graph, delivered>>

PollLock ==
  /\ poll.pc = "lock"
  /\ poll' = [poll EXCEPT !.pc = "locked", !.todo = poll.snapshot]
  /\ UNCHANGED <<hostVars, known, native, traces, inHand, recorded, graph, delivered>>

PollSpawn(p) ==
  /\ poll.pc = "locked"
  /\ \A q \in poll.todo : PidOf(p) <= PidOf(q)
  /\ EmitSpawn(Read(p), Holder(poll.snapshot, Ppid(p)))
  /\ poll' = [poll EXCEPT !.todo = @ \ {p}]
  /\ UNCHANGED <<hostVars, native, traces, inHand, delivered>>

\* Mutant: a process that started after the snapshot is missed in it.
MissingAnyway(info) == Holder(poll.snapshot, PidOf(info.process)) = 0
Missing(info) ==
  /\ Holder(poll.snapshot, PidOf(info.process)) = 0
  /\ info.process <= poll.started

\* The ends follow the starts.
Gone == {pid \in Pids : known[pid] # Unknown /\ Missing(known[pid])}

PollEnd(pid) ==
  /\ poll.pc = "locked" /\ poll.todo = {}
  /\ known' = [known EXCEPT ![pid] = Unknown]
  /\ recorded' = Append(recorded, End(known[pid]))
  /\ graph' = OnTerminate(graph, End(known[pid]))
  /\ UNCHANGED <<hostVars, poll, native, traces, inHand, delivered>>

PollDone ==
  /\ poll.pc = "locked" /\ poll.todo = {} /\ Gone = {}
  /\ poll' = Idle
  /\ UNCHANGED <<hostVars, known, native, traces, inHand, recorded, graph, delivered>>

PollStep ==
  \/ PollStart \/ TakeSnapshot \/ PollLock  \/ PollDone
  \/ \E p \in poll.todo : PollSpawn(p)
  \/ \E pid \in Gone : PollEnd(pid)

-----------------------------------------------------------------------------
(* The WMI thread, which handles one start at a time.                        *)

NativeActive ==
  /\ native = "starting" /\ native' = "active"
  /\ UNCHANGED <<hostVars, known, poll, traces, inHand, recorded, graph, delivered>>

\* The source fails: polling is left.
NativeFails ==
  /\ native \in {"starting", "active"} /\ inHand = NoTrace
  /\ native' = "unavailable" /\ traces' = <<>>
  /\ delivered' = delivered \ Range(traces)
  /\ UNCHANGED <<hostVars, known, poll, inHand, recorded, graph>>

\* _trace_context: a process that is over, or whose pid another one has by
\* now, is described by its trace.  The code tells it apart by the creation time,
\* within 0.05 s; that the two clocks agree so far, for the same process and for no
\* other of its pid, is assumed here.
ReadTraced ==
  /\ inHand = NoTrace /\ traces # <<>>
  /\ LET p == Head(traces) IN
     inHand' = [NoTrace EXCEPT !.pc = "parent", !.process = p,
                               !.by = IF p \in running THEN "psutil" ELSE "trace"]
  /\ traces' = Tail(traces)
  /\ UNCHANGED <<hostVars, known, poll, native, recorded, graph, delivered>>

ReadParent ==
  /\ inHand.pc = "parent"
  /\ inHand' = [inHand EXCEPT !.pc = "lock", !.parent = Holder(running, Ppid(inHand.process))]
  /\ UNCHANGED <<hostVars, known, poll, native, traces, recorded, graph, delivered>>

\* _on_native: a parent that could not be read is looked up in what is known.
OnNative ==
  /\ inHand.pc = "lock" /\ LockFree
  /\ LET ppid == Ppid(inHand.process)
         parent == IF inHand.parent = 0 /\ ppid # 0 THEN known[ppid].process
                   ELSE inHand.parent
     IN EmitSpawn([process |-> inHand.process, by |-> inHand.by], parent)
  /\ inHand' = NoTrace
  /\ UNCHANGED <<hostVars, poll, native, traces, delivered>>

NativeStep == ReadTraced \/ ReadParent \/ OnNative

-----------------------------------------------------------------------------
(* Properties.                                                               *)

WatcherTypeOK ==
  /\ known \in [Pids -> Info \cup {Unknown}]
  /\ poll.pc \in {"idle", "read", "lock", "locked"}
  /\ poll.started \in 0..MaxProcesses
  /\ poll.snapshot \subseteq Process /\ poll.todo \subseteq poll.snapshot
  /\ native \in {"none", "starting", "active", "unavailable"}
  /\ traces \in Seq(Process) /\ delivered \subseteq Process
  /\ inHand.pc \in {"none", "parent", "lock"}
  /\ \A i \in DOMAIN recorded : recorded[i].kind \in {"start", "end"}

\* The process that holds a pid after the first n records, 0 for none; before
\* any record it is the one of the first snapshot.
OpenAfter(n, pid) ==
  LET ofPid == {i \in 1..n : PidOf(recorded[i].process) = pid}
  IN IF ofPid = {} THEN (IF pid = 1 THEN 1 ELSE 0)
     ELSE LET last == recorded[Max(ofPid)] IN IF last.kind = "start" THEN last.process ELSE 0
OpenOf(pid) == OpenAfter(Len(recorded), pid)

Starts(p) == {i \in DOMAIN recorded : recorded[i].kind = "start" /\ recorded[i].process = p}

\* The record of each pid alternates: a process is recorded to start when no
\* other holds its pid, and only the one that holds it to end.  It ends only
\* when it is over, unless its pid had another holder before it: then a
\* snapshot or a trace of that one may come late, and the next poll puts the
\* record right (process_watcher.py:136-151,179-211).  The edges of the graph
\* lead from the pid of the parent to who holds the pid by the record
\* (mitre_engine.py:88-124).
EndsAreTrue ==
  /\ \A i \in DOMAIN recorded :
       LET e == recorded[i]
           open == OpenAfter(i - 1, PidOf(e.process))
       IN IF e.kind = "start" THEN open = 0
          ELSE /\ open = e.process
               /\ e.over \/ \E p \in 1..(e.process - 1) : PidOf(p) = PidOf(e.process)
  /\ \A edge \in graph.edges :
       LET open == OpenOf(edge[2]) IN open # 0 /\ edge[1] = Ppid(open)

\* Without a WMI source the record is exact: a process is recorded to start
\* once at most, with its true parent or none, and to end only when it is over
\* (process_watcher.py:136-151,187-190).
PollingIsExact ==
  native = "none" =>
    /\ \A p \in DOMAIN processes : Cardinality(Starts(p)) <= 1
    /\ \A i \in DOMAIN recorded :
         LET e == recorded[i] IN
         IF e.kind = "start" THEN e.parent \in {NoParent, processes[e.process].parent}
         ELSE e.over

\* The record agrees with the machine: every pid is held by the process that
\* runs, and every start that reached the thread is recorded.
RecordIsCurrent ==
  /\ \A pid \in Pids : OpenOf(pid) = Holder(running, pid)
  /\ \A p \in delivered : Starts(p) # {}

=============================================================================
