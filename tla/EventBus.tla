------------------------------ MODULE EventBus ------------------------------
(***************************************************************************)
(* EventBroker (agent/bus/event_bus.py) between its publishers, the durable*)
(* subscriber and the others, and the shutdown of the app around it        *)
(* (lifespan in agent/server/main.py).                                     *)
(*                                                                         *)
(* A publication is a coroutine of the event loop that has the evidence    *)
(* writer record the event on a thread of the executor and then tells the  *)
(* other subscribers.  Routes and async sensors await it; a filesystem     *)
(* thread hands it to the loop and waits for at most 30 seconds.  One      *)
(* event may be published again, as the browser's retries are.             *)
(***************************************************************************)
EXTENDS Integers, Sequences, FiniteSets

CONSTANTS
  Threads,        \* filesystem threads
  Tasks,          \* async sensors
  Routes,         \* requests of the browser
  Events,         \* the events published
  MaxCalls        \* bound: publications

ASSUME CallBound == MaxCalls \in Nat

\* A filesystem thread is neither a task of the loop nor a request.
ASSUME ClassesAssumption == Threads \cap (Tasks \cup Routes) = {}

Publishers == Threads \cup Tasks \cup Routes

VARIABLES
  calls,          \* the publications, in the order they began
  ledger,         \* the events recorded
  notified,       \* how often the other subscribers were told of an event
  deadLetters,    \* _dead_letters, of the threads' publications
  futures,        \* _thread_futures
  thread,         \* where each filesystem thread is, and its publication
  closing,        \* _closing
  drained,        \* the futures drain waits for
  shutdown,       \* how far the app's shutdown is
  stopped         \* the async sensors are cancelled, the observer is stopped

vars == <<calls, ledger, notified, deadLetters, futures, thread, closing, drained,
          shutdown, stopped>>

Call == [event : Events, by : Publishers,
         pc : {"scheduled", "recording", "orphaned", "recorded", "duplicate", "done",
               "failed", "cancelled"}]
Calls == 1..Len(calls)
Ids == 1..MaxCalls

\* A publication somebody may still write to the ledger for.
Unwritten(i) == calls[i].pc \in {"scheduled", "recording", "orphaned"}
Over(i) == calls[i].pc \in {"done", "failed"}
LoopRuns == shutdown # "down"

Init ==
  /\ calls = <<>> /\ ledger = {} /\ notified = [e \in Events |-> 0]
  /\ deadLetters = {} /\ futures = {}
  /\ thread = [t \in Threads |-> [pc |-> "idle", call |-> 0]]
  /\ closing = FALSE /\ drained = {} /\ shutdown = "no" /\ stopped = FALSE

-----------------------------------------------------------------------------
(* publish, on the event loop.                                               *)

Begin(e, by) == calls' = Append(calls, [event |-> e, by |-> by, pc |-> "scheduled"])
Goes(i, pc) == calls' = [calls EXCEPT ![i].pc = pc]
Published == {calls[i].event : i \in Calls}

\* An async sensor or a route begins to publish.  Only routes repeat an event,
\* and they have all been answered when the app shuts down.
AsyncPublish(p, e) ==
  /\ LoopRuns /\ Len(calls) < MaxCalls
  /\ \/ /\ p \in Tasks /\ ~stopped /\ e \notin Published
        /\ \A i \in Calls : calls[i].by = p => Over(i)
     \/ /\ p \in Routes /\ shutdown = "no"
        /\ \A i \in Calls : calls[i].event = e => calls[i].by \in Routes
        /\ \A i \in Calls : calls[i].by = p => Over(i)
  /\ Begin(e, p)
  /\ UNCHANGED <<ledger, notified, deadLetters, futures, thread, closing, drained,
                 shutdown, stopped>>

\* The coroutine starts the writer's thread.
StartRecord(i) ==
  /\ LoopRuns /\ calls[i].pc = "scheduled"
  /\ Goes(i, "recording")
  /\ UNCHANGED <<ledger, notified, deadLetters, futures, thread, closing, drained,
                 shutdown, stopped>>

\* record, under the writer's own lock.  It goes on if nobody awaits it.
Record(i) ==
  /\ calls[i].pc \in {"recording", "orphaned"}
  /\ ledger' = ledger \cup {calls[i].event}
  /\ Goes(i, IF calls[i].pc = "orphaned" THEN "cancelled"
             ELSE IF calls[i].event \in ledger THEN "duplicate" ELSE "recorded")
  /\ UNCHANGED <<notified, deadLetters, futures, thread, closing, drained, shutdown,
                 stopped>>

\* record raises: collection is paused, or the disk fails.
RecordFails(i) ==
  /\ calls[i].pc \in {"recording", "orphaned"}
  /\ Goes(i, IF calls[i].pc = "orphaned" THEN "cancelled" ELSE "failed")
  /\ UNCHANGED <<ledger, notified, deadLetters, futures, thread, closing, drained,
                 shutdown, stopped>>

\* Mutant: subscribers are told of repeated events too.
ToldAlways(i) == TRUE
Told(i) == calls[i].pc = "recorded"

\* The receipt is back; an event already recorded is not announced again.
Notify(i) ==
  /\ LoopRuns /\ calls[i].pc \in {"recorded", "duplicate"}
  /\ notified' = IF Told(i) THEN [notified EXCEPT ![calls[i].event] = @ + 1] ELSE notified
  /\ Goes(i, "done")
  /\ UNCHANGED <<ledger, deadLetters, futures, thread, closing, drained, shutdown, stopped>>

-----------------------------------------------------------------------------
(* publish_threadsafe, on a filesystem thread.                               *)

ThreadAt(t, pc, i) == thread' = [thread EXCEPT ![t] = [pc |-> pc, call |-> i]]

\* The first test, passed; a stopped observer dispatches nothing.
Offer(t) ==
  /\ thread[t].pc = "idle" /\ ~stopped
  /\ ~closing /\ LoopRuns
  /\ ThreadAt(t, "submit", 0)
  /\ UNCHANGED <<calls, ledger, notified, deadLetters, futures, closing, drained,
                 shutdown, stopped>>

Submit(t, e) ==
  /\ thread[t].pc = "submit" /\ LoopRuns
  /\ Len(calls) < MaxCalls /\ e \notin Published
  /\ Begin(e, t)
  /\ ThreadAt(t, "register", Len(calls'))
  /\ UNCHANGED <<ledger, notified, deadLetters, futures, closing, drained, shutdown,
                 stopped>>

\* The loop is gone since the test, or (bound) no publication is left.
SubmitFails(t) ==
  /\ thread[t].pc = "submit"
  /\ ~LoopRuns \/ Len(calls) = MaxCalls \/ Events \subseteq Published
  /\ ThreadAt(t, "idle", 0)
  /\ UNCHANGED <<calls, ledger, notified, deadLetters, futures, closing, drained,
                 shutdown, stopped>>

Register(t) ==
  /\ thread[t].pc = "register"
  /\ futures' = futures \cup {thread[t].call}
  /\ ThreadAt(t, "wait", thread[t].call)
  /\ UNCHANGED <<calls, ledger, notified, deadLetters, closing, drained, shutdown, stopped>>

Result(t) ==
  /\ thread[t].pc = "wait" /\ calls[thread[t].call].pc = "done"
  /\ futures' = futures \ {thread[t].call}
  /\ ThreadAt(t, "idle", 0)
  /\ UNCHANGED <<calls, ledger, notified, deadLetters, closing, drained, shutdown, stopped>>

\* What _dead_letters is given.  The code forgets all but the last hundred; here
\* all that were ever given are remembered.
\* Mutants: a timeout is not written down; the dead letter names the event.
UnlistedTimeout(i) == IF Over(i) THEN {i} ELSE {}
ListedEvent(i) == {calls[i].event}
Listed(i) == {i}

\* The publication raised, or 30 seconds are over while it goes on.
RaisedOrLate(i) == calls[i].pc # "done"

GiveUp(t) ==
  /\ thread[t].pc = "wait" /\ RaisedOrLate(thread[t].call)
  /\ deadLetters' = deadLetters \cup Listed(thread[t].call)
  /\ futures' = futures \ {thread[t].call}
  /\ ThreadAt(t, "idle", 0)
  /\ UNCHANGED <<calls, ledger, notified, closing, drained, shutdown, stopped>>

-----------------------------------------------------------------------------
(* The finally block of lifespan.                                            *)

ShutdownStep(from, to) == shutdown = from /\ shutdown' = to

\* The server has answered its requests before lifespan ends.
BeginShutdown ==
  /\ ShutdownStep("no", "sensors")
  /\ \A i \in Calls : calls[i].by \in Routes => Over(i)
  /\ UNCHANGED <<calls, ledger, notified, deadLetters, futures, thread, closing, drained,
                 stopped>>

\* A cancelled task leaves its publication; the thread recording it goes on.
Cancelled(call) ==
  IF call.by \notin Tasks THEN call
  ELSE CASE call.pc = "recording" -> [call EXCEPT !.pc = "orphaned"]
         [] call.pc \in {"scheduled", "recorded", "duplicate"} ->
              [call EXCEPT !.pc = "cancelled"]
         [] OTHER -> call

\* stop of the sensors.  The observer's thread is waited for, five seconds.
StopSensors ==
  /\ ShutdownStep("sensors", "drain")
  /\ stopped' = TRUE
  /\ calls' = [i \in Calls |-> Cancelled(calls[i])]
  /\ UNCHANGED <<ledger, notified, deadLetters, futures, thread, closing, drained>>

Drain ==
  /\ ShutdownStep("drain", "draining")
  /\ closing' = TRUE /\ drained' = futures
  /\ UNCHANGED <<calls, ledger, notified, deadLetters, futures, thread, stopped>>

\* Mutants: drain waits for every publication, the cancelled ones included;
\* drain does not wait.
NotAwaited == TRUE
EveryCallOver == \A i \in Calls : Over(i)
AllDrained == \A i \in drained : Over(i)

DrainEnds ==
  /\ ShutdownStep("draining", "report") /\ AllDrained
  /\ UNCHANGED <<calls, ledger, notified, deadLetters, futures, thread, closing, drained,
                 stopped>>

\* scheduler.stop and its last report, then the last checkpoint, then the
\* release of the directory lock.
LastReport ==
  /\ ShutdownStep("report", "seal")
  /\ UNCHANGED <<calls, ledger, notified, deadLetters, futures, thread, closing, drained,
                 stopped>>

Seal ==
  /\ ShutdownStep("seal", "unlock")
  /\ UNCHANGED <<calls, ledger, notified, deadLetters, futures, thread, closing, drained,
                 stopped>>

Unlock ==
  /\ ShutdownStep("unlock", "unlocked")
  /\ UNCHANGED <<calls, ledger, notified, deadLetters, futures, thread, closing, drained,
                 stopped>>

\* The loop ends; the executor waits for its threads.
LoopEnds ==
  /\ ShutdownStep("unlocked", "down")
  /\ UNCHANGED <<calls, ledger, notified, deadLetters, futures, thread, closing, drained,
                 stopped>>

-----------------------------------------------------------------------------

CallStep(i) == StartRecord(i) \/ Record(i) \/ RecordFails(i) \/ Notify(i)

ThreadStep(t) ==
  Register(t) \/ Result(t) \/ GiveUp(t) \/ SubmitFails(t) \/ \E e \in Events : Submit(t, e)

ShutdownNext ==
  StopSensors \/ Drain \/ DrainEnds \/ LastReport \/ Seal \/ Unlock \/ LoopEnds

Next ==
  \/ \E p \in Tasks \cup Routes, e \in Events : AsyncPublish(p, e)
  \/ \E i \in Calls : CallStep(i)
  \/ \E t \in Threads : Offer(t) \/ ThreadStep(t)
  \/ BeginShutdown \/ ShutdownNext

Spec == Init /\ [][Next]_vars

\* The loop and the executor's threads run, and so do the filesystem threads.
Fairness ==
  /\ \A i \in Ids : WF_vars(i \in Calls /\ CallStep(i))
  /\ \A t \in Threads : WF_vars(ThreadStep(t))
  /\ WF_vars(ShutdownNext)

FairSpec == Spec /\ Fairness

-----------------------------------------------------------------------------
(* Properties.                                                               *)

\* Every variable has its type.
TypeOK ==
  /\ calls \in Seq(Call) /\ Len(calls) <= MaxCalls
  /\ ledger \subseteq Events /\ notified \in [Events -> 0..MaxCalls]
  /\ deadLetters \subseteq Ids /\ futures \subseteq Ids /\ drained \subseteq Ids
  /\ thread \in [Threads -> [pc : {"idle", "submit", "register", "wait"}, call : 0..MaxCalls]]
  /\ closing \in BOOLEAN /\ stopped \in BOOLEAN
  /\ shutdown \in {"no", "sensors", "drain", "draining", "report", "seal", "unlock",
                   "unlocked", "down"}

\* The engines and the dashboard hear of an event once at most, and never of
\* one that is not recorded, however often it is published and however the
\* repetitions overlap (event_bus.py:45-52).
NotifiedOnce ==
  \A e \in Events : notified[e] <= 1 /\ (notified[e] = 1 => e \in ledger)

\* What a filesystem thread has handed over is in the ledger, among the dead
\* letters, or waited for by its thread: nothing is dropped without a trace, and
\* a thread has one write open at most besides those it gave up
\* (event_bus.py:54-69).
HandedOverIsKnown ==
  \A i \in Calls :
    calls[i].by \in Threads =>
      \/ calls[i].event \in ledger
      \/ i \in deadLetters
      \/ \E t \in Threads : thread[t].call = i

\* A shutdown comes to its end: drain waits for no publication that waits for
\* the shutdown (event_bus.py:88-92, main.py:179-197).
ShutdownEnds == shutdown # "no" ~> shutdown = "down"

AfterDrain == shutdown \in {"report", "seal", "unlock", "unlocked", "down"}

\* What may still reach the ledger once drain is over is the record of a
\* cancelled task, a publication its thread gave up, or one whose thread passed
\* the test of closing before drain and registered after it
\* (event_bus.py:55-58,88-92).
DrainCoversTheRest ==
  AfterDrain =>
    \A i \in Calls : Unwritten(i) =>
      \/ calls[i].pc = "orphaned"
      \/ i \in deadLetters
      \/ i \notin drained /\ \E t \in Threads : thread[t].call = i

\* scheduler.py:54: "All ledger publishers have already been drained by app
\* shutdown."  drain knows neither the publications its threads gave up nor
\* those of cancelled tasks; the same writes outlive the last checkpoint and
\* the lock of the data directory.
DrainedBeforeReport == AfterDrain => \A i \in Calls : ~Unwritten(i)

=============================================================================
