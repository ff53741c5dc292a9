---------------------------- MODULE EventBusProofs ----------------------------
(***************************************************************************)
(* Proofs about EventBus, for any publishers, events and number of         *)
(* publications.                                                           *)
(***************************************************************************)
EXTENDS EventBus, SequenceTheorems, TLAPS

-----------------------------------------------------------------------------
(* The invariant.                                                            *)

\* A thread that has handed an event over names its publication.
Linked ==
  /\ \A t \in Threads :
       thread[t].call \in IF thread[t].pc \in {"register", "wait"} THEN Calls ELSE {0}
  /\ futures \subseteq Calls /\ drained \subseteq Calls

\* An event is recorded before anybody hears of it, and one publication at
\* most, the one that recorded it, has still to tell of it.
Recorded ==
  \A i \in Calls : calls[i].pc \in {"recorded", "duplicate", "done"} => calls[i].event \in ledger
Announced ==
  /\ \A e \in Events : notified[e] <= 1 /\ (e \notin ledger => notified[e] = 0)
  /\ \A i \in Calls : calls[i].pc = "recorded" => notified[calls[i].event] = 0
  /\ \A i, j \in Calls :
       calls[i].pc = "recorded" /\ calls[j].pc = "recorded" /\ calls[i].event = calls[j].event
         => i = j

\* A thread lets go of a publication that is done or written down as a dead letter.
Traced ==
  \A i \in Calls : calls[i].by \in Threads /\ calls[i].pc # "done" =>
    i \in deadLetters \/ \E t \in Threads : thread[t].call = i

\* Who has stopped publishing at which step of the shutdown.
Quiet ==
  /\ shutdown # "no" =>
       \A i \in Calls : calls[i].by \in Routes \ Tasks => Over(i)
  /\ (shutdown \notin {"no", "sensors"} => stopped)
  /\ (stopped => shutdown \notin {"no", "sensors"})
  /\ stopped =>
       \A i \in Calls : calls[i].by \in Tasks =>
         calls[i].pc \notin {"scheduled", "recording", "recorded", "duplicate"}
  /\ AfterDrain => \A i \in drained : Over(i)

BusInv == TypeOK /\ Linked /\ Recorded /\ Announced /\ Traced /\ Quiet

-----------------------------------------------------------------------------
(* What the steps do to the publications.                                    *)

LEMMA CallTypes ==
  ASSUME TypeOK
  PROVE  /\ Len(calls) \in Nat /\ Len(calls) <= MaxCalls /\ MaxCalls \in Nat
         /\ \A i \in Calls : /\ calls[i] \in Call
                             /\ calls[i].event \in Events /\ calls[i].by \in Publishers
<1>1. calls \in Seq(Call) /\ Len(calls) <= MaxCalls
  BY DEF TypeOK
<1>2. \A i \in Calls : calls[i] \in Call
  BY <1>1 DEF Calls
<1> QED  BY <1>1, <1>2, CallBound DEF Call

Pcs == {"scheduled", "recording", "orphaned", "recorded", "duplicate", "done", "failed", "cancelled"}

LEMMA CallGoes ==
  ASSUME TypeOK, NEW i \in Calls, NEW pc \in Pcs, Goes(i, pc)
  PROVE  /\ calls' \in Seq(Call) /\ Len(calls') = Len(calls) /\ Calls' = Calls
         /\ calls'[i].pc = pc
         /\ \A j \in Calls : /\ calls'[j].event = calls[j].event /\ calls'[j].by = calls[j].by
                             /\ j # i => calls'[j] = calls[j]
<1>1. /\ calls \in Seq(Call) /\ i \in 1..Len(calls) /\ calls' = [calls EXCEPT ![i].pc = pc]
      /\ calls[i] \in Call
  BY DEF TypeOK, Goes, Calls
<1>2. [calls[i] EXCEPT !.pc = pc] \in Call
  BY <1>1 DEF Call, Pcs
<1>3. calls' = [calls EXCEPT ![i] = [calls[i] EXCEPT !.pc = pc]]
  BY <1>1
<1>4. /\ calls' \in Seq(Call) /\ Len(calls') = Len(calls)
      /\ \A j \in 1..Len(calls) : calls'[j] = IF j = i THEN [calls[i] EXCEPT !.pc = pc] ELSE calls[j]
  BY <1>1, <1>2, <1>3, ExceptSeq
<1>5. /\ [calls[i] EXCEPT !.pc = pc].pc = pc
      /\ [calls[i] EXCEPT !.pc = pc].event = calls[i].event
      /\ [calls[i] EXCEPT !.pc = pc].by = calls[i].by
  BY <1>1 DEF Call
<1> QED  BY <1>1, <1>4, <1>5 DEF Calls

LEMMA CallBegins ==
  ASSUME TypeOK, NEW e \in Events, NEW by \in Publishers, Begin(e, by)
  PROVE  /\ calls' \in Seq(Call) /\ Len(calls') = Len(calls) + 1
         /\ Calls' = Calls \cup {Len(calls) + 1} /\ Len(calls) + 1 \notin Calls
         /\ \A j \in Calls : calls'[j] = calls[j]
         /\ calls'[Len(calls) + 1] = [event |-> e, by |-> by, pc |-> "scheduled"]
<1> DEFINE new == [event |-> e, by |-> by, pc |-> "scheduled"]
<1>1. calls \in Seq(Call) /\ new \in Call /\ calls' = Append(calls, new)
  BY DEF TypeOK, Begin, Call
<1>2. /\ calls' \in Seq(Call) /\ Len(calls) \in Nat /\ Len(calls') = Len(calls) + 1
      /\ \A j \in 1..Len(calls) : calls'[j] = calls[j]
      /\ calls'[Len(calls) + 1] = new
  BY <1>1
<1> QED  BY <1>2 DEF Calls

LEMMA BusInit == Init => BusInv
<1> SUFFICES ASSUME Init PROVE BusInv
  OBVIOUS
<1>1. calls = <<>> /\ Calls = {}
  BY DEF Init, Calls
<1>2. TypeOK
  <2>1. calls \in Seq(Call) /\ Len(calls) <= MaxCalls
    BY <1>1, CallBound
  <2>2. /\ notified \in [Events -> 0..MaxCalls] /\ 0 \in 0..MaxCalls
        /\ thread \in [Threads -> [pc : {"idle", "submit", "register", "wait"}, call : 0..MaxCalls]]
    BY CallBound DEF Init
  <2>3. closing \in BOOLEAN /\ stopped \in BOOLEAN
    BY Zenon DEF Init
  <2>4. /\ ledger \subseteq Events /\ deadLetters \subseteq Ids /\ futures \subseteq Ids
        /\ drained \subseteq Ids /\ shutdown = "no"
    BY DEF Init
  <2> QED  BY <2>1, <2>2, <2>3, <2>4 DEF TypeOK
<1> QED  BY <1>1, <1>2 DEF Init, BusInv, Linked, Recorded, Announced, Traced, Quiet, AfterDrain

\* A step of one publication, along its way.
LEMMA CallStepInv ==
  ASSUME BusInv, NEW i \in Calls, CallStep(i)
  PROVE  BusInv'
<1> USE DEF BusInv
<1>1. /\ UNCHANGED <<deadLetters, futures, thread, closing, drained, shutdown, stopped>>
      /\ calls[i].pc \in {"scheduled", "recording", "orphaned", "recorded", "duplicate"}
  BY DEF CallStep, StartRecord, Record, RecordFails, Notify
<1>2. PICK pc \in Pcs :
        /\ Goes(i, pc) /\ pc # "scheduled"
        /\ \/ /\ calls[i].pc = "scheduled" /\ pc = "recording" /\ UNCHANGED <<ledger, notified>>
           \/ /\ calls[i].pc \in {"recording", "orphaned"}
              /\ ledger' = ledger \cup {calls[i].event} /\ UNCHANGED notified
              /\ pc = IF calls[i].pc = "orphaned" THEN "cancelled"
                      ELSE IF calls[i].event \in ledger THEN "duplicate" ELSE "recorded"
           \/ /\ calls[i].pc \in {"recording", "orphaned"}
              /\ pc = IF calls[i].pc = "orphaned" THEN "cancelled" ELSE "failed"
              /\ UNCHANGED <<ledger, notified>>
           \/ /\ calls[i].pc \in {"recorded", "duplicate"} /\ pc = "done"
              /\ UNCHANGED ledger
              /\ notified' = IF Told(i) THEN [notified EXCEPT ![calls[i].event] = @ + 1] ELSE notified
  <2>1. CASE StartRecord(i)
    BY <2>1 DEF StartRecord, Pcs
  <2>2. CASE Record(i)
    BY <2>2 DEF Record, Pcs
  <2>3. CASE RecordFails(i)
    BY <2>3 DEF RecordFails, Pcs
  <2>4. CASE Notify(i)
    BY <2>4 DEF Notify, Pcs
  <2> QED  BY <2>1, <2>2, <2>3, <2>4 DEF CallStep
<1>3. /\ calls' \in Seq(Call) /\ Len(calls') = Len(calls) /\ Calls' = Calls
      /\ calls'[i].pc = pc
      /\ \A j \in Calls : /\ calls'[j].event = calls[j].event /\ calls'[j].by = calls[j].by
                          /\ j # i => calls'[j] = calls[j]
  BY <1>2, CallGoes
<1>4. /\ Len(calls) \in Nat /\ Len(calls) <= MaxCalls /\ MaxCalls \in Nat
      /\ \A j \in Calls : calls[j].event \in Events
  BY CallTypes
<1>5. ledger \subseteq ledger' /\ ledger' \subseteq Events
  BY <1>2, <1>4 DEF TypeOK
<1>6. Recorded'
  BY <1>2, <1>3, <1>5 DEF Recorded
<1>7. Announced' /\ notified' \in [Events -> 0..MaxCalls]
  <2>0. notified \in [Events -> 0..MaxCalls] /\ \A e \in Events : notified[e] \in Nat
    BY <1>4 DEF TypeOK
  <2>1. CASE pc = "recorded"
    <3>1. /\ calls[i].event \notin ledger /\ ledger' = ledger \cup {calls[i].event}
          /\ UNCHANGED notified
      BY <1>2, <2>1
    <3>2. \A j \in Calls : j # i /\ calls'[j].pc = "recorded" => calls[j].event \in ledger
      BY <1>3 DEF Recorded
    <3> QED  BY <1>3, <1>4, <2>0, <2>1, <3>1, <3>2 DEF Announced
  <2>2. CASE pc # "recorded" /\ UNCHANGED notified
    <3>1. \A j \in Calls : calls'[j].pc = "recorded" => calls[j].pc = "recorded"
      BY <1>3, <2>2
    <3>2. \A e \in Events : e \notin ledger' => notified'[e] = 0
      BY <1>5, <2>2 DEF Announced
    <3> QED  BY <1>3, <2>0, <2>2, <3>1, <3>2 DEF Announced
  <2>3. CASE calls[i].pc = "recorded" /\ pc = "done"
             /\ notified' = [notified EXCEPT ![calls[i].event] = @ + 1]
    <3> DEFINE e == calls[i].event
    <3>1. e \in Events /\ e \in ledger /\ notified[e] = 0 /\ UNCHANGED ledger
      BY <1>2, <1>4, <2>3 DEF Recorded, Announced
    <3>2. notified'[e] = 1 /\ \A f \in Events : f # e => notified'[f] = notified[f]
      BY <2>0, <2>3, <3>1
    <3>3. notified' \in [Events -> 0..MaxCalls]
      BY <1>4, <2>0, <2>3, <3>1 DEF Calls
    <3>4. \A j \in Calls : calls'[j].pc = "recorded" => j # i /\ calls[j].event # e
      BY <1>3, <2>3 DEF Announced
    <3> QED  BY <1>3, <1>4, <3>1, <3>2, <3>3, <3>4 DEF Announced
  <2> QED  BY <1>2, <2>1, <2>2, <2>3 DEF Told
<1>8. Traced'
  BY <1>1, <1>2, <1>3 DEF Traced
<1>9. Quiet'
  <2>1. \A j \in Calls : Over(j) => Over(j)'
    BY <1>1, <1>3 DEF Over
  <2>2. stopped /\ calls[i].by \in Tasks => pc = "cancelled"
    BY <1>1, <1>2 DEF Quiet
  <2> QED  BY <1>1, <1>3, <2>1, <2>2 DEF Quiet, AfterDrain, Linked
<1>10. TypeOK' /\ Linked'
  BY <1>1, <1>3, <1>5, <1>7 DEF TypeOK, Linked
<1> QED  BY <1>6, <1>7, <1>8, <1>9, <1>10

\* A publication that begins, as its publisher may begin it.
LEMMA BeginInv ==
  ASSUME BusInv, NEW e \in Events, NEW by \in Publishers, Begin(e, by), Len(calls) < MaxCalls,
         UNCHANGED <<ledger, notified, deadLetters, futures, closing, drained, shutdown, stopped>>,
         \/ by \in Threads
         \/ by \in Tasks /\ ~stopped
         \/ by \in Routes /\ shutdown = "no",
         \/ UNCHANGED thread /\ by \notin Threads
         \/ \E t \in Threads : ThreadAt(t, "register", Len(calls'))
              /\ thread[t].pc = "submit"
  PROVE  BusInv'
<1> USE DEF BusInv
<1>1. /\ calls' \in Seq(Call) /\ Len(calls') = Len(calls) + 1
      /\ Calls' = Calls \cup {Len(calls) + 1} /\ Len(calls) + 1 \notin Calls
      /\ \A j \in Calls : calls'[j] = calls[j]
      /\ calls'[Len(calls) + 1] = [event |-> e, by |-> by, pc |-> "scheduled"]
  BY CallBegins
<1>2. /\ Len(calls) \in Nat /\ Len(calls) + 1 <= MaxCalls /\ MaxCalls \in Nat
  BY CallTypes
<1>3. /\ calls'[Len(calls) + 1].pc = "scheduled" /\ calls'[Len(calls) + 1].by = by
      /\ ~(\E k \in {"recorded", "duplicate", "done"} : calls'[Len(calls) + 1].pc = k)
  BY <1>1
<1>4. Recorded' /\ Announced'
  BY <1>1, <1>3 DEF Recorded, Announced
<1>5. Quiet'
  <2>1. \A j \in Calls : Over(j)' = Over(j)
    BY <1>1 DEF Over
  <2>0. \/ by \in Threads /\ by \notin Tasks \cup Routes
        \/ by \in Tasks /\ ~stopped
        \/ by \in Routes /\ shutdown = "no"
    BY ClassesAssumption
  <2>2. /\ shutdown # "no" => by \notin Routes \ Tasks
        /\ stopped => by \notin Tasks
    BY <2>0 DEF Quiet
  <2>3. \A j \in drained : j \in Calls
    BY DEF Linked
  <2> QED  BY <1>1, <1>3, <2>1, <2>2, <2>3 DEF Quiet, AfterDrain
<1>6. CASE UNCHANGED thread /\ by \notin Threads
  <2>1. TypeOK' /\ Linked'
    BY <1>1, <1>2, <1>6 DEF TypeOK, Linked
  <2>2. Traced'
    BY <1>1, <1>3, <1>6 DEF Traced
  <2> QED  BY <1>4, <1>5, <2>1, <2>2
<1>7. ASSUME NEW t \in Threads, ThreadAt(t, "register", Len(calls')), thread[t].pc = "submit"
      PROVE  BusInv'
  <2>1. /\ thread[t].call = 0
        /\ thread'[t] = [pc |-> "register", call |-> Len(calls) + 1]
        /\ \A u \in Threads : u # t => thread'[u] = thread[u]
        /\ thread' \in [Threads -> [pc : {"idle", "submit", "register", "wait"}, call : 0..MaxCalls]]
    BY <1>1, <1>2, <1>7 DEF ThreadAt, TypeOK, Linked
  <2>2. TypeOK'
    BY <1>1, <1>2, <2>1 DEF TypeOK
  <2>3. Linked'
    <3>1. \A u \in Threads :
            thread'[u].call \in IF thread'[u].pc \in {"register", "wait"} THEN Calls' ELSE {0}
      BY <1>1, <2>1 DEF Linked
    <3> QED  BY <1>1, <3>1 DEF Linked
  <2>4. Traced'
    <3> SUFFICES ASSUME NEW i \in Calls', calls'[i].by \in Threads, calls'[i].pc # "done"
                 PROVE  i \in deadLetters \/ \E u \in Threads : thread'[u].call = i
      BY DEF Traced
    <3>1. CASE i = Len(calls) + 1
      BY <2>1, <3>1
    <3>2. CASE i \in Calls
      <4>1. i \in deadLetters \/ \E u \in Threads : thread[u].call = i
        BY <1>1, <3>2 DEF Traced
      <4>2. i # 0
        BY <1>2, <3>2 DEF Calls
      <4> QED  BY <2>1, <4>1, <4>2
    <3> QED  BY <1>1, <3>1, <3>2
  <2> QED  BY <1>4, <1>5, <2>2, <2>3, <2>4
<1> QED  BY <1>6, <1>7

\* A step of a filesystem thread that leaves the publications alone.
LEMMA ThreadInv ==
  ASSUME BusInv, NEW t \in Threads, Offer(t) \/ ThreadStep(t)
  PROVE  BusInv'
<1> USE DEF BusInv
<1>1. ASSUME NEW e \in Events, Submit(t, e) PROVE BusInv'
  BY <1>1, BeginInv DEF Submit, Publishers
<1>2. /\ Len(calls) \in Nat /\ Len(calls) <= MaxCalls /\ MaxCalls \in Nat
      /\ \A j \in Calls : j # 0 /\ j \in Ids
  <2>1. Len(calls) \in Nat /\ Len(calls) <= MaxCalls /\ MaxCalls \in Nat
    BY CallTypes
  <2> QED  BY <2>1 DEF Calls, Ids
<1>3. ASSUME NEW pc \in {"idle", "submit", "register", "wait"}, NEW k \in {0} \cup Calls,
             k \in IF pc \in {"register", "wait"} THEN Calls ELSE {0},
             ThreadAt(t, pc, k),
             UNCHANGED <<calls, ledger, notified, closing, drained, shutdown, stopped>>,
             deadLetters \subseteq deadLetters', deadLetters' \subseteq Ids,
             futures' \subseteq futures \cup {thread[t].call}, thread[t].pc = "idle" => UNCHANGED futures,
             thread[t].pc = "submit" => UNCHANGED futures,
             \/ thread[t].call = k
             \/ thread[t].call \in deadLetters'
             \/ thread[t].call \in Calls /\ calls[thread[t].call].pc = "done"
      PROVE  BusInv'
  <2>1. /\ thread'[t] = [pc |-> pc, call |-> k]
        /\ \A u \in Threads : u # t => thread'[u] = thread[u]
        /\ thread' \in [Threads -> [pc : {"idle", "submit", "register", "wait"}, call : 0..MaxCalls]]
    BY <1>2, <1>3 DEF ThreadAt, TypeOK, Ids
  <2>2. futures' \subseteq Calls /\ futures' \subseteq Ids
    BY <1>2, <1>3 DEF Linked, TypeOK
  <2>3. TypeOK'
    BY <1>3, <2>1, <2>2 DEF TypeOK
  <2>4. Calls' = Calls
    BY <1>3 DEF Calls
  <2>5. Linked'
    BY <1>3, <2>1, <2>2, <2>4 DEF Linked
  <2>6. Recorded' /\ Announced' /\ Quiet'
    BY <1>3, <2>4 DEF Recorded, Announced, Quiet, Over, AfterDrain
  <2>7. Traced'
    <3> SUFFICES ASSUME NEW i \in Calls, calls[i].by \in Threads, calls[i].pc # "done"
                 PROVE  i \in deadLetters' \/ \E u \in Threads : thread'[u].call = i
      BY <1>3, <2>4 DEF Traced
    <3>1. i \in deadLetters \/ \E u \in Threads : thread[u].call = i
      BY DEF Traced
    <3> QED  BY <1>3, <2>1, <3>1
  <2> QED  BY <2>3, <2>5, <2>6, <2>7
<1>4. deadLetters \subseteq Ids
  BY DEF TypeOK
<1>5. CASE Offer(t)
  <2>1. thread[t].call = 0
    BY <1>5 DEF Offer, Linked
  <2> QED  BY <1>3, <1>4, <1>5, <2>1 DEF Offer
<1>6. CASE SubmitFails(t)
  <2>1. thread[t].call = 0
    BY <1>6 DEF SubmitFails, Linked
  <2> QED  BY <1>3, <1>4, <1>6, <2>1 DEF SubmitFails
<1>7. CASE Register(t)
  <2>1. thread[t].call \in Calls
    BY <1>7 DEF Register, Linked
  <2> QED  BY <1>3, <1>4, <1>7, <2>1 DEF Register
<1>8. CASE Result(t)
  <2>1. thread[t].call \in Calls
    BY <1>8 DEF Result, Linked
  <2> QED  BY <1>3, <1>4, <1>8, <2>1 DEF Result
<1>9. CASE GiveUp(t)
  <2>1. thread[t].call \in Calls
    BY <1>9 DEF GiveUp, Linked
  <2> QED  BY <1>2, <1>3, <1>4, <1>9, <2>1 DEF GiveUp, Listed
<1> QED  BY <1>1, <1>5, <1>6, <1>7, <1>8, <1>9 DEF ThreadStep

\* The steps of the shutdown.
LEMMA ShutdownInv ==
  ASSUME BusInv, BeginShutdown \/ ShutdownNext
  PROVE  BusInv'
<1> USE DEF BusInv, ShutdownStep
<1>1. CASE StopSensors
  <2>1. /\ UNCHANGED <<ledger, notified, deadLetters, futures, thread, closing, drained>>
        /\ shutdown = "sensors" /\ shutdown' = "drain" /\ stopped' = TRUE
        /\ calls' = [i \in Calls |-> Cancelled(calls[i])]
    BY <1>1 DEF StopSensors
  <2>2. /\ Len(calls) \in Nat /\ Len(calls) <= MaxCalls
        /\ \A i \in Calls : calls[i] \in Call
    BY CallTypes
  <2>3. \A i \in Calls : Cancelled(calls[i]) \in Call
    BY <2>2 DEF Cancelled, Call
  <2>4. calls' \in Seq(Call) /\ Len(calls') = Len(calls) /\ Calls' = Calls
    <3>1. calls' \in Seq(Call)
      BY <2>1, <2>2, <2>3, IsASeq DEF Calls
    <3>2. DOMAIN calls' = 1..Len(calls) /\ DOMAIN calls' = 1..Len(calls') /\ Len(calls') \in Nat
      BY <2>1, <3>1, LenProperties DEF Calls
    <3>3. Len(calls') = Len(calls)
      BY <2>2, <3>2
    <3> QED  BY <3>1, <3>3 DEF Calls
  <2>5. \A i \in Calls :
          /\ calls'[i].event = calls[i].event /\ calls'[i].by = calls[i].by
          /\ calls'[i].pc # calls[i].pc =>
               calls'[i].pc \in {"orphaned", "cancelled"}
               /\ calls[i].pc \notin {"done", "failed"}
          /\ calls'[i].by \in Tasks =>
               calls'[i].pc \notin {"scheduled", "recording", "recorded", "duplicate"}
    BY <2>1, <2>2 DEF Cancelled, Call
  <2>6. TypeOK' /\ Linked'
    BY <2>1, <2>4 DEF TypeOK, Linked
  <2>7. Recorded' /\ Announced' /\ Traced'
    <3>1. \A i \in Calls : calls'[i].pc \in {"recorded", "duplicate", "done"} => UNCHANGED calls[i].pc
      BY <2>5
    <3>2. Recorded'
      BY <2>1, <2>4, <2>5, <3>1 DEF Recorded
    <3>3. Announced'
      <4>1. \A i \in Calls : calls'[i].pc = "recorded" => calls[i].pc = "recorded"
        BY <3>1
      <4>2. \A i \in Calls : calls'[i].pc = "recorded" => notified'[calls'[i].event] = 0
        BY <2>1, <2>5, <4>1 DEF Announced
      <4>3. \A i, j \in Calls :
              calls'[i].pc = "recorded" /\ calls'[j].pc = "recorded"
              /\ calls'[i].event = calls'[j].event => i = j
        BY <2>5, <4>1 DEF Announced
      <4> QED  BY <2>1, <2>4, <4>2, <4>3 DEF Announced
    <3>4. Traced'
      BY <2>1, <2>4, <2>5 DEF Traced
    <3> QED  BY <3>2, <3>3, <3>4
  <2>8. Quiet'
    BY <2>1, <2>4, <2>5 DEF Quiet, Over, AfterDrain
  <2> QED  BY <2>6, <2>7, <2>8
<1>2. CASE Drain
  <2>1. /\ UNCHANGED <<calls, ledger, notified, deadLetters, futures, thread, stopped>>
        /\ shutdown = "drain" /\ shutdown' = "draining" /\ closing' = TRUE /\ drained' = futures
    BY <1>2 DEF Drain
  <2>2. TypeOK' /\ Linked'
    BY <2>1 DEF TypeOK, Linked, Calls
  <2>3. Recorded' /\ Announced' /\ Traced' /\ Quiet'
    BY <2>1 DEF Recorded, Announced, Traced, Quiet, Calls, Over, AfterDrain
  <2> QED  BY <2>2, <2>3
<1>3. ASSUME UNCHANGED <<calls, ledger, notified, deadLetters, futures, thread, closing, drained, stopped>>,
             \/ /\ shutdown = "no" /\ shutdown' = "sensors"
                /\ \A i \in Calls : calls[i].by \in Routes => Over(i)
             \/ /\ shutdown \notin {"no", "sensors"}
                /\ shutdown' \in {"report", "seal", "unlock", "unlocked", "down"},
             AfterDrain' => AfterDrain \/ AllDrained
      PROVE  BusInv'
  <2>1. TypeOK' /\ Linked'
    BY <1>3 DEF TypeOK, Linked, Calls
  <2>2. Recorded' /\ Announced' /\ Traced'
    BY <1>3 DEF Recorded, Announced, Traced, Calls
  <2>3. Quiet'
    BY <1>3 DEF Quiet, Calls, Over, AfterDrain, AllDrained
  <2> QED  BY <2>1, <2>2, <2>3
<1>4. CASE BeginShutdown
  BY <1>3, <1>4 DEF BeginShutdown, AfterDrain
<1>5. CASE DrainEnds
  BY <1>3, <1>5 DEF DrainEnds
<1>6. CASE LastReport \/ Seal \/ Unlock \/ LoopEnds
  BY <1>3, <1>6 DEF LastReport, Seal, Unlock, LoopEnds, AfterDrain
<1> QED  BY <1>1, <1>2, <1>4, <1>5, <1>6 DEF ShutdownNext

LEMMA BusStep == BusInv /\ [Next]_vars => BusInv'
<1> SUFFICES ASSUME BusInv, [Next]_vars PROVE BusInv'
  OBVIOUS
<1>1. ASSUME NEW p \in Tasks \cup Routes, NEW e \in Events, AsyncPublish(p, e) PROVE BusInv'
  <2>1. /\ p \in Publishers /\ Begin(e, p) /\ Len(calls) < MaxCalls
        /\ UNCHANGED <<ledger, notified, deadLetters, futures, thread, closing, drained,
                       shutdown, stopped>>
        /\ (p \in Tasks /\ ~stopped) \/ (p \in Routes /\ shutdown = "no")
    BY <1>1 DEF AsyncPublish, Publishers
  <2> QED  BY <2>1, BeginInv, ClassesAssumption
<1>2. CASE \E i \in Calls : CallStep(i)
  BY <1>2, CallStepInv
<1>3. CASE \E t \in Threads : Offer(t) \/ ThreadStep(t)
  BY <1>3, ThreadInv
<1>4. CASE BeginShutdown \/ ShutdownNext
  BY <1>4, ShutdownInv
<1>5. CASE UNCHANGED vars
  <2>1. UNCHANGED <<calls, ledger, notified, deadLetters, futures, thread, closing, drained,
                    shutdown, stopped>> /\ Calls' = Calls
    BY <1>5 DEF vars, Calls
  <2> QED  BY <2>1 DEF BusInv, TypeOK, Linked, Recorded, Announced, Traced, Quiet, Over, AfterDrain
<1> QED  BY <1>1, <1>2, <1>3, <1>4, <1>5 DEF Next

LEMMA BusAlways == Spec => []BusInv
BY BusInit, BusStep, PTL DEF Spec

-----------------------------------------------------------------------------

\* Every variable of the broker keeps its type, and its counters their bounds.
THEOREM BusTypes == Spec => []TypeOK
<1>1. BusInv => TypeOK
  BY DEF BusInv
<1> QED  BY <1>1, BusAlways, PTL

\* Engines and dashboards hear of an event once at most, and never of one that
\* is not recorded, however many publications of it overlap.
THEOREM ToldOnce == Spec => []NotifiedOnce
<1>1. BusInv => NotifiedOnce
  BY DEF BusInv, Announced, NotifiedOnce
<1> QED  BY <1>1, BusAlways, PTL

\* What a filesystem thread has handed over is in the ledger, in the dead
\* letters or in the hands of its thread.
THEOREM NothingDropped == Spec => []HandedOverIsKnown
<1>1. BusInv => HandedOverIsKnown
  BY DEF BusInv, Recorded, Traced, HandedOverIsKnown
<1> QED  BY <1>1, BusAlways, PTL

\* When drain is over, only records of cancelled tasks, publications given up
\* and those that came too late for drain may still reach the ledger.
THEOREM DrainCovers == Spec => []DrainCoversTheRest
<1>1. BusInv => DrainCoversTheRest
  <2> SUFFICES ASSUME BusInv, AfterDrain, NEW i \in Calls, Unwritten(i)
               PROVE  \/ calls[i].pc = "orphaned"
                      \/ i \in deadLetters
                      \/ i \notin drained /\ \E t \in Threads : thread[t].call = i
    BY DEF DrainCoversTheRest
  <2>1. calls[i].by \in Publishers /\ ~Over(i) /\ calls[i].pc # "done"
    BY CallTypes DEF BusInv, Unwritten, Over
  <2>2. i \notin drained /\ stopped /\ shutdown # "no"
    BY <2>1 DEF BusInv, Quiet, AfterDrain
  <2>3. CASE calls[i].by \in Threads
    BY <2>1, <2>2, <2>3 DEF BusInv, Traced
  <2>4. CASE calls[i].by \in Tasks
    BY <2>2, <2>4 DEF BusInv, Quiet, Unwritten
  <2>5. CASE calls[i].by \in Routes \ Tasks
    BY <2>1, <2>2, <2>5 DEF BusInv, Quiet
  <2> QED  BY <2>1, <2>3, <2>4, <2>5 DEF Publishers
<1> QED  BY <1>1, BusAlways, PTL

=============================================================================
