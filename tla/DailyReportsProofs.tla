-------------------------- MODULE DailyReportsProofs --------------------------
(***************************************************************************)
(* Proofs about DailyReports, for any number of days, events, requests,    *)
(* crashes and unfinished versions.                                        *)
(***************************************************************************)
EXTENDS DailyReports, SequenceTheorems, FiniteSetTheorems, TLAPS

-----------------------------------------------------------------------------
(* The invariant.                                                            *)

Totals == {0} \cup {TotalOf(counts) : counts \in [Days -> Nat]}
Snapshot == [generated : 0..MaxDays, count : Nat, total : Totals]
Kept == [report : Snapshot, whole : BOOLEAN]
Job == [pc : {"idle", "today", "days", "now", "check", "save", "finish"}, since : 0..MaxDays,
        catchUp : BOOLEAN, todo : SUBSET Days, horizon : 0..MaxDays, date : 0..MaxDays,
        report : Snapshot]

Locked == {"save", "finish"}

\* A worker knows the day it generates, and where its catch_up ends.
JobOK(state) ==
  /\ state \in Job
  /\ state.pc \in {"check"} \cup Locked => state.date \in Days
  /\ state.pc = "days" => state.horizon \in Days

Shapes ==
  /\ today \in Days /\ stored \in [Days -> Nat]
  /\ versions \in [Days -> Seq(Kept)]
  /\ DOMAIN job = Workers /\ job = [w \in Workers |-> job[w]]
  /\ \A w \in Workers : JobOK(job[w])

\* _lock: one worker at a time is between the check and the end of generate_now.
OneSaver ==
  \A w, v \in Workers : job[w].pc \in Locked /\ job[v].pc \in Locked => w = v

\* What the check and the snapshot have found still holds when the report is
\* saved: the latest version is whole, and no version shows more.
ReadyToSave(w) ==
  LET d == job[w].date IN
  /\ \A i \in 1..Len(versions[d]) :
       versions[d][i].whole /\ versions[d][i].report.count <= job[w].report.count
  /\ job[w].report.count <= stored[d]

Ready ==
  \A w \in Workers :
    /\ job[w].pc = "save" => ReadyToSave(w)
    /\ job[w].pc = "finish" => versions[job[w].date] # <<>>

\* No version shows more events than the ledger has.
Backed ==
  \A d \in Days : \A i \in 1..Len(versions[d]) : versions[d][i].report.count <= stored[d]

ReportsInv == Shapes /\ OneSaver /\ Ready /\ Backed /\ UnfinishedIsLatest /\ LaterShowsMore

LEMMA IdleOK == JobOK(Idle) /\ Idle.pc = "idle"
BY ReportBounds DEF JobOK, Job, Idle, NoReport, Snapshot, Totals, Locked

LEMMA ReportsInit == Init => ReportsInv
<1> SUFFICES ASSUME Init PROVE ReportsInv
  OBVIOUS
<1>1. today \in Days /\ stored \in [Days -> Nat] /\ versions \in [Days -> Seq(Kept)]
  BY ReportBounds DEF Init, Days
<1>2. \A d \in Days : Len(versions[d]) = 0
  BY DEF Init
<1>3. \A w \in Workers : job[w] = Idle
  BY DEF Init
<1>4. Shapes
  BY <1>1, <1>3, IdleOK DEF Init, Shapes
<1>5. OneSaver /\ Ready
  BY <1>3, IdleOK DEF OneSaver, Ready, Locked
<1>6. Backed /\ UnfinishedIsLatest /\ LaterShowsMore
  BY <1>2 DEF Backed, UnfinishedIsLatest, LaterShowsMore
<1> QED  BY <1>4, <1>5, <1>6 DEF ReportsInv

-----------------------------------------------------------------------------
(* The steps that leave the reports alone.                                   *)

\* The ledger only grows; a worker that is saving goes on, or stops.
LEMMA Elsewhere ==
  ASSUME ReportsInv, UNCHANGED versions, today' \in Days, stored' \in [Days -> Nat],
         \A d \in Days : stored[d] <= stored'[d],
         job' = [w \in Workers |-> job'[w]], DOMAIN job' = Workers,
         \A w \in Workers : job'[w] = job[w] \/ (JobOK(job'[w]) /\ job'[w].pc \notin Locked)
  PROVE  ReportsInv'
<1>1. Shapes'
  BY DEF ReportsInv, Shapes
<1>2. OneSaver'
  BY DEF ReportsInv, OneSaver, Locked
<1>3. Ready'
  <2> SUFFICES ASSUME NEW w \in Workers, job'[w] = job[w], job[w].pc \in Locked
               PROVE  /\ job[w].pc = "save" => ReadyToSave(w)'
                      /\ job[w].pc = "finish" => versions[job[w].date] # <<>>
    BY DEF Ready, Locked
  <2>1. job[w].date \in Days /\ job[w].report.count \in Nat
    BY DEF ReportsInv, Shapes, JobOK, Locked, Job, Snapshot
  <2>2. stored[job[w].date] \in Nat /\ stored'[job[w].date] \in Nat
        /\ stored[job[w].date] <= stored'[job[w].date]
    BY <2>1 DEF ReportsInv, Shapes
  <2> QED  BY <2>1, <2>2 DEF ReportsInv, Ready, ReadyToSave
<1>4. Backed'
  <2> SUFFICES ASSUME NEW d \in Days, NEW i \in 1..Len(versions[d])
               PROVE  versions[d][i].report.count <= stored'[d]
    BY DEF Backed
  <2>1. versions[d][i].report.count <= stored[d] /\ versions[d][i].report.count \in Nat
    <3>1. versions[d] \in Seq(Kept)
      BY DEF ReportsInv, Shapes
    <3>2. versions[d][i] \in Kept
      BY <3>1
    <3> QED  BY <3>2 DEF ReportsInv, Backed, Kept, Snapshot
  <2>2. stored[d] \in Nat /\ stored'[d] \in Nat /\ stored[d] <= stored'[d]
    BY DEF ReportsInv, Shapes
  <2> QED  BY <2>1, <2>2
<1>5. UnfinishedIsLatest' /\ LaterShowsMore'
  BY DEF ReportsInv, UnfinishedIsLatest, LaterShowsMore
<1> QED  BY <1>1, <1>2, <1>3, <1>4, <1>5 DEF ReportsInv

\* One worker takes a step outside the lock.
LEMMA WorkerElsewhere ==
  ASSUME ReportsInv, UNCHANGED <<versions, today, stored>>, NEW w \in Workers, NEW state,
         Becomes(w, state), JobOK(state), state.pc \notin Locked
  PROVE  ReportsInv'
<1>1. /\ job' = [v \in Workers |-> job'[v]] /\ DOMAIN job' = Workers
      /\ \A v \in Workers : job'[v] = IF v = w THEN state ELSE job[v]
  BY DEF Becomes, ReportsInv, Shapes
<1>2. \A d \in Days : stored[d] <= stored'[d]
  BY DEF ReportsInv, Shapes
<1> QED  BY <1>1, <1>2, Elsewhere DEF ReportsInv, Shapes

LEMMA DaysType == Days \subseteq 0..MaxDays /\ Days \subseteq Nat
BY ReportBounds DEF Days

\* Midnight, and events on their way.
LEMMA ClockInv ==
  ASSUME ReportsInv, Midnight \/ CreateEvent \/ \E d \in Days : StoreEvent(d)
  PROVE  ReportsInv'
<1>1. /\ DOMAIN job = Workers /\ job = [w \in Workers |-> job[w]]
      /\ today \in Days /\ stored \in [Days -> Nat]
  BY DEF ReportsInv, Shapes
<1>2. CASE Midnight
  <2>1. today' \in Days /\ UNCHANGED <<stored, versions, job>>
    BY <1>1, <1>2, ReportBounds DEF Midnight, Days
  <2> QED  BY <1>1, <2>1, Elsewhere
<1>3. CASE CreateEvent
  <2>1. UNCHANGED <<today, stored, versions, job>>
    BY <1>3 DEF CreateEvent
  <2> QED  BY <1>1, <2>1, Elsewhere
<1>4. ASSUME NEW d \in Days, StoreEvent(d) PROVE ReportsInv'
  <2>1. UNCHANGED <<today, versions, job>> /\ stored' = [stored EXCEPT ![d] = @ + 1]
    BY <1>4 DEF StoreEvent
  <2>2. stored' \in [Days -> Nat] /\ \A e \in Days : stored[e] <= stored'[e]
    BY <1>1, <2>1
  <2> QED  BY <1>1, <2>1, <2>2, Elsewhere
<1> QED  BY <1>2, <1>3, <1>4

\* The loop, a request and the shutdown before the check.
LEMMA LoopInv ==
  ASSUME ReportsInv, LoopStep \/ (\E d \in Days : Ask(d)) \/ \E w \in Workers : GenerateToday(w)
  PROVE  ReportsInv'
<1> USE DEF clock
<1>1. /\ today \in Days /\ "loop" \in Workers /\ "dashboard" \in Workers
      /\ \A w \in Workers : JobOK(job[w])
  BY DEF ReportsInv, Shapes, Workers
<1>2. JobOK(Idle) /\ Idle \in Job /\ Idle.pc = "idle"
  BY IdleOK DEF JobOK
<1>3. ASSUME NEW w \in Workers, NEW state \in Job, NEW d \in Days, Generate(w, state, d),
             UNCHANGED <<versions, today, stored>>
      PROVE  ReportsInv'
  <2> DEFINE new == [state EXCEPT !.pc = "check", !.date = d]
  <2>1. JobOK(new) /\ new.pc \notin Locked
    BY DaysType DEF JobOK, Job, Locked
  <2> QED  BY <1>3, <2>1, WorkerElsewhere DEF Generate
<1>4. CASE CatchUp
  <2> DEFINE new == [Idle EXCEPT !.pc = "today", !.since = today, !.catchUp = TRUE,
                                 !.todo = RecordedDays \cup ReportDays]
  <2>1. RecordedDays \cup ReportDays \subseteq Days
    BY DEF RecordedDays, ReportDays
  <2>2. JobOK(new) /\ new.pc \notin Locked
    BY <1>1, <1>2, <2>1, DaysType DEF JobOK, Job, Locked
  <2> QED  BY <1>1, <1>4, <2>2, WorkerElsewhere DEF CatchUp
<1>5. CASE CatchUpToday
  <2> DEFINE new == [job["loop"] EXCEPT !.pc = "days", !.horizon = today]
  <2>1. JobOK(new) /\ new.pc \notin Locked
    BY <1>1, DaysType DEF JobOK, Job, Locked
  <2> QED  BY <1>1, <1>5, <2>1, WorkerElsewhere DEF CatchUpToday
<1>6. CASE Refresh
  <2> DEFINE new == [Idle EXCEPT !.pc = "now", !.since = today]
  <2>1. JobOK(new) /\ new.pc \notin Locked
    BY <1>1, <1>2, DaysType DEF JobOK, Job, Locked
  <2> QED  BY <1>1, <1>6, <2>1, WorkerElsewhere DEF Refresh
<1>7. CASE CatchUpDay
  <2>1. PICK d \in job["loop"].todo :
          /\ UNCHANGED <<versions, today, stored>> /\ job["loop"].pc = "days"
          /\ LET rest == [job["loop"] EXCEPT !.todo = @ \ {d}] IN
             Raise("loop") \/ Generate("loop", rest, d) \/ Becomes("loop", rest)
    BY <1>7 DEF CatchUpDay, Does
  <2> DEFINE rest == [job["loop"] EXCEPT !.todo = @ \ {d}]
  <2>2. d \in Days /\ job["loop"] \in Job
    BY <1>1 DEF JobOK, Job
  <2>3. rest \in Job /\ rest.pc = "days" /\ rest.horizon = job["loop"].horizon
    BY <2>1, <2>2 DEF Job
  <2>4. JobOK(rest) /\ rest.pc \notin Locked
    BY <1>1, <2>1, <2>3 DEF JobOK, Locked
  <2>5. CASE Raise("loop")
    BY <1>1, <1>2, <2>1, <2>5, WorkerElsewhere DEF Raise, Locked
  <2>6. CASE Generate("loop", rest, d)
    BY <1>1, <1>3, <2>1, <2>2, <2>3, <2>6
  <2>7. CASE Becomes("loop", rest)
    BY <1>1, <2>1, <2>4, <2>7, WorkerElsewhere
  <2> QED  BY <2>1, <2>5, <2>6, <2>7
<1>8. CASE CatchUpEnds
  <2> DEFINE state == job["loop"]
             new == [Idle EXCEPT !.since = state.since, !.catchUp = TRUE]
  <2>1. UNCHANGED <<versions, today, stored>> /\ state.pc = "days"
        /\ (Generate("loop", new, state.horizon) \/ Raise("loop"))
    BY <1>8 DEF CatchUpEnds, Does
  <2>2. state \in Job /\ state.horizon \in Days
    BY <1>1, <2>1 DEF JobOK
  <2>3. new \in Job
    BY <1>2, <2>2 DEF Job
  <2>4. CASE Raise("loop")
    BY <1>1, <1>2, <2>1, <2>4, WorkerElsewhere DEF Raise, Locked
  <2>5. CASE Generate("loop", new, state.horizon)
    BY <1>1, <1>3, <2>1, <2>2, <2>3, <2>5
  <2> QED  BY <2>1, <2>4, <2>5
<1>9. ASSUME NEW d \in Days, Ask(d) PROVE ReportsInv'
  <2> DEFINE new == [Idle EXCEPT !.since = today]
  <2>1. new \in Job
    BY <1>1, <1>2, DaysType DEF Job
  <2> QED  BY <1>1, <1>3, <1>9, <2>1 DEF Ask
<1>10. ASSUME NEW w \in Workers, GenerateToday(w) PROVE ReportsInv'
  <2> DEFINE new == [Idle EXCEPT !.since = job[w].since]
  <2>1. new \in Job
    BY <1>1, <1>2 DEF JobOK, Job
  <2> QED  BY <1>1, <1>3, <1>10, <2>1 DEF GenerateToday
<1> QED  BY <1>4, <1>5, <1>6, <1>7, <1>8, <1>9, <1>10 DEF LoopStep

\* The life of the app, and a write that fails.
LEMMA LifeInv ==
  ASSUME ReportsInv, Stop \/ Stopped \/ Crash \/ Restart \/ \E w \in Workers : TornSave(w)
  PROVE  ReportsInv'
<1> USE DEF clock
<1>1. /\ DOMAIN job = Workers /\ job = [w \in Workers |-> job[w]]
      /\ today \in Days /\ stored \in [Days -> Nat]
  BY DEF ReportsInv, Shapes
<1>2. JobOK(Idle) /\ Idle \in Job /\ Idle.pc = "idle"
  BY IdleOK DEF JobOK
<1>3. CASE Stop
  <2> DEFINE new == [Idle EXCEPT !.pc = "now", !.since = today]
  <2>1. JobOK(new) /\ new.pc \notin Locked /\ "shutdown" \in Workers
    BY <1>1, <1>2, DaysType DEF JobOK, Job, Locked, Workers
  <2> QED  BY <1>3, <2>1, WorkerElsewhere DEF Stop
<1>4. CASE Stopped \/ Crash
  <2>1. UNCHANGED <<today, stored, versions>> /\ job' = [w \in Workers |-> Idle]
    BY <1>4 DEF Stopped, Crash, Down
  <2> QED  BY <1>1, <1>2, <2>1, Elsewhere DEF Locked
<1>5. CASE Restart
  <2>1. UNCHANGED <<today, stored, versions, job>>
    BY <1>5 DEF Restart
  <2> QED  BY <1>1, <2>1, Elsewhere
<1>6. ASSUME NEW w \in Workers, TornSave(w) PROVE ReportsInv'
  BY <1>2, <1>6, WorkerElsewhere DEF TornSave, Raise, Locked
<1> QED  BY <1>3, <1>4, <1>5, <1>6

-----------------------------------------------------------------------------
(* generate_now under its lock.                                              *)

LEMMA BuildInv ==
  ASSUME ReportsInv, NEW w \in Workers, BuildReport(w)
  PROVE  ReportsInv'
<1> DEFINE d == job[w].date
           report == [job[w].report EXCEPT !.count = EventsOf(d), !.total = Total]
           new == [job[w] EXCEPT !.pc = "save", !.report = report]
<1>1. /\ UNCHANGED <<today, stored, versions>>
      /\ job[w].pc = "check" /\ LockFree(w)
      /\ Raise(w) \/ (MayReplace(d) /\ Becomes(w, new))
  BY DEF BuildReport, Does, clock
<1>2. CASE Raise(w)
  BY <1>1, <1>2, IdleOK, WorkerElsewhere DEF Raise, Locked
<1>3. CASE MayReplace(d) /\ Becomes(w, new)
  <2>1. d \in Days /\ job[w] \in Job /\ stored \in [Days -> Nat]
    BY <1>1 DEF ReportsInv, Shapes, JobOK
  <2>2. report \in Snapshot /\ report.count = stored[d]
    <3>1. Total \in Totals
      BY <2>1 DEF Total, Totals
    <3> QED  BY <2>1, <3>1 DEF EventsOf, Job, Snapshot
  <2>3. new \in Job /\ new.pc = "save" /\ new.date = d /\ new.report = report
    BY <2>1, <2>2 DEF Job
  <2>4. JobOK(new)
    BY <2>1, <2>3 DEF JobOK
  <2>5. /\ job' = [v \in Workers |-> job'[v]] /\ DOMAIN job' = Workers
        /\ \A v \in Workers : job'[v] = IF v = w THEN new ELSE job[v]
    BY <1>3 DEF Becomes, ReportsInv, Shapes
  <2>6. Shapes'
    BY <1>1, <2>4, <2>5 DEF ReportsInv, Shapes
  <2>7. OneSaver'
    BY <1>1, <2>5 DEF LockFree, OneSaver, Locked
  <2>8. \A i \in 1..Len(versions[d]) :
          versions[d][i].whole /\ versions[d][i].report.count <= stored[d]
    <3>1. versions[d] \in Seq(Kept) /\ Len(versions[d]) \in Nat
      BY <2>1 DEF ReportsInv, Shapes
    <3>2. versions[d] # <<>> => versions[d][Len(versions[d])].whole
      BY <1>3 DEF MayReplace, Verified, Exists, Latest
    <3>3. \A i \in 1..Len(versions[d]) : i \in 1..(Len(versions[d]) - 1) \/ i = Len(versions[d])
      BY <3>1
    <3>4. \A i \in 1..Len(versions[d]) : versions[d][i].whole
      BY <2>1, <3>1, <3>2, <3>3 DEF ReportsInv, UnfinishedIsLatest
    <3> QED  BY <2>1, <3>4 DEF ReportsInv, Backed
  <2>9. Ready'
    <3>1. ReadyToSave(w)'
      <4>1. job'[w].date = d /\ job'[w].report.count = stored[d] /\ stored[d] \in Nat
        BY <2>1, <2>2, <2>3, <2>5
      <4>2. versions' = versions /\ stored' = stored
        BY <1>1
      <4> QED  BY <2>8, <4>1, <4>2 DEF ReadyToSave
    <3>2. \A v \in Workers : v # w => job'[v].pc \notin Locked
      BY <1>1, <2>5 DEF LockFree, Locked
    <3> QED  BY <2>3, <2>5, <3>1, <3>2 DEF Ready, Locked
  <2>10. Backed' /\ UnfinishedIsLatest' /\ LaterShowsMore'
    BY <1>1 DEF ReportsInv, Backed, UnfinishedIsLatest, LaterShowsMore
  <2> QED  BY <2>6, <2>7, <2>9, <2>10 DEF ReportsInv
<1> QED  BY <1>1, <1>2, <1>3

\* What the first file of a version and its manifest do to the reports of d.
AddsVersionTo(d, report) ==
  /\ versions' \in [Days -> Seq(Kept)]
  /\ \A e \in Days \ {d} : versions'[e] = versions[e]
  /\ Len(versions[d]) \in Nat /\ Len(versions'[d]) = Len(versions[d]) + 1
  /\ \A i \in 1..Len(versions[d]) : versions'[d][i] = versions[d][i]
  /\ versions'[d][Len(versions[d]) + 1].report = report
Completes(d) ==
  /\ versions' \in [Days -> Seq(Kept)]
  /\ \A e \in Days \ {d} : versions'[e] = versions[e]
  /\ Len(versions[d]) \in Nat /\ Len(versions[d]) >= 1 /\ Len(versions'[d]) = Len(versions[d])
  /\ \A i \in 1..Len(versions[d]) : /\ versions'[d][i].report = versions[d][i].report
                                    /\ versions[d][i].whole => versions'[d][i].whole

Dated(w) == [job[w].report EXCEPT !.generated = today]

LEMMA BeginSaveEffect ==
  ASSUME ReportsInv, NEW w \in Workers, BeginSave(w)
  PROVE  /\ job[w].date \in Days
         /\ Dated(w) \in Snapshot /\ Dated(w).count = job[w].report.count
         /\ AddsVersionTo(job[w].date, Dated(w))
         /\ job[w].pc = "save" /\ UNCHANGED <<today, stored>>
         /\ Becomes(w, [job[w] EXCEPT !.pc = "finish", !.report = Dated(w)])
<1> DEFINE d == job[w].date
           report == Dated(w)
           new == [report |-> report, whole |-> FALSE]
<1>1. /\ versions' = [versions EXCEPT ![d] = Append(@, new)]
      /\ job[w].pc = "save" /\ UNCHANGED <<today, stored>>
      /\ Becomes(w, [job[w] EXCEPT !.pc = "finish", !.report = report])
  BY DEF BeginSave, Does, AddVersion, clock, Dated
<1>2. /\ d \in Days /\ job[w] \in Job /\ today \in Days
      /\ versions \in [Days -> Seq(Kept)]
  BY <1>1 DEF ReportsInv, Shapes, JobOK, Locked
<1>3. report \in Snapshot /\ report.count = job[w].report.count
  BY <1>2, DaysType DEF Job, Snapshot, Dated
<1>4. new \in Kept
  BY <1>3 DEF Kept
<1>5. /\ versions[d] \in Seq(Kept) /\ versions'[d] = Append(versions[d], new)
      /\ \A e \in Days \ {d} : versions'[e] = versions[e]
  BY <1>1, <1>2
<1>6. versions' \in [Days -> Seq(Kept)]
  BY <1>1, <1>2, <1>4
<1>7. /\ Len(versions[d]) \in Nat /\ Len(versions'[d]) = Len(versions[d]) + 1
      /\ \A i \in 1..Len(versions[d]) : versions'[d][i] = versions[d][i]
      /\ versions'[d][Len(versions[d]) + 1].report = report
  BY <1>4, <1>5
<1> QED  BY <1>1, <1>2, <1>3, <1>5, <1>6, <1>7 DEF AddsVersionTo

LEMMA BeginSaveInv ==
  ASSUME ReportsInv, NEW w \in Workers, BeginSave(w)
  PROVE  ReportsInv'
<1> DEFINE d == job[w].date
           report == Dated(w)
           new == [job[w] EXCEPT !.pc = "finish", !.report = report]
           n == Len(versions[d])
<1>1. /\ d \in Days /\ report \in Snapshot /\ report.count = job[w].report.count
      /\ versions' \in [Days -> Seq(Kept)]
      /\ \A e \in Days \ {d} : versions'[e] = versions[e]
      /\ n \in Nat /\ Len(versions'[d]) = n + 1
      /\ \A i \in 1..n : versions'[d][i] = versions[d][i]
      /\ versions'[d][n + 1].report = report
      /\ job[w].pc = "save" /\ UNCHANGED <<today, stored>>
      /\ Becomes(w, new)
  BY BeginSaveEffect DEF AddsVersionTo
<1>2. /\ job[w] \in Job /\ \A v \in Workers \ {w} : job[v].pc \notin Locked
  BY <1>1 DEF ReportsInv, Shapes, JobOK, OneSaver, Locked
<1>3. new \in Job /\ new.pc = "finish" /\ new.date = d
  BY <1>1, <1>2 DEF Job
<1>4. /\ job' = [v \in Workers |-> job'[v]] /\ DOMAIN job' = Workers
      /\ \A v \in Workers : job'[v] = IF v = w THEN new ELSE job[v]
  BY <1>1 DEF Becomes, ReportsInv, Shapes
<1>5. Shapes'
  BY <1>1, <1>3, <1>4 DEF ReportsInv, Shapes, JobOK
<1>6. OneSaver'
  BY <1>2, <1>4 DEF OneSaver
<1>7. Ready'
  <2>1. versions'[d] # <<>>
    BY <1>1
  <2> QED  BY <1>2, <1>3, <1>4, <2>1 DEF Ready, Locked
<1>8. ReadyToSave(w)
  BY <1>1 DEF ReportsInv, Ready
<1>9. \A i \in 1..(n + 1) : i \in 1..n \/ i = n + 1
  BY <1>1
<1>10. Backed'
  <2>1. \A i \in 1..(n + 1) : versions'[d][i].report.count <= stored[d]
    BY <1>1, <1>8, <1>9 DEF ReadyToSave, ReportsInv, Backed
  <2> QED  BY <1>1, <2>1 DEF ReportsInv, Backed
<1>11. UnfinishedIsLatest'
  <2>1. \A i \in 1..n : versions'[d][i].whole
    BY <1>1, <1>8 DEF ReadyToSave
  <2> QED  BY <1>1, <2>1 DEF ReportsInv, UnfinishedIsLatest
<1>12. LaterShowsMore'
  <2>1. ASSUME NEW i \in 1..(n + 1), NEW j \in 1..(n + 1), i < j
        PROVE  versions'[d][i].report.count <= versions'[d][j].report.count
    <3>1. i \in 1..n
      BY <1>1, <2>1
    <3>2. CASE j \in 1..n
      BY <1>1, <2>1, <3>1, <3>2 DEF ReportsInv, LaterShowsMore
    <3>3. CASE j = n + 1
      BY <1>1, <1>8, <3>1, <3>3 DEF ReadyToSave
    <3> QED  BY <1>9, <3>2, <3>3
  <2> QED  BY <1>1, <2>1 DEF ReportsInv, LaterShowsMore
<1> QED  BY <1>5, <1>6, <1>7, <1>10, <1>11, <1>12 DEF ReportsInv

LEMMA FinishSaveEffect ==
  ASSUME ReportsInv, NEW w \in Workers, FinishSave(w)
  PROVE  /\ job[w].date \in Days /\ Completes(job[w].date)
         /\ job[w].pc = "finish" /\ UNCHANGED <<today, stored>>
         /\ Becomes(w, AfterReport(w))
<1> DEFINE d == job[w].date
           n == Len(versions[d])
<1>1. /\ versions' = [versions EXCEPT ![d][n].whole = TRUE]
      /\ job[w].pc = "finish" /\ UNCHANGED <<today, stored>>
      /\ Becomes(w, AfterReport(w))
  BY DEF FinishSave, Does, clock
<1>2. d \in Days /\ versions \in [Days -> Seq(Kept)] /\ versions[d] # <<>>
  BY <1>1 DEF ReportsInv, Shapes, JobOK, Locked, Ready
<1>3. versions[d] \in Seq(Kept) /\ n \in Nat /\ n >= 1 /\ n \in 1..n /\ versions[d][n] \in Kept
  BY <1>2
<1> DEFINE whole == [versions[d][n] EXCEPT !.whole = TRUE]
           line == [versions[d] EXCEPT ![n] = whole]
<1>4. whole \in Kept /\ whole.whole = TRUE /\ whole.report = versions[d][n].report
  BY <1>3 DEF Kept
<1>5. /\ line \in Seq(Kept) /\ Len(line) = n
      /\ \A i \in 1..n : line[i] = IF i = n THEN whole ELSE versions[d][i]
  BY <1>3, <1>4, ExceptSeq
<1>6. versions' = [versions EXCEPT ![d] = line]
  BY <1>1
<1>7. versions' \in [Days -> Seq(Kept)] /\ versions'[d] = line
      /\ \A e \in Days \ {d} : versions'[e] = versions[e]
  BY <1>2, <1>5, <1>6
<1>8. \A i \in 1..n : /\ line[i].report = versions[d][i].report
                      /\ versions[d][i].whole => line[i].whole
  BY <1>4, <1>5
<1> QED  BY <1>1, <1>2, <1>3, <1>5, <1>7, <1>8 DEF Completes

LEMMA FinishSaveInv ==
  ASSUME ReportsInv, NEW w \in Workers, FinishSave(w)
  PROVE  ReportsInv'
<1> DEFINE d == job[w].date
           n == Len(versions[d])
           new == AfterReport(w)
<1>1. /\ d \in Days /\ versions' \in [Days -> Seq(Kept)]
      /\ \A e \in Days \ {d} : versions'[e] = versions[e]
      /\ n \in Nat /\ n >= 1 /\ Len(versions'[d]) = n
      /\ \A i \in 1..n : /\ versions'[d][i].report = versions[d][i].report
                         /\ versions[d][i].whole => versions'[d][i].whole
      /\ job[w].pc = "finish" /\ UNCHANGED <<today, stored>>
      /\ Becomes(w, new)
  BY FinishSaveEffect DEF Completes
<1>2. /\ job[w] \in Job /\ \A v \in Workers \ {w} : job[v].pc \notin Locked
  BY <1>1 DEF ReportsInv, Shapes, JobOK, OneSaver, Locked
<1>3. JobOK(new) /\ new.pc \notin Locked
  <2>1. CASE job[w].horizon # 0
    <3>1. new = [job[w] EXCEPT !.pc = "days", !.date = 0, !.report = NoReport]
      BY <2>1 DEF AfterReport
    <3>2. NoReport \in Snapshot /\ 0 \in 0..MaxDays
      BY ReportBounds DEF NoReport, Snapshot, Totals
    <3>3. job[w].horizon \in Days
      BY <1>2, <2>1, ReportBounds DEF Job, Days
    <3> QED  BY <1>2, <3>1, <3>2, <3>3 DEF JobOK, Job, Locked
  <2>2. CASE job[w].horizon = 0
    BY <2>2, IdleOK DEF AfterReport, Locked
  <2> QED  BY <2>1, <2>2
<1>4. /\ job' = [v \in Workers |-> job'[v]] /\ DOMAIN job' = Workers
      /\ \A v \in Workers : job'[v] = IF v = w THEN new ELSE job[v]
  BY <1>1 DEF Becomes, ReportsInv, Shapes
<1>5. Shapes'
  BY <1>1, <1>3, <1>4 DEF ReportsInv, Shapes
<1>6. \A v \in Workers : job'[v].pc \notin Locked
  BY <1>2, <1>3, <1>4
<1>7. OneSaver' /\ Ready'
  BY <1>6 DEF OneSaver, Ready, Locked
<1>8. Backed'
  BY <1>1 DEF ReportsInv, Backed
<1>9. UnfinishedIsLatest'
  BY <1>1 DEF ReportsInv, UnfinishedIsLatest
<1>10. LaterShowsMore'
  BY <1>1 DEF ReportsInv, LaterShowsMore
<1> QED  BY <1>5, <1>7, <1>8, <1>9, <1>10 DEF ReportsInv

-----------------------------------------------------------------------------

LEMMA ReportsStep == ReportsInv /\ [Next]_vars => ReportsInv'
<1> SUFFICES ASSUME ReportsInv, [Next]_vars PROVE ReportsInv'
  OBVIOUS
<1>1. CASE Midnight \/ CreateEvent \/ \E d \in Days : StoreEvent(d)
  BY <1>1, ClockInv
<1>2. CASE LoopStep \/ (\E d \in Days : Ask(d)) \/ \E w \in Workers : GenerateToday(w)
  BY <1>2, LoopInv
<1>3. CASE \E w \in Workers : BuildReport(w) \/ BeginSave(w) \/ FinishSave(w)
  BY <1>3, BuildInv, BeginSaveInv, FinishSaveInv
<1>4. CASE Stop \/ Stopped \/ Crash \/ Restart \/ \E w \in Workers : TornSave(w)
  BY <1>4, LifeInv
<1>5. CASE UNCHANGED vars
  <2>1. UNCHANGED <<today, stored, versions, job>>
    BY <1>5 DEF vars
  <2>2. stored \in [Days -> Nat] /\ \A d \in Days : stored[d] <= stored'[d]
    BY <2>1 DEF ReportsInv, Shapes
  <2> QED  BY <2>1, <2>2, Elsewhere DEF ReportsInv, Shapes
<1> QED  BY <1>1, <1>2, <1>3, <1>4, <1>5 DEF Next, Generating

LEMMA ReportsAlways == Spec => []ReportsInv
BY ReportsInit, ReportsStep, PTL DEF Spec

\* A version that was never finished stays the latest of its day: nothing is
\* put over it, by none of the three workers and after no restart.
THEOREM NothingCoversUnfinished == Spec => []UnfinishedIsLatest
<1>1. ReportsInv => UnfinishedIsLatest
  BY DEF ReportsInv
<1> QED  BY <1>1, ReportsAlways, PTL

\* A later version of a day never shows fewer events than an earlier one.
THEOREM ReportsGrow == Spec => []LaterShowsMore
<1>1. ReportsInv => LaterShowsMore
  BY DEF ReportsInv
<1> QED  BY <1>1, ReportsAlways, PTL

LEMMA VersionsStep ==
  ASSUME ReportsInv, [Next]_vars, NEW d \in Days
  PROVE  /\ Len(versions'[d]) >= Len(versions[d])
         /\ \A i \in 1..Len(versions[d]) :
              /\ versions'[d][i].report = versions[d][i].report
              /\ versions[d][i].whole => versions'[d][i].whole
<1>1. Len(versions[d]) \in Nat
  BY DEF ReportsInv, Shapes
<1>2. CASE UNCHANGED versions
  BY <1>1, <1>2
<1>3. ASSUME NEW w \in Workers, BeginSave(w)
      PROVE  /\ Len(versions'[d]) >= Len(versions[d])
             /\ \A i \in 1..Len(versions[d]) : versions'[d][i] = versions[d][i]
  <2>1. AddsVersionTo(job[w].date, Dated(w))
    BY <1>3, BeginSaveEffect
  <2>2. CASE d = job[w].date
    BY <1>1, <2>1, <2>2 DEF AddsVersionTo
  <2>3. CASE d # job[w].date
    BY <1>1, <2>1, <2>3 DEF AddsVersionTo
  <2> QED  BY <2>2, <2>3
<1>4. ASSUME NEW w \in Workers, FinishSave(w)
      PROVE  /\ Len(versions'[d]) >= Len(versions[d])
             /\ \A i \in 1..Len(versions[d]) :
                  /\ versions'[d][i].report = versions[d][i].report
                  /\ versions[d][i].whole => versions'[d][i].whole
  <2>1. CASE d = job[w].date
    BY <1>1, <1>4, <2>1, FinishSaveEffect DEF Completes
  <2>2. CASE d # job[w].date
    BY <1>1, <1>4, <2>2, FinishSaveEffect DEF Completes
  <2> QED  BY <2>1, <2>2
<1>5. \/ UNCHANGED versions
      \/ \E w \in Workers : BeginSave(w) \/ FinishSave(w)
  <2> USE DEF vars
  <2>1. CASE Midnight \/ CreateEvent \/ \E e \in Days : StoreEvent(e) \/ Ask(e)
    BY <2>1 DEF Midnight, CreateEvent, StoreEvent, Ask
  <2>2. CASE LoopStep
    BY <2>2, Zenon DEF LoopStep, CatchUp, CatchUpToday, CatchUpDay, CatchUpEnds, Refresh
  <2>3. CASE \E w \in Workers : Generating(w) \/ TornSave(w)
    BY <2>3 DEF Generating, GenerateToday, BuildReport, TornSave
  <2>4. CASE Stop \/ Stopped \/ Crash \/ Restart
    BY <2>4 DEF Stop, Stopped, Crash, Restart, Down
  <2>5. CASE UNCHANGED vars
    BY <2>5
  <2> QED  BY <2>1, <2>2, <2>3, <2>4, <2>5 DEF Next
<1> QED  BY <1>2, <1>3, <1>4, <1>5

\* Previous reports are never overwritten: no step takes a version away,
\* changes what it shows or makes a whole one unfinished.
THEOREM ReportsStay == Spec => VersionsStay
<1>1. ReportsInv /\ [Next]_vars =>
        [\A d \in Days :
           /\ Len(versions'[d]) >= Len(versions[d])
           /\ \A i \in 1..Len(versions[d]) :
                /\ versions'[d][i].report = versions[d][i].report
                /\ versions[d][i].whole => versions'[d][i].whole]_vars
  BY VersionsStep
<1> QED  BY <1>1, ReportsAlways, PTL DEF Spec, VersionsStay

-----------------------------------------------------------------------------
(* Counts of events.                                                         *)

Counts == [Days -> 0..MaxEvents]

LEMMA EventsFinite ==
  ASSUME NEW counts
  PROVE  IsFiniteSet(EventsIn(counts)) /\ TotalOf(counts) \in Nat
<1>1. IsFiniteSet(Days) /\ IsFiniteSet(1..MaxEvents)
  BY FS_Interval, ReportBounds DEF Days
<1>2. IsFiniteSet(Days \X (1..MaxEvents))
  BY <1>1, FS_Product
<1>3. EventsIn(counts) \subseteq Days \X (1..MaxEvents)
  BY DEF EventsIn
<1> QED  BY <1>2, <1>3, FS_Subset, FS_CardinalityType DEF TotalOf

\* Fewer events of each day are fewer in all.
LEMMA TotalGrows ==
  ASSUME NEW few \in Counts, NEW many \in Counts, \A d \in Days : few[d] <= many[d]
  PROVE  TotalOf(few) <= TotalOf(many)
<1>1. EventsIn(few) \subseteq EventsIn(many)
  <2>1. ASSUME NEW d \in Days, NEW i \in 1..MaxEvents, i <= few[d] PROVE i <= many[d]
    BY <2>1 DEF Counts
  <2> QED  BY <2>1 DEF EventsIn
<1> QED  BY <1>1, EventsFinite, FS_Subset DEF TotalOf

\* The total is not less than the count of a day.
LEMMA TotalCovers ==
  ASSUME NEW counts \in Counts, NEW d \in Days
  PROVE  counts[d] <= TotalOf(counts)
<1> DEFINE ofDay == {d} \X (1..counts[d])
<1>1. counts[d] \in 0..MaxEvents
  BY DEF Counts
<1>2. IsFiniteSet(ofDay) /\ Cardinality(ofDay) = counts[d]
  <2>1. IsFiniteSet({d}) /\ Cardinality({d}) = 1
    BY FS_Singleton
  <2>2. IsFiniteSet(1..counts[d]) /\ Cardinality(1..counts[d]) = counts[d]
    BY <1>1, FS_Interval
  <2>3. IsFiniteSet(ofDay) /\ Cardinality(ofDay) = Cardinality({d}) * Cardinality(1..counts[d])
    BY <2>1, <2>2, FS_Product
  <2> QED  BY <1>1, <2>1, <2>2, <2>3
<1>3. ofDay \subseteq EventsIn(counts)
  BY <1>1, ReportBounds DEF EventsIn
<1> QED  BY <1>2, <1>3, EventsFinite, FS_Subset DEF TotalOf

\* One event more of a day is one event more in all.
LEMMA TotalOfOneMore ==
  ASSUME NEW counts \in Counts, NEW d \in Days, counts[d] < MaxEvents
  PROVE  TotalOf([counts EXCEPT ![d] = @ + 1]) = TotalOf(counts) + 1
<1> DEFINE more == [counts EXCEPT ![d] = @ + 1]
           event == <<d, counts[d] + 1>>
<1>1. event \in Days \X (1..MaxEvents) /\ event \notin EventsIn(counts)
  BY ReportBounds DEF EventsIn, Counts
<1>2. ASSUME NEW e \in Days, NEW i \in 1..MaxEvents
      PROVE  i <= more[e] <=> (i <= counts[e] \/ <<e, i>> = event)
  <2>1. counts[e] \in 0..MaxEvents /\ more[e] = IF e = d THEN counts[d] + 1 ELSE counts[e]
    BY DEF Counts
  <2> QED  BY <2>1
<1>3. EventsIn(more) = EventsIn(counts) \cup {event}
  <2> HIDE DEF more, event
  <2> QED  BY <1>1, <1>2 DEF EventsIn
<1> HIDE DEF more, event
<1>4. Cardinality(EventsIn(more)) = Cardinality(EventsIn(counts)) + 1
  BY <1>1, <1>3, EventsFinite, FS_AddElement
<1> QED  BY <1>4 DEF TotalOf, more

-----------------------------------------------------------------------------
(* Types.                                                                    *)

\* What a worker holds lies between the beginning and the day it is.
Bounded(state, day) ==
  /\ state.horizon \in 0..day /\ state.since \in 0..day /\ state.date \in 0..day
  /\ state.report.count \in 0..MaxEvents /\ state.report.total \in 0..MaxEvents

TypesInv ==
  /\ TypeOK
  /\ TotalOf(created) <= MaxEvents
  /\ \A w \in Workers : Bounded(job[w], today)

LEMMA IdleBounded == \A day \in Days : Bounded(Idle, day)
BY ReportBounds DEF Bounded, Idle, NoReport, Days

LEMMA TypesInit == Init => TypesInv
<1> SUFFICES ASSUME Init PROVE TypesInv
  OBVIOUS
<1>1. created = [d \in Days |-> 0] /\ created \in Counts /\ stored = created
  BY ReportBounds DEF Init, Counts
<1>2. EventsIn(created) = {}
  BY <1>1 DEF EventsIn
<1>3. TotalOf(created) = 0
  BY <1>2, FS_EmptySet DEF TotalOf
<1>4. today = 1 /\ today \in Days
  BY ReportBounds DEF Init, Days
<1>5. \A w \in Workers : job[w] = Idle
  BY DEF Init
<1>6. \A w \in Workers : Bounded(job[w], today)
  BY <1>4, <1>5, IdleBounded
<1>7. \A d \in Days : stored[d] <= created[d] /\ versions[d] \in Seq(Version)
  BY <1>1 DEF Init
<1>8. up \in BOOLEAN /\ stopping \in BOOLEAN
  BY Zenon DEF Init
<1>9. lastDay \in 0..today /\ lastCount \in -1..MaxEvents /\ skipped \subseteq Days
  BY <1>4, ReportBounds DEF Init
<1>10. Idle.pc = "idle" /\ Idle.todo = {}
  BY DEF Idle
<1> QED  BY <1>1, <1>3, <1>4, <1>5, <1>6, <1>7, <1>8, <1>9, <1>10, ReportBounds
         DEF TypesInv, TypeOK, Counts, Bounded

\* A step of the workers, or of the life of the app, that leaves the events alone.
LEMMA TypesStay ==
  ASSUME ReportsInv', TypesInv, UNCHANGED stored, created' \in Counts,
         \A d \in Days : stored[d] <= created'[d] /\ versions'[d] \in Seq(Version),
         TotalOf(created)' <= MaxEvents,
         today' \in Days, today <= today', up' \in BOOLEAN, stopping' \in BOOLEAN,
         lastDay' \in 0..today', lastCount' \in -1..MaxEvents, skipped' \subseteq Days,
         \A w \in Workers : job'[w] = job[w] \/ Bounded(job'[w], today')
  PROVE  TypesInv'
<1>1. \A w \in Workers : Bounded(job'[w], today')
  <2>1. today \in Nat /\ today' \in Nat
    BY DaysType DEF TypesInv, TypeOK
  <2> QED  BY <2>1 DEF TypesInv, Bounded
<1>2. \A w \in Workers :
        /\ job'[w].pc \in {"idle", "today", "days", "now", "check", "save", "finish"}
        /\ job'[w].todo \subseteq Days
  BY DEF ReportsInv, Shapes, JobOK, Job
<1> QED  BY <1>1, <1>2 DEF TypesInv, TypeOK, Counts, Bounded

\* One worker goes on.
LEMMA WorkerTyped ==
  ASSUME ReportsInv, ReportsInv', TypesInv,
         UNCHANGED <<stored, created, versions, today, up, stopping, lastDay, lastCount, skipped>>,
         NEW w \in Workers, NEW state, Becomes(w, state), Bounded(state, today)
  PROVE  TypesInv'
<1>1. \A v \in Workers : job'[v] = IF v = w THEN state ELSE job[v]
  BY DEF Becomes, ReportsInv, Shapes
<1>2. today \in Nat
  BY DaysType DEF TypesInv, TypeOK
<1>3. up' \in BOOLEAN /\ stopping' \in BOOLEAN
  BY Zenon DEF TypesInv, TypeOK
<1>4. TotalOf(created)' <= MaxEvents
  BY DEF TypesInv, TotalOf, EventsIn
<1> QED  BY <1>1, <1>2, <1>3, <1>4, TypesStay DEF TypesInv, TypeOK, Counts

LEMMA ClockTypes ==
  ASSUME ReportsInv, ReportsInv', TypesInv, Midnight \/ CreateEvent \/ \E d \in Days : StoreEvent(d)
  PROVE  TypesInv'
<1>1. /\ created \in Counts /\ stored \in Counts /\ today \in Days /\ today \in Nat
      /\ up \in BOOLEAN /\ stopping \in BOOLEAN
  BY DaysType DEF TypesInv, TypeOK, Counts
<1>2. CASE Midnight
  <2>1. /\ today' = today + 1 /\ today' \in Days
        /\ UNCHANGED <<created, stored, versions, up, stopping, lastDay, lastCount, job, skipped>>
    BY <1>1, <1>2, ReportBounds DEF Midnight, Days, marks
  <2>2. TotalOf(created)' <= MaxEvents
    BY <2>1 DEF TypesInv, TotalOf, EventsIn
  <2>3. up' \in BOOLEAN /\ stopping' \in BOOLEAN
    BY <1>1, <2>1
  <2> QED  BY <1>1, <2>1, <2>2, <2>3, TypesStay DEF TypesInv, TypeOK, Counts
<1>3. CASE CreateEvent
  <2>1. /\ TotalOf(created) < MaxEvents /\ created' = [created EXCEPT ![today] = @ + 1]
        /\ UNCHANGED <<today, stored, versions, up, stopping, lastDay, lastCount, job, skipped>>
    BY <1>3 DEF CreateEvent, marks
  <2>2. created[today] < MaxEvents
    BY <1>1, <2>1, TotalCovers, EventsFinite, ReportBounds DEF Counts
  <2>3. TotalOf(created') = TotalOf(created) + 1
    BY <1>1, <2>1, <2>2, TotalOfOneMore
  <2>4. TotalOf(created)' <= MaxEvents
    <3>1. TotalOf(created)' = TotalOf(created')
      BY DEF TotalOf, EventsIn
    <3>2. TotalOf(created) \in Nat
      BY EventsFinite
    <3> QED  BY <2>1, <2>3, <3>1, <3>2, ReportBounds
  <2>5. created' \in Counts /\ \A d \in Days : stored[d] <= created'[d]
    BY <1>1, <2>1, <2>2, ReportBounds DEF Counts, TypesInv, TypeOK
  <2>6. up' \in BOOLEAN /\ stopping' \in BOOLEAN
    BY <1>1, <2>1
  <2> QED  BY <1>1, <2>1, <2>4, <2>5, <2>6, TypesStay DEF TypesInv, TypeOK
<1>4. ASSUME NEW d \in Days, StoreEvent(d) PROVE TypesInv'
  <2>1. /\ stored[d] < created[d] /\ stored' = [stored EXCEPT ![d] = @ + 1]
        /\ UNCHANGED <<today, created, versions, up, stopping, lastDay, lastCount, job, skipped>>
    BY <1>4 DEF StoreEvent, marks
  <2>2. \A e \in Days : stored[e] \in 0..MaxEvents /\ created[e] \in 0..MaxEvents
                          /\ stored[e] <= created[e]
    BY <1>1 DEF Counts, TypesInv, TypeOK
  <2>3. \A e \in Days : stored'[e] = IF e = d THEN stored[d] + 1 ELSE stored[e]
    BY <1>1, <2>1 DEF Counts
  <2>4. \A e \in Days : stored'[e] \in 0..MaxEvents /\ stored'[e] <= created[e]
    BY <2>1, <2>2, <2>3, ReportBounds
  <2>5. stored' \in Counts
    BY <1>1, <2>1, <2>4 DEF Counts
  <2>6. TotalOf(created)' <= MaxEvents
    BY <2>1 DEF TypesInv, TotalOf, EventsIn
  <2>7. up' \in BOOLEAN /\ stopping' \in BOOLEAN
    BY <1>1, <2>1
  <2> QED  BY <2>1, <2>4, <2>5, <2>6, <2>7 DEF TypesInv, TypeOK, Counts, Bounded
<1> QED  BY <1>2, <1>3, <1>4

\* The loop, a request and the shutdown, up to the snapshot of the ledger.
LEMMA LoopTypes ==
  ASSUME ReportsInv, ReportsInv', TypesInv,
         LoopStep \/ (\E w \in Workers : GenerateToday(w) \/ BuildReport(w))
  PROVE  TypesInv'
<1> USE DEF clock, marks
<1>1. /\ today \in Days /\ today \in Nat /\ "loop" \in Workers
      /\ stored \in Counts /\ created \in Counts
      /\ \A w \in Workers : Bounded(job[w], today) /\ job[w] \in Job /\ JobOK(job[w])
  BY DaysType DEF TypesInv, TypeOK, Counts, Workers, ReportsInv, Shapes, JobOK
<1>2. Idle \in Job /\ Bounded(Idle, today)
  BY <1>1, IdleOK, IdleBounded DEF JobOK
<1>3. ASSUME NEW w \in Workers, NEW state \in Job, Bounded(state, today), NEW d \in 0..today,
             Generate(w, state, d),
             UNCHANGED <<clock, versions, up, stopping, marks, skipped>>
      PROVE  TypesInv'
  <2> DEFINE new == [state EXCEPT !.pc = "check", !.date = d]
  <2>1. Bounded(new, today)
    BY <1>3 DEF Bounded, Job
  <2> HIDE DEF new
  <2>2. Becomes(w, new)
    BY <1>3 DEF Generate, new
  <2> QED  BY <1>3, <2>1, <2>2, WorkerTyped
<1>4. CASE CatchUp
  <2> DEFINE new == [Idle EXCEPT !.pc = "today", !.since = today, !.catchUp = TRUE,
                                 !.todo = RecordedDays \cup ReportDays]
  <2>1. Bounded(new, today)
    BY <1>1, <1>2 DEF Bounded, Job
  <2> QED  BY <1>1, <1>4, <2>1, WorkerTyped DEF CatchUp
<1>5. CASE CatchUpToday
  <2> DEFINE new == [job["loop"] EXCEPT !.pc = "days", !.horizon = today]
  <2>1. Bounded(new, today)
    BY <1>1 DEF Bounded, Job
  <2> QED  BY <1>1, <1>5, <2>1, WorkerTyped DEF CatchUpToday
<1>6. CASE Refresh
  <2> DEFINE new == [Idle EXCEPT !.pc = "now", !.since = today]
  <2>1. Bounded(new, today)
    BY <1>1, <1>2 DEF Bounded, Job
  <2> QED  BY <1>1, <1>6, <2>1, WorkerTyped DEF Refresh
<1>7. CASE CatchUpDay
  <2>1. PICK d \in job["loop"].todo :
          /\ UNCHANGED <<clock, versions, up, stopping, marks, skipped>>
          /\ d < job["loop"].horizon
          /\ LET rest == [job["loop"] EXCEPT !.todo = @ \ {d}] IN
             Raise("loop") \/ Generate("loop", rest, d) \/ Becomes("loop", rest)
    BY <1>7 DEF CatchUpDay
  <2> DEFINE rest == [job["loop"] EXCEPT !.todo = @ \ {d}]
  <2>2. d \in Days /\ d \in Nat /\ job["loop"] \in Job /\ Bounded(job["loop"], today)
    BY <1>1, DaysType DEF Job
  <2>3. rest \in Job /\ Bounded(rest, today)
    BY <2>2 DEF Job, Bounded
  <2>4. d \in 0..today
    BY <1>1, <2>1, <2>2 DEF Bounded
  <2>5. CASE Raise("loop")
    BY <1>1, <1>2, <2>1, <2>5, WorkerTyped DEF Raise
  <2>6. CASE Generate("loop", rest, d)
    BY <1>1, <1>3, <2>1, <2>3, <2>4, <2>6
  <2>7. CASE Becomes("loop", rest)
    BY <1>1, <2>1, <2>3, <2>7, WorkerTyped
  <2> QED  BY <2>1, <2>5, <2>6, <2>7
<1>8. CASE CatchUpEnds
  <2> DEFINE state == job["loop"]
             new == [Idle EXCEPT !.since = state.since, !.catchUp = TRUE]
  <2>1. UNCHANGED <<clock, versions, up, stopping, marks, skipped>>
        /\ (Generate("loop", new, state.horizon) \/ Raise("loop"))
    BY <1>8 DEF CatchUpEnds
  <2>2. new \in Job /\ Bounded(new, today) /\ state.horizon \in 0..today
    BY <1>1, <1>2 DEF Job, Bounded
  <2>3. CASE Raise("loop")
    BY <1>1, <1>2, <2>1, <2>3, WorkerTyped DEF Raise
  <2>4. CASE Generate("loop", new, state.horizon)
    BY <1>1, <1>3, <2>1, <2>2, <2>4
  <2> QED  BY <2>1, <2>3, <2>4
<1>9. ASSUME NEW w \in Workers, GenerateToday(w) PROVE TypesInv'
  <2> DEFINE new == [Idle EXCEPT !.since = job[w].since]
  <2>1. new \in Job /\ Bounded(new, today)
    BY <1>1, <1>2 DEF Job, Bounded
  <2> QED  BY <1>1, <1>3, <1>9, <2>1 DEF GenerateToday
<1>10. ASSUME NEW w \in Workers, BuildReport(w) PROVE TypesInv'
  <2> DEFINE d == job[w].date
             report == [job[w].report EXCEPT !.count = EventsOf(d), !.total = Total]
             new == [job[w] EXCEPT !.pc = "save", !.report = report]
  <2>1. /\ UNCHANGED <<clock, versions, up, stopping, marks, skipped>>
        /\ job[w].pc = "check" /\ (Raise(w) \/ Becomes(w, new))
    BY <1>10 DEF BuildReport, Does
  <2>2. d \in Days /\ EventsOf(d) \in 0..MaxEvents
    BY <1>1, <2>1 DEF JobOK, EventsOf, Counts
  <2>3. Total \in 0..MaxEvents
    <3>1. TotalOf(stored) <= TotalOf(created)
      BY <1>1, TotalGrows DEF TypesInv, TypeOK
    <3>2. TotalOf(stored) \in Nat /\ TotalOf(created) \in Nat /\ TotalOf(created) <= MaxEvents
      BY EventsFinite DEF TypesInv
    <3> QED  BY <3>1, <3>2, ReportBounds DEF Total
  <2>4. job[w] \in Job /\ Bounded(job[w], today)
    BY <1>1
  <2>5. Bounded(new, today)
    <3>1. /\ new.horizon = job[w].horizon /\ new.since = job[w].since /\ new.date = d
          /\ new.report.count = EventsOf(d) /\ new.report.total = Total
      BY <2>4 DEF Job, Snapshot
    <3> QED  BY <2>2, <2>3, <2>4, <3>1 DEF Bounded
  <2>6. CASE Raise(w)
    BY <1>2, <2>1, <2>6, WorkerTyped DEF Raise
  <2>7. CASE Becomes(w, new)
    <3> HIDE DEF new
    <3> QED  BY <2>1, <2>5, <2>7, WorkerTyped
  <2> QED  BY <2>1, <2>6, <2>7
<1> QED  BY <1>4, <1>5, <1>6, <1>7, <1>8, <1>9, <1>10 DEF LoopStep

\* POST /api/reports/generate, and the life of the app.
LEMMA LifeTypes ==
  ASSUME ReportsInv, ReportsInv', TypesInv,
         \/ \E d \in Days : Ask(d)
         \/ \E w \in Workers : TornSave(w)
         \/ Stop \/ Stopped \/ Crash \/ Restart
  PROVE  TypesInv'
<1> USE DEF clock, marks
<1>1. /\ today \in Days /\ today \in Nat /\ stored \in Counts /\ created \in Counts
      /\ up \in BOOLEAN /\ stopping \in BOOLEAN
  BY DaysType DEF TypesInv, TypeOK, Counts
<1>2. Idle \in Job /\ Bounded(Idle, today)
  BY <1>1, IdleOK, IdleBounded DEF JobOK
<1>3. ASSUME NEW d \in Days, Ask(d) PROVE TypesInv'
  <2> DEFINE new == [[Idle EXCEPT !.since = today] EXCEPT !.pc = "check", !.date = d]
  <2>1. d \in 0..today
    BY <1>1, <1>3, DaysType DEF Ask
  <2>2. Bounded(new, today)
    BY <1>1, <1>2, <2>1 DEF Job, Bounded
  <2>3. Becomes("dashboard", new) /\ "dashboard" \in Workers
        /\ UNCHANGED <<clock, versions, up, stopping, marks, skipped>>
    BY <1>3 DEF Ask, Generate, Workers
  <2> HIDE DEF new
  <2> QED  BY <2>2, <2>3, WorkerTyped
<1>4. ASSUME NEW w \in Workers, TornSave(w) PROVE TypesInv'
  BY <1>2, <1>4, WorkerTyped DEF TornSave, Raise
<1>5. \A w \in Workers : job'[w] = job[w] \/ job'[w] = Idle => job'[w] = job[w] \/ Bounded(job'[w], today)
  BY <1>2
<1>6. TotalOf(created) <= MaxEvents /\ TotalOf(created) \in Nat
  BY EventsFinite DEF TypesInv
<1>7. CASE Stop
  <2> DEFINE new == [Idle EXCEPT !.pc = "now", !.since = today]
  <2>1. Bounded(new, today)
    BY <1>1, <1>2 DEF Job, Bounded
  <2>2. Becomes("shutdown", new) /\ "shutdown" \in Workers /\ stopping' = TRUE
        /\ UNCHANGED <<clock, versions, up, marks, skipped>>
    BY <1>7 DEF Stop, Workers
  <2>3. \A v \in Workers : job'[v] = IF v = "shutdown" THEN new ELSE job[v]
    BY <2>2 DEF Becomes, ReportsInv, Shapes
  <2>4. TotalOf(created)' <= MaxEvents
    BY <1>6, <2>2 DEF TotalOf, EventsIn
  <2> HIDE DEF new
  <2>5. \A v \in Workers : job'[v] = job[v] \/ Bounded(job'[v], today)
    BY <2>1, <2>3
  <2>6. up' \in BOOLEAN /\ stopping' \in BOOLEAN
    BY <1>1, <2>2
  <2> QED  BY <1>1, <2>2, <2>4, <2>5, <2>6, TypesStay DEF TypesInv, TypeOK, Counts
<1>8. CASE Stopped \/ Crash
  <2>1. /\ up' = FALSE /\ stopping' = FALSE /\ created' = stored
        /\ job' = [w \in Workers |-> Idle]
        /\ UNCHANGED <<today, stored, versions, marks, skipped>>
    BY <1>8 DEF Stopped, Crash, Down
  <2>2. TotalOf(created)' <= MaxEvents
    <3>1. TotalOf(created)' = TotalOf(stored)
      BY <2>1 DEF TotalOf, EventsIn
    <3>2. TotalOf(stored) <= TotalOf(created) /\ TotalOf(stored) \in Nat
      BY <1>1, TotalGrows, EventsFinite DEF TypesInv, TypeOK
    <3> QED  BY <1>6, <3>1, <3>2, ReportBounds
  <2>3. \A w \in Workers : Bounded(job'[w], today)
    BY <1>2, <2>1
  <2>4. \A d \in Days : stored[d] <= created'[d]
    BY <1>1, <2>1 DEF Counts
  <2>5. up' \in BOOLEAN /\ stopping' \in BOOLEAN
    BY <2>1
  <2>6. created' \in Counts /\ today' \in Days /\ today <= today'
    BY <1>1, <2>1
  <2>7. /\ \A d \in Days : versions'[d] \in Seq(Version)
        /\ lastDay' \in 0..today' /\ lastCount' \in -1..MaxEvents /\ skipped' \subseteq Days
    BY <2>1 DEF TypesInv, TypeOK
  <2>8. \A w \in Workers : job'[w] = job[w] \/ Bounded(job'[w], today')
    BY <2>1, <2>3
  <2> QED  BY <2>1, <2>2, <2>4, <2>5, <2>6, <2>7, <2>8, TypesStay
<1>9. CASE Restart
  <2>1. /\ up' = TRUE /\ lastDay' = 0 /\ lastCount' = -1
        /\ UNCHANGED <<today, created, stored, versions, stopping, job, skipped>>
    BY <1>9 DEF Restart
  <2>2. TotalOf(created)' <= MaxEvents
    BY <1>6, <2>1 DEF TotalOf, EventsIn
  <2>3. lastDay' \in 0..today /\ lastCount' \in -1..MaxEvents
    BY <1>1, <2>1, ReportBounds
  <2>4. up' \in BOOLEAN /\ stopping' \in BOOLEAN
    BY <1>1, <2>1
  <2> QED  BY <1>1, <2>1, <2>2, <2>3, <2>4, TypesStay DEF TypesInv, TypeOK, Counts
<1> QED  BY <1>3, <1>4, <1>7, <1>8, <1>9

\* The first file of a version.
LEMMA BeginSaveTypes ==
  ASSUME ReportsInv, ReportsInv', TypesInv, NEW w \in Workers, BeginSave(w)
  PROVE  TypesInv'
<1> DEFINE d == job[w].date
           new == [report |-> Dated(w), whole |-> FALSE]
           state == [job[w] EXCEPT !.pc = "finish", !.report = Dated(w)]
<1>1. /\ versions' = [versions EXCEPT ![d] = Append(@, new)]
      /\ job[w].pc = "save" /\ Becomes(w, state)
      /\ UNCHANGED <<today, created, stored, up, stopping, lastDay, lastCount, skipped>>
  BY DEF BeginSave, Does, AddVersion, clock, marks, Dated
<1>2. /\ job[w] \in Job /\ Bounded(job[w], today) /\ d \in Days
      /\ today \in Days /\ today \in Nat /\ up \in BOOLEAN /\ stopping \in BOOLEAN
  BY <1>1, DaysType DEF TypesInv, TypeOK, ReportsInv, Shapes, JobOK, Locked
<1>3. Dated(w) \in Report /\ Dated(w).count = job[w].report.count
      /\ Dated(w).total = job[w].report.total
  BY <1>2 DEF Dated, Report, Job, Snapshot, Bounded
<1>4. new \in Version
  BY <1>3 DEF Version
<1>5. Bounded(state, today)
  <2>1. /\ state.horizon = job[w].horizon /\ state.since = job[w].since /\ state.date = d
        /\ state.report = Dated(w)
    BY <1>2 DEF Job
  <2> QED  BY <1>2, <1>3, <2>1 DEF Bounded
<1> HIDE DEF new, state
<1>6. \A e \in Days : versions'[e] \in Seq(Version)
  <2>1. \A e \in Days : versions[e] \in Seq(Version)
    BY DEF TypesInv, TypeOK
  <2>2. \A e \in Days : versions'[e] = IF e = d THEN Append(versions[e], new) ELSE versions[e]
    BY <1>1, <1>2 DEF ReportsInv, Shapes
  <2>3. ASSUME NEW e \in Days PROVE Append(versions[e], new) \in Seq(Version)
    BY <1>4, <2>1
  <2> QED  BY <2>1, <2>2, <2>3
<1>7. \A v \in Workers : job'[v] = IF v = w THEN state ELSE job[v]
  BY <1>1 DEF Becomes, ReportsInv, Shapes
<1>8. TotalOf(created)' <= MaxEvents
  BY <1>1 DEF TypesInv, TotalOf, EventsIn
<1>9. up' \in BOOLEAN /\ stopping' \in BOOLEAN
  BY <1>1, <1>2
<1>10. \A v \in Workers : job'[v] = job[v] \/ Bounded(job'[v], today)
  BY <1>5, <1>7
<1>11. /\ created' \in Counts /\ \A e \in Days : stored[e] <= created'[e]
       /\ lastDay' \in 0..today /\ lastCount' \in -1..MaxEvents /\ skipped' \subseteq Days
  BY <1>1 DEF TypesInv, TypeOK, Counts
<1> QED  BY <1>1, <1>2, <1>6, <1>8, <1>9, <1>10, <1>11, TypesStay

\* The manifest, and the scheduler's marks.
LEMMA FinishSaveTypes ==
  ASSUME ReportsInv, ReportsInv', TypesInv, NEW w \in Workers, FinishSave(w)
  PROVE  TypesInv'
<1> DEFINE d == job[w].date
           n == Len(versions[d])
           whole == [versions[d][n] EXCEPT !.whole = TRUE]
           line == [versions[d] EXCEPT ![n] = whole]
           state == AfterReport(w)
<1>1. /\ versions' = [versions EXCEPT ![d] = line]
      /\ job[w].pc = "finish" /\ Becomes(w, state)
      /\ UNCHANGED <<today, created, stored, up, stopping>>
  BY DEF FinishSave, Does, clock
<1>2. /\ job[w] \in Job /\ Bounded(job[w], today) /\ d \in Days
      /\ today \in Days /\ today \in Nat /\ up \in BOOLEAN /\ stopping \in BOOLEAN
  BY <1>1, DaysType DEF TypesInv, TypeOK, ReportsInv, Shapes, JobOK, Locked
<1>3. versions[d] \in Seq(Version) /\ n \in 1..n
  <2>1. versions[d] \in Seq(Version)
    BY <1>2 DEF TypesInv, TypeOK
  <2>2. versions[d] # <<>>
    BY <1>1 DEF ReportsInv, Ready
  <2> QED  BY <2>1, <2>2
<1>4. whole \in Version
  <2>1. versions[d][n] \in Version
    BY <1>3
  <2> QED  BY <2>1 DEF Version
<1>5. line \in Seq(Version)
  BY <1>3, <1>4, ExceptSeq
<1>6. \A e \in Days : versions'[e] \in Seq(Version)
  <2> HIDE DEF line
  <2>1. \A e \in Days : versions'[e] = IF e = d THEN line ELSE versions[e]
    BY <1>1, <1>2 DEF ReportsInv, Shapes
  <2> QED  BY <1>5, <2>1 DEF TypesInv, TypeOK
<1>7. Bounded(state, today)
  <2>1. CASE job[w].horizon # 0
    <3>1. state = [job[w] EXCEPT !.pc = "days", !.date = 0, !.report = NoReport]
      BY <2>1 DEF AfterReport
    <3>2. /\ state.horizon = job[w].horizon /\ state.since = job[w].since /\ state.date = 0
          /\ state.report = NoReport
      BY <1>2, <3>1 DEF Job
    <3> QED  BY <1>2, <3>2, ReportBounds DEF Bounded, NoReport
  <2>2. CASE job[w].horizon = 0
    BY <1>2, <2>2, IdleBounded DEF AfterReport
  <2> QED  BY <2>1, <2>2
<1>8. lastDay' \in 0..today /\ lastCount' \in -1..MaxEvents /\ skipped' \subseteq Days
  <2>1. \/ /\ lastDay' = today /\ lastCount' = SeenCount(w)
           /\ skipped' \in {skipped, skipped \cup {today}}
        \/ UNCHANGED <<lastDay, lastCount, skipped>>
    BY DEF FinishSave, marks
  <2>2. SeenCount(w) \in -1..MaxEvents
    BY <1>2, ReportBounds DEF SeenCount, Bounded
  <2>3. lastDay \in 0..today /\ lastCount \in -1..MaxEvents /\ skipped \subseteq Days
    BY DEF TypesInv, TypeOK
  <2>4. today \in 0..today
    BY <1>2
  <2> QED  BY <1>2, <2>1, <2>2, <2>3, <2>4
<1> HIDE DEF state
<1>9. \A v \in Workers : job'[v] = job[v] \/ Bounded(job'[v], today)
  <2>1. \A v \in Workers : job'[v] = IF v = w THEN state ELSE job[v]
    BY <1>1 DEF Becomes, ReportsInv, Shapes
  <2> QED  BY <1>7, <2>1
<1>10. TotalOf(created)' <= MaxEvents
  BY <1>1 DEF TypesInv, TotalOf, EventsIn
<1>11. up' \in BOOLEAN /\ stopping' \in BOOLEAN
  BY <1>1, <1>2
<1>12. created' \in Counts /\ \A e \in Days : stored[e] <= created'[e]
  BY <1>1 DEF TypesInv, TypeOK, Counts
<1> HIDE DEF line
<1> QED  BY <1>1, <1>2, <1>6, <1>8, <1>9, <1>10, <1>11, <1>12, TypesStay

LEMMA TypesStep == ReportsInv /\ ReportsInv' /\ TypesInv /\ [Next]_vars => TypesInv'
<1> SUFFICES ASSUME ReportsInv, ReportsInv', TypesInv, [Next]_vars PROVE TypesInv'
  OBVIOUS
<1>1. CASE Midnight \/ CreateEvent \/ \E d \in Days : StoreEvent(d)
  BY <1>1, ClockTypes
<1>2. CASE LoopStep \/ \E w \in Workers : GenerateToday(w) \/ BuildReport(w)
  BY <1>2, LoopTypes
<1>3. CASE \E w \in Workers : BeginSave(w) \/ FinishSave(w)
  BY <1>3, BeginSaveTypes, FinishSaveTypes
<1>4. CASE \/ \E d \in Days : Ask(d)
           \/ \E w \in Workers : TornSave(w)
           \/ Stop \/ Stopped \/ Crash \/ Restart
  BY <1>4, LifeTypes
<1>5. CASE UNCHANGED vars
  <2>1. UNCHANGED <<today, created, stored, versions, up, stopping, lastDay, lastCount, job, skipped>>
    BY <1>5 DEF vars
  <2>2. TotalOf(created)' <= MaxEvents
    BY <2>1 DEF TypesInv, TotalOf, EventsIn
  <2>3. up' \in BOOLEAN /\ stopping' \in BOOLEAN
    BY <2>1, Zenon DEF TypesInv, TypeOK
  <2>4. today \in Nat
    BY DaysType DEF TypesInv, TypeOK
  <2> QED  BY <2>1, <2>2, <2>3, <2>4, TypesStay DEF TypesInv, TypeOK, Counts
<1> QED  BY <1>1, <1>2, <1>3, <1>4, <1>5 DEF Next, Generating

\* Whatever the workers, midnight and the crashes do, every variable keeps its
\* type: no report is of a day to come, none shows more than was ever created,
\* and the ledger never holds an event that was not made.
THEOREM ReportTypes == Spec => []TypeOK
<1>1. TypesInv => TypeOK
  BY DEF TypesInv
<1> QED  BY <1>1, TypesInit, TypesStep, ReportsAlways, PTL DEF Spec

=============================================================================
