---------------------------- MODULE DailyReports ----------------------------
(***************************************************************************)
(* The daily reports of agent/reports: the ReportScheduler (scheduler.py)  *)
(* that brings them up to date and the ReportStore (store.py) that keeps   *)
(* every version of each.                                                  *)
(*                                                                         *)
(* The scheduler's loop, a dashboard request and the shutdown each run     *)
(* generate_now on a thread of its own, one at a time under its lock.      *)
(* Midnight may fall between any two steps.  A report version is a         *)
(* directory of several files and a manifest written last, here whole or   *)
(* not; a version that was damaged later looks the same as one that was    *)
(* never finished.                                                         *)
(***************************************************************************)
EXTENDS Integers, Sequences, FiniteSets

CONSTANTS
  MaxDays,        \* bound: the last day
  LateDays,       \* bound: days an event may take from its timestamp to the ledger
  MaxEvents,      \* bound: events ever created
  MaxRequests,    \* bound: reports asked for from the dashboard
  MaxCrashes,     \* bound: deaths of the app
  MaxTorn         \* bound: report versions left unfinished

Days == 1..MaxDays
Workers == {"loop", "dashboard", "shutdown"}

ASSUME ReportBounds ==
  /\ MaxDays \in Nat \ {0} /\ LateDays \in Nat
  /\ MaxEvents \in Nat /\ MaxRequests \in Nat /\ MaxCrashes \in Nat /\ MaxTorn \in Nat

VARIABLES
  today,          \* today()
  created,        \* how many events carry a timestamp of each day
  stored,         \* how many of those the ledger holds
  versions,       \* the report versions on disk of each day, oldest first
  up,             \* the app runs
  stopping,       \* the app is shutting down, the loop is cancelled
  lastDay,        \* _last_day, 0 for None
  lastCount,      \* _last_count
  job,            \* what each worker is doing
  skipped,        \* history: days whose catch_up was taken for done
  requests, crashes, torn

clock == <<today, created, stored>>
marks == <<lastDay, lastCount>>
bounds == <<requests, crashes, torn>>
vars == <<today, created, stored, versions, up, stopping, lastDay, lastCount, job,
          skipped, requests, crashes, torn>>

\* A report: the day of its generated_at, and how many events of its day, and in
\* all, its ledger snapshot held.
Report == [generated : Days, count : 0..MaxEvents, total : 0..MaxEvents]
Version == [report : Report, whole : BOOLEAN]
NoReport == [generated |-> 0, count |-> 0, total |-> 0]

\* catch_up still has to look at the days of todo before horizon, then at
\* horizon itself; horizon is 0 when only date is to be generated.
Idle == [pc |-> "idle", since |-> 0, catchUp |-> FALSE, todo |-> {}, horizon |-> 0, date |-> 0,
         report |-> NoReport]

\* An event is its day and its number in that day.
EventsIn(counts) == {event \in Days \X (1..MaxEvents) : event[2] <= counts[event[1]]}
TotalOf(counts) == Cardinality(EventsIn(counts))
Total == TotalOf(stored)
Exists(d) == versions[d] # <<>>
Latest(d) == versions[d][Len(versions[d])]
Verified(d) == Exists(d) /\ Latest(d).whole

Init ==
  /\ today = 1
  /\ created = [d \in Days |-> 0] /\ stored = created
  /\ versions = [d \in Days |-> <<>>]
  /\ up = TRUE /\ stopping = FALSE /\ lastDay = 0 /\ lastCount = -1
  /\ job = [w \in Workers |-> Idle] /\ skipped = {}
  /\ requests = 0 /\ crashes = 0 /\ torn = 0

-----------------------------------------------------------------------------
(* The world: midnight, and events on their way into the ledger.             *)

\* No worker is at it for longer than a day.
Midnight ==
  /\ today < MaxDays
  /\ \A w \in Workers : job[w].since \in {0, today}
  /\ today' = today + 1
  /\ UNCHANGED <<created, stored, versions, up, stopping, marks, job, skipped, bounds>>

CreateEvent ==
  /\ up /\ TotalOf(created) < MaxEvents
  /\ created' = [created EXCEPT ![today] = @ + 1]
  /\ UNCHANGED <<today, stored, versions, up, stopping, marks, job, skipped, bounds>>

StoreEvent(d) ==
  /\ up /\ stored[d] < created[d] /\ d >= today - LateDays
  /\ stored' = [stored EXCEPT ![d] = @ + 1]
  /\ UNCHANGED <<today, created, versions, up, stopping, marks, job, skipped, bounds>>

-----------------------------------------------------------------------------
(* catch_up and the loop around it.                                          *)

Free(w) == up /\ job[w].pc = "idle"
Does(w, step) == up /\ job[w].pc = step
Becomes(w, state) == job' = [job EXCEPT ![w] = state]
Raise(w) == Becomes(w, Idle)
Generate(w, state, d) == Becomes(w, [state EXCEPT !.pc = "check", !.date = d])

RecordedDays == {d \in Days : stored[d] > 0}
ReportDays == {d \in Days : Exists(d)}

\* _run finds that the day has changed.
CatchUp ==
  /\ Free("loop") /\ ~stopping /\ lastDay # today
  /\ Becomes("loop", [Idle EXCEPT !.pc = "today", !.since = today, !.catchUp = TRUE,
                               !.todo = RecordedDays \cup ReportDays])
  /\ UNCHANGED <<clock, versions, up, stopping, marks, skipped, bounds>>

\* The snapshot was taken before today() is asked again.
CatchUpToday ==
  /\ Does("loop", "today")
  /\ Becomes("loop", [job["loop"] EXCEPT !.pc = "days", !.horizon = today])
  /\ UNCHANGED <<clock, versions, up, stopping, marks, skipped, bounds>>

\* _run finds events newer than today's report, after refresh_seconds.
Refresh ==
  /\ Free("loop") /\ ~stopping /\ lastDay = today /\ Total # lastCount
  /\ Becomes("loop", [Idle EXCEPT !.pc = "now", !.since = today])
  /\ UNCHANGED <<clock, versions, up, stopping, marks, skipped, bounds>>

\* Mutant: a report that exists is left as it is.
MissingOnly(d) == ~Exists(d)
Unfinished(d) == ~Exists(d) \/ Latest(d).report.generated = d

\* The days before today, in order; one whose report does not verify ends it.
CatchUpDay ==
  /\ Does("loop", "days")
  /\ LET state == job["loop"]
         before == {d \in state.todo : d < state.horizon}
     IN \E d \in before :
          /\ \A other \in before : d <= other
          /\ LET rest == [state EXCEPT !.todo = @ \ {d}] IN
             \/ /\ Exists(d) /\ ~Verified(d)
                /\ Raise("loop")
             \/ /\ ~Exists(d) \/ Verified(d)
                /\ IF Unfinished(d) THEN Generate("loop", rest, d) ELSE Becomes("loop", rest)
  /\ UNCHANGED <<clock, versions, up, stopping, marks, skipped, bounds>>

CatchUpEnds ==
  /\ Does("loop", "days")
  /\ LET state == job["loop"] IN
     /\ \A d \in state.todo : d >= state.horizon
     /\ IF ~Exists(state.horizon) \/ Total # lastCount
        THEN Generate("loop", [Idle EXCEPT !.since = state.since, !.catchUp = TRUE], state.horizon)
        ELSE Raise("loop")
  /\ UNCHANGED <<clock, versions, up, stopping, marks, skipped, bounds>>

\* generate_now without a date is for the day it is called on.
GenerateToday(w) ==
  /\ Does(w, "now")
  /\ Generate(w, [Idle EXCEPT !.since = job[w].since], today)
  /\ UNCHANGED <<clock, versions, up, stopping, marks, skipped, bounds>>

\* POST /api/reports/generate.
Ask(d) ==
  /\ Free("dashboard") /\ ~stopping /\ requests < MaxRequests /\ d <= today
  /\ Generate("dashboard", [Idle EXCEPT !.since = today], d)
  /\ requests' = requests + 1
  /\ UNCHANGED <<clock, versions, up, stopping, marks, skipped, crashes, torn>>

-----------------------------------------------------------------------------
(* generate_now, from the check to the end under _lock.                      *)

LockFree(w) == \A other \in Workers \ {w} : job[other].pc \notin {"save", "finish"}

\* Mutant: a report that does not verify is replaced.
ReplaceAll(d) == TRUE
MayReplace(d) == Exists(d) => Verified(d)

\* Mutant: only what the latest version does not hold is counted.
NewEvents(d) == IF Exists(d) THEN stored[d] - Latest(d).report.count ELSE stored[d]
EventsOf(d) == stored[d]

\* The check, and the ledger snapshot of generate_report.
BuildReport(w) ==
  /\ Does(w, "check") /\ LockFree(w)
  /\ LET d == job[w].date IN
     \/ /\ ~MayReplace(d)
        /\ Raise(w)
     \/ /\ MayReplace(d)
        /\ Becomes(w, [job[w] EXCEPT !.pc = "save",
             !.report = [@ EXCEPT !.count = EventsOf(d), !.total = Total]])
  /\ UNCHANGED <<clock, versions, up, stopping, marks, skipped, bounds>>

\* Mutant: the latest version is written over.
ReplaceVersion(vs, v) == IF vs = <<>> THEN <<v>> ELSE [vs EXCEPT ![Len(vs)] = v]
AddVersion(vs, v) == Append(vs, v)

\* generated_at, and the first file of the version.
BeginSave(w) ==
  /\ Does(w, "save")
  /\ LET report == [job[w].report EXCEPT !.generated = today] IN
     /\ versions' = [versions EXCEPT ![job[w].date] =
                       AddVersion(@, [report |-> report, whole |-> FALSE])]
     /\ Becomes(w, [job[w] EXCEPT !.pc = "finish", !.report = report])
  /\ UNCHANGED <<clock, up, stopping, marks, skipped, bounds>>

\* What follows a report: catch_up goes on, all others are done.
AfterReport(w) ==
  IF job[w].horizon # 0 THEN [job[w] EXCEPT !.pc = "days", !.date = 0, !.report = NoReport]
  ELSE Idle

\* Mutant: one event too many is taken as reported.
SeenCountNext(w) == job[w].report.total + 1
SeenCount(w) == job[w].report.total

\* The manifest in the archive, and the scheduler's marks if it is still the
\* report's day.
FinishSave(w) ==
  /\ Does(w, "finish")
  /\ LET d == job[w].date IN
     /\ versions' = [versions EXCEPT ![d][Len(versions[d])].whole = TRUE]
     /\ \/ /\ d = today
           /\ lastDay' = today /\ lastCount' = SeenCount(w)
           /\ skipped' = IF lastDay = today \/ job[w].catchUp THEN skipped
                         ELSE skipped \cup {today}
        \/ /\ d # today
           /\ UNCHANGED <<marks, skipped>>
  /\ Becomes(w, AfterReport(w))
  /\ UNCHANGED <<clock, up, stopping, bounds>>

\* A failed write: the version is never finished.
TornSave(w) ==
  /\ Does(w, "finish") /\ torn < MaxTorn
  /\ torn' = torn + 1
  /\ Raise(w)
  /\ UNCHANGED <<clock, versions, up, stopping, marks, skipped, requests, crashes>>

-----------------------------------------------------------------------------
(* The life of the app.                                                      *)

\* stop cancels the loop's task, whose thread goes on, and saves a last report.
Stop ==
  /\ up /\ ~stopping /\ crashes < MaxCrashes
  /\ stopping' = TRUE /\ crashes' = crashes + 1
  /\ Becomes("shutdown", [Idle EXCEPT !.pc = "now", !.since = today])
  /\ UNCHANGED <<clock, versions, up, marks, skipped, requests, torn>>

Down ==
  /\ up' = FALSE /\ stopping' = FALSE
  /\ created' = stored
  /\ job' = [w \in Workers |-> Idle]
  /\ UNCHANGED <<today, stored, versions, marks, skipped, requests>>

Stopped ==
  /\ up /\ stopping /\ \A w \in Workers : job[w].pc = "idle"
  /\ Down
  /\ UNCHANGED <<crashes, torn>>

Crash ==
  /\ up /\ crashes < MaxCrashes
  /\ \/ /\ \A w \in Workers : job[w].pc # "finish"
        /\ UNCHANGED torn
     \/ /\ \E w \in Workers : job[w].pc = "finish"
        /\ torn < MaxTorn /\ torn' = torn + 1
  /\ crashes' = crashes + 1
  /\ Down

Restart ==
  /\ ~up
  /\ up' = TRUE /\ lastDay' = 0 /\ lastCount' = -1
  /\ UNCHANGED <<clock, versions, stopping, job, skipped, bounds>>

-----------------------------------------------------------------------------

LoopStep ==
  \/ CatchUp \/ CatchUpToday \/ CatchUpDay \/ CatchUpEnds \/ Refresh

Generating(w) == GenerateToday(w) \/ BuildReport(w) \/ BeginSave(w) \/ FinishSave(w)

Next ==
  \/ Midnight \/ CreateEvent \/ LoopStep
  \/ \E d \in Days : StoreEvent(d) \/ Ask(d)
  \/ \E w \in Workers : Generating(w) \/ TornSave(w)
  \/ Stop \/ Stopped \/ Crash \/ Restart

Spec == Init /\ [][Next]_vars

\* The loop wakes every minute, threads run to their end, and the app is
\* started again.
Fairness ==
  /\ WF_vars(LoopStep) /\ WF_vars(Restart) /\ WF_vars(Stopped)
  /\ \A w \in Workers : WF_vars(Generating(w))

FairSpec == Spec /\ Fairness

-----------------------------------------------------------------------------
(* Properties.                                                               *)

\* Every variable has its type.
TypeOK ==
  /\ today \in Days
  /\ created \in [Days -> 0..MaxEvents] /\ stored \in [Days -> 0..MaxEvents]
  /\ \A d \in Days : stored[d] <= created[d] /\ versions[d] \in Seq(Version)
  /\ up \in BOOLEAN /\ stopping \in BOOLEAN
  /\ lastDay \in 0..today /\ lastCount \in -1..MaxEvents
  /\ \A w \in Workers :
       /\ job[w].pc \in {"idle", "today", "days", "now", "check", "save", "finish"}
       /\ job[w].todo \subseteq Days /\ job[w].horizon \in 0..today
       /\ job[w].since \in 0..today /\ job[w].date \in 0..today
  /\ skipped \subseteq Days

\* A version that was never finished stays the latest one of its day: nothing
\* is put over what an investigation has to look at (scheduler.py:66-69).
UnfinishedIsLatest ==
  \A d \in Days : \A i \in 1..(Len(versions[d]) - 1) : versions[d][i].whole

\* A later version of a day never shows less than an earlier one, although the
\* loop, the dashboard and the shutdown take their snapshots side by side
\* (scheduler.py:61-77).
LaterShowsMore ==
  \A d \in Days : \A i, j \in 1..Len(versions[d]) :
    i < j => versions[d][i].report.count <= versions[d][j].report.count

\* Previous reports are never overwritten (store.py:3).
VersionsStay ==
  [][\A d \in Days :
       /\ Len(versions'[d]) >= Len(versions[d])
       /\ \A i \in 1..Len(versions[d]) :
            /\ versions'[d][i].report = versions[d][i].report
            /\ versions[d][i].whole => versions'[d][i].whole]_vars

Finished(d) ==
  \E i \in 1..Len(versions[d]) :
    versions[d][i].whole /\ versions[d][i].report.generated > d

\* The catch_up of every day after the day that follows d was taken for done.
Unlucky(d) == \A later \in (d + 2)..today : later \in skipped

\* A day whose evidence was stored before midnight gets a report made after its
\* end, when the day after the next begins at the latest: a catch_up may have
\* read the ledger before that evidence and asked for the day after it
\* (scheduler.py:79-106).
DaysAreFinished ==
  \A d \in Days : (d + 1 < today /\ stored[d] > 0) ~> (Finished(d) \/ Unlucky(d))

\* README.md:135-136: the scheduler "back-fills missing days after restart".
\* catch_up stops at the first day whose report does not verify, a half-saved
\* one included, and no later day is looked at ever again.
MissingDaysAreFilled ==
  \A d \in Days : (d + 1 < today /\ stored[d] > 0) ~> (Exists(d) \/ Unlucky(d))

=============================================================================
