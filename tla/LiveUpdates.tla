---------------------------- MODULE LiveUpdates ----------------------------
(***************************************************************************)
(* How dashboards learn of changes.  The app counts them and wakes every   *)
(* stream through a queue of one place (agent/server/live.py); the stream  *)
(* (/api/live in routes.py) answers a wake with the count; the page        *)
(* (dashboard/js/dashboard.js) answers that by loading what it shows once  *)
(* more, and loads it every ten seconds anyway.                            *)
(*                                                                         *)
(* What a page shows is how many of the changes it has loaded: events that *)
(* were stored, heartbeats, clients that were revoked.  The browser's      *)
(* EventSource connects again by itself, but not after a refusal; the app  *)
(* may not yet have noticed then that the last stream is gone.             *)
(***************************************************************************)
EXTENDS Integers, FiniteSets

CONSTANTS
  Dashboards,
  ClientLimits,    \* the values of max_clients to look at
  MaxDisturbances  \* bound: heartbeats, broken streams, failed loads, closed pages

ASSUME LiveAssumption ==
  ClientLimits \subseteq Nat /\ MaxDisturbances \in Nat

VARIABLES
  \* The app.
  stored,     \* changes to what the routes answer: an event stored, a heartbeat
  untold,     \* of these, how many on_event has yet to be called for
  revision,   \* revision
  maxClients, \* max_clients
  stream,     \* per dashboard: where its frames() is, "none" without one
  stale,      \* clients whose page is gone, which nobody has noticed yet
  queue,      \* per dashboard: its queue is full
  \* The page.
  page,       \* "closed", "loading" until its first poll, or "open"
  source,     \* its EventSource: "none", "connecting", "open" or "refused"
  sent,       \* the revision of the last frame
  framed,     \* a frame is on its way to the page
  timer,      \* liveRefresh
  polling,    \* state.polling: "no", "reading" or "read"
  shown,      \* the events it shows
  disturbances \* how many are left to happen

liveVars == <<stored, untold, revision, maxClients, stream, stale, queue, page, source, sent, framed,
              timer, polling, shown, disturbances>>
streamVars == <<stream, stale, queue, sent, framed>>
pageVars == <<page, source, timer, polling, shown>>
changeVars == <<stored, untold, revision, maxClients>>

Clients == {d \in Dashboards : stream[d] # "none"}
Subscribed == Cardinality(Clients) + stale
Disturbed == disturbances > 0 /\ disturbances' = disturbances - 1

LiveInit ==
  /\ stored = 0 /\ untold = 0 /\ revision = 0 /\ maxClients \in ClientLimits
  /\ stream = [d \in Dashboards |-> "none"] /\ stale = 0 /\ queue = [d \in Dashboards |-> FALSE]
  /\ page = [d \in Dashboards |-> "closed"] /\ source = [d \in Dashboards |-> "none"]
  /\ sent = [d \in Dashboards |-> 0] /\ framed = [d \in Dashboards |-> FALSE]
  /\ timer = [d \in Dashboards |-> FALSE] /\ polling = [d \in Dashboards |-> "no"]
  /\ shown = [d \in Dashboards |-> 0]
  /\ disturbances \in 0..MaxDisturbances

-----------------------------------------------------------------------------
(* Changes.                                                                  *)

\* An event is stored before its subscribers are told.
Store ==
  /\ stored' = stored + 1 /\ untold' = untold + 1
  /\ UNCHANGED <<revision, maxClients, streamVars, pageVars, disturbances>>

\* Mutant: one full queue ends the round.
AllOrNothing(d) == queue[d] \/ ~\E c \in Clients : queue[c]
Filled(d) == TRUE

FillQueues == queue' = [d \in Dashboards |-> IF d \in Clients THEN Filled(d) ELSE queue[d]]

\* notify, for an event.
Notify ==
  /\ untold > 0
  /\ untold' = untold - 1 /\ revision' = revision + 1
  /\ FillQueues
  /\ UNCHANGED <<stored, maxClients, stream, stale, sent, framed, pageVars, disturbances>>

\* heartbeat and revoke_browser: the change and its notification in one step.
Heartbeat ==
  /\ Disturbed
  /\ stored' = stored + 1 /\ revision' = revision + 1
  /\ FillQueues
  /\ UNCHANGED <<untold, maxClients, stream, stale, sent, framed, pageVars>>

-----------------------------------------------------------------------------
(* A stream.                                                                 *)

StreamAt(d, pc) == stream' = [stream EXCEPT ![d] = pc]

\* live_updates, up to the response.
Connect(d) ==
  /\ source[d] = "connecting"
  /\ \/ /\ Subscribed < maxClients
        /\ StreamAt(d, "first") /\ queue' = [queue EXCEPT ![d] = FALSE]
        /\ source' = [source EXCEPT ![d] = "open"]
     \/ /\ Subscribed >= maxClients
        /\ source' = [source EXCEPT ![d] = "refused"]
        /\ UNCHANGED <<stream, queue>>
  /\ UNCHANGED <<changeVars, stale, sent, framed, page, timer, polling, shown, disturbances>>

\* A frame carries the revision of the moment it is made.
SendFrame(d) ==
  /\ stream[d] \in {"first", "awake"}
  /\ sent' = [sent EXCEPT ![d] = revision]
  /\ framed' = [framed EXCEPT ![d] = TRUE]
  /\ StreamAt(d, "check")
  /\ UNCHANGED <<changeVars, stale, queue, pageVars, disturbances>>

\* The loop looks for a disconnection.
CheckConnection(d) ==
  /\ stream[d] = "check"
  /\ StreamAt(d, "wait")
  /\ UNCHANGED <<changeVars, stale, queue, sent, framed, pageVars, disturbances>>

\* queue.get, then 200 ms in which further changes are waited for.
Wake(d) ==
  /\ stream[d] = "wait" /\ queue[d]
  /\ queue' = [queue EXCEPT ![d] = FALSE]
  /\ StreamAt(d, "awake")
  /\ UNCHANGED <<changeVars, stale, sent, framed, pageVars, disturbances>>

\* Fifteen seconds without a change: a keepalive.
Timeout(d) ==
  /\ stream[d] = "wait" /\ ~queue[d]
  /\ StreamAt(d, "check")
  /\ UNCHANGED <<changeVars, stale, queue, sent, framed, pageVars, disturbances>>

\* A stream of which the page is gone goes on as before, unseen, until its loop
\* looks for the connection or a frame cannot be sent: then it leaves.
Discard ==
  /\ stale > 0
  /\ stale' = stale - 1
  /\ UNCHANGED <<changeVars, stream, queue, sent, framed, pageVars, disturbances>>

\* The page's end of a stream goes.
Leave(d) ==
  /\ StreamAt(d, "none")
  /\ stale' = IF d \in Clients THEN stale + 1 ELSE stale
  /\ framed' = [framed EXCEPT ![d] = FALSE]

-----------------------------------------------------------------------------
(* A page.                                                                   *)

\* bootstrap, whose first poll comes before everything else; if it fails the
\* page has its interval only.
OpenPage(d) ==
  /\ page[d] = "closed"
  /\ \/ /\ page' = [page EXCEPT ![d] = "loading"]
        /\ polling' = [polling EXCEPT ![d] = "reading"]
     \/ /\ page' = [page EXCEPT ![d] = "open"]
        /\ UNCHANGED polling
  /\ UNCHANGED <<changeVars, streamVars, source, timer, shown, disturbances>>

ClosePage(d) ==
  /\ page[d] # "closed" /\ Disturbed
  /\ Leave(d)
  /\ page' = [page EXCEPT ![d] = "closed"]
  /\ source' = [source EXCEPT ![d] = "none"]
  /\ timer' = [timer EXCEPT ![d] = FALSE]
  /\ polling' = [polling EXCEPT ![d] = "no"]
  /\ shown' = [shown EXCEPT ![d] = 0]
  /\ UNCHANGED <<changeVars, queue, sent>>

\* The connection breaks; the browser tries again.
BreakStream(d) ==
  /\ source[d] = "open" /\ Disturbed
  /\ Leave(d)
  /\ source' = [source EXCEPT ![d] = "connecting"]
  /\ UNCHANGED <<changeVars, queue, sent, page, timer, polling, shown>>

\* The change listener sets the timer if it is not set.
Frame(d) ==
  /\ framed[d]
  /\ framed' = [framed EXCEPT ![d] = FALSE]
  /\ timer' = [timer EXCEPT ![d] = TRUE]
  /\ UNCHANGED <<changeVars, stream, stale, queue, sent, page, source, polling, shown, disturbances>>

\* poll does nothing while another one runs.
Poll(d) == polling' = [polling EXCEPT ![d] = IF @ = "no" THEN "reading" ELSE @]

TimerFires(d) ==
  /\ timer[d]
  /\ timer' = [timer EXCEPT ![d] = FALSE]
  /\ Poll(d)
  /\ UNCHANGED <<changeVars, streamVars, page, source, shown, disturbances>>

\* Mutant: the page relies on its stream.
IntervalPollsOffline(d) == source[d] # "open"
IntervalPolls(d) == TRUE

Interval(d) ==
  /\ page[d] = "open" /\ polling[d] = "no" /\ IntervalPolls(d)
  /\ Poll(d)
  /\ UNCHANGED <<changeVars, streamVars, page, source, timer, shown, disturbances>>

\* The routes answer with what is stored when they are asked.
PollReads(d) ==
  /\ polling[d] = "reading"
  /\ shown' = [shown EXCEPT ![d] = stored]
  /\ polling' = [polling EXCEPT ![d] = "read"]
  /\ UNCHANGED <<changeVars, streamVars, page, source, timer, disturbances>>

PollFails(d) ==
  /\ polling[d] = "reading" /\ Disturbed
  /\ polling' = [polling EXCEPT ![d] = "read"]
  /\ UNCHANGED <<changeVars, streamVars, page, source, timer, shown>>

\* The first poll done, the page connects.
PollEnds(d) ==
  /\ polling[d] = "read"
  /\ polling' = [polling EXCEPT ![d] = "no"]
  /\ page' = [page EXCEPT ![d] = "open"]
  /\ source' = [source EXCEPT ![d] = IF page[d] = "loading" THEN "connecting" ELSE @]
  /\ UNCHANGED <<changeVars, streamVars, timer, shown, disturbances>>

PageStep(d) == Frame(d) \/ TimerFires(d) \/ PollReads(d) \/ PollEnds(d)
StreamStep(d) ==
  Connect(d) \/ SendFrame(d) \/ CheckConnection(d) \/ Wake(d) \/ Timeout(d)

DashboardStep(d) ==
  \/ StreamStep(d) \/ PageStep(d) \/ Interval(d) \/ PollFails(d)
  \/ OpenPage(d) \/ ClosePage(d) \/ BreakStream(d)

-----------------------------------------------------------------------------
(* Properties.                                                               *)

LiveTypeOK ==
  /\ stored \in Nat /\ untold \in 0..stored /\ revision = stored - untold
  /\ stream \in [Dashboards -> {"none", "first", "check", "wait", "awake"}]
  /\ queue \in [Dashboards -> BOOLEAN] /\ framed \in [Dashboards -> BOOLEAN]
  /\ page \in [Dashboards -> {"closed", "loading", "open"}]
  /\ source \in [Dashboards -> {"none", "connecting", "open", "refused"}]
  /\ sent \in [Dashboards -> 0..revision]
  /\ timer \in [Dashboards -> BOOLEAN]
  /\ polling \in [Dashboards -> {"no", "reading", "read"}]
  /\ shown \in [Dashboards -> 0..stored]
  /\ stale \in Nat /\ Subscribed <= maxClients

\* Changes collapse, but none is missed: a stream that waits with nothing in
\* its queue has told of every change, however slow it or another one was, and
\* whatever came during its pause (live.py:14-34, routes.py:213-239).
NoChangeIsMissed ==
  \A d \in Dashboards :
    stream[d] \in {"check", "wait"} /\ ~queue[d] => sent[d] = revision

\* Once nothing more is stored, a page that stays open comes to show it all,
\* also when its stream was refused or broken, a load failed, or a refresh was
\* dropped because an older one was still running (dashboard.js:611-659,760-769).
DashboardCatchesUp ==
  \A d \in Dashboards : []<>(page[d] = "open" => shown[d] = stored)

=============================================================================
