-------------------------- MODULE DetectionProofs --------------------------
(***************************************************************************)
(* Proofs about Detection: its types, that no stream misses a change, that *)
(* a key has one finding per window and that every pair of the window led  *)
(* to one, for any number of dashboards, pages and events and for any      *)
(* window and table sizes.                                                 *)
(***************************************************************************)
EXTENDS Detection, SequenceTheorems, SetLemmas, TLAPS

-----------------------------------------------------------------------------
(* Streams.                                                                  *)

Places == {"none", "first", "check", "wait", "awake"}

\* What a stream needs to know for NoChangeIsMissed to be inductive: only its
\* place, its queue and the revision it last told of.
StreamsTyped ==
  /\ revision \in Nat
  /\ stream \in [Dashboards -> Places]
  /\ queue \in [Dashboards -> BOOLEAN]
  /\ sent \in [Dashboards -> Nat]

StreamsInv == StreamsTyped /\ NoChangeIsMissed

\* The counts do not move, and at most some streams are left.
StreamsStill ==
  /\ UNCHANGED <<revision, queue, sent>>
  /\ stream' \in [Dashboards -> Places]
  /\ \A d \in Dashboards : stream'[d] \in {stream[d], "none"}

\* Such a step keeps what is known of the streams.
LEMMA StillStreams ==
  ASSUME StreamsInv, StreamsStill
  PROVE  StreamsInv'
BY DEF StreamsInv, StreamsTyped, StreamsStill, NoChangeIsMissed

LEMMA UnchangedStreams ==
  ASSUME StreamsInv, UNCHANGED <<revision, stream, queue, sent>>
  PROVE  StreamsInv'
BY DEF StreamsInv, StreamsTyped, NoChangeIsMissed

\* A notification fills the queue of every stream there is.
LEMMA NotifyStreams ==
  ASSUME StreamsInv, Notify \/ Heartbeat
  PROVE  StreamsInv'
<1>1. StreamsTyped'
  <2>1. revision' = revision + 1 /\ stream' = stream /\ sent' = sent
    BY DEF Notify, Heartbeat
  <2>2. queue' \in [Dashboards -> BOOLEAN]
    <3>1. \A d \in Dashboards : (IF d \in Clients THEN TRUE ELSE queue[d]) \in BOOLEAN
      BY DEF StreamsInv, StreamsTyped
    <3>2. queue' = [d \in Dashboards |-> IF d \in Clients THEN TRUE ELSE queue[d]]
      BY DEF Notify, Heartbeat, FillQueues, Filled
    <3>3. QED
      BY <3>1, <3>2, Zenon
  <2>3. QED
    BY <2>1, <2>2 DEF StreamsInv, StreamsTyped
<1>2. ASSUME NEW d \in Dashboards, stream'[d] \in {"check", "wait"}
      PROVE  queue'[d]
  <2>1. d \in Clients
    BY <1>2 DEF Notify, Heartbeat, Clients
  <2>2. QED
    BY <2>1 DEF Notify, Heartbeat, FillQueues, Filled
<1>3. QED
  BY <1>1, <1>2 DEF StreamsInv, NoChangeIsMissed

\* A step of a stream: a frame tells of the revision of that moment, and a
\* stream that empties its queue sends a frame next.
LEMMA StreamStepStreams ==
  ASSUME StreamsInv, NEW d \in Dashboards, StreamStep(d)
  PROVE  StreamsInv'
<1>1. CASE Connect(d)
  BY <1>1 DEF StreamsInv, StreamsTyped, NoChangeIsMissed, Places, Connect, StreamAt, changeVars
<1>2. CASE SendFrame(d)
  BY <1>2 DEF StreamsInv, StreamsTyped, NoChangeIsMissed, Places, SendFrame, StreamAt, changeVars
<1>3. CASE CheckConnection(d)
  BY <1>3 DEF StreamsInv, StreamsTyped, NoChangeIsMissed, Places, CheckConnection, StreamAt,
              changeVars
<1>4. CASE Wake(d)
  BY <1>4 DEF StreamsInv, StreamsTyped, NoChangeIsMissed, Places, Wake, StreamAt, changeVars
<1>5. CASE Timeout(d)
  BY <1>5 DEF StreamsInv, StreamsTyped, NoChangeIsMissed, Places, Timeout, StreamAt, changeVars
<1>6. QED
  BY <1>1, <1>2, <1>3, <1>4, <1>5 DEF StreamStep

\* Of what pages do, nothing reaches the streams but that they are left.
LEMMA PagesLeaveStreams ==
  ASSUME StreamsInv, NEW d \in Dashboards,
         PageStep(d) \/ Interval(d) \/ PollFails(d) \/ OpenPage(d) \/ ClosePage(d) \/ BreakStream(d)
  PROVE  StreamsInv'
<1>1. CASE PageStep(d)
  BY <1>1, UnchangedStreams DEF PageStep, Frame, TimerFires, PollReads, PollEnds, changeVars, streamVars
<1>2. CASE Interval(d) \/ PollFails(d) \/ OpenPage(d)
  BY <1>2, UnchangedStreams DEF Interval, PollFails, OpenPage, changeVars, streamVars
<1>3. CASE ClosePage(d) \/ BreakStream(d)
  <2>1. UNCHANGED <<revision, queue, sent>> /\ stream' = [stream EXCEPT ![d] = "none"]
    BY <1>3 DEF ClosePage, BreakStream, Leave, StreamAt, changeVars
  <2>2. StreamsStill
    BY <2>1 DEF StreamsStill, StreamsInv, StreamsTyped, Places
  <2>3. QED
    BY <2>2, StillStreams
<1>4. QED
  BY <1>1, <1>2, <1>3

LEMMA InitStreams == Init => StreamsInv
BY DEF Init, LiveInit, StreamsInv, StreamsTyped, NoChangeIsMissed, Places

\* A setup is chosen once, and watches some of the dashboards.
LEMMA SetupChosen == Spec => [](setup \in Setups)
<1>1. Init => setup \in Setups
  BY DEF Init
<1>2. setup \in Setups /\ [Next]_vars => (setup \in Setups)'
  BY DEF Next, vars
<1>3. QED
  BY <1>1, <1>2, PTL DEF Spec

LEMMA WatchingDashboards ==
  ASSUME setup \in Setups
  PROVE  setup.watching \subseteq Dashboards
BY SetupsAssumption

\* Every step of the specification keeps StreamsInv.
LEMMA NextStreams == setup \in Setups /\ StreamsInv /\ [Next]_vars => StreamsInv'
<1> SUFFICES ASSUME setup \in Setups, StreamsInv, [Next]_vars
             PROVE  StreamsInv'
  OBVIOUS
<1>1. CASE Observe \/ Report
  BY <1>1, UnchangedStreams DEF Observe, Report, Change, Store, liveVars, streamVars
<1>2. CASE EngineStep
  BY <1>2, UnchangedStreams DEF EngineStep, liveVars
<1>3. CASE Watch
  <2>1. CASE Notify \/ Heartbeat
    BY <2>1, NotifyStreams
  <2>2. ASSUME NEW d \in setup.watching, DashboardStep(d)
        PROVE  StreamsInv'
    <3>1. d \in Dashboards
      BY WatchingDashboards
    <3>2. QED
      BY <2>2, <3>1, StreamStepStreams, PagesLeaveStreams DEF DashboardStep
  <2>3. CASE Discard
    BY <2>3, UnchangedStreams DEF Discard, changeVars
  <2>4. QED
    BY <1>3, <2>1, <2>2, <2>3 DEF Watch
<1>4. CASE UNCHANGED vars
  BY <1>4, UnchangedStreams DEF vars, liveVars
<1>5. QED
  BY <1>1, <1>2, <1>3, <1>4 DEF Next

\* A stream that waits with nothing in its queue has told of every change: the
\* property of LiveUpdates, which is inductive once the streams are typed.
THEOREM StreamsMissNothing == Spec => []NoChangeIsMissed
<1>1. StreamsInv => NoChangeIsMissed
  BY DEF StreamsInv
<1>2. QED
  BY InitStreams, SetupChosen, NextStreams, <1>1, PTL DEF Spec

-----------------------------------------------------------------------------
(* Findings.                                                                 *)

Categories == {"process", "encryption", "ai", "sensitive"}
Handled == [category : Categories, page : Pages \cup {NoPage}, fresh : BOOLEAN, at : Nat]

\* Calls are counted with the observations they handle, and nothing that was
\* handled or found is later than the clock.
EngineTyped ==
  /\ clock \in Nat
  /\ handled \in Seq(Handled)
  /\ \A i \in DOMAIN handled : handled[i].at <= clock
  /\ recent \subseteq Nat
  /\ calls \in Seq(SUBSET Nat)
  /\ Len(calls) = Len(handled)
  /\ \A f \in findings : f.of \in DOMAIN handled /\ f.at \in Nat

\* The time of the observation behind a finding.
Behind(f) == handled[f.of].at

\* The table remembers a finding's key, with the time of its observation, until
\* that observation is a window old, or the key is evicted.
Remembered(f) ==
  \/ f.key \in evicted
  \/ \E entry \in emitted : entry.key = f.key /\ entry.at = Behind(f)
  \/ clock - Behind(f) >= Window

\* OneFindingPerWindow speaks of findings only; what keeps it is the table.
FindingsRemembered == ~refused => \A f \in findings : Remembered(f)

FindingsInv == EngineTyped /\ FindingsRemembered /\ OneFindingPerWindow

\* What is known of one observation and of one finding.
LEMMA HandledTime ==
  ASSUME EngineTyped, NEW i \in DOMAIN handled
  PROVE  handled[i] \in Handled /\ handled[i].at \in Nat /\ i \in 1..Len(handled)
<1>1. handled[i] \in Handled
  BY DEF EngineTyped
<1>2. QED
  BY <1>1 DEF EngineTyped, Handled

LEMMA BehindTime ==
  ASSUME EngineTyped, NEW f \in findings
  PROVE  f.of \in DOMAIN handled /\ Behind(f) \in Nat
BY HandledTime DEF EngineTyped, Behind

LEMMA InitFindings == Init => FindingsInv
BY DEF Init, EngineInit, FindingsInv, EngineTyped, FindingsRemembered, OneFindingPerWindow

\* A step that touches neither the table, the findings nor the times.
LEMMA StillFindings ==
  ASSUME FindingsInv, UNCHANGED <<clock, handled, emitted, findings, evicted>>,
         recent' = recent, calls' \in Seq(SUBSET Nat), Len(calls') = Len(calls), refused' = refused
  PROVE  FindingsInv'
<1>1. EngineTyped'
  BY DEF FindingsInv, EngineTyped
<1>2. FindingsRemembered'
  BY DEF FindingsInv, FindingsRemembered, Remembered, Behind
<1>3. OneFindingPerWindow'
  BY DEF FindingsInv, OneFindingPerWindow
<1>4. QED
  BY <1>1, <1>2, <1>3 DEF FindingsInv

LEMMA TickFindings ==
  ASSUME FindingsInv, Tick
  PROVE  FindingsInv'
<1>1. EngineTyped'
  <2>1. clock' = clock + 1 /\ UNCHANGED <<handled, recent, calls, findings>>
    BY DEF Tick
  <2>2. \A i \in DOMAIN handled : handled[i].at <= clock + 1
    BY HandledTime DEF FindingsInv, EngineTyped
  <2>3. QED
    BY <2>1, <2>2 DEF FindingsInv, EngineTyped
<1>2. ASSUME ~refused, NEW f \in findings
      PROVE  Remembered(f)'
  <2>1. Remembered(f)
    BY <1>2 DEF FindingsInv, FindingsRemembered
  <2>2. Behind(f) \in Nat /\ Behind(f)' = Behind(f) /\ clock \in Nat /\ clock' = clock + 1
    <3>1. Behind(f) \in Nat
      BY BehindTime DEF FindingsInv
    <3>2. QED
      BY <3>1 DEF FindingsInv, EngineTyped, Behind, Tick
  <2>3. QED
    BY <2>1, <2>2, WindowAssumption DEF Remembered, Tick
<1>3. FindingsRemembered'
  BY <1>2 DEF Tick, FindingsRemembered
<1>4. OneFindingPerWindow'
  BY DEF FindingsInv, OneFindingPerWindow, Tick
<1>5. QED
  BY <1>1, <1>3, <1>4 DEF FindingsInv

\* What is known of an observation, handled or not.
Known(a) == a.category \in Categories /\ a.page \in Pages \cup {NoPage}

\* What an observation adds, in parts.
LEMMA Observed ==
  ASSUME EngineTyped, NEW o \in Observations, OnEvent(o)
  PROVE  LET n == Len(handled) + 1 IN
         /\ Len(handled) \in Nat /\ Len(handled) < MaxEvents
         /\ handled' \in Seq(Handled) /\ Len(handled') = n /\ DOMAIN handled' = 1..n
         /\ \A i \in DOMAIN handled : handled'[i] = handled[i] /\ i \in DOMAIN handled'
         /\ handled'[n].category = o.category /\ handled'[n].page = o.page
         /\ handled'[n].fresh = o.fresh /\ handled'[n].at = clock
         /\ Known(o) /\ o.fresh \in BOOLEAN
<1> DEFINE new == [category |-> o.category, page |-> o.page, fresh |-> o.fresh, at |-> clock]
<1>1. o.category \in Categories /\ o.page \in Pages \cup {NoPage} /\ o.fresh \in BOOLEAN
  <2>1. CASE o \in {Host("process"), Host("encryption")}
    <3>1. \A category : /\ Host(category).category = category
                        /\ Host(category).page = NoPage
                        /\ Host(category).fresh = TRUE
      BY DEF Host
    <3> QED  BY <2>1, <3>1 DEF Categories
  <2>2. CASE o \in [category : {"ai", "sensitive"}, page : Pages, fresh : BOOLEAN]
    BY <2>2 DEF Categories
  <2> QED  BY <2>1, <2>2 DEF Observations
<1>2. new \in Handled /\ handled' = Append(handled, new) /\ Len(handled) < MaxEvents
  BY <1>1 DEF OnEvent, Handled, EngineTyped
<1>3. /\ new.category = o.category /\ new.page = o.page /\ new.fresh = o.fresh /\ new.at = clock
  OBVIOUS
<1>4. handled \in Seq(Handled) /\ Len(handled) \in Nat
  BY DEF EngineTyped
<1> HIDE DEF new
<1>5. /\ handled' \in Seq(Handled) /\ Len(handled') = Len(handled) + 1
      /\ DOMAIN handled' = 1..(Len(handled) + 1)
      /\ \A i \in DOMAIN handled : handled'[i] = handled[i] /\ i \in DOMAIN handled'
      /\ handled'[Len(handled) + 1] = new
  BY <1>2, <1>4, AppendProperties
<1> QED  BY <1>1, <1>2, <1>3, <1>4, <1>5 DEF Known

\* An observation forgets only keys a window old.
LEMMA OnEventFindings ==
  ASSUME FindingsInv, NEW o \in Observations, OnEvent(o)
  PROVE  FindingsInv'
<1> DEFINE new == [category |-> o.category, page |-> o.page, fresh |-> o.fresh, at |-> clock]
<1>1. /\ handled' = Append(handled, new)
      /\ new \in Handled
      /\ new.at = clock
  <2>1. o.category \in Categories /\ o.page \in Pages \cup {NoPage} /\ o.fresh \in BOOLEAN
    BY Observed DEF FindingsInv, Known
  <2>2. handled' = Append(handled, new)
    BY DEF OnEvent
  <2>3. clock \in Nat
    BY DEF FindingsInv, EngineTyped
  <2>4. QED
    BY <2>1, <2>2, <2>3 DEF Handled
<1>2. EngineTyped'
  <2>1. calls' \in Seq(SUBSET Nat) /\ Len(calls') = Len(calls) + 1
    <3> DEFINE matches == {i \in LatestOf({i \in recent : Within(handled[i].at, clock)},
                                          MaxRecent - 1) : Match(o, handled[i]) # NoKey}
    <3>1. calls' = Append(calls, IF o.fresh THEN matches ELSE {})
      BY DEF OnEvent
    <3>2. matches \subseteq Nat
      BY DEF LatestOf, FindingsInv, EngineTyped
    <3>3. (IF o.fresh THEN matches ELSE {}) \in SUBSET Nat
      BY <3>2
    <3>4. calls \in Seq(SUBSET Nat)
      BY DEF FindingsInv, EngineTyped
    <3> HIDE DEF matches
    <3>5. QED
      BY <3>1, <3>3, <3>4, AppendProperties
  <2>2. /\ handled' \in Seq(Handled)
        /\ Len(handled') = Len(handled) + 1
        /\ DOMAIN handled' = 1..(Len(handled) + 1)
        /\ \A i \in DOMAIN handled : i \in DOMAIN handled' /\ handled'[i] = handled[i]
        /\ handled'[Len(handled) + 1] = new
    BY <1>1, AppendProperties DEF FindingsInv, EngineTyped
  <2>3. clock' = clock /\ findings' = findings /\ recent' \subseteq Nat
    <3>1. recent' \subseteq recent \cup {Len(handled) + 1}
      BY DEF OnEvent, LatestOf
    <3>2. recent \subseteq Nat /\ Len(handled) \in Nat
      BY DEF FindingsInv, EngineTyped
    <3>3. clock' = clock /\ findings' = findings
      BY DEF OnEvent
    <3>4. recent' \subseteq Nat
      BY <3>1, <3>2
    <3>5. QED
      BY <3>3, <3>4
  <2>4. \A i \in DOMAIN handled' : handled'[i].at <= clock
    <3>1. \A i \in DOMAIN handled' : i \in DOMAIN handled \/ i = Len(handled) + 1
      BY <2>2 DEF FindingsInv, EngineTyped
    <3>2. QED
      BY <3>1, <2>2, <1>1 DEF FindingsInv, EngineTyped
  <2>5. QED
    BY <2>1, <2>2, <2>3, <2>4 DEF FindingsInv, EngineTyped
<1>3. ASSUME NEW f \in findings
      PROVE  Behind(f)' = Behind(f) /\ Behind(f) \in Nat
  <2>1. f.of \in DOMAIN handled /\ Behind(f) \in Nat
    BY BehindTime DEF FindingsInv
  <2>2. handled'[f.of] = handled[f.of]
    BY <1>1, <2>1, AppendProperties DEF FindingsInv, EngineTyped
  <2>3. QED
    BY <2>1, <2>2 DEF Behind
<1>4. ASSUME ~refused, NEW f \in findings
      PROVE  Remembered(f)'
  <2>1. Remembered(f)
    BY <1>4 DEF FindingsInv, FindingsRemembered
  <2>2. CASE f.key \in evicted \/ clock - Behind(f) >= Window
    BY <2>2, <1>3 DEF Remembered, OnEvent
  <2>3. ASSUME NEW entry \in emitted, entry.key = f.key, entry.at = Behind(f)
        PROVE  Remembered(f)'
    <3>1. CASE clock - Behind(f) >= Window
      BY <3>1, <1>3 DEF Remembered, OnEvent
    <3>2. CASE ~(clock - Behind(f) >= Window)
      <4>1. StillEmitted(entry, clock)
        BY <3>2, <2>3, <1>3, WindowAssumption DEF StillEmitted, FindingsInv, EngineTyped
      <4>2. entry \in emitted'
        BY <4>1 DEF OnEvent
      <4>3. QED
        BY <4>2, <2>3, <1>3 DEF Remembered
    <3>3. QED
      BY <3>1, <3>2
  <2>4. QED
    BY <2>1, <2>2, <2>3 DEF Remembered
<1>5. FindingsRemembered'
  BY <1>4 DEF FindingsRemembered, OnEvent
<1>6. OneFindingPerWindow'
  <2>1. findings' = findings /\ evicted' = evicted /\ ~refused
    BY DEF OnEvent
  <2>2. \A f \in findings : handled'[f.of].at = handled[f.of].at
    BY <1>3 DEF Behind
  <2>3. QED
    BY <2>1, <2>2 DEF FindingsInv, OneFindingPerWindow
<1>7. QED
  BY <1>2, <1>5, <1>6 DEF FindingsInv

\* A finding that is raised is remembered at once; another key is forgotten for
\* it only into `evicted`, and its own key was not remembered.
LEMMA RaiseFindings ==
  ASSUME FindingsInv, NEW j \in DOMAIN calls, RaiseFinding(j)
  PROVE  FindingsInv'
<1>a. PICK new : new = [key |-> NextKey(j), of |-> j, at |-> clock]
  OBVIOUS
<1>b. PICK marked : marked = [key |-> NextKey(j), at |-> handled[j].at, place |-> NewPlace]
  OBVIOUS
<1>1. /\ UNCHANGED <<clock, handled, recent, refused>>
      /\ findings' = findings \cup {new}
      /\ emitted' = (emitted \ MakesRoom) \cup {marked}
      /\ evicted' = evicted \cup {entry.key : entry \in MakesRoom}
      /\ ~IsEmitted(new.key)
  BY <1>a, <1>b DEF RaiseFinding
<1>2. new.key = NextKey(j) /\ new.of = j /\ new.at = clock
      /\ marked.key = NextKey(j) /\ marked.at = handled[j].at
  BY <1>a, <1>b
<1>3. EngineTyped'
  <2>1. calls' \in Seq(SUBSET Nat) /\ Len(calls') = Len(calls)
    BY DEF RaiseFinding, Looked, FindingsInv, EngineTyped
  <2>2. j \in DOMAIN handled /\ clock \in Nat
    BY DEF FindingsInv, EngineTyped
  <2>3. QED
    BY <1>1, <1>2, <2>1, <2>2 DEF FindingsInv, EngineTyped
<1>4. \A f : Behind(f)' = Behind(f)
  BY <1>1 DEF Behind
<1>5. Remembered(new)'
  <2>1. marked \in emitted' /\ marked.key = new.key /\ marked.at = Behind(new)'
    BY <1>1, <1>2 DEF Behind
  <2>2. QED
    BY <2>1 DEF Remembered
<1>6. ASSUME ~refused, NEW f \in findings
      PROVE  Remembered(f)'
  <2>1. Remembered(f)
    BY <1>6 DEF FindingsInv, FindingsRemembered
  <2>2. CASE f.key \in evicted \/ clock - Behind(f) >= Window
    BY <2>2, <1>1, <1>4 DEF Remembered
  <2>3. ASSUME NEW entry \in emitted, entry.key = f.key, entry.at = Behind(f)
        PROVE  Remembered(f)'
    <3>1. CASE entry \in MakesRoom
      BY <3>1, <1>1, <2>3 DEF Remembered
    <3>2. CASE entry \notin MakesRoom
      BY <3>2, <1>1, <1>4, <2>3 DEF Remembered
    <3>3. QED
      BY <3>1, <3>2
  <2>4. QED
    BY <2>1, <2>2, <2>3 DEF Remembered
<1>7. FindingsRemembered'
  BY <1>1, <1>5, <1>6 DEF FindingsRemembered
<1>8. ASSUME ~refused, NEW f \in findings, f.key = new.key, f.key \notin evicted'
      PROVE  new.at - Behind(f) >= Window
  <2>1. Remembered(f)
    BY <1>8 DEF FindingsInv, FindingsRemembered
  <2>2. f.key \notin evicted
    BY <1>8, <1>1
  <2>3. ~\E entry \in emitted : entry.key = f.key /\ entry.at = Behind(f)
    BY <1>8, <1>1 DEF IsEmitted
  <2>4. QED
    BY <2>1, <2>2, <2>3, <1>2 DEF Remembered
<1>9. OneFindingPerWindow'
  <2> SUFFICES ASSUME ~refused, NEW f \in findings', NEW g \in findings', f # g,
                      f.key = g.key, f.key \notin evicted'
               PROVE  \/ g.at - Behind(f) >= Window
                      \/ f.at - Behind(g) >= Window
    BY <1>1 DEF OneFindingPerWindow, Behind
  <2>1. CASE f \in findings /\ g \in findings
    <3>1. f.key \notin evicted
      BY <1>1
    <3>2. QED
      BY <2>1, <3>1 DEF FindingsInv, OneFindingPerWindow, Behind
  <2>2. CASE f \in findings /\ g = new
    BY <2>2, <1>8
  <2>3. CASE f = new /\ g \in findings
    BY <2>3, <1>8
  <2>4. QED
    BY <1>1, <2>1, <2>2, <2>3
<1>10. QED
  BY <1>3, <1>7, <1>9 DEF FindingsInv

\* A finding that cannot be published is withdrawn, and collection is paused.
LEMMA FailureFindings ==
  ASSUME FindingsInv, NEW j \in DOMAIN calls, PublishFails(j)
  PROVE  FindingsInv'
<1>1. EngineTyped'
  <2>1. calls' \in Seq(SUBSET Nat) /\ Len(calls') = Len(calls)
    BY DEF PublishFails, FindingsInv, EngineTyped
  <2>2. UNCHANGED <<clock, handled, recent>> /\ findings' \subseteq findings
    BY DEF PublishFails
  <2>3. QED
    BY <2>1, <2>2 DEF FindingsInv, EngineTyped
<1>2. refused'
  BY DEF PublishFails
<1>3. QED
  BY <1>1, <1>2 DEF FindingsInv, FindingsRemembered, OneFindingPerWindow

\* A match that is passed over, or a publication that ends, changes no finding.
LEMMA QuietFindings ==
  ASSUME FindingsInv, NEW j \in DOMAIN calls, SkipMatch(j) \/ Published(j)
  PROVE  FindingsInv'
<1>1. calls' \in Seq(SUBSET Nat) /\ Len(calls') = Len(calls)
  <2>1. CASE SkipMatch(j)
    BY <2>1 DEF SkipMatch, Looked, FindingsInv, EngineTyped
  <2>2. CASE Published(j)
    BY <2>2 DEF Published, FindingsInv, EngineTyped
  <2>3. QED
    BY <2>1, <2>2
<1>2. UNCHANGED <<clock, handled, recent, emitted, findings, evicted, refused>>
  BY DEF SkipMatch, Published
<1>3. QED
  BY <1>1, <1>2, StillFindings

\* Every step of the specification keeps FindingsInv.
LEMMA NextFindings == setup \in Setups /\ FindingsInv /\ [Next]_vars => FindingsInv'
<1> SUFFICES ASSUME setup \in Setups, FindingsInv, [Next]_vars
             PROVE  FindingsInv'
  OBVIOUS
<1>1. CASE Observe
  <2>1. setup.observations \subseteq Observations
    BY SetupsAssumption
  <2>2. QED
    BY <1>1, <2>1, OnEventFindings DEF Observe
<1>2. CASE Report
  BY <1>2, QuietFindings DEF Report
<1>3. CASE EngineStep
  BY <1>3, TickFindings, QuietFindings, RaiseFindings, FailureFindings DEF EngineStep
<1>4. CASE Watch \/ UNCHANGED vars
  <2>1. UNCHANGED engineVars
    BY <1>4 DEF Watch, vars
  <2>2. UNCHANGED <<clock, handled, recent, emitted, calls, findings, evicted, refused>>
    BY <2>1 DEF engineVars
  <2>3. QED
    BY <2>2, StillFindings DEF FindingsInv, EngineTyped
<1>5. QED
  BY <1>1, <1>2, <1>3, <1>4 DEF Next

\* The next finding of a key comes a window after the observation behind the one
\* before: the property of CorrelationEngine, from what its table remembers.
THEOREM OneFindingEach == Spec => []OneFindingPerWindow
<1>1. FindingsInv => OneFindingPerWindow
  BY DEF FindingsInv
<1>2. QED
  BY InitFindings, SetupChosen, NextFindings, <1>1, PTL DEF Spec

-----------------------------------------------------------------------------
(* Tables and matches.                                                       *)

LEMMA PlacesFinite ==
  ASSUME NEW S, IsFiniteSet(S)
  PROVE  IsFiniteSet({entry.place : entry \in S})
<1> DEFINE T == {entry.place : entry \in S}
           f == [entry \in S |-> entry.place]
<1>1. f \in Surjection(S, T)
  BY DEF Surjection
<1> HIDE DEF f
<1>2. IsFiniteSet(T)
  BY <1>1, FS_Surjection
<1> QED  BY <1>2

LEMMA LatestAtMost ==
  ASSUME NEW P \in SUBSET Nat, IsFiniteSet(P), NEW n \in Nat
  PROVE  /\ LatestOf(P, n) \subseteq P
         /\ IsFiniteSet(LatestOf(P, n))
         /\ Cardinality(LatestOf(P, n)) <= n
<1> DEFINE L == LatestOf(P, n)
<1>1. L \subseteq P /\ IsFiniteSet(L)
  BY FS_Subset DEF LatestOf
<1>2. CASE L = {}
  BY <1>1, <1>2, FS_EmptySet
<1>3. CASE L # {}
  <2>1. PICK m \in L : \A y \in L : m <= y
    BY <1>1, <1>3, LeastExists
  <2> DEFINE A == {k \in P : k > m}
  <2>2. Cardinality(A) < n
    BY <2>1 DEF LatestOf
  <2>3. IsFiniteSet(A) /\ Cardinality(A) \in Nat
    BY FS_Subset, FS_CardinalityType
  <2>4. L \ {m} \subseteq A
    <3>1. \A k \in L \ {m} : k \in P /\ k > m
      <4> HIDE DEF L
      <4> QED  BY <2>1, <1>1
    <3> QED  BY <3>1
  <2>5. Cardinality(L \ {m}) = Cardinality(L) - 1 /\ Cardinality(L) \in Nat
    BY <1>1, <2>1, FS_RemoveElement, FS_CardinalityType
  <2>6. Cardinality(L \ {m}) <= Cardinality(A)
    <3> HIDE DEF L, A
    <3> QED  BY <2>3, <2>4, FS_Subset
  <2> QED  BY <1>1, <2>2, <2>3, <2>5, <2>6
<1> QED  BY <1>2, <1>3

\* Two observations are of these categories, in either order.
Either(a, b, one, other) ==
  \/ a.category = one /\ b.category = other
  \/ a.category = other /\ b.category = one

LEMMA MatchOfCategories ==
  ASSUME NEW a, NEW b
  PROVE  Match(a, b) =
    IF Either(a, b, "process", "encryption") THEN <<"lotl_encryption", NoPage>>
    ELSE IF Either(a, b, "ai", "sensitive") /\ a.page = b.page
         THEN <<"ai_sensitive_page", a.page>>
    ELSE IF Either(a, b, "ai", "process")
         THEN <<"browser_endpoint", IF a.category = "ai" THEN a.page ELSE b.page>>
    ELSE NoKey
<1>1. {a.category, b.category} = {"process", "encryption"} <=> Either(a, b, "process", "encryption")
  BY DEF Either
<1>2. {a.category, b.category} = {"ai", "sensitive"} <=> Either(a, b, "ai", "sensitive")
  BY DEF Either
<1>3. {a.category, b.category} = {"ai", "process"} <=> Either(a, b, "ai", "process")
  BY DEF Either
<1>4. \A one, other, x, y \in Categories :
        Either(a, b, one, other) /\ Either(a, b, x, y) => {one, other} = {x, y}
  BY DEF Either
<1> QED  BY <1>1, <1>2, <1>3, <1>4 DEF Match, Categories

LEMMA MatchIsKey ==
  ASSUME NEW a, NEW b, Known(a), Known(b)
  PROVE  Match(a, b) \in Keys \cup {NoKey}
<1>1. \A rule \in {"lotl_encryption", "ai_sensitive_page", "browser_endpoint"} :
        \A p \in Pages \cup {NoPage} : <<rule, p>> \in Keys
  BY DEF Keys
<1>2. NoPage \in Pages \cup {NoPage} /\ a.page \in Pages \cup {NoPage}
      /\ b.page \in Pages \cup {NoPage}
  BY DEF Known
<1> QED  BY <1>1, <1>2, MatchOfCategories

LEMMA MatchSymmetric ==
  ASSUME NEW a, NEW b
  PROVE  Match(a, b) = Match(b, a)
<1>1. \A one, other : Either(a, b, one, other) <=> Either(b, a, one, other)
  BY DEF Either
<1>2. Either(a, b, "ai", "process") =>
        (IF a.category = "ai" THEN a.page ELSE b.page) = IF b.category = "ai" THEN b.page ELSE a.page
  BY DEF Either
<1> QED  BY <1>1, <1>2, MatchOfCategories

LEMMA MatchIsLocal ==
  ASSUME NEW a, NEW b, NEW c, a.category = b.category, a.page = b.page
  PROVE  Match(a, c) = Match(b, c)
BY DEF Match

\* A call looks only at earlier observations that belong with its own.
CallsMatch ==
  \A j \in DOMAIN calls : \A i \in calls[j] :
    i \in 1..(j - 1) /\ Match(handled[j], handled[i]) # NoKey

TablesTyped ==
  /\ clock <= MaxClock /\ Len(handled) <= MaxEvents
  /\ recent \subseteq DOMAIN handled /\ Cardinality(recent) <= MaxRecent
  /\ emitted \subseteq [key : Keys, at : 0..clock, place : Nat]
  /\ IsFiniteSet(emitted) /\ Cardinality(emitted) <= MaxEmitted
  /\ sending \in Seq(Keys \cup {NoKey}) /\ Len(sending) = Len(handled)
  /\ refused \in BOOLEAN /\ evicted \subseteq Keys
  /\ CallsMatch

LEMMA TablesAreTyped == EngineTyped /\ TablesTyped => EngineTypeOK
<1> SUFFICES ASSUME EngineTyped, TablesTyped PROVE EngineTypeOK
  OBVIOUS
<1>1. clock \in 0..MaxClock
  BY WindowAssumption DEF EngineTyped, TablesTyped
<1>2. \A i \in DOMAIN handled :
        handled[i].at \in 0..clock /\ handled[i].category \in {"process", "encryption", "ai", "sensitive"}
  BY HandledTime DEF EngineTyped, Handled, Categories
<1>3. calls \in [DOMAIN handled -> SUBSET DOMAIN handled]
  <2>1. DOMAIN calls = DOMAIN handled /\ DOMAIN calls = 1..Len(calls) /\ Len(calls) \in Nat
    BY DEF EngineTyped
  <2>2. calls = [j \in DOMAIN calls |-> calls[j]]
    BY DEF EngineTyped
  <2>3. ASSUME NEW j \in DOMAIN calls PROVE calls[j] \subseteq DOMAIN calls
    <3>1. ASSUME NEW i \in calls[j] PROVE i \in DOMAIN calls
      <4>1. i \in 1..(j - 1)
        BY DEF TablesTyped, CallsMatch
      <4> QED  BY <4>1, <2>1
    <3> QED  BY <3>1
  <2> QED  BY <2>1, <2>2, <2>3
<1>4. sending \in [DOMAIN handled -> Keys \cup {NoKey}]
  <2>1. DOMAIN sending = DOMAIN handled
    BY DEF TablesTyped, EngineTyped
  <2> QED  BY <2>1 DEF TablesTyped
<1> QED  BY <1>1, <1>2, <1>3, <1>4 DEF EngineTypeOK, TablesTyped

LEMMA InitTables == Init => TablesTyped
<1> SUFFICES ASSUME Init PROVE TablesTyped
  OBVIOUS
<1>1. IsFiniteSet({}) /\ Cardinality({}) = 0
  BY FS_EmptySet
<1>2. /\ clock = 0 /\ handled = <<>> /\ recent = {} /\ emitted = {}
      /\ calls = <<>> /\ sending = <<>> /\ refused = FALSE /\ evicted = {}
  BY DEF Init, EngineInit
<1>3. sending \in Seq(Keys \cup {NoKey}) /\ Len(sending) = 0 /\ Len(handled) = 0
  BY <1>2
<1>4. DOMAIN calls = {}
  BY <1>2
<1>5. refused \in BOOLEAN
  BY <1>2, Zenon
<1>6. clock <= MaxClock /\ Len(handled) <= MaxEvents /\ Cardinality(recent) <= MaxRecent
      /\ Cardinality(emitted) <= MaxEmitted
  BY <1>1, <1>2, <1>3, WindowAssumption
<1> QED  BY <1>1, <1>2, <1>3, <1>4, <1>5, <1>6 DEF TablesTyped, CallsMatch

LEMMA HandledKnown ==
  ASSUME EngineTyped, NEW i \in DOMAIN handled
  PROVE  Known(handled[i])
BY HandledTime DEF Known, Handled

\* What Ready gives: the next match is a key.
LEMMA NextIsKey ==
  ASSUME EngineTyped, TablesTyped, NEW j \in DOMAIN calls, Ready(j)
  PROVE  /\ Min(calls[j]) \in calls[j]
         /\ Min(calls[j]) \in DOMAIN handled /\ j \in DOMAIN handled
         /\ NextKey(j) \in Keys
<1>1. calls[j] \in SUBSET Nat /\ calls[j] # {}
  BY DEF EngineTyped, Ready
<1>2. Min(calls[j]) \in calls[j]
  BY <1>1, MinIsLeast
<1>3. Min(calls[j]) \in 1..(j - 1) /\ NextKey(j) # NoKey
  BY <1>2 DEF TablesTyped, CallsMatch, NextKey
<1>4. Min(calls[j]) \in DOMAIN handled /\ j \in DOMAIN handled
  BY <1>3 DEF EngineTyped
<1>5. NextKey(j) \in Keys \cup {NoKey}
  BY <1>4, HandledKnown, MatchIsKey DEF NextKey
<1> QED  BY <1>2, <1>3, <1>4, <1>5

\* A call that goes on looks at no more than before.
LEMMA LookedMatches ==
  ASSUME TablesTyped, EngineTyped, calls' \in Seq(SUBSET Nat), Len(calls') = Len(calls), handled' = handled,
         \A j \in DOMAIN calls : calls'[j] \subseteq calls[j]
  PROVE  CallsMatch'
<1>1. DOMAIN calls' = DOMAIN calls
  BY DEF EngineTyped
<1> QED  BY <1>1 DEF TablesTyped, CallsMatch

LEMMA TickTables ==
  ASSUME EngineTyped, TablesTyped, Tick
  PROVE  TablesTyped'
<1>1. clock' = clock + 1 /\ clock < MaxClock /\ clock \in Nat
      /\ UNCHANGED <<handled, recent, emitted, calls, sending, refused, evicted>>
  BY DEF Tick, EngineTyped
<1>2. emitted \subseteq [key : Keys, at : 0..(clock + 1), place : Nat]
  <2>1. 0..clock \subseteq 0..(clock + 1)
    BY <1>1
  <2> QED  BY <2>1 DEF TablesTyped
<1> QED  BY <1>1, <1>2, WindowAssumption DEF TablesTyped, CallsMatch

LEMMA SkipTables ==
  ASSUME EngineTyped, TablesTyped, EngineTyped', NEW j \in DOMAIN calls, SkipMatch(j)
  PROVE  TablesTyped'
<1>1. UNCHANGED <<clock, handled, recent, emitted, sending, refused, evicted>>
      /\ calls' = Looked(j)
  BY DEF SkipMatch
<1>2. CallsMatch'
  BY <1>1, LookedMatches DEF Looked, EngineTyped
<1> QED  BY <1>1, <1>2 DEF TablesTyped

\* sending with another match for one call.
LEMMA SendingStays ==
  ASSUME EngineTyped, TablesTyped, NEW j \in DOMAIN calls, NEW key \in Keys \cup {NoKey},
         sending' = [sending EXCEPT ![j] = key]
  PROVE  sending' \in Seq(Keys \cup {NoKey}) /\ Len(sending') = Len(sending)
<1> DEFINE K == Keys \cup {NoKey}
<1>1. sending \in Seq(K) /\ key \in K /\ j \in DOMAIN sending
  BY DEF TablesTyped, EngineTyped
<1> HIDE DEF K
<1>2. sending' \in Seq(K) /\ Len(sending') = Len(sending)
  BY <1>1
<1> QED  BY <1>2 DEF K

LEMMA PublishedTables ==
  ASSUME EngineTyped, TablesTyped, NEW j \in DOMAIN calls, Published(j)
  PROVE  TablesTyped'
<1>1. UNCHANGED <<clock, handled, recent, emitted, calls, refused, evicted>>
      /\ sending' = [sending EXCEPT ![j] = NoKey]
  BY DEF Published
<1>2. sending' \in Seq(Keys \cup {NoKey}) /\ Len(sending') = Len(sending)
  BY <1>1, SendingStays
<1> QED  BY <1>1, <1>2 DEF TablesTyped, CallsMatch

LEMMA FailureTables ==
  ASSUME EngineTyped, TablesTyped, EngineTyped', NEW j \in DOMAIN calls, PublishFails(j)
  PROVE  TablesTyped'
<1>1. UNCHANGED <<clock, handled, recent, evicted>> /\ refused' = TRUE
      /\ sending' = [sending EXCEPT ![j] = NoKey] /\ calls' = [calls EXCEPT ![j] = {}]
      /\ emitted' \subseteq emitted
  BY DEF PublishFails
<1>2. sending' \in Seq(Keys \cup {NoKey}) /\ Len(sending') = Len(sending)
  BY <1>1, SendingStays
<1>3. CallsMatch'
  BY <1>1, LookedMatches DEF EngineTyped
<1>4. IsFiniteSet(emitted') /\ Cardinality(emitted') <= MaxEmitted
  <2>1. IsFiniteSet(emitted) /\ Cardinality(emitted) \in Nat /\ Cardinality(emitted) <= MaxEmitted
    BY FS_CardinalityType DEF TablesTyped
  <2>2. IsFiniteSet(emitted') /\ Cardinality(emitted') <= Cardinality(emitted)
    BY <1>1, <2>1, FS_Subset
  <2>3. Cardinality(emitted') \in Nat
    BY <2>2, FS_CardinalityType
  <2> QED  BY <2>1, <2>2, <2>3, WindowAssumption
<1> QED  BY <1>1, <1>2, <1>3, <1>4 DEF TablesTyped

\* Room is made where the table is full: an entry with the least place goes.
LEMMA RoomIsMade ==
  ASSUME TablesTyped
  PROVE  /\ IsFiniteSet(emitted \ MakesRoom)
         /\ Cardinality(emitted \ MakesRoom) < MaxEmitted
<1>1. IsFiniteSet(emitted) /\ Cardinality(emitted) \in Nat /\ Cardinality(emitted) <= MaxEmitted
      /\ MaxEmitted \in Nat \ {0}
  BY FS_CardinalityType, WindowAssumption DEF TablesTyped
<1>2. IsFiniteSet(emitted \ MakesRoom) /\ Cardinality(emitted \ MakesRoom) <= Cardinality(emitted)
      /\ (Cardinality(emitted \ MakesRoom) = Cardinality(emitted) => emitted \ MakesRoom = emitted)
  BY <1>1, FS_Subset
<1>3. Cardinality(emitted \ MakesRoom) \in Nat
  BY <1>2, FS_CardinalityType
<1>4. CASE Cardinality(emitted) >= MaxEmitted
  <2> DEFINE Taken == {entry.place : entry \in emitted}
  <2>1. Taken \in SUBSET Nat /\ Taken # {}
    <3>1. emitted # {}
      BY <1>1, <1>4, FS_EmptySet
    <3> QED  BY <3>1 DEF TablesTyped
  <2>2. PICK least \in Taken : \A place \in Taken : least <= place
    BY <2>1, LeastExists
  <2>3. PICK entry \in emitted : entry.place = least
    BY <2>2
  <2>4. FirstPlace(entry)
    BY <2>2, <2>3 DEF FirstPlace
  <2>5. entry \in MakesRoom
    BY <2>3, <2>4, <1>4 DEF MakesRoom
  <2> QED  BY <2>3, <2>5, <1>1, <1>2, <1>3
<1>5. CASE Cardinality(emitted) < MaxEmitted
  BY <1>1, <1>2, <1>3, <1>5
<1> QED  BY <1>1, <1>2, <1>4, <1>5

LEMMA NewPlaceIsPlace ==
  ASSUME TablesTyped
  PROVE  NewPlace \in Nat
<1> DEFINE Taken == {entry.place : entry \in emitted}
<1>1. CASE emitted = {}
  BY <1>1 DEF NewPlace
<1>2. CASE emitted # {}
  <2>1. Taken \in SUBSET Nat /\ Taken # {} /\ IsFiniteSet(Taken)
    BY <1>2, PlacesFinite DEF TablesTyped
  <2>2. \E place \in Taken : \A other \in Taken : place >= other
    BY <2>1, GreatestExists
  <2>3. Max(Taken) \in Taken
    <3> HIDE DEF Taken
    <3> QED  BY <2>2 DEF Max
  <2> QED  BY <2>1, <2>3, <1>2 DEF NewPlace
<1> QED  BY <1>1, <1>2

LEMMA RaiseTables ==
  ASSUME EngineTyped, TablesTyped, EngineTyped', NEW j \in DOMAIN calls, RaiseFinding(j)
  PROVE  TablesTyped'
<1> DEFINE marked == [key |-> NextKey(j), at |-> handled[j].at, place |-> NewPlace]
           kept == emitted \ MakesRoom
<1>1. /\ UNCHANGED <<clock, handled, recent, refused>>
      /\ emitted' = kept \cup {marked}
      /\ evicted' = evicted \cup {entry.key : entry \in MakesRoom}
      /\ sending' = [sending EXCEPT ![j] = NextKey(j)]
      /\ calls' = Looked(j)
      /\ Ready(j)
  BY DEF RaiseFinding
<1>2. NextKey(j) \in Keys /\ j \in DOMAIN handled
  BY <1>1, NextIsKey
<1>3. sending' \in Seq(Keys \cup {NoKey}) /\ Len(sending') = Len(sending)
  BY <1>1, <1>2, SendingStays
<1>4. CallsMatch'
  BY <1>1, LookedMatches DEF Looked, EngineTyped
<1>5. IsFiniteSet(emitted') /\ Cardinality(emitted') <= MaxEmitted
  <2>1. IsFiniteSet(kept) /\ Cardinality(kept) < MaxEmitted /\ Cardinality(kept) \in Nat
    BY RoomIsMade, FS_CardinalityType
  <2>2. IsFiniteSet(kept \cup {marked})
        /\ Cardinality(kept \cup {marked}) \in {Cardinality(kept), Cardinality(kept) + 1}
    <3> HIDE DEF kept, marked
    <3> QED  BY <2>1, FS_AddElement
  <2> QED  BY <1>1, <2>1, <2>2, WindowAssumption
<1>6. marked \in [key : Keys, at : 0..clock, place : Nat]
  <2>1. handled[j].at \in 0..clock
    BY <1>2, HandledTime DEF EngineTyped
  <2> QED  BY <2>1, <1>2, NewPlaceIsPlace
<1>7. emitted' \subseteq [key : Keys, at : 0..clock', place : Nat]
  BY <1>1, <1>6 DEF TablesTyped
<1>8. evicted' \subseteq Keys
  <2>1. \A entry \in MakesRoom : entry.key \in Keys
    BY DEF MakesRoom, TablesTyped
  <2> QED  BY <1>1, <2>1 DEF TablesTyped
<1> HIDE DEF marked, kept
<1> QED  BY <1>1, <1>3, <1>4, <1>5, <1>7, <1>8 DEF TablesTyped

\* The observations an event may be matched with.
InWindow == {i \in recent : Within(handled[i].at, clock)}
Others == LatestOf(InWindow, MaxRecent - 1)

LEMMA OthersFew ==
  ASSUME EngineTyped, TablesTyped
  PROVE  /\ IsFiniteSet(recent) /\ InWindow \subseteq recent /\ IsFiniteSet(InWindow)
         /\ Cardinality(InWindow) <= MaxRecent
         /\ Others \subseteq InWindow /\ IsFiniteSet(Others) /\ Cardinality(Others) < MaxRecent
<1>1. IsFiniteSet(recent) /\ recent \subseteq Nat
  <2>1. IsFiniteSet(1..Len(handled)) /\ DOMAIN handled = 1..Len(handled)
    BY FS_Interval DEF EngineTyped
  <2> QED  BY <2>1, FS_Subset DEF TablesTyped, EngineTyped
<1>2. InWindow \subseteq recent
  BY DEF InWindow
<1>3. IsFiniteSet(InWindow) /\ Cardinality(InWindow) <= Cardinality(recent)
  BY <1>1, <1>2, FS_Subset
<1>4. Cardinality(InWindow) <= MaxRecent
  BY <1>1, <1>3, FS_CardinalityType, WindowAssumption DEF TablesTyped
<1>5. MaxRecent - 1 \in Nat /\ MaxRecent \in Nat
  BY WindowAssumption
<1>6. Others \subseteq InWindow /\ IsFiniteSet(Others) /\ Cardinality(Others) <= MaxRecent - 1
  BY <1>1, <1>2, <1>3, <1>5, LatestAtMost DEF Others
<1>7. Cardinality(Others) \in Nat
  BY <1>6, FS_CardinalityType
<1> QED  BY <1>1, <1>2, <1>3, <1>4, <1>5, <1>6, <1>7

LEMMA OnEventTables ==
  ASSUME EngineTyped, TablesTyped, EngineTyped', NEW o \in Observations, OnEvent(o)
  PROVE  TablesTyped'
<1> DEFINE n == Len(handled) + 1
           matches == IF o.fresh THEN {i \in Others : Match(o, handled[i]) # NoKey} ELSE {}
<1>1. /\ UNCHANGED <<clock, refused, evicted>>
      /\ recent' = (IF o.fresh THEN Others \cup {n} ELSE InWindow)
      /\ calls' = Append(calls, matches)
      /\ sending' = Append(sending, NoKey)
      /\ emitted' \subseteq emitted
  BY DEF OnEvent, Others, InWindow
<1>2. Len(handled') <= MaxEvents /\ n \in Nat /\ DOMAIN handled' = 1..n /\ Len(handled') = n
  BY Observed, WindowAssumption
<1>3. recent' \subseteq DOMAIN handled'
  <2>1. recent \subseteq DOMAIN handled' /\ n \in DOMAIN handled'
    BY Observed DEF TablesTyped
  <2> QED  BY <1>1, <2>1, OthersFew
<1>4. Cardinality(recent') <= MaxRecent
  <2>1. Cardinality(Others \cup {n}) <= MaxRecent
    <3>1. IsFiniteSet(Others) /\ Cardinality(Others) \in Nat /\ Cardinality(Others) < MaxRecent
      BY OthersFew, FS_CardinalityType
    <3>2. Cardinality(Others \cup {n}) \in {Cardinality(Others), Cardinality(Others) + 1}
      BY <3>1, FS_AddElement
    <3> QED  BY <3>1, <3>2, WindowAssumption
  <2> QED  BY <2>1, <1>1, OthersFew
<1>5. IsFiniteSet(emitted') /\ Cardinality(emitted') <= MaxEmitted
  <2>1. IsFiniteSet(emitted) /\ Cardinality(emitted) \in Nat /\ Cardinality(emitted) <= MaxEmitted
    BY FS_CardinalityType DEF TablesTyped
  <2>2. IsFiniteSet(emitted') /\ Cardinality(emitted') <= Cardinality(emitted)
    BY <1>1, <2>1, FS_Subset
  <2>3. Cardinality(emitted') \in Nat
    BY <2>2, FS_CardinalityType
  <2> QED  BY <2>1, <2>2, <2>3, WindowAssumption
<1>6. sending' \in Seq(Keys \cup {NoKey}) /\ Len(sending') = Len(handled')
  <2> DEFINE K == Keys \cup {NoKey}
  <2>1. sending \in Seq(K) /\ NoKey \in K /\ Len(sending) = Len(handled)
    BY DEF TablesTyped
  <2> HIDE DEF K
  <2>2. sending' \in Seq(K) /\ Len(sending') = Len(sending) + 1
    BY <1>1, <2>1, AppendProperties
  <2> QED  BY <2>1, <2>2, <1>2 DEF K
<1>7. CallsMatch'
  <2>1. calls \in Seq(SUBSET Nat) /\ Len(calls) = Len(handled) /\ matches \in SUBSET Nat
    BY OthersFew DEF EngineTyped
  <2>2. /\ DOMAIN calls' = 1..n
        /\ \A j \in DOMAIN calls : calls'[j] = calls[j]
        /\ calls'[n] = matches /\ DOMAIN calls = 1..(n - 1)
    <3> HIDE DEF matches
    <3> QED  BY <1>1, <2>1, <1>2, AppendProperties
  <2> SUFFICES ASSUME NEW j \in DOMAIN calls', NEW i \in calls'[j]
               PROVE  i \in 1..(j - 1) /\ Match(handled'[j], handled'[i]) # NoKey
    BY DEF CallsMatch
  <2>3. CASE j \in DOMAIN calls
    <3>1. i \in 1..(j - 1) /\ Match(handled[j], handled[i]) # NoKey
      BY <2>2, <2>3 DEF TablesTyped, CallsMatch
    <3>2. i \in DOMAIN handled /\ j \in DOMAIN handled
      BY <3>1, <2>3, <2>2, <1>2 DEF EngineTyped
    <3> QED  BY <3>1, <3>2, Observed
  <2>4. CASE j = n
    <3>1. i \in Others /\ Match(o, handled[i]) # NoKey
      BY <2>2, <2>4
    <3>2. i \in DOMAIN handled /\ handled'[i] = handled[i] /\ i \in 1..(n - 1)
      BY <3>1, OthersFew, Observed DEF TablesTyped, EngineTyped
    <3>3. Match(handled'[n], handled'[i]) = Match(o, handled[i])
      BY <3>2, Observed, MatchIsLocal
    <3> QED  BY <2>4, <3>1, <3>2, <3>3
  <2> QED  BY <2>2, <2>3, <2>4, <1>2
<1>8. emitted' \subseteq [key : Keys, at : 0..clock', place : Nat]
  BY <1>1 DEF TablesTyped
<1> HIDE DEF matches
<1>9. clock' <= MaxClock /\ refused' \in BOOLEAN /\ evicted' \subseteq Keys
  BY <1>1, Zenon DEF TablesTyped
<1> QED  BY <1>2, <1>3, <1>4, <1>5, <1>6, <1>7, <1>8, <1>9 DEF TablesTyped

LEMMA NextTables ==
  setup \in Setups /\ FindingsInv /\ TablesTyped /\ [Next]_vars => TablesTyped'
<1> SUFFICES ASSUME setup \in Setups, FindingsInv, TablesTyped, [Next]_vars
             PROVE  TablesTyped'
  OBVIOUS
<1>1. EngineTyped /\ EngineTyped'
  BY NextFindings DEF FindingsInv
<1>2. CASE Observe
  BY <1>1, <1>2, SetupsAssumption, OnEventTables DEF Observe
<1>3. CASE Report
  BY <1>1, <1>3, PublishedTables DEF Report
<1>4. CASE EngineStep
  BY <1>1, <1>4, TickTables, SkipTables, RaiseTables, FailureTables DEF EngineStep
<1>5. CASE Watch \/ UNCHANGED vars
  <2>1. UNCHANGED engineVars
    BY <1>5 DEF Watch, vars
  <2> QED  BY <2>1 DEF engineVars, TablesTyped, CallsMatch
<1> QED  BY <1>2, <1>3, <1>4, <1>5 DEF Next

-----------------------------------------------------------------------------
(* Pairs.                                                                    *)

FreshAfter(i) == {k \in (i + 1)..Len(handled) : handled[k].fresh}

\* Nothing is kept but fresh observations, and of those of the window every one
\* that fewer than maxlen others have followed.
RecentKept ==
  /\ \A i \in recent : handled[i].fresh
  /\ \A i \in DOMAIN handled :
       handled[i].fresh /\ clock - handled[i].at <= Window
         /\ Cardinality(FreshAfter(i)) < MaxRecent => i \in recent

\* A finding answers for the pairs of its key that end with observation j.
Answers(f, j) == f.at >= handled[j].at \/ handled[j].at - Behind(f) < Window

\* A key is marked only for a finding that answers for every observation so far.
MarkedAnswers ==
  \A entry \in emitted : \E f \in findings :
    /\ f.key = entry.key /\ Behind(f) = entry.at
    /\ \A j \in DOMAIN handled : Answers(f, j)

PairsInv == RecentKept /\ (~refused => MarkedAnswers) /\ PairsAreFound

LEMMA InitPairs == Init => PairsInv
BY DEF Init, EngineInit, PairsInv, RecentKept, MarkedAnswers, PairsAreFound

LEMMA FreshAfterFinite ==
  ASSUME EngineTyped, NEW i \in DOMAIN handled
  PROVE  IsFiniteSet(FreshAfter(i)) /\ Cardinality(FreshAfter(i)) \in Nat
<1>1. IsFiniteSet((i + 1)..Len(handled))
  BY FS_Interval DEF EngineTyped
<1> QED  BY <1>1, FS_Subset, FS_CardinalityType DEF FreshAfter

LEMMA OnEventPairs ==
  ASSUME EngineTyped, TablesTyped, PairsInv, NEW o \in Observations, OnEvent(o)
  PROVE  PairsInv'
<1>0. PICK n : n = Len(handled) + 1
  OBVIOUS
<1> DEFINE matches == IF o.fresh THEN {i \in Others : Match(o, handled[i]) # NoKey} ELSE {}
<1>1. /\ UNCHANGED <<clock, refused, findings, evicted>> /\ ~refused
      /\ recent' = (IF o.fresh THEN Others \cup {n} ELSE InWindow)
      /\ calls' = Append(calls, matches)
      /\ emitted' = {entry \in emitted : StillEmitted(entry, clock)}
  BY <1>0 DEF OnEvent, Others, InWindow
<1>2. /\ n \in Nat \ {0} /\ DOMAIN handled' = 1..n /\ DOMAIN handled = 1..(n - 1)
      /\ Len(handled') = n /\ Len(handled) \in Nat
      /\ \A i \in DOMAIN handled : handled'[i] = handled[i]
      /\ handled'[n].fresh = o.fresh /\ handled'[n].at = clock
      /\ handled'[n].category = o.category /\ handled'[n].page = o.page
  BY <1>0, Observed DEF EngineTyped
\* A fresh observation that one more fresh one follows is among the others.
<1>3. ASSUME NEW i \in DOMAIN handled, handled[i].fresh, clock - handled[i].at <= Window,
             Cardinality(FreshAfter(i)') < MaxRecent
      PROVE  IF o.fresh THEN i \in Others ELSE i \in InWindow
  <2>1. FreshAfter(i)' = IF o.fresh THEN FreshAfter(i) \cup {n} ELSE FreshAfter(i)
    <3>1. \A k \in (i + 1)..n : handled'[k].fresh =
            IF k = n THEN o.fresh ELSE handled[k].fresh
      BY <1>2
    <3>2. (i + 1)..n = ((i + 1)..(n - 1)) \cup {n} /\ n \notin (i + 1)..(n - 1)
      BY <1>2
    <3> QED  BY <1>2, <3>1, <3>2 DEF FreshAfter
  <2>2. n \notin FreshAfter(i)
    BY <1>2 DEF FreshAfter
  <2>3. IsFiniteSet(FreshAfter(i)) /\ Cardinality(FreshAfter(i)) \in Nat
    BY FreshAfterFinite
  <2>4. Cardinality(FreshAfter(i)) < IF o.fresh THEN MaxRecent - 1 ELSE MaxRecent
    <3>1. Cardinality(FreshAfter(i) \cup {n}) = Cardinality(FreshAfter(i)) + 1
      BY <2>2, <2>3, FS_AddElement
    <3> QED  BY <1>3, <2>1, <2>3, <3>1, WindowAssumption
  <2>5. i \in recent
    BY <1>3, <2>3, <2>4, WindowAssumption DEF PairsInv, RecentKept
  <2>6. i \in InWindow
    BY <1>3, <2>5 DEF InWindow, Within
  <2>7. ASSUME o.fresh PROVE i \in Others
    <3> DEFINE later == {k \in InWindow : k > i}
    <3>1. later \subseteq FreshAfter(i)
      <4>1. ASSUME NEW k \in later PROVE k \in FreshAfter(i)
        <5>1. k \in recent /\ k \in DOMAIN handled /\ k > i /\ handled[k].fresh
          BY OthersFew DEF TablesTyped, PairsInv, RecentKept
        <5> QED  BY <5>1, <1>2 DEF FreshAfter
      <4> QED  BY <4>1
    <3>2. Cardinality(later) <= Cardinality(FreshAfter(i)) /\ Cardinality(later) \in Nat
      BY <2>3, <3>1, FS_Subset, FS_CardinalityType
    <3>3. Cardinality(later) < MaxRecent - 1
      BY <2>3, <2>4, <2>7, <3>2, WindowAssumption
    <3> QED  BY <2>6, <3>3 DEF Others, LatestOf
  <2> QED  BY <2>6, <2>7
<1>4. RecentKept'
  <2>1. \A i \in recent' : handled'[i].fresh
    BY <1>1, <1>2, OthersFew DEF PairsInv, RecentKept, TablesTyped
  <2>2. ASSUME NEW i \in 1..n, handled'[i].fresh, clock - handled'[i].at <= Window,
               Cardinality(FreshAfter(i)') < MaxRecent
        PROVE  i \in recent'
    <3>1. CASE i = n
      BY <2>2, <3>1, <1>1, <1>2
    <3>2. CASE i \in DOMAIN handled
      BY <2>2, <3>2, <1>1, <1>2, <1>3
    <3> QED  BY <3>1, <3>2, <1>2
  <2> QED  BY <2>1, <2>2, <1>1, <1>2 DEF RecentKept
<1>5. MarkedAnswers'
  <2> SUFFICES ASSUME NEW entry \in emitted'
               PROVE  \E f \in findings : /\ f.key = entry.key /\ Behind(f)' = entry.at
                                          /\ \A j \in DOMAIN handled' : Answers(f, j)'
    BY <1>1 DEF MarkedAnswers
  <2>1. PICK f \in findings : /\ f.key = entry.key /\ Behind(f) = entry.at
                              /\ \A j \in DOMAIN handled : Answers(f, j)
    BY <1>1 DEF PairsInv, MarkedAnswers
  <2>2. f.of \in DOMAIN handled /\ Behind(f)' = Behind(f)
    BY BehindTime, <1>2 DEF Behind
  <2>3. \A j \in DOMAIN handled : Answers(f, j)'
    BY <2>1, <2>2, <1>2 DEF Answers
  <2>4. Answers(f, n)'
    BY <1>1, <1>2, <2>1, <2>2 DEF Answers, StillEmitted
  <2> QED  BY <2>1, <2>2, <2>3, <2>4, <1>2
<1>6. PairsAreFound'
  <2> SUFFICES ASSUME NEW j \in 1..n, NEW i \in 1..(j - 1), Together(i, j)'
               PROVE  \/ i \in calls'[j]
                      \/ \E f \in findings :
                           f.key = Match(handled'[i], handled'[j]) /\ Answers(f, j)'
    BY <1>1, <1>2 DEF PairsAreFound, Answers, Behind
  <2>0. /\ \A k \in DOMAIN handled : calls'[k] = calls[k]
        /\ calls'[n] = matches
    <3>1. calls \in Seq(SUBSET Nat) /\ Len(calls) = n - 1
      BY <1>0 DEF EngineTyped
    <3>2. matches \in SUBSET Nat
      BY OthersFew DEF EngineTyped
    <3> HIDE DEF matches
    <3> QED  BY <1>1, <3>1, <3>2, <1>2, AppendProperties
  <2>1. CASE j \in DOMAIN handled
    <3>1. i \in DOMAIN handled /\ handled'[i] = handled[i] /\ handled'[j] = handled[j]
      BY <1>2, <2>1
    <3>2. {k \in (i + 1)..j : handled'[k].fresh} = {k \in (i + 1)..j : handled[k].fresh}
      BY <1>2, <2>1
    <3>3. Together(i, j)
      BY <3>1, <3>2 DEF Together
    <3>4. \A f \in findings : Answers(f, j)' = Answers(f, j)
      BY <3>1, BehindTime, <1>2 DEF Answers, Behind
    <3>5. \/ i \in calls[j]
          \/ \E f \in findings : f.key = Match(handled[i], handled[j]) /\ Answers(f, j)
      BY <2>1, <3>3, <1>1 DEF PairsInv, PairsAreFound, Answers, Behind
    <3> QED  BY <3>1, <3>4, <3>5, <2>0, <2>1
  <2>2. CASE j = n
    <3>1. /\ i \in DOMAIN handled /\ handled'[i] = handled[i] /\ handled[i].fresh /\ o.fresh
          /\ Match(handled[i], handled'[n]) # NoKey /\ clock - handled[i].at <= Window
          /\ Cardinality(FreshAfter(i)') < MaxRecent
      BY <2>2, <1>2 DEF Together, FreshAfter
    <3>2. i \in Others
      BY <3>1, <1>3
    <3>3. Match(o, handled[i]) # NoKey
      BY <3>1, <1>2, MatchIsLocal, MatchSymmetric
    <3> QED  BY <2>0, <2>2, <3>1, <3>2, <3>3
  <2> QED  BY <2>1, <2>2, <1>2
<1> QED  BY <1>1, <1>4, <1>5, <1>6 DEF PairsInv

\* A step that leaves the observations and the findings but takes one match from
\* one call, when a finding answers for that match.
LEMMA LookedPairs ==
  ASSUME EngineTyped, TablesTyped, PairsAreFound, NEW j \in DOMAIN calls, Ready(j),
         calls' = Looked(j), UNCHANGED <<handled, refused>>, findings \subseteq findings',
         ~refused => \E f \in findings' : f.key = NextKey(j) /\ Answers(f, j)
  PROVE  PairsAreFound'
<1>1. Min(calls[j]) \in calls[j] /\ Min(calls[j]) \in DOMAIN handled /\ j \in DOMAIN handled
  BY NextIsKey
<1>2. NextKey(j) = Match(handled[Min(calls[j])], handled[j])
  BY MatchSymmetric DEF NextKey
<1> SUFFICES ASSUME NEW l \in DOMAIN handled, NEW i \in 1..(l - 1), Together(i, l), ~refused
             PROVE  \/ i \in calls'[l]
                    \/ \E f \in findings' : f.key = Match(handled[i], handled[l]) /\ Answers(f, l)
  BY DEF PairsAreFound, Answers, Behind, Together
<1>3. \/ i \in calls[l]
      \/ \E f \in findings : f.key = Match(handled[i], handled[l]) /\ Answers(f, l)
  BY DEF PairsAreFound, Answers, Behind
<1>4. CASE i \in calls[l]
  <2>1. l \in DOMAIN calls
    BY DEF EngineTyped
  <2>2. CASE l = j /\ i = Min(calls[j])
    BY <2>2, <1>2
  <2>3. CASE ~(l = j /\ i = Min(calls[j]))
    BY <1>4, <2>1, <2>3 DEF Looked
  <2> QED  BY <2>2, <2>3
<1> QED  BY <1>3, <1>4

LEMMA RaisePairs ==
  ASSUME EngineTyped, TablesTyped, PairsInv, NEW j \in DOMAIN calls, RaiseFinding(j)
  PROVE  PairsInv'
<1>0. PICK new : new = [key |-> NextKey(j), of |-> j, at |-> clock]
  OBVIOUS
<1>1. /\ Ready(j) /\ calls' = Looked(j)
      /\ UNCHANGED <<clock, handled, recent, refused>>
      /\ findings' = findings \cup {new}
      /\ new.key = NextKey(j) /\ new.of = j /\ new.at = clock
      /\ \A entry \in emitted' : entry \in emitted \/ (entry.key = new.key /\ entry.at = Behind(new))
  BY <1>0 DEF RaiseFinding, Behind
<1>2. \A l \in DOMAIN handled : Answers(new, l)
  BY <1>1, HandledTime DEF Answers, EngineTyped
<1>3. j \in DOMAIN handled
  BY DEF EngineTyped
<1>4. PairsAreFound'
  BY <1>1, <1>2, <1>3, LookedPairs DEF PairsInv
<1>5. RecentKept'
  BY <1>1 DEF PairsInv, RecentKept, FreshAfter
<1>6. \A f : Behind(f)' = Behind(f) /\ \A l : Answers(f, l)' = Answers(f, l)
  BY <1>1 DEF Behind, Answers
<1>7. ASSUME ~refused PROVE MarkedAnswers'
  BY <1>1, <1>2, <1>6, <1>7 DEF PairsInv, MarkedAnswers
<1> QED  BY <1>1, <1>4, <1>5, <1>7 DEF PairsInv

LEMMA SkipPairs ==
  ASSUME EngineTyped, TablesTyped, PairsInv, NEW j \in DOMAIN calls, SkipMatch(j)
  PROVE  PairsInv'
<1>1. /\ Ready(j) /\ calls' = Looked(j) /\ IsEmitted(NextKey(j))
      /\ UNCHANGED <<clock, handled, recent, refused, findings, emitted>>
  BY DEF SkipMatch
<1>2. j \in DOMAIN handled
  BY DEF EngineTyped
<1>3. ASSUME ~refused PROVE \E f \in findings : f.key = NextKey(j) /\ Answers(f, j)
  BY <1>1, <1>2, <1>3 DEF PairsInv, MarkedAnswers, IsEmitted
<1>4. PairsAreFound'
  BY <1>1, <1>3, LookedPairs DEF PairsInv
<1>5. RecentKept'
  BY <1>1 DEF PairsInv, RecentKept, FreshAfter
<1>6. ~refused => MarkedAnswers'
  BY <1>1 DEF PairsInv, MarkedAnswers, Answers, Behind
<1> QED  BY <1>1, <1>4, <1>5, <1>6 DEF PairsInv

LEMMA TickPairs ==
  ASSUME EngineTyped, PairsInv, Tick
  PROVE  PairsInv'
<1>1. UNCHANGED <<handled, recent, emitted, calls, refused, findings>>
      /\ clock' = clock + 1 /\ clock \in Nat
  BY DEF Tick, EngineTyped
<1>2. \A i \in DOMAIN handled : clock' - handled[i].at <= Window => clock - handled[i].at <= Window
  BY <1>1, HandledTime, WindowAssumption
<1>3. RecentKept'
  BY <1>1, <1>2 DEF PairsInv, RecentKept, FreshAfter
<1>4. (~refused => MarkedAnswers') /\ PairsAreFound'
  BY <1>1 DEF PairsInv, MarkedAnswers, Answers, Behind, PairsAreFound, Together
<1> QED  BY <1>1, <1>3, <1>4 DEF PairsInv

\* A publication that ends changes nothing here; one that fails pauses all.
LEMMA PublicationPairs ==
  ASSUME EngineTyped, PairsInv, NEW j \in DOMAIN calls, Published(j) \/ PublishFails(j)
  PROVE  PairsInv'
<1>1. UNCHANGED <<clock, handled, recent>>
  BY DEF Published, PublishFails
<1>2. RecentKept'
  BY <1>1 DEF PairsInv, RecentKept, FreshAfter
<1>3. CASE Published(j)
  <2>1. UNCHANGED <<emitted, calls, refused, findings>>
    BY <1>3 DEF Published
  <2>2. (~refused => MarkedAnswers') /\ PairsAreFound'
    BY <1>1, <2>1 DEF PairsInv, MarkedAnswers, Answers, Behind, PairsAreFound, Together
  <2> QED  BY <1>2, <2>1, <2>2 DEF PairsInv
<1>4. CASE PublishFails(j)
  <2>1. refused'
    BY <1>4 DEF PublishFails
  <2> QED  BY <1>2, <2>1 DEF PairsInv, PairsAreFound
<1> QED  BY <1>3, <1>4

LEMMA NextPairs ==
  setup \in Setups /\ FindingsInv /\ TablesTyped /\ PairsInv /\ [Next]_vars => PairsInv'
<1> SUFFICES ASSUME setup \in Setups, FindingsInv, TablesTyped, PairsInv, [Next]_vars
             PROVE  PairsInv'
  OBVIOUS
<1>1. EngineTyped
  BY DEF FindingsInv
<1>2. CASE Observe
  BY <1>1, <1>2, SetupsAssumption, OnEventPairs DEF Observe
<1>3. CASE Report
  BY <1>1, <1>3, PublicationPairs DEF Report
<1>4. CASE EngineStep
  BY <1>1, <1>4, TickPairs, SkipPairs, RaisePairs, PublicationPairs DEF EngineStep
<1>5. CASE Watch \/ UNCHANGED vars
  <2>1. UNCHANGED engineVars
    BY <1>5 DEF Watch, vars
  <2>2. UNCHANGED <<clock, handled, recent, emitted, calls, refused, findings>>
    BY <2>1 DEF engineVars
  <2> QED  BY <2>2 DEF PairsInv, RecentKept, FreshAfter, MarkedAnswers, Answers, Behind,
                       PairsAreFound, Together
<1> QED  BY <1>2, <1>3, <1>4, <1>5 DEF Next

\* Every pair of the window leads to a finding.
THEOREM PairsLeadToFindings == Spec => []PairsAreFound
<1>1. PairsInv => PairsAreFound
  BY DEF PairsInv
<1> QED  BY InitFindings, InitTables, InitPairs, SetupChosen, NextFindings, NextTables, NextPairs,
            <1>1, PTL DEF Spec

-----------------------------------------------------------------------------
(* Types.                                                                    *)

LiveInv == LiveTypeOK /\ IsFiniteSet(Clients) /\ maxClients \in Nat

\* There is room for the clients, the stale ones among them.
Room ==
  /\ IsFiniteSet(Clients) /\ maxClients \in Nat
  /\ stale \in Nat /\ Subscribed <= maxClients

LEMMA InitLiveTypes == Init => LiveInv
<1> SUFFICES ASSUME Init PROVE LiveInv
  OBVIOUS
<1>1. Clients = {} /\ stale = 0
  BY DEF Init, LiveInit, Clients
<1>2. maxClients \in Nat
  BY LiveAssumption DEF Init, LiveInit
<1>3. IsFiniteSet(Clients) /\ Subscribed <= maxClients
  BY <1>1, <1>2, FS_EmptySet DEF Subscribed
<1> QED  BY <1>1, <1>2, <1>3 DEF Init, LiveInit, LiveInv, LiveTypeOK

\* Steps that add no client, that add one, and that leave one stale.
LEMMA SameRoom ==
  ASSUME LiveInv, Clients' = Clients, stale' = stale, maxClients' = maxClients
  PROVE  Room'
BY DEF LiveInv, LiveTypeOK, Room, Subscribed

LEMMA OneMoreClient ==
  ASSUME LiveInv, NEW d \in Dashboards, Clients' = Clients \cup {d}, stale' = stale,
         Subscribed < maxClients, maxClients' = maxClients
  PROVE  Room'
<1>1. IsFiniteSet(Clients) /\ Cardinality(Clients) \in Nat /\ stale \in Nat /\ maxClients \in Nat
  BY FS_CardinalityType DEF LiveInv, LiveTypeOK
<1>2. IsFiniteSet(Clients') /\ Cardinality(Clients') \in {Cardinality(Clients), Cardinality(Clients) + 1}
  BY <1>1, FS_AddElement
<1>3. Cardinality(Clients) + stale < maxClients
  BY DEF Subscribed
<1>4. Cardinality(Clients') + stale' <= maxClients'
  BY <1>1, <1>2, <1>3
<1> QED  BY <1>1, <1>2, <1>4 DEF Room, Subscribed

LEMMA StaleClient ==
  ASSUME LiveInv, NEW d \in Dashboards, Leave(d), maxClients' = maxClients
  PROVE  Room' /\ stream' \in [Dashboards -> Places] /\ framed' \in [Dashboards -> BOOLEAN]
<1>1. IsFiniteSet(Clients) /\ Cardinality(Clients) \in Nat /\ stale \in Nat /\ maxClients \in Nat
  BY FS_CardinalityType DEF LiveInv, LiveTypeOK
<1>2. Cardinality(Clients) + stale <= maxClients
  BY DEF LiveInv, LiveTypeOK, Subscribed
<1>3. Clients' = Clients \ {d}
  BY DEF Leave, StreamAt, Clients, LiveInv, LiveTypeOK
<1>4. stale' = IF d \in Clients THEN stale + 1 ELSE stale
  BY DEF Leave
<1>5. /\ IsFiniteSet(Clients')
      /\ Cardinality(Clients') = IF d \in Clients THEN Cardinality(Clients) - 1 ELSE Cardinality(Clients)
  BY <1>1, <1>3, FS_RemoveElement
<1>6. Cardinality(Clients') + stale' <= maxClients' /\ stale' \in Nat
  BY <1>1, <1>2, <1>4, <1>5
<1>7. Room'
  BY <1>1, <1>5, <1>6 DEF Room, Subscribed
<1> QED  BY <1>7 DEF Leave, StreamAt, Places, LiveInv, LiveTypeOK

LEMMA StreamLiveTypes ==
  ASSUME LiveInv, NEW d \in Dashboards, StreamStep(d)
  PROVE  LiveInv'
<1> USE DEF StreamAt, changeVars, streamVars, pageVars
<1>1. CASE Connect(d) /\ stream' # stream
  <2>1. Clients' = Clients \cup {d} /\ Subscribed < maxClients
    BY <1>1 DEF Connect, Clients, LiveInv, LiveTypeOK
  <2>2. maxClients' = maxClients /\ stale' = stale
    BY <1>1 DEF Connect
  <2>3. Room'
    BY <2>1, <2>2, OneMoreClient
  <2>4. /\ stream' = [stream EXCEPT ![d] = "first"] /\ queue' = [queue EXCEPT ![d] = FALSE]
        /\ source' = [source EXCEPT ![d] = "open"]
        /\ UNCHANGED <<stored, untold, revision, sent, framed, page, timer, polling, shown>>
    BY <1>1 DEF Connect
  <2>5. queue' \in [Dashboards -> BOOLEAN]
    BY <2>4 DEF LiveInv, LiveTypeOK
  <2> QED  BY <2>3, <2>4, <2>5 DEF Room, LiveInv, LiveTypeOK
<1>2. CASE ~(Connect(d) /\ stream' # stream)
  <2>1. Clients' = Clients /\ maxClients' = maxClients /\ stale' = stale
    BY <1>2 DEF StreamStep, Connect, SendFrame, CheckConnection, Wake, Timeout, Clients,
                LiveInv, LiveTypeOK
  <2>2. Room'
    BY <2>1, SameRoom
  <2>3. CASE Connect(d)
    BY <1>2, <2>2, <2>3 DEF Connect, Room, LiveInv, LiveTypeOK
  <2>4. CASE SendFrame(d)
    <3>1. sent' \in [Dashboards -> 0..revision']
      BY <2>4 DEF SendFrame, LiveInv, LiveTypeOK
    <3>2. framed' \in [Dashboards -> BOOLEAN]
      BY <2>4 DEF SendFrame, LiveInv, LiveTypeOK
    <3> QED  BY <2>2, <2>4, <3>1, <3>2 DEF SendFrame, Room, LiveInv, LiveTypeOK
  <2>5. CASE CheckConnection(d) \/ Wake(d)
    BY <2>2, <2>5 DEF CheckConnection, Wake, Room, LiveInv, LiveTypeOK
  <2>6. CASE Timeout(d)
    BY <2>2, <2>6 DEF Timeout, Room, LiveInv, LiveTypeOK
  <2> QED  BY <2>3, <2>4, <2>5, <2>6 DEF StreamStep
<1> QED  BY <1>1, <1>2

\* A stale client leaves.
LEMMA DiscardLiveTypes ==
  ASSUME LiveInv, Discard
  PROVE  LiveInv'
<1>1. Clients' = Clients /\ maxClients' = maxClients /\ stale' = stale - 1 /\ stale > 0
  BY DEF Discard, changeVars, Clients
<1>2. IsFiniteSet(Clients) /\ Cardinality(Clients) \in Nat /\ stale \in Nat /\ maxClients \in Nat
  BY FS_CardinalityType DEF LiveInv, LiveTypeOK
<1>3. Cardinality(Clients) + stale <= maxClients
  BY DEF LiveInv, LiveTypeOK, Subscribed
<1>4. stale' \in Nat /\ Cardinality(Clients') + stale' <= maxClients'
  BY <1>1, <1>2, <1>3
<1> QED  BY <1>1, <1>2, <1>4 DEF Discard, Subscribed, changeVars, pageVars, LiveInv, LiveTypeOK

LEMMA PageLiveTypes ==
  ASSUME LiveInv, NEW d \in Dashboards,
         PageStep(d) \/ Interval(d) \/ PollFails(d) \/ OpenPage(d) \/ ClosePage(d) \/ BreakStream(d)
  PROVE  LiveInv'
<1>1. UNCHANGED <<stored, untold, revision, maxClients, queue, sent>>
  BY DEF PageStep, Frame, TimerFires, PollReads, PollEnds, Interval, PollFails, OpenPage, ClosePage,
         BreakStream, changeVars, streamVars
<1>2. Room' /\ stream' \in [Dashboards -> Places] /\ framed' \in [Dashboards -> BOOLEAN]
  <2>1. CASE ClosePage(d) \/ BreakStream(d)
    BY <1>1, <2>1, StaleClient DEF ClosePage, BreakStream
  <2>2. CASE ~(ClosePage(d) \/ BreakStream(d))
    <3>1. UNCHANGED <<stream, stale>>
      BY <2>2 DEF PageStep, Frame, TimerFires, PollReads, PollEnds, Interval, PollFails, OpenPage,
             changeVars, streamVars
    <3>2. Room'
      BY <1>1, <3>1, SameRoom DEF Clients
    <3>3. framed' \in [Dashboards -> BOOLEAN]
      BY <2>2 DEF PageStep, Frame, TimerFires, PollReads, PollEnds, Interval, PollFails, OpenPage,
             streamVars, LiveInv, LiveTypeOK
    <3> QED  BY <3>1, <3>2, <3>3 DEF Places, LiveInv, LiveTypeOK
  <2> QED  BY <2>1, <2>2
<1>3. page' \in [Dashboards -> {"closed", "loading", "open"}]
  BY DEF PageStep, Frame, TimerFires, PollReads, PollEnds, Interval, PollFails, OpenPage, ClosePage,
         BreakStream, LiveInv, LiveTypeOK
<1>4. source' \in [Dashboards -> {"none", "connecting", "open", "refused"}]
  BY DEF PageStep, Frame, TimerFires, PollReads, PollEnds, Interval, PollFails, OpenPage, ClosePage,
         BreakStream, LiveInv, LiveTypeOK
<1>5. polling' \in [Dashboards -> {"no", "reading", "read"}]
  BY DEF PageStep, Frame, TimerFires, PollReads, PollEnds, Interval, PollFails, OpenPage, ClosePage,
         BreakStream, Poll, LiveInv, LiveTypeOK
<1>6. timer' \in [Dashboards -> BOOLEAN]
  BY DEF PageStep, Frame, TimerFires, PollReads, PollEnds, Interval, PollFails, OpenPage, ClosePage,
         BreakStream, streamVars, LiveInv, LiveTypeOK
<1>7. shown' \in [Dashboards -> 0..stored]
  BY DEF PageStep, Frame, TimerFires, PollReads, PollEnds, Interval, PollFails, OpenPage, ClosePage,
         BreakStream, LiveInv, LiveTypeOK
<1> QED  BY <1>1, <1>2, <1>3, <1>4, <1>5, <1>6, <1>7 DEF Room, Places, LiveInv, LiveTypeOK

\* A change that is stored, told of, or both at once.
LEMMA ChangeLiveTypes ==
  ASSUME LiveInv, Store \/ Notify \/ Heartbeat
  PROVE  LiveInv'
<1>1. maxClients' = maxClients /\ stream' = stream /\ stale' = stale
  BY DEF Store, Notify, Heartbeat, streamVars
<1>2. Room'
  BY <1>1, SameRoom DEF Clients
<1>3. CASE Store
  <2>1. shown' \in [Dashboards -> 0..stored']
    BY <1>3 DEF Store, pageVars, LiveInv, LiveTypeOK
  <2> QED  BY <1>2, <1>3, <2>1 DEF Store, streamVars, pageVars, Room, LiveInv, LiveTypeOK
<1>4. ASSUME Notify \/ Heartbeat
      PROVE  sent' \in [Dashboards -> 0..revision'] /\ queue' \in [Dashboards -> BOOLEAN]
  <2>1. sent' = sent /\ revision' = revision + 1 /\ revision \in Nat
    BY <1>4 DEF Notify, Heartbeat, LiveInv, LiveTypeOK
  <2>2. sent' \in [Dashboards -> 0..revision']
    BY <2>1 DEF LiveInv, LiveTypeOK
  <2>3. queue' = [d \in Dashboards |-> IF d \in Clients THEN TRUE ELSE queue[d]]
    BY <1>4 DEF Notify, Heartbeat, FillQueues, Filled
  <2>4. \A d \in Dashboards : (IF d \in Clients THEN TRUE ELSE queue[d]) \in BOOLEAN
    BY DEF LiveInv, LiveTypeOK
  <2>5. queue' \in [Dashboards -> BOOLEAN]
    BY <2>3, <2>4, Zenon
  <2> QED  BY <2>2, <2>5
<1>5. CASE Notify
  BY <1>2, <1>4, <1>5 DEF Notify, pageVars, Room, LiveInv, LiveTypeOK
<1>6. CASE Heartbeat
  <2>1. shown' \in [Dashboards -> 0..stored']
    BY <1>6 DEF Heartbeat, pageVars, LiveInv, LiveTypeOK
  <2> QED  BY <1>2, <1>4, <1>6, <2>1 DEF Heartbeat, pageVars, Room, LiveInv, LiveTypeOK
<1> QED  BY <1>3, <1>5, <1>6

LEMMA NextLiveTypes == setup \in Setups /\ LiveInv /\ [Next]_vars => LiveInv'
<1> SUFFICES ASSUME setup \in Setups, LiveInv, [Next]_vars PROVE LiveInv'
  OBVIOUS
<1>1. ASSUME UNCHANGED liveVars PROVE LiveInv'
  BY <1>1 DEF liveVars, LiveInv, LiveTypeOK, Subscribed, Clients
<1>2. CASE Observe \/ Report
  BY <1>1, <1>2, ChangeLiveTypes DEF Observe, Report, Change
<1>3. CASE EngineStep
  BY <1>1, <1>3 DEF EngineStep
<1>4. CASE Watch
  <2>1. ASSUME NEW d \in setup.watching, DashboardStep(d) PROVE LiveInv'
    BY <2>1, WatchingDashboards, StreamLiveTypes, PageLiveTypes DEF DashboardStep
  <2> QED  BY <1>4, <2>1, ChangeLiveTypes, DiscardLiveTypes DEF Watch
<1>5. CASE UNCHANGED vars
  BY <1>1, <1>5 DEF vars
<1> QED  BY <1>2, <1>3, <1>4, <1>5 DEF Next

\* Every table, queue and page keeps its type and its limit.
THEOREM DetectionTypes == Spec => []TypeOK
<1>1. FindingsInv /\ TablesTyped /\ LiveInv => TypeOK
  BY TablesAreTyped DEF FindingsInv, LiveInv, TypeOK
<1> QED  BY InitFindings, InitTables, InitLiveTypes, SetupChosen, NextFindings, NextTables,
            NextLiveTypes, <1>1, PTL DEF Spec

===============================================================================
