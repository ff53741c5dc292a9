------------------------- MODULE CorrelationEngine -------------------------
(***************************************************************************)
(* The correlation engine (agent/engines/correlation_engine.py): it keeps  *)
(* the observations of the last window and publishes a finding when two of *)
(* them belong together.  The broker calls it for several events at once;  *)
(* a call runs without a break but where it publishes a finding.           *)
(*                                                                         *)
(* What tells observations apart is their category and, for the browser's, *)
(* the page and whether they were collected recently.  A publication that  *)
(* fails pauses collection: nothing is published after it.                 *)
(***************************************************************************)
EXTENDS Integers, Sequences, FiniteSets, FiniteSetsExt

CONSTANTS
  Pages,       \* client_id with page_id
  Window,      \* window_seconds
  MaxRecent,   \* maxlen of recent
  MaxEmitted,  \* how many keys are remembered
  MaxEvents,   \* bound: observations handled
  MaxClock     \* bound: the clock

ASSUME WindowAssumption ==
  /\ Window \in Nat \ {0} /\ MaxRecent \in Nat \ {0} /\ MaxEmitted \in Nat \ {0}
  /\ MaxEvents \in Nat /\ MaxClock \in Nat

VARIABLES
  clock,
  handled,  \* the observations handled, in order; recent is the end of them
  recent,   \* recent, as places in handled, in their order
  emitted,  \* emitted, each key with its time and its place among the keys
  calls,    \* for each call of on_event: the others it has yet to look at
  sending,  \* for each call: the match it is publishing
  refused,  \* collection is paused
  findings, \* history: the findings raised and not withdrawn
  evicted   \* history: keys that were dropped to make room

engineVars == <<clock, handled, recent, emitted, calls, sending, refused, findings, evicted>>

NoPage == "host"
Host(category) == [category |-> category, page |-> NoPage, fresh |-> TRUE]
Observations ==
  {Host("process"), Host("encryption")}
    \cup [category : {"ai", "sensitive"}, page : Pages, fresh : BOOLEAN]

Keys == {"lotl_encryption", "ai_sensitive_page", "browser_endpoint"} \X (Pages \cup {NoPage})
NoKey == <<"none", NoPage>>

EngineInit ==
  /\ clock = 0 /\ handled = <<>> /\ recent = {} /\ emitted = {}
  /\ calls = <<>> /\ sending = <<>> /\ refused = FALSE
  /\ findings = {} /\ evicted = {}

Ready(j) == calls[j] # {} /\ sending[j] = NoKey
\* Between publications a call runs alone on the event loop.
LoopFree == \A j \in DOMAIN calls : ~Ready(j)

Tick ==
  /\ LoopFree /\ clock < MaxClock /\ clock' = clock + 1
  /\ UNCHANGED <<handled, recent, emitted, calls, sending, refused, findings, evicted>>

-----------------------------------------------------------------------------
(* on_event, up to its loop over the matches.                                *)

\* What two observations amount to: a rule with the page or host it is about.
Match(a, b) ==
  CASE {a.category, b.category} = {"process", "encryption"} -> <<"lotl_encryption", NoPage>>
    [] {a.category, b.category} = {"ai", "sensitive"} /\ a.page = b.page ->
         <<"ai_sensitive_page", a.page>>
    [] {a.category, b.category} = {"ai", "process"} ->
         <<"browser_endpoint", IF a.category = "ai" THEN a.page ELSE b.page>>
    [] OTHER -> NoKey

\* Mutant: the window is shorter than the rule says.
WithinShorter(at, now) == now - at < Window
Within(at, now) == now - at <= Window

\* Mutant: a key is forgotten when the clock goes on.
SameInstant(entry, now) == entry.at = now
StillEmitted(entry, now) == now - entry.at < Window

\* Mutant: nothing makes room.
AllOf(places, n) == places
LatestOf(places, n) == {i \in places : Cardinality({k \in places : k > i}) < n}

\* A browser observation that was queued for long is recorded, but not matched.
OnEvent(o) ==
  /\ LoopFree /\ ~refused /\ Len(handled) < MaxEvents
  /\ LET j == Len(handled) + 1
         inWindow == {i \in recent : Within(handled[i].at, clock)}
         others == LatestOf(inWindow, MaxRecent - 1)
     IN /\ handled' = Append(handled, [category |-> o.category, page |-> o.page,
                                       fresh |-> o.fresh, at |-> clock])
        /\ recent' = IF o.fresh THEN others \cup {j} ELSE inWindow
        /\ calls' = Append(calls,
             IF o.fresh THEN {i \in others : Match(o, handled[i]) # NoKey} ELSE {})
  /\ sending' = Append(sending, NoKey)
  /\ emitted' = {entry \in emitted : StillEmitted(entry, clock)}
  /\ UNCHANGED <<clock, refused, findings, evicted>>

-----------------------------------------------------------------------------
(* The loop.                                                                 *)

IsEmitted(key) == \E entry \in emitted : entry.key = key

\* The matches are looked at in the order of the observations.
NextKey(j) == Match(handled[j], handled[Min(calls[j])])
Looked(j) == [calls EXCEPT ![j] = @ \ {Min(@)}]

\* One finding for a rule and a page in a window.
SkipMatch(j) ==
  /\ Ready(j) /\ IsEmitted(NextKey(j))
  /\ calls' = Looked(j)
  /\ UNCHANGED <<clock, handled, recent, emitted, sending, refused, findings, evicted>>

FirstPlace(entry) == \A other \in emitted : entry.place <= other.place
\* The oldest key makes room where the table is full.
MakesRoom == {entry \in emitted : Cardinality(emitted) >= MaxEmitted /\ FirstPlace(entry)}
NewPlace == IF emitted = {} THEN 1 ELSE 1 + Max({entry.place : entry \in emitted})

\* The key is marked before the finding is published, with the time of the
\* observation.
RaiseFinding(j) ==
  /\ Ready(j) /\ ~IsEmitted(NextKey(j))
  /\ emitted' = (emitted \ MakesRoom)
       \cup {[key |-> NextKey(j), at |-> handled[j].at, place |-> NewPlace]}
  /\ evicted' = evicted \cup {entry.key : entry \in MakesRoom}
  /\ sending' = [sending EXCEPT ![j] = NextKey(j)]
  /\ findings' = findings \cup {[key |-> NextKey(j), of |-> j, at |-> clock]}
  /\ calls' = Looked(j)
  /\ UNCHANGED <<clock, handled, recent, refused>>

Published(j) ==
  /\ LoopFree /\ sending[j] # NoKey /\ ~refused
  /\ sending' = [sending EXCEPT ![j] = NoKey]
  /\ UNCHANGED <<clock, handled, recent, emitted, calls, refused, findings, evicted>>

\* The rest of the matches goes with the exception.
PublishFails(j) ==
  /\ LoopFree /\ sending[j] # NoKey
  /\ emitted' = {entry \in emitted : entry.key # sending[j]}
  /\ sending' = [sending EXCEPT ![j] = NoKey]
  /\ calls' = [calls EXCEPT ![j] = {}]
  /\ refused' = TRUE
  /\ findings' = {f \in findings : ~(f.of = j /\ f.key = sending[j])}
  /\ UNCHANGED <<clock, handled, recent, evicted>>

-----------------------------------------------------------------------------
(* Properties.                                                               *)

EngineTypeOK ==
  /\ clock \in 0..MaxClock
  /\ Len(handled) <= MaxEvents
  /\ \A i \in DOMAIN handled :
       handled[i].at \in 0..clock /\ handled[i].category \in {"process", "encryption", "ai", "sensitive"}
  /\ recent \subseteq DOMAIN handled /\ Cardinality(recent) <= MaxRecent
  /\ emitted \subseteq [key : Keys, at : 0..clock, place : Nat]
  /\ Cardinality(emitted) <= MaxEmitted
  /\ calls \in [DOMAIN handled -> SUBSET DOMAIN handled]
  /\ sending \in [DOMAIN handled -> Keys \cup {NoKey}]
  /\ refused \in BOOLEAN /\ evicted \subseteq Keys

\* "One finding per rule and browser page/process during this window": the next
\* finding of a key comes a window after the observation behind the one before,
\* also when calls overlap and one of them is held up in a publication.  What
\* was evicted from a full table may come again, and once collection is paused
\* what is raised cannot be published (correlation_engine.py:45-135).
OneFindingPerWindow ==
  ~refused => \A f, g \in findings :
    f # g /\ f.key = g.key /\ f.key \notin evicted =>
      g.at - handled[f.of].at >= Window \/ f.at - handled[g.of].at >= Window

\* Two observations that belong together and were handled within a window, with
\* fewer than maxlen others between, lead to a finding: one of the same key
\* rests on an observation of that window or is raised later, unless collection
\* is paused (correlation_engine.py:45-135).
Together(i, j) ==
  /\ handled[i].fresh /\ handled[j].fresh
  /\ Match(handled[i], handled[j]) # NoKey
  /\ handled[j].at - handled[i].at <= Window
  /\ Cardinality({k \in (i + 1)..j : handled[k].fresh}) < MaxRecent

PairsAreFound ==
  \A j \in DOMAIN handled : \A i \in 1..(j - 1) :
    Together(i, j) /\ ~refused =>
      LET key == Match(handled[i], handled[j]) IN
      \/ i \in calls[j]
      \/ \E f \in findings :
           f.key = key /\ (f.at >= handled[j].at \/ handled[j].at - handled[f.of].at < Window)

=============================================================================
