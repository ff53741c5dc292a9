--------------------------- MODULE BrowserDelivery ---------------------------
(***************************************************************************)
(* The path of a browser observation: the service worker of the extension  *)
(* (extension/background.js) queues it in chrome.storage and posts it, the *)
(* routes of agent/server (routes.py, security.py) authenticate the post   *)
(* and publish it, and the evidence ledger keeps it.  Pairing and          *)
(* revocation change the token under a delivery in flight.                 *)
(*                                                                         *)
(* The ledger is the promise of module EvidencePromise, which module       *)
(* EvidenceLedger is shown to implement.                                   *)
(*                                                                         *)
(* The browser may kill the worker at any point: what it holds in memory   *)
(* is lost, chrome.storage is kept.  The app may die at any point; a       *)
(* request may time out in the worker while the app goes on serving it.    *)
(* Sections under locked() are one step, but for pairing, which holds the  *)
(* lock across its request.                                                *)
(***************************************************************************)
EXTENDS Integers, SequencesExt, FiniteSets

CONSTANTS
  QueueLimit,     \* QUEUE_LIMIT
  BatchSize,      \* how many items one flush delivers
  AttemptLimit,   \* how many tries a pairing code allows
  MaxEvents,      \* bound: observations and gap reports ever made
  MaxCodes,       \* bound: pairing codes ever issued
  MaxTries,       \* bound: pairings ever tried from the popup
  MaxFaults       \* bound: kills, crashes, timeouts, failed saves, pauses

ASSUME LimitsAssumption ==
  /\ QueueLimit \in Nat \ {0} /\ BatchSize \in Nat \ {0} /\ AttemptLimit \in Nat \ {0}
  /\ MaxEvents \in Nat /\ MaxCodes \in Nat /\ MaxTries \in Nat /\ MaxFaults \in Nat

VARIABLES
  \* chrome.storage.
  queue,          \* cv_queue
  gapPending,     \* cv_gap_pending
  droppedTotal,   \* cv_dropped_total
  saved,          \* cv_config
  \* The worker's memory.
  alive,          \* the worker runs
  config,         \* config
  flush,          \* where flushQueue is; flushing is flush # "idle"
  item,           \* the event flushQueue is delivering
  delivered,      \* the loop counter of flushQueue
  pairing,        \* a pairing request is out, and the lock is held
  \* Requests: the worker's two, and those it no longer waits for.
  call,           \* of flushQueue
  pairCall,       \* of cv_pair
  strays,
  \* The app.
  up,             \* the app runs
  paused,         \* collection_error is set
  clients,        \* PairingManager.clients
  clientsFile,    \* paired_browsers.json
  code,           \* _code, 0 for None
  attempts,       \* _attempts
  ledger,         \* the events of the evidence ledger
  receipts,       \* the receipts it has returned
  \* History and bounds.
  made,           \* how many event_ids the worker has made
  pairedWith,     \* the code each client was paired with, in order
  acceptedTokens, \* clients whose pairing was answered
  revokeAsked,    \* clients somebody tried to revoke
  revoked,        \* clients whose revocation was answered
  codes, tries, faults

storage == <<queue, gapPending, droppedTotal>>
flusher == <<flush, item, delivered>>
app == <<up, paused, clients, clientsFile, code, attempts>>
evidence == <<ledger, receipts>>
pairings == <<pairedWith, acceptedTokens, revokeAsked, revoked, codes>>
vars == <<queue, gapPending, droppedTotal, saved, alive, config, flush, item,
          delivered, pairing, call, pairCall, strays, up, paused, clients,
          clientsFile, code, attempts, ledger, receipts, made, pairedWith,
          acceptedTokens, revokeAsked, revoked, codes, tries, faults>>

\* An observation has dropped = 0, a collection_gap reports how many were lost.
Observation == [n : 1..MaxEvents, dropped : 0..MaxEvents]
NoEvent == [n |-> 0, dropped |-> 0]

\* A token is named by its client; 0 is no token.
Tokens == 0..MaxCodes
Config == [token : Tokens, url : {"app", "elsewhere"}]

Stages == {"sent", "authed", "stored", "ok", "401", "503", "error"}
Request == [kind : {"event", "beat"}, token : Tokens, event : Observation \cup {NoEvent},
            stage : Stages]
PairRequest == [kind : {"pair"}, code : 0..MaxCodes, token : Tokens, stage : Stages]
NoCall == [kind |-> "none", stage |-> "none"]

\* The event_id the app derives from the client and the worker's event_id.
EvidenceId(token, event) == <<token, event.n>>
Evidence(token, event) == [id |-> EvidenceId(token, event), content |-> event.dropped]

Promise == INSTANCE EvidencePromise
             WITH EventIds <- (1..MaxCodes) \X (1..MaxEvents), Contents <- 0..MaxEvents

LockFree == ~pairing
Pending(c) == c.stage \in {"sent", "authed", "stored"}
Answered(c) == c # NoCall /\ ~Pending(c)

Init ==
  /\ queue = <<>> /\ gapPending = 0 /\ droppedTotal = 0
  /\ config = [token |-> 0, url |-> "app"] /\ saved = config
  /\ alive = TRUE /\ flush = "idle" /\ item = NoEvent /\ delivered = 0 /\ pairing = FALSE
  /\ call = NoCall /\ pairCall = NoCall /\ strays = {}
  /\ up = TRUE /\ paused = FALSE
  /\ clients = {} /\ clientsFile = {} /\ code = 0 /\ attempts = 0
  /\ ledger = <<>> /\ receipts = {}
  /\ made = 0 /\ pairedWith = <<>> /\ acceptedTokens = {} /\ revokeAsked = {} /\ revoked = {}
  /\ codes = 0 /\ tries = 0 /\ faults = 0

-----------------------------------------------------------------------------
(* Observations and their queue.                                             *)

\* Mutant: one item more than the queue holds.
SpaceForOneMore == Len(queue) <= QueueLimit
Space == Len(queue) < QueueLimit

\* queueEvent, up to its call of flushQueue: a full queue counts the loss.
Observe ==
  /\ alive /\ LockFree /\ made + droppedTotal < MaxEvents
  /\ \/ /\ Space
        /\ queue' = Append(queue, [n |-> made + 1, dropped |-> 0])
        /\ made' = made + 1
        /\ UNCHANGED <<gapPending, droppedTotal>>
     \/ /\ ~Space
        /\ gapPending' = gapPending + 1
        /\ droppedTotal' = droppedTotal + 1
        /\ UNCHANGED <<queue, made>>
  /\ UNCHANGED <<saved, alive, config, flusher, pairing, call, pairCall, strays,
                 app, evidence, pairings, tries, faults>>

-----------------------------------------------------------------------------
(* flushQueue.                                                               *)

\* Called by the alarm, by a new observation, at startup and from the popup.
FlushStart ==
  /\ alive /\ flush = "idle" /\ config.token # 0
  /\ flush' = "take" /\ delivered' = 0
  /\ UNCHANGED <<storage, saved, alive, config, item, pairing, call, pairCall, strays,
                 app, evidence, made, pairings, tries, faults>>

\* Mutant: the count of what was dropped is left standing.
GapKept == gapPending
GapReported == 0

\* A gap is reported as soon as there is space, at the end of the queue.
ReportGap ==
  /\ gapPending > 0 /\ Space
  /\ queue' = Append(queue, [n |-> made + 1, dropped |-> gapPending])
  /\ gapPending' = GapReported
  /\ made' = made + 1

\* Mutant: the newest item goes first.
Newest(q) == q[Len(q)]
Oldest(q) == q[1]

TakeItem ==
  /\ alive /\ LockFree /\ flush = "take"
  /\ \/ ReportGap
     \/ /\ gapPending = 0 \/ ~Space
        /\ UNCHANGED <<queue, gapPending, made>>
  /\ \/ queue' # <<>> /\ item' = Oldest(queue') /\ flush' = "send"
     \/ queue' = <<>> /\ item' = NoEvent /\ flush' = "identity"
  /\ UNCHANGED <<droppedTotal, saved, alive, config, delivered, pairing, call, pairCall,
                 strays, app, evidence, pairings, tries, faults>>

\* request: it reaches the app only if the app runs where the worker looks.
Sent(kind, event) ==
  [kind |-> kind, token |-> config.token, event |-> event,
   stage |-> IF up /\ config.url = "app" THEN "sent" ELSE "error"]

Send(kind, event, from, to) ==
  /\ alive /\ flush = from
  /\ call' = Sent(kind, event) /\ flush' = to
  /\ UNCHANGED <<storage, saved, alive, config, item, delivered, pairing, pairCall,
                 strays, app, evidence, made, pairings, tries, faults>>

SendItem == Send("event", item, "send", "wait")

\* What the answer to a request makes of the flush: 401 clears the token, any
\* other failure ends the flush.
\* Mutant: any answer is a receipt.
AfterAnyAnswer(ok) == IF call.stage = "401" THEN "clear" ELSE ok
AfterAnswer(ok) ==
  CASE call.stage = "ok" -> ok
    [] call.stage = "401" -> "clear"
    [] OTHER -> "end"

Receive(from, to) ==
  /\ alive /\ flush = from /\ Answered(call)
  /\ flush' = AfterAnswer(to) /\ call' = NoCall
  /\ UNCHANGED <<storage, saved, alive, config, item, delivered, pairing, pairCall,
                 strays, app, evidence, made, pairings, tries, faults>>

ItemAnswered == Receive("wait", "remove")

\* No two items have the same event_id: there is one to remove at most.
WithoutItem ==
  LET places == {i \in 1..Len(queue) : queue[i].n = item.n}
  IN IF places = {} THEN queue ELSE RemoveAt(queue, CHOOSE i \in places : TRUE)

RemoveItem ==
  /\ alive /\ LockFree /\ flush = "remove"
  /\ queue' = WithoutItem
  /\ delivered' = delivered + 1 /\ item' = NoEvent
  /\ flush' = IF delivered' < BatchSize THEN "take" ELSE "identity"
  /\ UNCHANGED <<gapPending, droppedTotal, saved, alive, config, pairing, call, pairCall,
                 strays, app, evidence, made, pairings, tries, faults>>

\* syncIdentity stores all of config, whoever changed it.
SyncIdentity ==
  /\ alive /\ LockFree
  /\ saved' = config
  /\ flush' = IF flush = "identity" THEN "beat" ELSE flush
  /\ UNCHANGED <<storage, alive, config, item, delivered, pairing, call, pairCall, strays,
                 app, evidence, made, pairings, tries, faults>>

SendBeat == Send("beat", NoEvent, "beat", "beatWait")
BeatAnswered == Receive("beatWait", "end")

ClearToken ==
  /\ alive /\ LockFree /\ flush = "clear"
  /\ config' = [config EXCEPT !.token = 0] /\ saved' = config'
  /\ flush' = "end"
  /\ UNCHANGED <<storage, alive, item, delivered, pairing, call, pairCall, strays,
                 app, evidence, made, pairings, tries, faults>>

\* updateStatus, then the finally block.
FlushEnd ==
  /\ alive /\ LockFree /\ flush = "end"
  /\ flush' = "idle" /\ item' = NoEvent /\ delivered' = 0
  /\ UNCHANGED <<storage, saved, alive, config, pairing, call, pairCall, strays,
                 app, evidence, made, pairings, tries, faults>>

-----------------------------------------------------------------------------
(* The worker's life, and pairing from the popup.                            *)

NewFault == faults < MaxFaults /\ faults' = faults + 1

\* A request the worker gives up on may be served all the same.
Abandoned(c) == IF Pending(c) THEN {c} ELSE {}

KillWorker ==
  /\ alive /\ NewFault
  /\ alive' = FALSE
  /\ config' = [token |-> 0, url |-> "app"]
  /\ flush' = "idle" /\ item' = NoEvent /\ delivered' = 0 /\ pairing' = FALSE
  /\ call' = NoCall /\ pairCall' = NoCall
  /\ strays' = strays \cup Abandoned(call) \cup Abandoned(pairCall)
  /\ UNCHANGED <<storage, saved, app, evidence, made, pairings, tries>>

\* initialize; the events that wake the worker are left to the other actions.
StartWorker ==
  /\ ~alive
  /\ alive' = TRUE /\ config' = saved
  /\ UNCHANGED <<storage, saved, flusher, pairing, call, pairCall, strays, app,
                 evidence, made, pairings, tries, faults>>

\* AbortSignal.timeout, of either request.
TimeOut ==
  /\ Pending(call) /\ NewFault
  /\ call' = [call EXCEPT !.stage = "error"]
  /\ strays' = strays \cup {call}
  /\ UNCHANGED <<storage, saved, alive, config, flusher, pairing, pairCall, app,
                 evidence, made, pairings, tries>>

PairTimeOut ==
  /\ Pending(pairCall) /\ NewFault
  /\ pairCall' = [pairCall EXCEPT !.stage = "error"]
  /\ strays' = strays \cup {pairCall}
  /\ UNCHANGED <<storage, saved, alive, config, flusher, pairing, call, app,
                 evidence, made, pairings, tries>>

\* cv_pair: the address is changed before anything is known of it.
PairStart(entered, url) ==
  /\ alive /\ LockFree /\ tries < MaxTries
  /\ pairing' = TRUE /\ tries' = tries + 1
  /\ config' = [config EXCEPT !.url = url]
  /\ pairCall' = [kind |-> "pair", code |-> entered, token |-> 0,
                  stage |-> IF up /\ url = "app" THEN "sent" ELSE "error"]
  /\ UNCHANGED <<storage, saved, alive, flusher, call, strays, app, evidence, made,
                 pairings, faults>>

PairAnswered ==
  /\ alive /\ Answered(pairCall)
  /\ pairing' = FALSE /\ pairCall' = NoCall
  /\ \/ /\ pairCall.stage = "ok"
        /\ config' = [config EXCEPT !.token = pairCall.token] /\ saved' = config'
     \/ /\ pairCall.stage # "ok"
        /\ UNCHANGED <<config, saved>>
  /\ UNCHANGED <<storage, alive, flusher, call, strays, app, evidence, made, pairings,
                 tries, faults>>

-----------------------------------------------------------------------------
(* The app's side of a request.  It serves those the worker has abandoned    *)
(* like any other, but their answers reach nobody.                           *)

\* One request moves from stage to stage: the flush's, or an abandoned one.
Moves(c, next) ==
  \/ /\ call = c /\ call' = next
     /\ UNCHANGED <<pairCall, strays>>
  \/ /\ c \in strays
     /\ strays' = (strays \ {c}) \cup Abandoned(next)
     /\ UNCHANGED <<call, pairCall>>

PairMoves(c, next) ==
  \/ /\ pairCall = c /\ pairCall' = next
     /\ UNCHANGED <<call, strays>>
  \/ /\ c \in strays
     /\ strays' = strays \ {c}
     /\ UNCHANGED <<call, pairCall>>

Requests == {call, pairCall} \cup strays
At(c, stage) == [c EXCEPT !.stage = stage]

\* access_guard.
Authenticate(c) ==
  /\ up /\ c.kind \in {"event", "beat"} /\ c.stage = "sent"
  /\ Moves(c, At(c, IF c.token \in clients THEN "authed" ELSE "401"))
  /\ UNCHANGED <<storage, saved, alive, config, flusher, pairing, app, evidence, made,
                 pairings, tries, faults>>

Recorded(id) == \E i \in 1..Len(ledger) : ledger[i].id = id

\* Mutant: what is recorded already is a conflict.
DuplicateRefused == "error"
OfDuplicate == "stored"

\* browser_telemetry, up to the receipt.
Publish(c) ==
  /\ up /\ c.kind = "event" /\ c.stage = "authed"
  /\ LET evidence1 == Evidence(c.token, c.event) IN
     \/ /\ ~paused /\ ~Recorded(evidence1.id)
        /\ Promise!Accept(evidence1)
        /\ Moves(c, At(c, "stored"))
     \/ /\ ~paused /\ \E i \in 1..Len(ledger) :
             ledger[i] = evidence1 /\ Promise!Acknowledge(i)
        /\ Moves(c, At(c, OfDuplicate))
     \/ /\ ~paused /\ Recorded(evidence1.id) /\ ~\E i \in 1..Len(ledger) : ledger[i] = evidence1
        /\ Moves(c, At(c, "error")) /\ UNCHANGED evidence
     \/ /\ paused
        /\ Moves(c, At(c, "503")) /\ UNCHANGED evidence
  /\ UNCHANGED <<storage, saved, alive, config, flusher, pairing, app, made, pairings,
                 tries, faults>>

\* browser_telemetry, from the receipt on: the client is looked up again.
AnswerEvent(c) ==
  /\ up /\ c.kind = "event" /\ c.stage = "stored"
  /\ Moves(c, At(c, IF c.token \in clients THEN "ok" ELSE "error"))
  /\ UNCHANGED <<storage, saved, alive, config, flusher, pairing, app, evidence, made,
                 pairings, tries, faults>>

\* heartbeat: clients is saved when the identity it brings is a new one.
AnswerBeat(c) ==
  /\ up /\ c.kind = "beat" /\ c.stage = "authed"
  /\ \/ /\ c.token \in clients
        /\ clientsFile' \in {clientsFile, clients}
        /\ Moves(c, At(c, "ok"))
     \/ /\ c.token \notin clients
        /\ Moves(c, At(c, "error")) /\ UNCHANGED clientsFile
  /\ UNCHANGED <<storage, saved, alive, config, flusher, pairing, up, paused, clients,
                 code, attempts, evidence, made, pairings, tries, faults>>

-----------------------------------------------------------------------------
(* PairingManager.                                                           *)

NewCode ==
  /\ up /\ codes < MaxCodes
  /\ codes' = codes + 1 /\ code' = codes' /\ attempts' = 0
  /\ UNCHANGED <<storage, saved, alive, config, flusher, pairing, call, pairCall, strays,
                 up, paused, clients, clientsFile, evidence, made, pairedWith,
                 acceptedTokens, revokeAsked, revoked, tries, faults>>

CodeExpires ==
  /\ up /\ code # 0
  /\ code' = 0
  /\ UNCHANGED <<storage, saved, alive, config, flusher, pairing, call, pairCall, strays,
                 up, paused, clients, clientsFile, attempts, evidence, made, pairings,
                 tries, faults>>

CodeAccepted(entered) == attempts < AttemptLimit /\ code # 0 /\ entered = code

\* Mutant: a code stays good until it expires.
CodeKept == code
CodeConsumed == 0

\* Counted up to the first one too many.
CountedAttempts == IF attempts > AttemptLimit THEN attempts ELSE attempts + 1

\* Mutant: the file is left to the next save.
FileLater(set) == clientsFile
FileNow(set) == set

\* complete: the client is in memory before the file is written.
Complete(c) ==
  /\ up /\ c.kind = "pair" /\ c.stage = "sent"
  /\ attempts' = CountedAttempts
  /\ \/ /\ ~CodeAccepted(c.code)
        /\ PairMoves(c, At(c, "401"))
        /\ UNCHANGED <<clients, clientsFile, code, pairedWith, acceptedTokens, faults>>
     \/ /\ CodeAccepted(c.code)
        /\ code' = CodeConsumed
        /\ pairedWith' = Append(pairedWith, c.code)
        /\ LET client == Len(pairedWith') IN
           /\ clients' = clients \cup {client}
           /\ \/ /\ clientsFile' = FileNow(clients')
                 /\ acceptedTokens' = acceptedTokens \cup {client}
                 /\ PairMoves(c, [At(c, "ok") EXCEPT !.token = client])
                 /\ UNCHANGED faults
              \/ /\ NewFault
                 /\ PairMoves(c, At(c, "error"))
                 /\ UNCHANGED <<clientsFile, acceptedTokens>>
  /\ UNCHANGED <<storage, saved, alive, config, flusher, pairing, up, paused, evidence,
                 made, revokeAsked, revoked, codes, tries>>

\* revoke: a failed save leaves the client in the file.
Revoke(client) ==
  /\ up /\ client \in clients
  /\ clients' = clients \ {client} /\ revokeAsked' = revokeAsked \cup {client}
  /\ \/ /\ clientsFile' = FileNow(clients')
        /\ revoked' = revoked \cup {client}
        /\ UNCHANGED faults
     \/ /\ NewFault
        /\ UNCHANGED <<clientsFile, revoked>>
  /\ UNCHANGED <<storage, saved, alive, config, flusher, pairing, call, pairCall, strays,
                 up, paused, code, attempts, evidence, made, pairedWith, acceptedTokens,
                 codes, tries>>

-----------------------------------------------------------------------------
(* The app's life.                                                           *)

Broken(c) == IF Pending(c) THEN At(c, "error") ELSE c

AppCrash ==
  /\ up /\ NewFault
  /\ up' = FALSE /\ code' = 0 /\ attempts' = 0 /\ clients' = {}
  /\ call' = Broken(call) /\ pairCall' = Broken(pairCall) /\ strays' = {}
  /\ UNCHANGED <<storage, saved, alive, config, flusher, pairing, paused, clientsFile,
                 evidence, made, pairings, tries>>

\* Whether collection is paused is for the verification of the start to say.
AppStart ==
  /\ ~up
  /\ up' = TRUE /\ clients' = clientsFile /\ paused' \in BOOLEAN
  /\ UNCHANGED <<storage, saved, alive, config, flusher, pairing, call, pairCall, strays,
                 clientsFile, code, attempts, evidence, made, pairings, tries, faults>>

Pause ==
  /\ up /\ ~paused /\ NewFault
  /\ paused' = TRUE
  /\ UNCHANGED <<storage, saved, alive, config, flusher, pairing, call, pairCall, strays,
                 up, clients, clientsFile, code, attempts, evidence, made, pairings, tries>>

-----------------------------------------------------------------------------

WorkerNext ==
  \/ Observe \/ FlushStart \/ TakeItem \/ SendItem \/ ItemAnswered \/ RemoveItem
  \/ SyncIdentity \/ SendBeat \/ BeatAnswered \/ ClearToken \/ FlushEnd
  \/ KillWorker \/ StartWorker \/ TimeOut \/ PairTimeOut \/ PairAnswered
  \/ \E entered \in 0..codes, url \in {"app", "elsewhere"} : PairStart(entered, url)

Serve(c) ==
  Authenticate(c) \/ Publish(c) \/ AnswerEvent(c) \/ AnswerBeat(c) \/ Complete(c)

AppNext ==
  \/ \E c \in Requests : Serve(c)
  \/ NewCode \/ CodeExpires \/ AppCrash \/ AppStart \/ Pause
  \/ \E client \in clients : Revoke(client)

Next == WorkerNext \/ AppNext

Spec == Init /\ [][Next]_vars

\* The worker's promise chain and the browser's alarm go on, a killed worker
\* and a dead app are started again, and the app serves what reaches it.
FlushStep ==
  \/ FlushStart \/ TakeItem \/ SendItem \/ ItemAnswered \/ RemoveItem
  \/ flush = "identity" /\ SyncIdentity
  \/ SendBeat \/ BeatAnswered \/ ClearToken \/ FlushEnd

Fairness ==
  /\ WF_vars(FlushStep) /\ WF_vars(PairAnswered)
  /\ WF_vars(StartWorker) /\ WF_vars(AppStart)
  /\ WF_vars(\E c \in Requests : Serve(c))

FairSpec == Spec /\ Fairness

-----------------------------------------------------------------------------
(* Properties.                                                               *)

\* Every variable has its type and the queue its limit (background.js:292,344).
TypeOK ==
  /\ queue \in Seq(Observation) /\ Len(queue) <= QueueLimit
  /\ gapPending \in 0..MaxEvents /\ droppedTotal \in 0..MaxEvents
  /\ saved \in Config /\ config \in Config
  /\ alive \in BOOLEAN /\ pairing \in BOOLEAN /\ up \in BOOLEAN /\ paused \in BOOLEAN
  /\ flush \in {"idle", "take", "send", "wait", "remove", "identity", "beat",
                "beatWait", "clear", "end"}
  /\ item \in Observation \cup {NoEvent} /\ delivered \in 0..BatchSize
  /\ call \in Request \cup {NoCall} /\ pairCall \in PairRequest \cup {NoCall}
  /\ strays \subseteq Request \cup PairRequest
  /\ clients \subseteq Tokens /\ clientsFile \subseteq Tokens
  /\ code \in 0..MaxCodes /\ attempts \in 0..(AttemptLimit + 1)
  /\ made \in 0..MaxEvents

\* An observation that was queued leaves the queue only once it is evidence,
\* through kills of the worker, crashes of the app, answers that come too late
\* and changes of the token (background.js:362-382; README.md:19-21).
NothingLost ==
  \A n \in 1..made :
    \/ \E i \in 1..Len(queue) : queue[i].n = n
    \/ \E i \in 1..Len(ledger) : ledger[i].id[2] = n

\* Evidence is recorded in the order it was observed in, also when an abandoned
\* request is served late or the same event arrives under two clients.
InOrder ==
  \A i \in 1..Len(ledger) : \A n \in 1..(ledger[i].id[2] - 1) :
    \E j \in 1..(i - 1) : ledger[j].id[2] = n

\* The events the worker has made, and what their gap reports tell of: one
\* place each for as many losses as the report counts.
Events ==
  {queue[i] : i \in 1..Len(queue)} \cup
  {[n |-> ledger[i].id[2], dropped |-> ledger[i].content] : i \in 1..Len(ledger)}
Told == {loss \in Events \X (1..MaxEvents) : loss[2] <= loss[1].dropped}

\* Every observation that found the queue full is told of exactly once: it is
\* waiting to be reported or counted in one gap report, queued or recorded
\* (background.js:292-300,344-358).
GapsAccounted == droppedTotal = gapPending + Cardinality(Told)

\* A pairing code makes one client at most, however its requests are repeated,
\* abandoned and served late (security.py:41-64, README.md:15).
CodePairsOnce ==
  \A c1, c2 \in 1..Len(pairedWith) : pairedWith[c1] = pairedWith[c2] => c1 = c2

\* A pairing that was answered survives restarts until somebody revokes it
\* (security.py:53-64).
PairingsDurable ==
  \A client \in acceptedTokens \ revokeAsked :
    client \in clientsFile /\ (up => client \in clients)

\* A client whose revocation was answered never comes back, neither by a
\* restart nor by a save some other client causes (security.py:75-98).
RevokedStayOut == revoked \cap (clients \cup clientsFile) = {}

\* What stops delivery until somebody acts: the browser is not paired, the
\* worker has the wrong address, or the app has paused collection.
NeedsHelp == config.token = 0 \/ config.url # "app" \/ paused

\* Otherwise what is queued is recorded: no event blocks those behind it
\* (background.js:332-427).
QueuedIsRecorded ==
  \A n \in 1..MaxEvents :
    (\E i \in 1..Len(queue) : queue[i].n = n) ~>
      (NeedsHelp \/ \E i \in 1..Len(ledger) : ledger[i].id[2] = n)

=============================================================================
