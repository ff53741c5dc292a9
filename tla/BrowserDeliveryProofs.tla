------------------------ MODULE BrowserDeliveryProofs ------------------------
(***************************************************************************)
(* Proofs about BrowserDelivery, for any queue and batch size, any number  *)
(* of observations, codes and pairings, and any number of kills, crashes,  *)
(* timeouts and failed saves: pairing, then the queue and its way into the *)
(* evidence, then the gaps it reports.                                     *)
(***************************************************************************)
EXTENDS BrowserDelivery, SequenceTheorems, SetLemmas, TLAPS

-----------------------------------------------------------------------------
(* Pairing.                                                                  *)

\* Codes grow, and each client has been paired with a later one than those
\* before it.  The code that is good has made nobody a client yet.
CodesGrow ==
  /\ codes \in 0..MaxCodes /\ code \in {0, codes}
  /\ pairedWith \in Seq(Nat)
  /\ \A c \in 1..Len(pairedWith) :
       /\ c <= pairedWith[c] /\ pairedWith[c] <= codes
       /\ code # 0 => pairedWith[c] < code
  /\ \A c, d \in 1..Len(pairedWith) : c < d => pairedWith[c] < pairedWith[d]

\* Whoever is a client, was one or stopped being one has been paired.
ClientsPaired ==
  clients \cup clientsFile \cup acceptedTokens \cup revoked \subseteq 1..Len(pairedWith)

PairingInv == CodesGrow /\ ClientsPaired /\ PairingsDurable /\ RevokedStayOut

pairingVars == <<up, clients, clientsFile, code, pairedWith, acceptedTokens, revokeAsked,
                 revoked, codes>>

\* A step that leaves clients and codes alone keeps what is known of them.
LEMMA PairingStill ==
  ASSUME PairingInv, UNCHANGED pairingVars
  PROVE  PairingInv'
BY DEF PairingInv, CodesGrow, ClientsPaired, PairingsDurable, RevokedStayOut, pairingVars

\* Of what the worker does, nothing reaches the pairing manager at once.
LEMMA WorkerLeavesPairing ==
  ASSUME WorkerNext
  PROVE  UNCHANGED pairingVars
<1> USE DEF pairingVars, app, pairings
<1>1. CASE Observe \/ FlushStart \/ TakeItem \/ RemoveItem
  BY <1>1 DEF Observe, FlushStart, TakeItem, RemoveItem
<1>2. CASE SendItem \/ SendBeat
  BY <1>2 DEF SendItem, SendBeat, Send
<1>3. CASE ItemAnswered \/ BeatAnswered
  BY <1>3 DEF ItemAnswered, BeatAnswered, Receive
<1>4. CASE SyncIdentity \/ ClearToken \/ FlushEnd \/ KillWorker \/ StartWorker
  BY <1>4 DEF SyncIdentity, ClearToken, FlushEnd, KillWorker, StartWorker
<1>5. CASE TimeOut \/ PairTimeOut \/ PairAnswered
  BY <1>5 DEF TimeOut, PairTimeOut, PairAnswered
<1>6. CASE \E entered \in 0..codes, url \in {"app", "elsewhere"} : PairStart(entered, url)
  BY <1>6 DEF PairStart
<1>7. QED
  BY <1>1, <1>2, <1>3, <1>4, <1>5, <1>6 DEF WorkerNext

\* The client a code makes comes after all others, and no later than its code.
LEMMA NextClient ==
  ASSUME CodesGrow, code # 0
  PROVE  /\ Len(pairedWith) \in Nat
         /\ Len(pairedWith) + 1 <= code
         /\ Len(pairedWith) + 1 \in 1..MaxCodes
<1>1. Len(pairedWith) \in Nat /\ code \in 1..MaxCodes
  BY LimitsAssumption DEF CodesGrow
<1>2. CASE Len(pairedWith) = 0
  BY <1>1, <1>2, LimitsAssumption
<1>3. CASE Len(pairedWith) # 0
  <2>1. Len(pairedWith) \in 1..Len(pairedWith)
    BY <1>1, <1>3
  <2>2. /\ Len(pairedWith) <= pairedWith[Len(pairedWith)]
        /\ pairedWith[Len(pairedWith)] < code
        /\ pairedWith[Len(pairedWith)] \in Nat
    BY <2>1 DEF CodesGrow
  <2>3. QED
    BY <1>1, <2>2, LimitsAssumption
<1>4. QED
  BY <1>2, <1>3

\* A code that is used is used up: clients and their codes stay in order.
LEMMA CompleteCodes ==
  ASSUME PairingInv, NEW c, Complete(c)
  PROVE  /\ CodesGrow'
         /\ Len(pairedWith) \in Nat /\ Len(pairedWith') \in Nat
         /\ Len(pairedWith) <= Len(pairedWith')
<1>1. Len(pairedWith) \in Nat
  BY DEF PairingInv, CodesGrow
<1>2. CASE ~CodeAccepted(c.code)
  BY <1>1, <1>2 DEF Complete, PairingInv, CodesGrow, pairings
<1>3. CASE CodeAccepted(c.code)
  <2>1. code # 0 /\ c.code = code /\ code' = 0 /\ codes' = codes
        /\ pairedWith' = Append(pairedWith, code)
    BY <1>3 DEF Complete, CodeAccepted, CodeConsumed
  <2>2. codes \in 0..MaxCodes /\ codes \in Nat /\ code = codes /\ pairedWith \in Seq(Nat)
    BY <2>1, LimitsAssumption DEF PairingInv, CodesGrow
  <2>3. Len(pairedWith) + 1 <= code
    BY <2>1, NextClient DEF PairingInv
  <2>4. /\ pairedWith' \in Seq(Nat) /\ Len(pairedWith') = Len(pairedWith) + 1
        /\ pairedWith'[Len(pairedWith) + 1] = code
        /\ \A i \in 1..Len(pairedWith) : pairedWith'[i] = pairedWith[i]
    BY <2>1, <2>2, AppendProperties
  <2>5. ASSUME NEW i \in 1..Len(pairedWith')
        PROVE  i <= pairedWith'[i] /\ pairedWith'[i] <= codes'
    BY <1>1, <2>1, <2>2, <2>3, <2>4 DEF PairingInv, CodesGrow
  <2>6. ASSUME NEW i \in 1..Len(pairedWith'), NEW j \in 1..Len(pairedWith'), i < j
        PROVE  pairedWith'[i] < pairedWith'[j]
    <3>1. i \in 1..Len(pairedWith) /\ pairedWith[i] < code
      BY <1>1, <2>1, <2>4, <2>6 DEF PairingInv, CodesGrow
    <3>2. CASE j = Len(pairedWith) + 1
      BY <3>1, <3>2, <2>4
    <3>3. CASE j \in 1..Len(pairedWith)
      BY <3>1, <3>3, <2>4, <2>6 DEF PairingInv, CodesGrow
    <3>4. QED
      BY <1>1, <3>2, <3>3, <2>4
  <2>7. QED
    BY <1>1, <2>1, <2>2, <2>4, <2>5, <2>6 DEF CodesGrow
<1>4. QED
  BY <1>2, <1>3

LEMMA CompletePairing ==
  ASSUME PairingInv, NEW c, Complete(c)
  PROVE  PairingInv'
<1>1. CodesGrow' /\ 1..Len(pairedWith) \subseteq 1..Len(pairedWith')
  BY CompleteCodes
<1>2. CASE ~CodeAccepted(c.code)
  BY <1>1, <1>2 DEF Complete, PairingInv, ClientsPaired, PairingsDurable, RevokedStayOut
<1>3. CASE CodeAccepted(c.code)
  <2> DEFINE client == Len(pairedWith')
  <2>1. client \in 1..Len(pairedWith') /\ client \notin 1..Len(pairedWith)
    <3>1. pairedWith' = Append(pairedWith, c.code)
      BY <1>3 DEF Complete
    <3>2. Len(pairedWith) \in Nat /\ client = Len(pairedWith) + 1
      BY <3>1, AppendProperties, CompleteCodes DEF PairingInv, CodesGrow
    <3>3. QED
      BY <3>2
  <2>2. /\ clients' = clients \cup {client} /\ up' = up /\ up
        /\ revokeAsked' = revokeAsked /\ revoked' = revoked
        /\ \/ clientsFile' = clients' /\ acceptedTokens' = acceptedTokens \cup {client}
           \/ clientsFile' = clientsFile /\ acceptedTokens' = acceptedTokens
    BY <1>3 DEF Complete, FileNow
  <2>3. client \notin revoked
    BY <2>1 DEF PairingInv, ClientsPaired
  <2>4. QED
    BY <1>1, <2>1, <2>2, <2>3 DEF PairingInv, ClientsPaired, PairingsDurable, RevokedStayOut
<1>4. QED
  BY <1>2, <1>3

LEMMA RevokePairing ==
  ASSUME PairingInv, NEW client \in clients, Revoke(client)
  PROVE  PairingInv'
<1>1. CodesGrow'
  BY DEF Revoke, PairingInv, CodesGrow
<1>2. /\ clients' = clients \ {client} /\ revokeAsked' = revokeAsked \cup {client}
      /\ up' = up /\ up /\ pairedWith' = pairedWith /\ acceptedTokens' = acceptedTokens
      /\ \/ clientsFile' = clients' /\ revoked' = revoked \cup {client}
         \/ clientsFile' = clientsFile /\ revoked' = revoked
  BY DEF Revoke, FileNow
<1>3. QED
  BY <1>1, <1>2 DEF PairingInv, ClientsPaired, PairingsDurable, RevokedStayOut

LEMMA AppPairing ==
  ASSUME PairingInv, AppNext
  PROVE  PairingInv'
<1>1. ASSUME NEW c \in Requests, Serve(c)
      PROVE  PairingInv'
  <2>1. CASE Authenticate(c) \/ Publish(c) \/ AnswerEvent(c)
    <3>1. UNCHANGED pairingVars
      BY <2>1 DEF Authenticate, Publish, AnswerEvent, pairingVars, app, pairings
    <3>2. QED
      BY <3>1, PairingStill
  <2>2. CASE AnswerBeat(c)
    BY <2>2 DEF AnswerBeat, PairingInv, CodesGrow, ClientsPaired, PairingsDurable,
                RevokedStayOut, pairings
  <2>3. CASE Complete(c)
    BY <2>3, CompletePairing
  <2>4. QED
    BY <1>1, <2>1, <2>2, <2>3 DEF Serve
<1>2. CASE NewCode
  <2>1. codes' = codes + 1 /\ code' = codes' /\ codes' \in 0..MaxCodes /\ pairedWith' = pairedWith
        /\ codes \in Nat
    BY <1>2, LimitsAssumption DEF NewCode, PairingInv, CodesGrow
  <2>2. CodesGrow'
    BY <2>1 DEF PairingInv, CodesGrow
  <2>3. QED
    BY <1>2, <2>2 DEF NewCode, PairingInv, ClientsPaired, PairingsDurable, RevokedStayOut
<1>3. CASE CodeExpires \/ Pause
  BY <1>3 DEF CodeExpires, Pause, PairingInv, CodesGrow, ClientsPaired, PairingsDurable,
              RevokedStayOut, pairings
<1>4. CASE AppCrash \/ AppStart
  BY <1>4 DEF AppCrash, AppStart, PairingInv, CodesGrow, ClientsPaired, PairingsDurable,
              RevokedStayOut, pairings
<1>5. QED
  BY <1>1, <1>2, <1>3, <1>4, RevokePairing DEF AppNext

LEMMA PairingHolds == Spec => []PairingInv
<1>1. Init => PairingInv
  BY LimitsAssumption, EmptySeq DEF Init, PairingInv, CodesGrow, ClientsPaired, PairingsDurable,
                                   RevokedStayOut
<1>2. PairingInv /\ [Next]_vars => PairingInv'
  <2> SUFFICES ASSUME PairingInv, [Next]_vars PROVE PairingInv'
    OBVIOUS
  <2>1. CASE WorkerNext
    BY <2>1, WorkerLeavesPairing, PairingStill
  <2>2. CASE AppNext
    BY <2>2, AppPairing
  <2>3. CASE UNCHANGED vars
    BY <2>3, PairingStill DEF vars, pairingVars
  <2>4. QED
    BY <2>1, <2>2, <2>3 DEF Next
<1>3. QED
  BY <1>1, <1>2, PTL DEF Spec

\* A pairing code makes one client at most, however often and however late it
\* is tried (security.py:41-64).
THEOREM OneClientPerCode == Spec => []CodePairsOnce
<1>1. PairingInv => CodePairsOnce
  <2> SUFFICES ASSUME PairingInv, NEW c1 \in 1..Len(pairedWith), NEW c2 \in 1..Len(pairedWith),
                      pairedWith[c1] = pairedWith[c2], c1 # c2
               PROVE  FALSE
    BY DEF CodePairsOnce
  <2>1. pairedWith[c1] \in Nat /\ pairedWith[c2] \in Nat
    BY DEF PairingInv, CodesGrow
  <2>2. QED
    BY <2>1 DEF PairingInv, CodesGrow
<1>2. QED
  BY <1>1, PairingHolds, PTL

\* A pairing that was answered lasts until somebody revokes it, through failed
\* saves, other pairings and restarts (security.py:53-64).
THEOREM PairingsLast == Spec => []PairingsDurable
<1>1. PairingInv => PairingsDurable
  BY DEF PairingInv
<1>2. QED
  BY <1>1, PairingHolds, PTL

\* A client whose revocation was answered is never a client again
\* (security.py:75-98).
THEOREM RevocationsLast == Spec => []RevokedStayOut
<1>1. PairingInv => RevokedStayOut
  BY DEF PairingInv
<1>2. QED
  BY <1>1, PairingHolds, PTL

-----------------------------------------------------------------------------
(* Types.                                                                    *)

\* Events are numbered up to their bound: what is dropped and not yet reported
\* leaves room for its report.
Numbers ==
  /\ droppedTotal <= MaxEvents /\ gapPending <= droppedTotal /\ made + gapPending <= MaxEvents
  /\ flush \in {"take", "send", "wait", "remove"} => delivered < BatchSize
  /\ flush \in {"send", "wait", "remove"} => item \in Observation

TypeInv == TypeOK /\ Numbers

typedVars == <<queue, gapPending, droppedTotal, saved, alive, config, flush, item,
               delivered, pairing, call, pairCall, strays, up, paused, clients,
               clientsFile, code, attempts, made>>

LEMMA TypeStill ==
  ASSUME TypeInv, UNCHANGED typedVars
  PROVE  TypeInv'
BY DEF TypeInv, TypeOK, Numbers, typedVars

\* An event that is made is the next number, and a place is left in the queue.
LEMMA AppendedType ==
  ASSUME TypeInv, Space, NEW dropped \in 0..MaxEvents, made + 1 <= MaxEvents,
         queue' = Append(queue, [n |-> made + 1, dropped |-> dropped])
  PROVE  queue' \in Seq(Observation) /\ Len(queue') <= QueueLimit /\ queue' # <<>>
<1>1. [n |-> made + 1, dropped |-> dropped] \in Observation
  BY LimitsAssumption DEF TypeInv, TypeOK, Observation
<1>2. queue' \in Seq(Observation) /\ Len(queue') = Len(queue) + 1
  BY <1>1, AppendProperties DEF TypeInv, TypeOK
<1>3. QED
  BY <1>2, LimitsAssumption DEF TypeInv, TypeOK, Space

LEMMA ObserveType ==
  ASSUME TypeInv, Observe
  PROVE  TypeInv'
<1> USE DEF Observe, flusher, app
<1>1. CASE Space /\ queue' = Append(queue, [n |-> made + 1, dropped |-> 0])
  <2>1. made + 1 <= MaxEvents
    BY LimitsAssumption DEF TypeInv, TypeOK
  <2>2. queue' \in Seq(Observation) /\ Len(queue') <= QueueLimit
    BY <1>1, <2>1, AppendedType, LimitsAssumption
  <2>3. made' \in 0..MaxEvents /\ made' + gapPending' <= MaxEvents
        /\ UNCHANGED <<gapPending, droppedTotal>>
    BY <1>1, LimitsAssumption DEF TypeInv, TypeOK, Numbers, Space
  <2>4. QED
    BY <2>2, <2>3 DEF TypeInv, TypeOK, Numbers
<1>2. CASE ~Space /\ gapPending' = gapPending + 1
  <2>1. /\ gapPending' \in 0..MaxEvents /\ droppedTotal' \in 0..MaxEvents
        /\ gapPending' <= droppedTotal' /\ made' + gapPending' <= MaxEvents
        /\ UNCHANGED <<queue, made>>
    BY <1>2, LimitsAssumption DEF TypeInv, TypeOK, Numbers, Space
  <2>2. QED
    BY <2>1 DEF TypeInv, TypeOK, Numbers
<1>3. QED
  BY <1>1, <1>2

LEMMA TakeItemType ==
  ASSUME TypeInv, TakeItem
  PROVE  TypeInv'
<1> USE DEF TakeItem, app
<1>1. /\ queue' \in Seq(Observation) /\ Len(queue') <= QueueLimit
      /\ gapPending' \in 0..MaxEvents /\ made' \in 0..MaxEvents
      /\ made' + gapPending' <= MaxEvents /\ gapPending' <= droppedTotal
  <2>1. CASE ReportGap
    <3>1. gapPending > 0 /\ Space /\ made' = made + 1 /\ gapPending' = 0
      BY <2>1 DEF ReportGap, GapReported
    <3>2. made + 1 <= MaxEvents /\ gapPending \in 0..MaxEvents
      BY <3>1, LimitsAssumption DEF TypeInv, TypeOK, Numbers
    <3>3. queue' \in Seq(Observation) /\ Len(queue') <= QueueLimit
      BY <2>1, <3>1, <3>2, AppendedType DEF ReportGap
    <3>4. QED
      BY <3>1, <3>2, <3>3, LimitsAssumption DEF TypeInv, TypeOK, Numbers
  <2>2. CASE UNCHANGED <<queue, gapPending, made>>
    BY <2>2 DEF TypeInv, TypeOK, Numbers
  <2>3. QED
    BY <2>1, <2>2
<1>2. \/ item' \in Observation /\ flush' = "send"
      \/ item' = NoEvent /\ flush' = "identity"
  <2>1. CASE queue' # <<>> /\ item' = Oldest(queue') /\ flush' = "send"
    <3>1. Len(queue') \in Nat /\ Len(queue') # 0
      BY <1>1, <2>1, EmptySeq
    <3>2. queue'[1] \in Observation
      BY <1>1, <3>1, ElementOfSeq
    <3>3. QED
      BY <2>1, <3>2 DEF Oldest
  <2>2. CASE queue' = <<>> /\ item' = NoEvent /\ flush' = "identity"
    BY <2>2
  <2>3. QED
    BY <2>1, <2>2
<1>3. delivered' < BatchSize /\ droppedTotal' = droppedTotal
  BY DEF TypeInv, Numbers
<1>4. QED
  BY <1>1, <1>2, <1>3 DEF TypeInv, TypeOK, Numbers

\* What remains of the queue, when its item is taken out.
LEMMA RemovedType ==
  ASSUME TypeInv
  PROVE  WithoutItem \in Seq(Observation) /\ Len(WithoutItem) <= QueueLimit
<1> DEFINE places == {i \in 1..Len(queue) : queue[i].n = item.n}
           place == CHOOSE i \in places : TRUE
<1>1. queue \in Seq(Observation) /\ Len(queue) \in Nat /\ Len(queue) <= QueueLimit
  BY DEF TypeInv, TypeOK
<1>2. CASE places = {}
  BY <1>1, <1>2 DEF WithoutItem
<1>3. CASE places # {}
  <2>1. place \in 1..Len(queue)
    BY <1>3
  <2> DEFINE before == SubSeq(queue, 1, place - 1)
             after == SubSeq(queue, place + 1, Len(queue))
  <2>2. WithoutItem = before \o after
    BY <1>3 DEF WithoutItem, RemoveAt
  <2> HIDE DEF place, places
  <2>3. before \in Seq(Observation) /\ Len(before) = place - 1
    BY <1>1, <2>1, SubSeqProperties
  <2>4. after \in Seq(Observation) /\ Len(after) = Len(queue) - place
    BY <1>1, <2>1, SubSeqProperties
  <2> HIDE DEF before, after
  <2>5. before \o after \in Seq(Observation) /\ Len(before \o after) = Len(queue) - 1
    BY <1>1, <2>1, <2>3, <2>4, ConcatProperties
  <2> DEFINE rest == before \o after
  <2> HIDE DEF rest
  <2>6. rest \in Seq(Observation) /\ Len(rest) <= QueueLimit
    BY <1>1, <2>5, LimitsAssumption DEF rest
  <2>7. QED
    BY <2>2, <2>6 DEF rest
<1>4. QED
  BY <1>2, <1>3

LEMMA RemoveItemType ==
  ASSUME TypeInv, RemoveItem
  PROVE  TypeInv'
<1>1. queue' \in Seq(Observation) /\ Len(queue') <= QueueLimit
  BY RemovedType DEF RemoveItem
<1>2. /\ delivered' \in 0..BatchSize
      /\ flush' \in {"take", "identity"}
      /\ flush' = "take" => delivered' < BatchSize
  BY LimitsAssumption DEF RemoveItem, TypeInv, TypeOK, Numbers
<1>3. QED
  BY <1>1, <1>2 DEF RemoveItem, TypeInv, TypeOK, Numbers, app

\* The requests the app may serve are the worker's or abandoned ones.
LEMMA RequestKinds ==
  ASSUME TypeInv, NEW c \in Requests
  PROVE  /\ c.kind \in {"event", "beat"} => c \in Request
         /\ c.kind = "pair" => c \in PairRequest
BY DEF TypeInv, TypeOK, Requests, Request, PairRequest, NoCall

LEMMA StagedRequest ==
  ASSUME NEW stage \in Stages
  PROVE  /\ \A c \in Request : At(c, stage) \in Request
         /\ \A c \in PairRequest : At(c, stage) \in PairRequest
BY DEF At, Request, PairRequest

LEMMA MovesType ==
  ASSUME TypeInv, NEW c \in Request, NEW stage \in Stages, Moves(c, At(c, stage))
  PROVE  /\ call' \in Request \cup {NoCall} /\ pairCall' = pairCall
         /\ strays' \subseteq Request \cup PairRequest
<1>1. At(c, stage) \in Request
  BY StagedRequest
<1>2. QED
  BY <1>1 DEF Moves, Abandoned, TypeInv, TypeOK

LEMMA SendType ==
  ASSUME TypeInv, NEW kind \in {"event", "beat"}, NEW event \in Observation \cup {NoEvent},
         NEW from \in {"send", "beat"}, NEW to \in {"wait", "beatWait"},
         from = "send" <=> to = "wait", Send(kind, event, from, to)
  PROVE  TypeInv'
<1>1. Sent(kind, event) \in Request
  BY DEF Sent, Request, Stages, TypeInv, TypeOK, Config
<1>2. QED
  BY <1>1 DEF Send, TypeInv, TypeOK, Numbers, storage, app

LEMMA ReceiveType ==
  ASSUME TypeInv, NEW from \in {"wait", "beatWait"}, NEW to \in {"remove", "end"},
         from = "wait" <=> to = "remove", Receive(from, to)
  PROVE  TypeInv'
BY DEF Receive, AfterAnswer, TypeInv, TypeOK, Numbers, storage, app

LEMMA WorkerType ==
  ASSUME TypeInv, PairingInv, WorkerNext
  PROVE  TypeInv'
<1> USE DEF storage, flusher, app
<1>1. CASE Observe \/ TakeItem \/ RemoveItem
  BY <1>1, ObserveType, TakeItemType, RemoveItemType
<1>2. CASE FlushStart
  BY <1>2, LimitsAssumption DEF FlushStart, TypeInv, TypeOK, Numbers
<1>3. CASE SendItem
  BY <1>3, SendType DEF SendItem, TypeInv, TypeOK
<1>4. CASE SendBeat
  BY <1>4, SendType DEF SendBeat
<1>5. CASE ItemAnswered
  BY <1>5, ReceiveType DEF ItemAnswered
<1>6. CASE BeatAnswered
  BY <1>6, ReceiveType DEF BeatAnswered
<1>7. CASE SyncIdentity
  BY <1>7 DEF SyncIdentity, TypeInv, TypeOK, Numbers
<1>8. CASE ClearToken
  <2>1. config' \in Config
    <3>1. 0 \in Tokens
      BY LimitsAssumption DEF Tokens
    <3>2. QED
      BY <1>8, <3>1 DEF ClearToken, TypeInv, TypeOK, Config
  <2>2. QED
    BY <1>8, <2>1 DEF ClearToken, TypeInv, TypeOK, Numbers
<1>9. CASE FlushEnd
  BY <1>9, LimitsAssumption DEF FlushEnd, TypeInv, TypeOK, Numbers
<1>10. CASE KillWorker
  <2>1. config' \in Config
    BY <1>10, LimitsAssumption DEF KillWorker, Config, Tokens
  <2>2. strays' \subseteq Request \cup PairRequest
    BY <1>10 DEF KillWorker, Abandoned, Pending, NoCall, TypeInv, TypeOK
  <2>3. delivered' \in 0..BatchSize /\ flush' = "idle" /\ item' = NoEvent
        /\ call' = NoCall /\ pairCall' = NoCall /\ alive' = FALSE /\ pairing' = FALSE
    BY <1>10, LimitsAssumption DEF KillWorker
  <2>4. QED
    BY <1>10, <2>1, <2>2, <2>3 DEF KillWorker, TypeInv, TypeOK, Numbers
<1>11. CASE StartWorker
  BY <1>11 DEF StartWorker, TypeInv, TypeOK, Numbers
<1>12. CASE TimeOut
  <2>1. call \in Request /\ [call EXCEPT !.stage = "error"] \in Request
    BY <1>12 DEF TimeOut, Pending, NoCall, TypeInv, TypeOK, Request, Stages
  <2>2. QED
    BY <1>12, <2>1 DEF TimeOut, TypeInv, TypeOK, Numbers
<1>13. CASE PairTimeOut
  <2>1. pairCall \in PairRequest /\ [pairCall EXCEPT !.stage = "error"] \in PairRequest
    BY <1>13 DEF PairTimeOut, Pending, NoCall, TypeInv, TypeOK, PairRequest, Stages
  <2>2. QED
    BY <1>13, <2>1 DEF PairTimeOut, TypeInv, TypeOK, Numbers
<1>14. CASE PairAnswered
  <2>1. pairCall.stage = "ok" => pairCall \in PairRequest
    BY <1>14 DEF PairAnswered, Answered, TypeInv, TypeOK
  <2>2. config' \in Config /\ saved' \in Config
    BY <1>14, <2>1 DEF PairAnswered, TypeInv, TypeOK, Config, PairRequest
  <2>3. QED
    BY <1>14, <2>2 DEF PairAnswered, TypeInv, TypeOK, Numbers
<1>15. ASSUME NEW entered \in 0..codes, NEW url \in {"app", "elsewhere"},
              PairStart(entered, url)
       PROVE  TypeInv'
  <2>1. config' \in Config
    BY <1>15 DEF PairStart, TypeInv, TypeOK, Config
  <2>2. pairCall' \in PairRequest
    BY <1>15, LimitsAssumption DEF PairStart, PairRequest, Stages, Tokens, PairingInv, CodesGrow
  <2>3. QED
    BY <1>15, <2>1, <2>2 DEF PairStart, TypeInv, TypeOK, Numbers
<1>16. QED
  BY <1>1, <1>2, <1>3, <1>4, <1>5, <1>6, <1>7, <1>8, <1>9, <1>10, <1>11, <1>12, <1>13,
     <1>14, <1>15 DEF WorkerNext

LEMMA CompleteType ==
  ASSUME TypeInv, PairingInv, NEW c \in Requests, Complete(c)
  PROVE  TypeInv'
<1>1. c \in PairRequest
  BY RequestKinds DEF Complete
<1>2. attempts' \in 0..(AttemptLimit + 1)
  BY LimitsAssumption DEF Complete, CountedAttempts, TypeInv, TypeOK
<1>3. clients' \subseteq Tokens /\ clientsFile' \subseteq Tokens /\ code' \in 0..MaxCodes
  <2>1. CASE CodeAccepted(c.code)
    <3>1. code # 0 /\ pairedWith' = Append(pairedWith, c.code)
      BY <2>1 DEF Complete, CodeAccepted
    <3>2. Len(pairedWith) + 1 \in 1..MaxCodes
      BY <3>1, NextClient DEF PairingInv
    <3>3. Len(pairedWith') = Len(pairedWith) + 1
      BY <3>1, AppendProperties, CompleteCodes DEF PairingInv, CodesGrow
    <3>4. Len(pairedWith') \in Tokens
      BY <3>2, <3>3, LimitsAssumption DEF Tokens
    <3>5. /\ clients' = clients \cup {Len(pairedWith')} /\ code' = 0
          /\ clientsFile' = clients' \/ clientsFile' = clientsFile
      BY <2>1 DEF Complete, FileNow, CodeConsumed
    <3>6. 0 \in 0..MaxCodes
      BY LimitsAssumption
    <3>7. QED
      BY <3>4, <3>5, <3>6 DEF TypeInv, TypeOK
  <2>2. CASE ~CodeAccepted(c.code)
    BY <2>2 DEF Complete, TypeInv, TypeOK
  <2>3. QED
    BY <2>1, <2>2
<1>4. \A next : PairMoves(c, next) =>
        /\ call' = call /\ strays' \subseteq strays
        /\ pairCall' = pairCall \/ pairCall' = next
  BY DEF PairMoves
<1>5. pairCall' \in PairRequest \cup {NoCall} /\ call' = call /\ strays' \subseteq strays
  <2>1. \A stage \in {"401", "error", "ok"} : At(c, stage) \in PairRequest
    BY <1>1, StagedRequest DEF Stages
  <2>2. \A client \in Tokens : [At(c, "ok") EXCEPT !.token = client] \in PairRequest
    BY <2>1 DEF PairRequest
  <2>3. CASE ~CodeAccepted(c.code)
    BY <1>4, <2>1, <2>3 DEF Complete, TypeInv, TypeOK
  <2>4. CASE CodeAccepted(c.code)
    <3> DEFINE client == Len(pairedWith')
    <3>1. clients' = clients \cup {client}
      BY <2>4 DEF Complete
    <3>2. client \in Tokens
      BY <1>3, <3>1
    <3>3. \/ PairMoves(c, [At(c, "ok") EXCEPT !.token = client])
          \/ PairMoves(c, At(c, "error"))
      BY <2>4 DEF Complete
    <3> HIDE DEF client
    <3>4. QED
      BY <1>4, <2>1, <2>2, <3>2, <3>3 DEF TypeInv, TypeOK
  <2>5. QED
    BY <2>3, <2>4
<1>6. QED
  BY <1>2, <1>3, <1>5 DEF Complete, TypeInv, TypeOK, Numbers, storage, flusher

LEMMA ServeType ==
  ASSUME TypeInv, PairingInv, NEW c \in Requests, Serve(c)
  PROVE  TypeInv'
<1> USE DEF storage, flusher, app
<1>1. CASE Authenticate(c)
  <2>1. c \in Request /\ \E stage \in Stages : Moves(c, At(c, stage))
    BY <1>1, RequestKinds DEF Authenticate, Stages
  <2>2. QED
    BY <1>1, <2>1, MovesType DEF Authenticate, TypeInv, TypeOK, Numbers
<1>2. CASE Publish(c)
  <2>1. c \in Request /\ \E stage \in Stages : Moves(c, At(c, stage))
    BY <1>2, RequestKinds DEF Publish, Stages, OfDuplicate
  <2>2. QED
    BY <1>2, <2>1, MovesType DEF Publish, TypeInv, TypeOK, Numbers
<1>3. CASE AnswerEvent(c)
  <2>1. c \in Request /\ \E stage \in Stages : Moves(c, At(c, stage))
    BY <1>3, RequestKinds DEF AnswerEvent, Stages
  <2>2. QED
    BY <1>3, <2>1, MovesType DEF AnswerEvent, TypeInv, TypeOK, Numbers
<1>4. CASE AnswerBeat(c)
  <2>1. c \in Request /\ \E stage \in Stages : Moves(c, At(c, stage))
    BY <1>4, RequestKinds DEF AnswerBeat, Stages
  <2>2. clientsFile' \subseteq Tokens
    BY <1>4 DEF AnswerBeat, TypeInv, TypeOK
  <2>3. QED
    BY <1>4, <2>1, <2>2, MovesType DEF AnswerBeat, TypeInv, TypeOK, Numbers
<1>5. CASE Complete(c)
  BY <1>5, CompleteType
<1>6. QED
  BY <1>1, <1>2, <1>3, <1>4, <1>5 DEF Serve

LEMMA AppType ==
  ASSUME TypeInv, PairingInv, AppNext
  PROVE  TypeInv'
<1> USE DEF storage, flusher, app
<1>1. CASE \E c \in Requests : Serve(c)
  BY <1>1, ServeType
<1>2. CASE NewCode
  <2>1. code' \in 0..MaxCodes /\ attempts' \in 0..(AttemptLimit + 1)
    BY <1>2, LimitsAssumption DEF NewCode, PairingInv, CodesGrow
  <2>2. QED
    BY <1>2, <2>1 DEF NewCode, TypeInv, TypeOK, Numbers
<1>3. CASE CodeExpires
  <2>1. code' \in 0..MaxCodes
    BY <1>3, LimitsAssumption DEF CodeExpires
  <2>2. QED
    BY <1>3, <2>1 DEF CodeExpires, TypeInv, TypeOK, Numbers
<1>4. CASE AppCrash
  <2>1. code' \in 0..MaxCodes /\ attempts' \in 0..(AttemptLimit + 1) /\ clients' = {}
        /\ strays' = {} /\ up' = FALSE
    BY <1>4, LimitsAssumption DEF AppCrash
  <2>2. Broken(call) \in Request \cup {NoCall}
    BY StagedRequest DEF Broken, TypeInv, TypeOK, Pending, NoCall, Stages
  <2>3. Broken(pairCall) \in PairRequest \cup {NoCall}
    BY StagedRequest DEF Broken, TypeInv, TypeOK, Pending, NoCall, Stages
  <2>4. QED
    BY <1>4, <2>1, <2>2, <2>3 DEF AppCrash, TypeInv, TypeOK, Numbers
<1>5. CASE AppStart
  BY <1>5 DEF AppStart, TypeInv, TypeOK, Numbers
<1>6. CASE Pause
  BY <1>6 DEF Pause, TypeInv, TypeOK, Numbers
<1>7. CASE \E client \in clients : Revoke(client)
  <2>1. clients' \subseteq Tokens /\ clientsFile' \subseteq Tokens
    BY <1>7 DEF Revoke, FileNow, TypeInv, TypeOK
  <2>2. QED
    BY <1>7, <2>1 DEF Revoke, TypeInv, TypeOK, Numbers
<1>8. QED
  BY <1>1, <1>2, <1>3, <1>4, <1>5, <1>6, <1>7 DEF AppNext

LEMMA TypesHold == Spec => []TypeInv
<1>1. Init => TypeInv
  <2> SUFFICES ASSUME Init PROVE TypeInv
    OBVIOUS
  <2>1. config \in Config /\ saved \in Config
    BY LimitsAssumption DEF Init, Config, Tokens
  <2>2. queue \in Seq(Observation) /\ Len(queue) = 0
    BY EmptySeq DEF Init
  <2>3. /\ gapPending = 0 /\ droppedTotal = 0 /\ made = 0 /\ delivered = 0
        /\ code = 0 /\ attempts = 0 /\ flush = "idle"
    BY DEF Init
  <2>4. /\ Len(queue) <= QueueLimit /\ delivered \in 0..BatchSize
        /\ gapPending \in 0..MaxEvents /\ droppedTotal \in 0..MaxEvents
        /\ made \in 0..MaxEvents /\ made + gapPending <= MaxEvents
        /\ code \in 0..MaxCodes /\ attempts \in 0..(AttemptLimit + 1)
    BY <2>2, <2>3, LimitsAssumption
  <2>5. Numbers
    BY <2>3, <2>4, LimitsAssumption DEF Numbers
  <2>6. QED
    BY <2>1, <2>2, <2>4, <2>5 DEF Init, TypeInv, TypeOK
<1>2. TypeInv /\ PairingInv /\ [Next]_vars => TypeInv'
  <2> SUFFICES ASSUME TypeInv, PairingInv, [Next]_vars PROVE TypeInv'
    OBVIOUS
  <2>1. CASE UNCHANGED vars
    BY <2>1, TypeStill DEF vars, typedVars
  <2>2. QED
    BY <2>1, WorkerType, AppType DEF Next
<1>3. QED
  BY <1>1, <1>2, PairingHolds, PTL DEF Spec

\* Every variable keeps its type, and the queue its limit (background.js:292,344).
THEOREM DeliveryTypes == Spec => []TypeOK
<1>1. TypeInv => TypeOK
  BY DEF TypeInv
<1>2. QED
  BY <1>1, TypesHold, PTL

-----------------------------------------------------------------------------
(* The queue: no observation is lost between it and the evidence, and the     *)
(* evidence keeps the order of observation.                                  *)

\* Event n is in the ledger, under whatever client.
Known(n) == \E i \in 1..Len(ledger) : ledger[i].id[2] = n

LedgerShape ==
  ledger \in Seq([id : Tokens \X (1..MaxEvents), content : 0..MaxEvents])

QueueSorted ==
  /\ \A i \in 1..Len(queue) : queue[i].n <= made
  /\ \A i, j \in 1..Len(queue) : i < j => queue[i].n < queue[j].n

\* What the worker delivers is the head of the queue, until it is removed.
Underway ==
  /\ flush \in {"send", "wait", "remove"} => queue # <<>> /\ queue[1] = item
  /\ flush = "wait" => call \in Request /\ call.kind = "event" /\ call.event = item
  /\ flush = "remove" => Known(item.n)

\* A request delivers an event when all events before it are evidence, and says
\* that it is stored only when it is evidence itself.
InTurn(c) ==
  c.kind = "event" =>
    /\ c.event \in Observation
    /\ \A m \in 1..(c.event.n - 1) : Known(m)
    /\ c.stage \in {"stored", "ok"} => Known(c.event.n)

RequestsInTurn == \A c \in Requests : InTurn(c)

DeliveryInv ==
  LedgerShape /\ QueueSorted /\ NothingLost /\ InOrder /\ Underway /\ RequestsInTurn

queueVars == <<queue, made, flush, item, call, pairCall, strays, ledger>>

LEMMA ObservationNumbers == \A e \in Observation : e.n \in Nat \ {0}
BY LimitsAssumption DEF Observation

LEMMA QueueNumbers ==
  ASSUME TypeInv
  PROVE  \A i \in 1..Len(queue) : queue[i] \in Observation /\ queue[i].n \in Nat \ {0}
<1>1. \A i \in 1..Len(queue) : queue[i] \in Observation
  BY ElementOfSeq DEF TypeInv, TypeOK
<1>2. QED
  BY <1>1, ObservationNumbers

\* While the ledger stays, so does all that is said of it alone.
LEMMA LedgerStill ==
  ASSUME DeliveryInv, ledger' = ledger
  PROVE  /\ LedgerShape' /\ InOrder' /\ \A n : Known(n)' <=> Known(n)
         /\ \A c : InTurn(c)' <=> InTurn(c)
BY DEF DeliveryInv, LedgerShape, InOrder, InTurn, Known

LEMMA QueueStill ==
  ASSUME DeliveryInv, UNCHANGED <<queue, made, ledger>>
  PROVE  LedgerShape' /\ QueueSorted' /\ NothingLost' /\ InOrder'
<1>1. QueueSorted'
  BY DEF DeliveryInv, QueueSorted
<1>2. NothingLost'
  BY DEF DeliveryInv, NothingLost
<1>3. QED
  BY <1>1, <1>2, LedgerStill

LEMMA DeliveryStill ==
  ASSUME DeliveryInv, UNCHANGED queueVars
  PROVE  DeliveryInv'
<1>1. UNCHANGED <<queue, made, ledger, flush, item, call, pairCall, strays>>
  BY DEF queueVars
<1>2. Underway'
  BY <1>1, LedgerStill DEF DeliveryInv, Underway
<1>3. RequestsInTurn'
  BY <1>1, LedgerStill DEF DeliveryInv, RequestsInTurn, Requests
<1>4. QED
  BY <1>1, <1>2, <1>3, QueueStill DEF DeliveryInv

\* All that was observed before the head of the queue is evidence.
LEMMA HeadIsNext ==
  ASSUME TypeInv, DeliveryInv, queue # <<>>
  PROVE  queue[1] \in Observation /\ \A m \in 1..(queue[1].n - 1) : Known(m)
<1>1. Len(queue) \in Nat /\ 1 \in 1..Len(queue) /\ made \in Nat
  BY EmptySeq, LimitsAssumption DEF TypeInv, TypeOK
<1>2. \A i \in 1..Len(queue) : queue[i] \in Observation /\ queue[i].n \in Nat
  BY QueueNumbers
<1>3. ASSUME NEW m \in 1..(queue[1].n - 1)
      PROVE  Known(m)
  <2>1. m \in 1..made
    BY <1>1, <1>2, <1>3 DEF DeliveryInv, QueueSorted
  <2>2. ASSUME NEW i \in 1..Len(queue), queue[i].n = m
        PROVE  FALSE
    BY <1>1, <1>2, <1>3, <2>2 DEF DeliveryInv, QueueSorted
  <2>3. QED
    BY <2>1, <2>2 DEF DeliveryInv, NothingLost, Known
<1>4. QED
  BY <1>1, <1>2, <1>3

-----------------------------------------------------------------------------
(* The worker.                                                               *)

\* An event joins the end of the queue.
LEMMA AppendedQueue ==
  ASSUME TypeInv, DeliveryInv, NEW dropped, ledger' = ledger, made' = made + 1,
         queue' = Append(queue, [n |-> made + 1, dropped |-> dropped])
  PROVE  /\ QueueSorted' /\ NothingLost'
         /\ queue # <<>> => queue' # <<>> /\ queue'[1] = queue[1]
<1> DEFINE event == [n |-> made + 1, dropped |-> dropped]
<1>1. made \in Nat /\ queue \in Seq(Observation) /\ Len(queue) \in Nat
  BY LimitsAssumption DEF TypeInv, TypeOK
<1>2. queue \in Seq(Observation \cup {event})
  BY <1>1, SeqMonotonic, Zenon
<1>3. /\ queue' \in Seq(Observation \cup {event}) /\ Len(queue') = Len(queue) + 1
      /\ queue'[Len(queue) + 1] = event
      /\ \A i \in 1..Len(queue) : queue'[i] = queue[i]
  BY <1>2, AppendProperties
<1>4. \A i \in 1..Len(queue) : queue[i].n \in Nat /\ queue[i].n <= made
  BY QueueNumbers DEF DeliveryInv, QueueSorted
<1>5. event.n = made + 1
  OBVIOUS
<1> HIDE DEF event
<1>6. QueueSorted'
  <2>1. \A i \in 1..Len(queue') : queue'[i].n <= made'
    BY <1>1, <1>3, <1>4, <1>5
  <2>2. ASSUME NEW i \in 1..Len(queue'), NEW j \in 1..Len(queue'), i < j
        PROVE  queue'[i].n < queue'[j].n
    <3>1. i \in 1..Len(queue)
      BY <1>1, <1>3, <2>2
    <3>2. CASE j = Len(queue) + 1
      BY <1>1, <1>3, <1>4, <1>5, <3>1, <3>2
    <3>3. CASE j \in 1..Len(queue)
      BY <1>3, <2>2, <3>1, <3>3 DEF DeliveryInv, QueueSorted
    <3>4. QED
      BY <1>1, <1>3, <3>2, <3>3
  <2>3. QED
    BY <2>1, <2>2 DEF QueueSorted
<1>7. NothingLost'
  <2>1. ASSUME NEW n \in 1..made', ~Known(n)
        PROVE  \E i \in 1..Len(queue') : queue'[i].n = n
    <3>1. CASE n = made + 1
      BY <1>1, <1>3, <1>5, <3>1
    <3>2. CASE n \in 1..made
      <4>1. PICK i \in 1..Len(queue) : queue[i].n = n
        BY <2>1, <3>2 DEF DeliveryInv, NothingLost, Known
      <4>2. QED
        BY <1>1, <1>3, <4>1
    <3>3. QED
      BY <1>1, <3>1, <3>2
  <2>2. QED
    BY <2>1 DEF NothingLost, Known
<1>8. queue # <<>> => queue' # <<>> /\ queue'[1] = queue[1]
  BY <1>1, <1>3, EmptySeq
<1>9. QED
  BY <1>6, <1>7, <1>8

\* A step that leaves the requests and the place of the flush alone.
LEMMA SameRequests ==
  ASSUME DeliveryInv, ledger' = ledger, UNCHANGED <<call, pairCall, strays>>
  PROVE  RequestsInTurn'
BY LedgerStill DEF DeliveryInv, RequestsInTurn, Requests

LEMMA ObserveDelivery ==
  ASSUME TypeInv, DeliveryInv, Observe
  PROVE  DeliveryInv'
<1>1. ledger' = ledger /\ UNCHANGED <<flush, item, call, pairCall, strays>>
  BY DEF Observe, flusher, evidence
<1>2. /\ QueueSorted' /\ NothingLost'
      /\ queue # <<>> => queue' # <<>> /\ queue'[1] = queue[1]
  <2>1. CASE queue' = Append(queue, [n |-> made + 1, dropped |-> 0]) /\ made' = made + 1
    BY <1>1, <2>1, AppendedQueue
  <2>2. CASE UNCHANGED <<queue, made>>
    BY <1>1, <2>2, QueueStill
  <2>3. QED
    BY <2>1, <2>2 DEF Observe
<1>3. Underway'
  BY <1>1, <1>2, LedgerStill DEF DeliveryInv, Underway
<1>4. QED
  BY <1>1, <1>2, <1>3, LedgerStill, SameRequests DEF DeliveryInv

LEMMA TakeItemDelivery ==
  ASSUME TypeInv, DeliveryInv, TakeItem
  PROVE  DeliveryInv'
<1>1. ledger' = ledger /\ UNCHANGED <<call, pairCall, strays>>
  BY DEF TakeItem, evidence
<1>2. QueueSorted' /\ NothingLost'
  <2>1. CASE ReportGap
    BY <1>1, <2>1, AppendedQueue DEF ReportGap
  <2>2. CASE UNCHANGED <<queue, made>>
    BY <1>1, <2>2, QueueStill
  <2>3. QED
    BY <2>1, <2>2 DEF TakeItem
<1>3. Underway'
  BY DEF TakeItem, Underway, Oldest
<1>4. QED
  BY <1>1, <1>2, <1>3, LedgerStill, SameRequests DEF DeliveryInv

\* What remains of the queue is all but its head.
LEMMA Remaining ==
  ASSUME TypeInv, DeliveryInv, queue # <<>>, queue[1] = item
  PROVE  /\ Len(queue) \in Nat \ {0} /\ Len(WithoutItem) = Len(queue) - 1
         /\ \A i \in 1..(Len(queue) - 1) : WithoutItem[i] = queue[i + 1]
<1>1. queue \in Seq(Observation) /\ Len(queue) \in Nat \ {0}
  BY EmptySeq DEF TypeInv, TypeOK
<1> DEFINE places == {i \in 1..Len(queue) : queue[i].n = item.n}
<1>2. \A i \in 1..Len(queue) : queue[i].n \in Nat
  BY QueueNumbers
<1>3. places = {1}
  BY <1>1, <1>2 DEF DeliveryInv, QueueSorted
<1> DEFINE before == SubSeq(queue, 1, 0)
           after == SubSeq(queue, 2, Len(queue))
<1>4. WithoutItem = before \o after
  <2>1. (CHOOSE i \in places : TRUE) = 1
    BY <1>3
  <2>2. places # {}
    BY <1>3
  <2>3. WithoutItem = RemoveAt(queue, 1)
    BY <2>1, <2>2 DEF WithoutItem
  <2>4. QED
    BY <2>3 DEF RemoveAt
<1>5. before = <<>>
  BY <1>1, SubSeqEmpty
<1>6. /\ after \in Seq(Observation) /\ Len(after) = Len(queue) - 1
      /\ \A i \in 1..(Len(queue) - 1) : after[i] = queue[i + 1]
  <2>1. after = Tail(queue)
    BY <1>1, TailIsSubSeq
  <2> HIDE DEF after
  <2>2. QED
    BY <1>1, <2>1, HeadTailProperties
<1> HIDE DEF before, after, places
<1>7. before \o after = after
  BY <1>5, <1>6, ConcatEmptySeq
<1>8. QED
  BY <1>1, <1>4, <1>6, <1>7

LEMMA RemoveItemDelivery ==
  ASSUME TypeInv, DeliveryInv, RemoveItem
  PROVE  DeliveryInv'
<1>1. /\ ledger' = ledger /\ UNCHANGED <<made, call, pairCall, strays>>
      /\ flush = "remove" /\ flush' \in {"take", "identity"} /\ queue' = WithoutItem
  BY DEF RemoveItem, evidence
<1>2. queue # <<>> /\ queue[1] = item /\ Known(item.n)
  BY <1>1 DEF DeliveryInv, Underway
<1>3. /\ Len(queue) \in Nat \ {0} /\ Len(queue') = Len(queue) - 1
      /\ \A i \in 1..(Len(queue) - 1) : queue'[i] = queue[i + 1]
  BY <1>1, <1>2, Remaining
<1>4. QueueSorted'
  <2>1. \A i \in 1..Len(queue') : i + 1 \in 1..Len(queue) /\ queue'[i] = queue[i + 1]
    BY <1>3
  <2>2. \A i, j \in 1..Len(queue') : i < j => i + 1 < j + 1
    BY <1>3
  <2>3. QED
    BY <1>1, <2>1, <2>2 DEF DeliveryInv, QueueSorted
<1>5. NothingLost'
  <2>1. ASSUME NEW n \in 1..made, ~Known(n)
        PROVE  \E i \in 1..Len(queue') : queue'[i].n = n
    <3>1. PICK i \in 1..Len(queue) : queue[i].n = n
      BY <2>1 DEF DeliveryInv, NothingLost, Known
    <3>2. i # 1
      BY <1>2, <2>1, <3>1
    <3>3. i - 1 \in 1..Len(queue') /\ queue'[i - 1] = queue[i]
      BY <1>3, <3>1, <3>2
    <3>4. QED
      BY <3>1, <3>3
  <2>2. QED
    BY <1>1, <2>1 DEF NothingLost, Known
<1>6. Underway'
  BY <1>1 DEF Underway
<1>7. QED
  BY <1>1, <1>4, <1>5, <1>6, LedgerStill, SameRequests DEF DeliveryInv

\* A request that was made of the head of the queue, or has moved on.
LEMMA StagedInTurn ==
  ASSUME NEW c \in Request, InTurn(c), NEW stage,
         stage \in {"stored", "ok"} => Known(c.event.n)
  PROVE  InTurn(At(c, stage)) /\ At(c, stage).kind = c.kind /\ At(c, stage).event = c.event
BY DEF InTurn, At, Request

LEMMA NoCallInTurn == InTurn(NoCall)
BY DEF InTurn, NoCall

\* A step of the worker that changes neither queue nor ledger.
LEMMA WorkerStepDelivery ==
  ASSUME DeliveryInv, UNCHANGED <<queue, made, ledger>>, Underway',
         \A c \in Requests' : c \in Requests \/ InTurn(c)
  PROVE  DeliveryInv'
<1>1. RequestsInTurn'
  BY LedgerStill DEF DeliveryInv, RequestsInTurn
<1>2. QED
  BY <1>1, QueueStill DEF DeliveryInv

LEMMA WorkerDelivery ==
  ASSUME TypeInv, DeliveryInv, WorkerNext
  PROVE  DeliveryInv'
<1> USE DEF storage, flusher, evidence
<1>1. CASE Observe \/ TakeItem \/ RemoveItem
  BY <1>1, ObserveDelivery, TakeItemDelivery, RemoveItemDelivery
<1>2. CASE FlushStart \/ ClearToken \/ FlushEnd
  <2>1. /\ UNCHANGED <<queue, made, ledger, call, pairCall, strays>>
        /\ flush' \in {"take", "end", "idle"}
    BY <1>2 DEF FlushStart, ClearToken, FlushEnd
  <2>2. QED
    BY <2>1, WorkerStepDelivery DEF Underway, Requests
<1>3. CASE SyncIdentity
  <2>1. /\ UNCHANGED <<queue, made, ledger, call, pairCall, strays, item>>
        /\ flush' = "beat" \/ flush' = flush
    BY <1>3 DEF SyncIdentity
  <2>2. Underway'
    BY <2>1, LedgerStill DEF DeliveryInv, Underway
  <2>3. QED
    BY <2>1, <2>2, WorkerStepDelivery DEF Requests
<1>4. CASE StartWorker
  BY <1>4, DeliveryStill DEF StartWorker, queueVars
<1>5. CASE SendItem
  <2>1. /\ UNCHANGED <<queue, made, ledger, item, pairCall, strays>>
        /\ flush = "send" /\ flush' = "wait" /\ call' = Sent("event", item)
    BY <1>5 DEF SendItem, Send
  <2>2. queue # <<>> /\ queue[1] = item
    BY <2>1 DEF DeliveryInv, Underway
  <2>3. item \in Observation /\ \A m \in 1..(item.n - 1) : Known(m)
    BY <2>2, HeadIsNext
  <2>4. /\ call' \in Request /\ call'.kind = "event" /\ call'.event = item
        /\ call'.stage \in {"sent", "error"}
    BY <2>1, <2>3 DEF Sent, Request, Stages, TypeInv, TypeOK, Config
  <2>5. InTurn(call')
    BY <2>3, <2>4 DEF InTurn
  <2>6. Underway'
    BY <2>1, <2>2, <2>4 DEF Underway
  <2>7. QED
    BY <2>1, <2>5, <2>6, WorkerStepDelivery DEF Requests
<1>6. CASE SendBeat
  <2>1. /\ UNCHANGED <<queue, made, ledger, item, pairCall, strays>>
        /\ flush' = "beatWait" /\ call'.kind = "beat"
    BY <1>6 DEF SendBeat, Send, Sent
  <2>2. InTurn(call') /\ Underway'
    BY <2>1 DEF InTurn, Underway
  <2>3. QED
    BY <2>1, <2>2, WorkerStepDelivery DEF Requests
<1>7. CASE ItemAnswered
  <2>1. /\ UNCHANGED <<queue, made, ledger, item, pairCall, strays>>
        /\ flush = "wait" /\ call' = NoCall /\ flush' \in {"remove", "clear", "end"}
        /\ flush' = "remove" => call.stage = "ok"
    BY <1>7 DEF ItemAnswered, Receive, AfterAnswer
  <2>2. call.kind = "event" /\ call.event = item /\ queue # <<>> /\ queue[1] = item
    BY <2>1 DEF DeliveryInv, Underway
  <2>3. flush' = "remove" => Known(item.n)
    BY <2>1, <2>2 DEF DeliveryInv, RequestsInTurn, InTurn, Requests
  <2>4. Underway'
    BY <2>1, <2>2, <2>3, LedgerStill DEF Underway
  <2>5. QED
    BY <2>1, <2>4, NoCallInTurn, WorkerStepDelivery DEF Requests
<1>8. CASE BeatAnswered
  <2>1. /\ UNCHANGED <<queue, made, ledger, item, pairCall, strays>>
        /\ call' = NoCall /\ flush' \in {"clear", "end"}
    BY <1>8 DEF BeatAnswered, Receive, AfterAnswer
  <2>2. QED
    BY <2>1, NoCallInTurn, WorkerStepDelivery DEF Requests, Underway
<1>9. CASE KillWorker
  <2>1. /\ UNCHANGED <<queue, made, ledger>> /\ flush' = "idle"
        /\ call' = NoCall /\ pairCall' = NoCall
        /\ strays' \subseteq strays \cup {call, pairCall}
    BY <1>9 DEF KillWorker, Abandoned
  <2>2. QED
    BY <2>1, NoCallInTurn, WorkerStepDelivery DEF Requests, Underway
<1>10. CASE TimeOut
  <2>1. /\ UNCHANGED <<queue, made, ledger, flush, item, pairCall>>
        /\ call' = At(call, "error") /\ strays' = strays \cup {call}
        /\ call \in Request
    BY <1>10 DEF TimeOut, At, TypeInv, TypeOK, Pending, NoCall
  <2>2. InTurn(call)
    BY DEF DeliveryInv, RequestsInTurn, Requests
  <2>3. InTurn(call') /\ call'.kind = call.kind /\ call'.event = call.event
        /\ call' \in Request
    BY <2>1, <2>2, StagedInTurn, StagedRequest DEF Stages
  <2>4. Underway'
    BY <2>1, <2>3, LedgerStill DEF DeliveryInv, Underway
  <2>5. QED
    BY <2>1, <2>3, <2>4, WorkerStepDelivery DEF Requests
<1>11. ASSUME UNCHANGED <<queue, made, ledger, flush, item, call>>,
              pairCall'.kind \in {"pair", "none"},
              strays' \subseteq strays \cup {pairCall}
       PROVE  DeliveryInv'
  <2>1. InTurn(pairCall')
    BY <1>11 DEF InTurn
  <2>2. Underway'
    BY <1>11, LedgerStill DEF DeliveryInv, Underway
  <2>3. QED
    BY <1>11, <2>1, <2>2, WorkerStepDelivery DEF Requests
<1>12. CASE PairTimeOut
  <2>1. pairCall'.kind = "pair"
    BY <1>12 DEF PairTimeOut, TypeInv, TypeOK, Pending, NoCall, PairRequest
  <2>2. QED
    BY <1>12, <2>1, <1>11 DEF PairTimeOut
<1>13. CASE PairAnswered
  BY <1>13, <1>11 DEF PairAnswered, NoCall
<1>14. CASE \E entered \in 0..codes, url \in {"app", "elsewhere"} : PairStart(entered, url)
  BY <1>14, <1>11 DEF PairStart
<1>15. QED
  BY <1>1, <1>2, <1>3, <1>4, <1>5, <1>6, <1>7, <1>8, <1>9, <1>10, <1>12, <1>13, <1>14
     DEF WorkerNext

-----------------------------------------------------------------------------
(* The app.                                                                  *)

\* A request that moves to a stage it has a right to.
LEMMA MovesDelivery ==
  ASSUME TypeInv, DeliveryInv, NEW c \in Requests, c \in Request, NEW stage \in Stages,
         Moves(c, At(c, stage)), UNCHANGED <<queue, made, flush, item>>,
         LedgerShape', InOrder', \A n : Known(n) => Known(n)',
         c.kind = "event" /\ stage \in {"stored", "ok"} => Known(c.event.n)'
  PROVE  DeliveryInv'
<1>1. \A r : InTurn(r) => InTurn(r)'
  BY DEF InTurn, Known
<1>2. \A r \in Requests : InTurn(r)'
  BY <1>1 DEF DeliveryInv, RequestsInTurn
<1>3. /\ InTurn(At(c, stage))' /\ At(c, stage) \in Request
      /\ At(c, stage).kind = c.kind /\ At(c, stage).event = c.event
  <2>1. At(c, stage).kind = c.kind /\ At(c, stage).event = c.event
        /\ At(c, stage).stage = stage
    BY DEF At, Request
  <2>2. InTurn(c)'
    BY <1>2
  <2>3. c.event' = c.event /\ c.kind' = c.kind /\ At(c, stage)' = At(c, stage)
    BY DEF At
  <2>4. QED
    BY <2>1, <2>2, <2>3, StagedRequest DEF InTurn
<1>4. /\ \A r \in Requests' : r \in Requests \/ r = At(c, stage)
      /\ call' = call \/ (call = c /\ call' = At(c, stage))
  <2>1. CASE call = c /\ call' = At(c, stage) /\ UNCHANGED <<pairCall, strays>>
    BY <2>1 DEF Requests
  <2>2. CASE /\ strays' = (strays \ {c}) \cup Abandoned(At(c, stage))
             /\ UNCHANGED <<call, pairCall>>
    <3>1. Abandoned(At(c, stage)) \subseteq {At(c, stage)}
      BY DEF Abandoned
    <3>2. QED
      BY <2>2, <3>1 DEF Requests
  <2>3. QED
    BY <2>1, <2>2 DEF Moves
<1>5. RequestsInTurn'
  <2>1. ASSUME NEW r \in Requests'
        PROVE  InTurn(r)'
    BY <1>2, <1>3, <1>4, <2>1
  <2>2. QED
    BY <2>1 DEF RequestsInTurn
<1>6. Underway'
  BY <1>3, <1>4 DEF DeliveryInv, Underway
<1>7. QueueSorted' /\ NothingLost'
  BY DEF DeliveryInv, QueueSorted, NothingLost, Known
<1>8. QED
  BY <1>5, <1>6, <1>7 DEF DeliveryInv

\* An event that is accepted comes after all those before it.
LEMMA AcceptedInOrder ==
  ASSUME TypeInv, DeliveryInv, NEW c \in Request, InTurn(c), c.kind = "event",
         ledger' = Append(ledger, Evidence(c.token, c.event))
  PROVE  /\ LedgerShape' /\ InOrder' /\ Known(c.event.n)' /\ \A n : Known(n) => Known(n)'
<1> DEFINE entry == Evidence(c.token, c.event)
           Entries == [id : Tokens \X (1..MaxEvents), content : 0..MaxEvents]
<1>1. c.event \in Observation /\ \A m \in 1..(c.event.n - 1) : Known(m)
  BY DEF InTurn
<1>2. entry \in Entries /\ entry.id[2] = c.event.n
  BY <1>1 DEF Evidence, EvidenceId, Observation, Request
<1> HIDE DEF entry, Entries
<1>3. ledger \in Seq(Entries) /\ Len(ledger) \in Nat
  BY DEF DeliveryInv, LedgerShape, Entries
<1>4. /\ ledger' \in Seq(Entries) /\ Len(ledger') = Len(ledger) + 1
      /\ ledger'[Len(ledger) + 1] = entry
      /\ \A i \in 1..Len(ledger) : ledger'[i] = ledger[i]
  BY <1>2, <1>3, AppendProperties DEF entry
<1>5. LedgerShape'
  BY <1>4 DEF LedgerShape, Entries
<1>6. Known(c.event.n)'
  <2>1. Len(ledger) + 1 \in 1..Len(ledger') /\ ledger'[Len(ledger) + 1].id[2] = c.event.n
    BY <1>2, <1>3, <1>4
  <2>2. QED
    BY <2>1 DEF Known
<1>7. ASSUME NEW n, Known(n)
      PROVE  Known(n)'
  <2>1. PICK i \in 1..Len(ledger) : ledger[i].id[2] = n
    BY <1>7 DEF Known
  <2>2. i \in 1..Len(ledger') /\ ledger'[i].id[2] = n
    BY <1>3, <1>4, <2>1
  <2>3. QED
    BY <2>2 DEF Known
<1>8. InOrder'
  <2>1. ASSUME NEW i \in 1..Len(ledger'), NEW n \in 1..(ledger'[i].id[2] - 1)
        PROVE  \E j \in 1..(i - 1) : ledger'[j].id[2] = n
    <3>1. CASE i = Len(ledger) + 1
      <4>1. Known(n)
        BY <1>1, <1>2, <1>4, <2>1, <3>1
      <4>2. PICK j \in 1..Len(ledger) : ledger[j].id[2] = n
        BY <4>1 DEF Known
      <4>3. j \in 1..(i - 1) /\ ledger'[j].id[2] = n
        BY <1>3, <1>4, <3>1, <4>2
      <4>4. QED
        BY <4>3
    <3>2. CASE i \in 1..Len(ledger)
      <4>1. PICK j \in 1..(i - 1) : ledger[j].id[2] = n
        BY <1>4, <2>1, <3>2 DEF DeliveryInv, InOrder
      <4>2. j \in 1..Len(ledger)
        BY <1>3, <3>2, <4>1
      <4>3. QED
        BY <1>4, <4>1, <4>2
    <3>3. QED
      BY <1>3, <1>4, <3>1, <3>2
  <2>2. QED
    BY <2>1 DEF InOrder
<1>9. QED
  BY <1>5, <1>6, <1>7, <1>8

LEMMA PublishDelivery ==
  ASSUME TypeInv, DeliveryInv, NEW c \in Requests, Publish(c)
  PROVE  DeliveryInv'
<1>1. /\ c \in Request /\ c.kind = "event" /\ InTurn(c)
      /\ UNCHANGED <<queue, made, flush, item>>
  BY RequestKinds DEF Publish, storage, flusher, DeliveryInv, RequestsInTurn
<1>2. CASE /\ ledger' = Append(ledger, Evidence(c.token, c.event))
           /\ Moves(c, At(c, "stored"))
  <2>1. /\ LedgerShape' /\ InOrder' /\ Known(c.event.n)' /\ \A n : Known(n) => Known(n)'
    BY <1>1, <1>2, AcceptedInOrder
  <2>2. QED
    BY <1>1, <1>2, <2>1, MovesDelivery DEF Stages
<1>3. CASE /\ \E i \in 1..Len(ledger) : ledger[i] = Evidence(c.token, c.event)
           /\ ledger' = ledger /\ Moves(c, At(c, "stored"))
  <2>1. Known(c.event.n)
    BY <1>3 DEF Known, Evidence, EvidenceId
  <2>2. /\ LedgerShape' /\ InOrder' /\ Known(c.event.n)' /\ \A n : Known(n) => Known(n)'
    BY <1>3, <2>1, LedgerStill
  <2>3. QED
    BY <1>1, <1>3, <2>2, MovesDelivery DEF Stages
<1>4. CASE ledger' = ledger /\ \E stage \in {"error", "503"} : Moves(c, At(c, stage))
  <2>1. /\ LedgerShape' /\ InOrder' /\ \A n : Known(n) => Known(n)'
    BY <1>4, LedgerStill
  <2>2. QED
    BY <1>1, <1>4, <2>1, MovesDelivery DEF Stages
<1>5. QED
  BY <1>2, <1>3, <1>4 DEF Publish, OfDuplicate, evidence, Promise!Accept, Promise!Acknowledge

\* The other answers leave the ledger alone, and an answer to an event says
\* that it is stored only after it was.
LEMMA AnswerDelivery ==
  ASSUME TypeInv, DeliveryInv, NEW c \in Requests,
         Authenticate(c) \/ AnswerEvent(c) \/ AnswerBeat(c)
  PROVE  DeliveryInv'
<1>1. /\ c \in Request /\ InTurn(c)
      /\ UNCHANGED <<queue, made, flush, item, ledger>>
  BY RequestKinds DEF Authenticate, AnswerEvent, AnswerBeat, storage, flusher, evidence,
                      DeliveryInv, RequestsInTurn
<1>2. /\ LedgerShape' /\ InOrder' /\ \A n : Known(n) => Known(n)'
  BY <1>1, LedgerStill
<1>3. CASE Authenticate(c)
  <2>1. \E stage \in {"authed", "401"} : Moves(c, At(c, stage))
    BY <1>3 DEF Authenticate
  <2>2. QED
    BY <1>1, <1>2, <2>1, MovesDelivery DEF Stages
<1>4. CASE AnswerEvent(c)
  <2>1. Known(c.event.n) /\ \E stage \in {"ok", "error"} : Moves(c, At(c, stage))
    BY <1>1, <1>4 DEF AnswerEvent, InTurn
  <2>2. QED
    BY <1>1, <1>2, <2>1, MovesDelivery DEF Stages
<1>5. CASE AnswerBeat(c)
  <2>1. c.kind # "event" /\ \E stage \in {"ok", "error"} : Moves(c, At(c, stage))
    BY <1>5 DEF AnswerBeat
  <2>2. QED
    BY <1>1, <1>2, <2>1, MovesDelivery DEF Stages
<1>6. QED
  BY <1>3, <1>4, <1>5

LEMMA CompleteDelivery ==
  ASSUME TypeInv, DeliveryInv, NEW c \in Requests, Complete(c)
  PROVE  DeliveryInv'
<1>1. c \in PairRequest /\ UNCHANGED <<queue, made, flush, item, ledger>>
  BY RequestKinds DEF Complete, storage, flusher, evidence
<1>2. /\ call' = call /\ strays' \subseteq strays
      /\ pairCall' = pairCall \/ pairCall'.kind = "pair"
  <2>1. \A stage : At(c, stage).kind = "pair"
    BY <1>1 DEF At, PairRequest
  <2>2. \A client : [At(c, "ok") EXCEPT !.token = client].kind = "pair"
    BY <1>1 DEF At, PairRequest
  <2>3. \A next : PairMoves(c, next) =>
          call' = call /\ strays' \subseteq strays /\ (pairCall' = pairCall \/ pairCall' = next)
    BY DEF PairMoves
  <2>4. \E next : next.kind = "pair" /\ PairMoves(c, next)
    BY <2>1, <2>2 DEF Complete
  <2>5. QED
    BY <2>3, <2>4
<1>3. Underway'
  BY <1>1, <1>2, LedgerStill DEF DeliveryInv, Underway
<1>4. \A r \in Requests' : r \in Requests \/ InTurn(r)
  BY <1>2 DEF Requests, InTurn
<1>5. QED
  BY <1>1, <1>3, <1>4, WorkerStepDelivery

LEMMA CrashDelivery ==
  ASSUME TypeInv, DeliveryInv, AppCrash
  PROVE  DeliveryInv'
<1>1. /\ UNCHANGED <<queue, made, ledger, flush, item>> /\ strays' = {}
      /\ call' = Broken(call) /\ pairCall' = Broken(pairCall)
  BY DEF AppCrash, storage, flusher, evidence
<1>2. call' = call \/ (call \in Request /\ call' = At(call, "error"))
  BY <1>1 DEF Broken, Pending, NoCall, TypeInv, TypeOK
<1>3. pairCall' = pairCall \/ pairCall'.kind = "pair"
  BY <1>1 DEF Broken, Pending, NoCall, TypeInv, TypeOK, At, PairRequest
<1>4. InTurn(call) /\ InTurn(pairCall)
  BY DEF DeliveryInv, RequestsInTurn, Requests
<1>5. InTurn(call') /\ InTurn(pairCall')
  BY <1>2, <1>3, <1>4, StagedInTurn DEF InTurn
<1>6. Underway'
  <2>1. \/ call' = call
        \/ call' \in Request /\ call'.kind = call.kind /\ call'.event = call.event
    BY <1>2, <1>4, StagedInTurn, StagedRequest DEF Stages
  <2>2. QED
    BY <1>1, <2>1, LedgerStill DEF DeliveryInv, Underway
<1>7. QED
  BY <1>1, <1>5, <1>6, WorkerStepDelivery DEF Requests

LEMMA AppDelivery ==
  ASSUME TypeInv, DeliveryInv, AppNext
  PROVE  DeliveryInv'
<1>1. CASE \E c \in Requests : Serve(c)
  BY <1>1, PublishDelivery, AnswerDelivery, CompleteDelivery DEF Serve
<1>2. CASE NewCode \/ CodeExpires \/ AppStart \/ Pause \/ \E client \in clients : Revoke(client)
  BY <1>2, DeliveryStill DEF NewCode, CodeExpires, AppStart, Pause, Revoke, queueVars, storage,
                             flusher, evidence
<1>3. CASE AppCrash
  BY <1>3, CrashDelivery
<1>4. QED
  BY <1>1, <1>2, <1>3 DEF AppNext

LEMMA DeliveryHolds == Spec => []DeliveryInv
<1>1. Init => DeliveryInv
  <2> SUFFICES ASSUME Init PROVE DeliveryInv
    OBVIOUS
  <2>1. LedgerShape /\ Len(ledger) = 0 /\ Len(queue) = 0 /\ made = 0
    BY EmptySeq DEF Init, LedgerShape
  <2>2. QueueSorted /\ NothingLost /\ InOrder
    BY <2>1 DEF QueueSorted, NothingLost, InOrder
  <2>3. Underway /\ RequestsInTurn
    BY DEF Init, Underway, RequestsInTurn, Requests, InTurn, NoCall
  <2>4. QED
    BY <2>1, <2>2, <2>3 DEF DeliveryInv
<1>2. TypeInv /\ DeliveryInv /\ [Next]_vars => DeliveryInv'
  <2> SUFFICES ASSUME TypeInv, DeliveryInv, [Next]_vars PROVE DeliveryInv'
    OBVIOUS
  <2>1. CASE UNCHANGED vars
    BY <2>1, DeliveryStill DEF vars, queueVars
  <2>2. QED
    BY <2>1, WorkerDelivery, AppDelivery DEF Next
<1>3. QED
  BY <1>1, <1>2, TypesHold, PTL DEF Spec

\* What was queued leaves the queue only as evidence, whoever dies on the way
\* (background.js:362-382, README.md:19-21).
THEOREM QueueLosesNothing == Spec => []NothingLost
<1>1. DeliveryInv => NothingLost
  BY DEF DeliveryInv
<1>2. QED
  BY <1>1, DeliveryHolds, PTL

\* Evidence has the order of observation, also when abandoned requests are
\* served late and tokens change (background.js:337-361, routes.py:171-205).
THEOREM EvidenceInOrder == Spec => []InOrder
<1>1. DeliveryInv => InOrder
  BY DEF DeliveryInv
<1>2. QED
  BY <1>1, DeliveryHolds, PTL

-----------------------------------------------------------------------------
(* What was dropped.                                                         *)

\* An event_id names one event, in the queue or in the ledger.
EventsOnce ==
  /\ Events \subseteq Observation
  /\ \A e \in Events : e.n <= made
  /\ \A e, f \in Events : e.n = f.n => e = f

\* What a request delivers was made, and is still queued or is evidence.
RequestsKnown == \A c \in Requests : c.kind = "event" => c.event \in Events

GapInv == EventsOnce /\ RequestsKnown /\ GapsAccounted

LEMMA EventsFinite ==
  ASSUME TypeInv, DeliveryInv
  PROVE  IsFiniteSet(Events) /\ IsFiniteSet(Told) /\ Cardinality(Told) \in Nat
<1> DEFINE entries == [i \in 1..Len(ledger) |->
                         [n |-> ledger[i].id[2], dropped |-> ledger[i].content]]
           inQueue == {queue[i] : i \in 1..Len(queue)}
           inLedger == {entries[i] : i \in 1..Len(ledger)}
<1>1. Len(queue) \in Nat /\ Len(ledger) \in Nat
  BY DEF TypeInv, TypeOK, DeliveryInv, LedgerShape
<1>2. Events = inQueue \cup inLedger
  BY DEF Events
<1>3. IsFiniteSet(inQueue)
  BY <1>1, ImageFinite
<1> HIDE DEF entries
<1>4. IsFiniteSet(inLedger)
  BY <1>1, ImageFinite
<1>5. IsFiniteSet(Events)
  BY <1>2, <1>3, <1>4, FS_Union
<1>6. IsFiniteSet(Events \X (1..MaxEvents))
  <2>1. IsFiniteSet(1..MaxEvents)
    BY FS_Interval, LimitsAssumption
  <2> QED  BY <1>5, <2>1, FS_Product
<1>7. IsFiniteSet(Told)
  BY <1>6, FS_Subset DEF Told
<1> QED  BY <1>5, <1>7, FS_CardinalityType

\* An event that was made tells of as many losses as it counts.
LEMMA ToldOfOneMore ==
  ASSUME TypeInv, DeliveryInv, NEW e \in Observation, e \notin Events, Events' = Events \cup {e}
  PROVE  Cardinality(Told)' = Cardinality(Told) + e.dropped
<1> DEFINE losses == {e} \X (1..e.dropped)
<1>1. e.dropped \in 0..MaxEvents /\ MaxEvents \in Nat
  BY LimitsAssumption DEF Observation
<1>2. IsFiniteSet(losses) /\ Cardinality(losses) = e.dropped
  <2>1. IsFiniteSet({e}) /\ Cardinality({e}) = 1
    BY FS_Singleton
  <2>2. IsFiniteSet(1..e.dropped) /\ Cardinality(1..e.dropped) = e.dropped
    <3>1. PICK d \in Nat : d = e.dropped
      BY <1>1
    <3>2. IsFiniteSet(1..d) /\ Cardinality(1..d) = d
      BY FS_Interval
    <3> QED  BY <3>1, <3>2
  <2>3. IsFiniteSet(losses) /\ Cardinality(losses) = Cardinality({e}) * Cardinality(1..e.dropped)
    BY <2>1, <2>2, FS_Product
  <2> QED  BY <1>1, <2>1, <2>2, <2>3
<1>3. Told' = Told \cup losses
  <2>1. \A i \in 1..MaxEvents : i \in 1..e.dropped <=> i <= e.dropped
    BY <1>1
  <2>2. 1..e.dropped \subseteq 1..MaxEvents
    BY <1>1
  <2> QED  BY <2>1, <2>2 DEF Told
<1>4. Told \cap losses = {}
  BY DEF Told
<1> HIDE DEF losses
<1>5. IsFiniteSet(Told) /\ Cardinality(Told) \in Nat
  BY EventsFinite
<1>6. Cardinality(Told \cup losses) = Cardinality(Told) + Cardinality(losses) - Cardinality({})
  BY <1>2, <1>4, <1>5, FS_Union
<1>7. Cardinality({}) = 0
  BY FS_EmptySet
<1>8. Cardinality(Told)' = Cardinality(Told \cup losses)
  BY <1>3
<1> QED  BY <1>1, <1>2, <1>5, <1>6, <1>7, <1>8

-----------------------------------------------------------------------------
(* What the steps make of the events.                                        *)

\* A new event joins the queue.
Makes(dropped) ==
  /\ made' = made + 1 /\ droppedTotal' = droppedTotal
  /\ gapPending' + dropped = gapPending
  /\ Events' = Events \cup {[n |-> made + 1, dropped |-> dropped]}
Loses ==
  /\ made' = made /\ Events' = Events
  /\ gapPending' = gapPending + 1 /\ droppedTotal' = droppedTotal + 1
KeepsAll == UNCHANGED <<made, gapPending, droppedTotal>> /\ Events' = Events

LEMMA AppendedEvents ==
  ASSUME TypeInv, DeliveryInv, ledger' = ledger, NEW event \in Observation,
         queue' = Append(queue, event)
  PROVE  Events' = Events \cup {event}
<1>1. queue \in Seq(Observation) /\ Len(queue) \in Nat
  BY DEF TypeInv, TypeOK
<1>2. /\ Len(queue') = Len(queue) + 1 /\ queue'[Len(queue) + 1] = event
      /\ \A i \in 1..Len(queue) : queue'[i] = queue[i]
  BY <1>1, AppendProperties
<1>3. {queue'[i] : i \in 1..Len(queue')} = {queue[i] : i \in 1..Len(queue)} \cup {event}
  <2>1. \A i : i \in 1..Len(queue') <=> i \in 1..Len(queue) \/ i = Len(queue) + 1
    BY <1>1, <1>2
  <2> QED  BY <1>2, <2>1
<1> QED  BY <1>3 DEF Events

LEMMA AcceptedEvents ==
  ASSUME TypeInv, DeliveryInv, NEW c \in Request, c.event \in Events, c.event \in Observation,
         queue' = queue, ledger' = Append(ledger, Evidence(c.token, c.event))
  PROVE  Events' = Events
<1> DEFINE Entries == [id : Tokens \X (1..MaxEvents), content : 0..MaxEvents]
           entry == Evidence(c.token, c.event)
           Told1(x) == [n |-> x.id[2], dropped |-> x.content]
<1>1. ledger \in Seq(Entries) /\ Len(ledger) \in Nat
  BY DEF DeliveryInv, LedgerShape
<1>2. entry \in Entries
  BY DEF Evidence, EvidenceId, Observation, Request
<1>3. Told1(entry) = c.event
  BY DEF Evidence, EvidenceId, Observation
<1> HIDE DEF Entries, entry
<1>4. /\ Len(ledger') = Len(ledger) + 1 /\ ledger'[Len(ledger) + 1] = entry
      /\ \A i \in 1..Len(ledger) : ledger'[i] = ledger[i]
  BY <1>1, <1>2, AppendProperties DEF entry
<1>5. \A i : i \in 1..Len(ledger') <=> i \in 1..Len(ledger) \/ i = Len(ledger) + 1
  BY <1>1, <1>4
<1>6. {Told1(ledger'[i]) : i \in 1..Len(ledger')}
        = {Told1(ledger[i]) : i \in 1..Len(ledger)} \cup {Told1(entry)}
  BY <1>4, <1>5
<1> QED  BY <1>3, <1>6 DEF Events

\* What leaves the queue is in the ledger: its number is, and a number names one event.
LEMMA RemovedEvents ==
  ASSUME TypeInv, DeliveryInv, EventsOnce, RemoveItem
  PROVE  Events' = Events
<1>1. ledger' = ledger /\ flush = "remove" /\ queue' = WithoutItem
  BY DEF RemoveItem, evidence
<1>2. queue # <<>> /\ queue[1] = item /\ Known(item.n)
  BY <1>1 DEF DeliveryInv, Underway
<1>3. /\ Len(queue) \in Nat \ {0} /\ Len(queue') = Len(queue) - 1
      /\ \A i \in 1..(Len(queue) - 1) : queue'[i] = queue[i + 1]
  BY <1>1, <1>2, Remaining
<1> DEFINE recorded == {[n |-> ledger[i].id[2], dropped |-> ledger[i].content] : i \in 1..Len(ledger)}
<1>4. item \in recorded
  <2>1. PICK i \in 1..Len(ledger) : ledger[i].id[2] = item.n
    BY <1>2 DEF Known
  <2> DEFINE entry == [n |-> ledger[i].id[2], dropped |-> ledger[i].content]
  <2>2. entry \in recorded /\ entry.n = item.n
    BY <2>1
  <2>3. entry \in Events /\ item \in Events
    BY <1>2, <1>3, <2>2 DEF Events
  <2>4. entry = item
    BY <2>2, <2>3 DEF EventsOnce
  <2> QED  BY <2>2, <2>4
<1>5. ASSUME NEW i \in 1..Len(queue), i # 1
      PROVE  i - 1 \in 1..Len(queue') /\ queue'[i - 1] = queue[i]
  <2>1. i - 1 \in 1..(Len(queue) - 1) /\ (i - 1) + 1 = i
    BY <1>3, <1>5
  <2> QED  BY <1>3, <2>1
<1>6. \A i \in 1..Len(queue') : i + 1 \in 1..Len(queue) /\ queue'[i] = queue[i + 1]
  BY <1>3
<1>7. {queue[i] : i \in 1..Len(queue)} = {queue'[i] : i \in 1..Len(queue')} \cup {item}
  <2>1. 1 \in 1..Len(queue)
    BY <1>3
  <2>2. ASSUME NEW i \in 1..Len(queue)
        PROVE  queue[i] = item \/ \E j \in 1..Len(queue') : queue'[j] = queue[i]
    <3>1. CASE i = 1
      BY <1>2, <3>1
    <3>2. CASE i # 1
      BY <1>5, <3>2
    <3> QED  BY <3>1, <3>2
  <2>3. \A i \in 1..Len(queue') : \E j \in 1..Len(queue) : queue[j] = queue'[i]
    BY <1>6
  <2>4. \E i \in 1..Len(queue) : queue[i] = item
    BY <1>2, <2>1
  <2> QED  BY <2>2, <2>3, <2>4
<1>8. Events = {queue[i] : i \in 1..Len(queue)} \cup recorded
      /\ Events' = {queue'[i] : i \in 1..Len(queue')} \cup recorded
  BY <1>1 DEF Events
<1> HIDE DEF recorded
<1> QED  BY <1>4, <1>7, <1>8

\* A step makes an event, loses one, or leaves the events as they are.
LEMMA EventsStep ==
  ASSUME TypeInv, TypeInv', DeliveryInv, EventsOnce, RequestsKnown, [Next]_vars
  PROVE  \/ KeepsAll \/ Loses
         \/ \E dropped \in 0..MaxEvents :
              Makes(dropped) /\ [n |-> made + 1, dropped |-> dropped] \in Observation
<1> USE DEF storage
<1>1. gapPending \in 0..MaxEvents /\ gapPending \in Nat /\ made \in Nat /\ made' \in 0..MaxEvents
  BY LimitsAssumption DEF TypeInv, TypeOK
<1>2. ASSUME NEW dropped \in 0..MaxEvents, made' = made + 1, ledger' = ledger,
             queue' = Append(queue, [n |-> made + 1, dropped |-> dropped])
      PROVE  /\ [n |-> made + 1, dropped |-> dropped] \in Observation
             /\ Events' = Events \cup {[n |-> made + 1, dropped |-> dropped]}
  <2>1. [n |-> made + 1, dropped |-> dropped] \in Observation
    BY <1>1, <1>2 DEF Observation
  <2> QED  BY <1>2, <2>1, AppendedEvents
<1>3. ASSUME UNCHANGED <<queue, ledger, made, gapPending, droppedTotal>>
      PROVE  KeepsAll
  BY <1>3 DEF KeepsAll, Events
<1>4. CASE Observe
  <2>1. CASE /\ queue' = Append(queue, [n |-> made + 1, dropped |-> 0])
             /\ made' = made + 1 /\ UNCHANGED <<gapPending, droppedTotal>>
    <3>1. 0 \in 0..MaxEvents /\ ledger' = ledger
      BY <1>4, LimitsAssumption DEF Observe, evidence
    <3>2. gapPending' + 0 = gapPending
      BY <1>1, <2>1
    <3>3. Makes(0) /\ [n |-> made + 1, dropped |-> 0] \in Observation
      BY <1>2, <2>1, <3>1, <3>2 DEF Makes
    <3> QED  BY <3>1, <3>3
  <2>2. CASE ~Space
    BY <1>4, <2>2 DEF Observe, Loses, Events, evidence
  <2> QED  BY <1>4, <2>1, <2>2 DEF Observe
<1>5. CASE TakeItem
  <2>1. CASE ReportGap
    <3>1. /\ queue' = Append(queue, [n |-> made + 1, dropped |-> gapPending])
          /\ made' = made + 1 /\ gapPending' = 0 /\ ledger' = ledger /\ droppedTotal' = droppedTotal
      BY <1>5, <2>1 DEF ReportGap, TakeItem, evidence, GapReported
    <3>2. gapPending' + gapPending = gapPending
      BY <1>1, <3>1
    <3>3. Makes(gapPending) /\ [n |-> made + 1, dropped |-> gapPending] \in Observation
      BY <1>1, <1>2, <3>1, <3>2 DEF Makes
    <3> QED  BY <1>1, <3>3
  <2>2. CASE UNCHANGED <<queue, gapPending, made>>
    BY <1>3, <1>5, <2>2 DEF TakeItem, evidence
  <2> QED  BY <1>5, <2>1, <2>2 DEF TakeItem
<1>6. CASE RemoveItem
  BY <1>6, RemovedEvents DEF RemoveItem, KeepsAll
<1>7. CASE \/ FlushStart \/ SendItem \/ ItemAnswered \/ SyncIdentity \/ SendBeat
           \/ BeatAnswered \/ ClearToken \/ FlushEnd
  BY <1>3, <1>7 DEF FlushStart, SendItem, ItemAnswered, SyncIdentity, SendBeat, BeatAnswered,
                    ClearToken, FlushEnd, Send, Receive, evidence
<1>8. CASE \/ KillWorker \/ StartWorker \/ TimeOut \/ PairTimeOut \/ PairAnswered
           \/ \E entered \in 0..codes, url \in {"app", "elsewhere"} : PairStart(entered, url)
  BY <1>3, <1>8 DEF KillWorker, StartWorker, TimeOut, PairTimeOut, PairAnswered, PairStart, evidence
<1>9. ASSUME NEW c \in Requests, Publish(c)
      PROVE  KeepsAll
  <2>1. UNCHANGED <<queue, made, gapPending, droppedTotal>>
    BY <1>9 DEF Publish
  <2>2. ledger' = ledger \/ ledger' = Append(ledger, Evidence(c.token, c.event))
    BY <1>9 DEF Publish, evidence, Promise!Accept, Promise!Acknowledge
  <2>3. c \in Request /\ c.event \in Events /\ c.event \in Observation
    BY <1>9, RequestKinds DEF Publish, RequestsKnown, EventsOnce
  <2>4. CASE ledger' = ledger
    BY <1>3, <2>1, <2>4
  <2>5. CASE ledger' = Append(ledger, Evidence(c.token, c.event))
    BY <2>1, <2>3, <2>5, AcceptedEvents DEF KeepsAll
  <2> QED  BY <2>2, <2>4, <2>5
<1>10. ASSUME NEW c \in Requests, Authenticate(c) \/ AnswerEvent(c) \/ AnswerBeat(c) \/ Complete(c)
       PROVE  KeepsAll
  BY <1>3, <1>10 DEF Authenticate, AnswerEvent, AnswerBeat, Complete, evidence
<1>11. CASE NewCode \/ CodeExpires \/ AppCrash \/ AppStart \/ Pause
            \/ \E client \in clients : Revoke(client)
  BY <1>3, <1>11 DEF NewCode, CodeExpires, AppCrash, AppStart, Pause, Revoke, evidence
<1>12. CASE UNCHANGED vars
  BY <1>3, <1>12 DEF vars
<1> QED  BY <1>4, <1>5, <1>6, <1>7, <1>8, <1>9, <1>10, <1>11, <1>12
         DEF Next, WorkerNext, AppNext, Serve

\* A request delivers what another one delivered, or the item of the flush.
Delivers(c) ==
  c.kind = "event" =>
    \/ \E r \in Requests : r.kind = "event" /\ r.event = c.event
    \/ flush = "send" /\ c.event = item

LEMMA MovesDelivers ==
  ASSUME NEW c \in Requests, c \in Request, NEW stage, Moves(c, At(c, stage))
  PROVE  \A r \in Requests' : Delivers(r)
<1>1. At(c, stage).kind = c.kind /\ At(c, stage).event = c.event
  BY DEF At, Request
<1>2. Abandoned(At(c, stage)) \subseteq {At(c, stage)}
  BY DEF Abandoned
<1>3. Requests' \subseteq Requests \cup {At(c, stage)}
  BY <1>2 DEF Moves, Requests
<1> QED  BY <1>1, <1>3 DEF Delivers

LEMMA RequestsStep ==
  ASSUME TypeInv, [Next]_vars
  PROVE  \A c \in Requests' : Delivers(c)
<1>1. ASSUME UNCHANGED <<call, pairCall, strays>>
      PROVE  \A c \in Requests' : Delivers(c)
  BY <1>1 DEF Requests, Delivers
<1>2. ASSUME NEW r, Requests' \subseteq Requests \cup {r}, Delivers(r)
      PROVE  \A c \in Requests' : Delivers(c)
  BY <1>2 DEF Delivers
<1>3. CASE \/ Observe \/ FlushStart \/ TakeItem \/ RemoveItem \/ SyncIdentity \/ ClearToken
           \/ FlushEnd \/ StartWorker
  BY <1>1, <1>3 DEF Observe, FlushStart, TakeItem, RemoveItem, SyncIdentity, ClearToken,
                    FlushEnd, StartWorker
<1>4. CASE SendItem \/ SendBeat
  <2>1. /\ call'.kind = "event" => flush = "send" /\ call'.event = item
        /\ UNCHANGED <<pairCall, strays>>
    BY <1>4 DEF SendItem, SendBeat, Send, Sent
  <2> QED  BY <2>1, <1>2 DEF Requests, Delivers
<1>5. CASE ItemAnswered \/ BeatAnswered
  <2>1. call'.kind = "none" /\ UNCHANGED <<pairCall, strays>>
    BY <1>5 DEF ItemAnswered, BeatAnswered, Receive, NoCall
  <2> QED  BY <2>1, <1>2 DEF Requests, Delivers
<1>6. CASE KillWorker
  <2>1. call' = NoCall /\ pairCall' = NoCall /\ strays' \subseteq strays \cup {call, pairCall}
    BY <1>6 DEF KillWorker, Abandoned
  <2>2. NoCall.kind = "none"
    BY DEF NoCall
  <2> QED  BY <2>1, <2>2, <1>2 DEF Requests, Delivers
<1>7. CASE TimeOut
  <2>1. /\ call' = At(call, "error") /\ strays' = strays \cup {call} /\ pairCall' = pairCall
        /\ call \in Request
    BY <1>7 DEF TimeOut, At, TypeInv, TypeOK, Pending, NoCall
  <2>2. call'.kind = call.kind /\ call'.event = call.event
    BY <2>1 DEF At, Request
  <2> QED  BY <2>1, <2>2, <1>2 DEF Requests, Delivers
<1>8. ASSUME call' = call, pairCall'.kind \in {"pair", "none"}, strays' \subseteq strays \cup {pairCall}
      PROVE  \A c \in Requests' : Delivers(c)
  BY <1>8, <1>2 DEF Requests, Delivers
<1>9. CASE PairTimeOut
  <2>1. pairCall'.kind = "pair"
    BY <1>9 DEF PairTimeOut, TypeInv, TypeOK, Pending, NoCall, PairRequest
  <2> QED  BY <1>8, <1>9, <2>1 DEF PairTimeOut
<1>10. CASE PairAnswered \/ \E entered \in 0..codes, url \in {"app", "elsewhere"} : PairStart(entered, url)
  BY <1>8, <1>10 DEF PairAnswered, PairStart, NoCall
<1>11. ASSUME NEW c \in Requests, Authenticate(c) \/ Publish(c) \/ AnswerEvent(c) \/ AnswerBeat(c)
       PROVE  \A r \in Requests' : Delivers(r)
  <2>1. c \in Request
    BY <1>11, RequestKinds DEF Authenticate, Publish, AnswerEvent, AnswerBeat
  <2>2. \E stage : Moves(c, At(c, stage))
    BY <1>11 DEF Authenticate, Publish, AnswerEvent, AnswerBeat, OfDuplicate
  <2> QED  BY <2>1, <2>2, MovesDelivers
<1>12. ASSUME NEW c \in Requests, Complete(c)
       PROVE  \A r \in Requests' : Delivers(r)
  <2>1. c \in PairRequest
    BY <1>12, RequestKinds DEF Complete
  <2>2. \A stage : At(c, stage).kind = "pair"
    BY <2>1 DEF At, PairRequest
  <2>3. \A client : [At(c, "ok") EXCEPT !.token = client].kind = "pair"
    BY <2>1 DEF At, PairRequest
  <2>4. \A next : PairMoves(c, next) =>
          call' = call /\ strays' \subseteq strays /\ (pairCall' = pairCall \/ pairCall' = next)
    BY DEF PairMoves
  <2>5. \E next : next.kind = "pair" /\ PairMoves(c, next)
    BY <1>12, <2>2, <2>3 DEF Complete
  <2> QED  BY <2>4, <2>5 DEF Requests, Delivers
<1>13. CASE AppCrash
  <2>1. strays' = {} /\ call' = Broken(call) /\ pairCall' = Broken(pairCall)
    BY <1>13 DEF AppCrash
  <2>2. call' = call \/ (call \in Request /\ call' = At(call, "error"))
    BY <2>1 DEF Broken, Pending, NoCall, TypeInv, TypeOK
  <2>3. pairCall' = pairCall \/ pairCall'.kind = "pair"
    BY <2>1 DEF Broken, Pending, NoCall, TypeInv, TypeOK, At, PairRequest
  <2>4. call'.kind = "event" => call.kind = "event" /\ call'.event = call.event
    BY <2>2 DEF At, Request
  <2> QED  BY <2>1, <2>3, <2>4 DEF Requests, Delivers
<1>14. CASE \/ NewCode \/ CodeExpires \/ AppStart \/ Pause
            \/ \E client \in clients : Revoke(client)
  BY <1>1, <1>14 DEF NewCode, CodeExpires, AppStart, Pause, Revoke
<1>15. CASE UNCHANGED vars
  BY <1>1, <1>15 DEF vars
<1> QED  BY <1>3, <1>4, <1>5, <1>6, <1>7, <1>9, <1>10, <1>11, <1>12, <1>13, <1>14, <1>15
         DEF Next, WorkerNext, AppNext, Serve

-----------------------------------------------------------------------------

LEMMA GapInit == Init => GapInv
<1> SUFFICES ASSUME Init PROVE GapInv
  OBVIOUS
<1>1. Len(queue) = 0 /\ Len(ledger) = 0 /\ gapPending = 0 /\ droppedTotal = 0
  BY DEF Init
<1>2. Events = {}
  BY <1>1 DEF Events
<1>3. Told = {} /\ Cardinality(Told) = 0
  BY <1>2, FS_EmptySet DEF Told
<1>4. \A c \in Requests : c.kind = "none"
  BY DEF Init, Requests, NoCall
<1> QED  BY <1>1, <1>2, <1>3, <1>4 DEF GapInv, EventsOnce, RequestsKnown, GapsAccounted

LEMMA GapStep ==
  TypeInv /\ TypeInv' /\ DeliveryInv /\ GapInv /\ [Next]_vars => GapInv'
<1> SUFFICES ASSUME TypeInv, TypeInv', DeliveryInv, GapInv, [Next]_vars PROVE GapInv'
  OBVIOUS
<1>1. /\ EventsOnce /\ RequestsKnown /\ droppedTotal = gapPending + Cardinality(Told)
      /\ gapPending \in Nat /\ droppedTotal \in Nat /\ made \in Nat
      /\ gapPending' \in Nat
  BY LimitsAssumption DEF GapInv, GapsAccounted, TypeInv, TypeOK
<1>2. Cardinality(Told) \in Nat
  BY EventsFinite
<1>3. EventsOnce' /\ GapsAccounted' /\ Events \subseteq Events'
  <2>1. CASE KeepsAll \/ Loses
    <3>1. Events' = Events /\ made' = made
      BY <2>1 DEF KeepsAll, Loses
    <3>2. Cardinality(Told)' = Cardinality(Told)
      BY <3>1 DEF Told
    <3>3. GapsAccounted'
      BY <1>1, <1>2, <2>1, <3>2 DEF KeepsAll, Loses, GapsAccounted
    <3> QED  BY <1>1, <3>1, <3>3 DEF EventsOnce
  <2>2. ASSUME NEW dropped \in 0..MaxEvents, Makes(dropped),
               [n |-> made + 1, dropped |-> dropped] \in Observation
        PROVE  EventsOnce' /\ GapsAccounted' /\ Events \subseteq Events'
    <3>1. PICK event \in Observation : event = [n |-> made + 1, dropped |-> dropped]
      BY <2>2
    <3>2. /\ event.n = made + 1 /\ event.dropped = dropped
          /\ made' = made + 1 /\ droppedTotal' = droppedTotal /\ gapPending' + dropped = gapPending
          /\ Events' = Events \cup {event}
      BY <2>2, <3>1 DEF Makes
    <3>3. \A e \in Events : e.n \in Nat /\ e.n <= made
      BY <1>1, ObservationNumbers DEF EventsOnce
    <3>4. event \notin Events
      BY <1>1, <3>2, <3>3
    <3>5. Cardinality(Told)' = Cardinality(Told) + dropped
      BY <3>2, <3>4, ToldOfOneMore
    <3>6. GapsAccounted'
      <4>1. dropped \in Nat
        BY LimitsAssumption
      <4>2. PICK told \in Nat : told = Cardinality(Told)
        BY <1>2
      <4>3. droppedTotal = gapPending + told /\ gapPending' + dropped = gapPending
        BY <1>1, <3>2, <4>2
      <4>4. PICK left \in Nat : left = gapPending'
        BY <1>1
      <4>5. droppedTotal = left + (told + dropped)
        BY <4>1, <4>3, <4>4
      <4> QED  BY <3>2, <3>5, <4>2, <4>4, <4>5 DEF GapsAccounted
    <3>7. EventsOnce'
      <4>1. Events' \subseteq Observation
        BY <1>1, <3>2 DEF EventsOnce
      <4>2. \A e \in Events' : e.n <= made'
        BY <1>1, <3>2, <3>3
      <4>3. \A e, f \in Events' : e.n = f.n => e = f
        BY <1>1, <3>2, <3>3 DEF EventsOnce
      <4> QED  BY <4>1, <4>2, <4>3 DEF EventsOnce
    <3> QED  BY <3>2, <3>6, <3>7
  <2> QED  BY <1>1, <2>1, <2>2, EventsStep
<1>4. flush = "send" => item \in Events
  <2>1. flush = "send" => queue # <<>> /\ queue[1] = item
    BY DEF DeliveryInv, Underway
  <2>2. queue # <<>> => 1 \in 1..Len(queue)
    BY EmptySeq DEF TypeInv, TypeOK
  <2> QED  BY <2>1, <2>2 DEF Events
<1>5. RequestsKnown'
  <2>1. \A c \in Requests' : c.kind = "event" => c.event \in Events
    BY <1>1, <1>4, RequestsStep DEF RequestsKnown, Delivers
  <2> QED  BY <1>3, <2>1 DEF RequestsKnown
<1> QED  BY <1>3, <1>5 DEF GapInv

\* Every observation that found the queue full is told of exactly once, in one
\* gap report of the queue or the ledger or in the one that is still to be
\* made, whoever dies around the report (background.js:292-300,344-358).
THEOREM GapsAreAccounted == Spec => []GapsAccounted
<1>1. GapInv => GapsAccounted
  BY DEF GapInv
<1> QED  BY <1>1, GapInit, GapStep, TypesHold, DeliveryHolds, PTL DEF Spec

=============================================================================
