--------------------------- MODULE EvidencePromise ---------------------------
(***************************************************************************)
(* What the evidence writer promises those who publish to it, with nothing *)
(* of how it does so: a ledger that is only ever appended to, in which no  *)
(* event_id occurs twice, and receipts that name a position of the ledger  *)
(* and what stands there.  A receipt may be returned again at any time.    *)
(***************************************************************************)
EXTENDS Integers, Sequences

CONSTANTS
  EventIds,       \* the identifiers publishers use
  Contents        \* the contents an event may carry

VARIABLES
  ledger,         \* the events accepted so far, in order
  receipts        \* the pairs of position and event returned to publishers

pvars == <<ledger, receipts>>

PEvent == [id : EventIds, content : Contents]

PInit ==
  /\ ledger \in Seq(PEvent)
  /\ \A i, j \in 1..Len(ledger) : ledger[i].id = ledger[j].id => i = j
  /\ receipts = {}

Accept(event) ==
  /\ \A i \in 1..Len(ledger) : ledger[i].id # event.id
  /\ ledger' = Append(ledger, event)
  /\ UNCHANGED receipts

Acknowledge(i) ==
  /\ receipts' = receipts \cup {[seq |-> i - 1, event |-> ledger[i]]}
  /\ UNCHANGED ledger

PNext ==
  \/ \E event \in PEvent : Accept(event)
  \/ \E i \in 1..Len(ledger) : Acknowledge(i)

PSpec == PInit /\ [][PNext]_pvars

=============================================================================
