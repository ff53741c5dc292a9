--------------------------- MODULE NetworkEngine ---------------------------
(***************************************************************************)
(* The network sensor (agent/engines/network_engine.py): it samples the    *)
(* established connections, publishes those it did not see in the sample   *)
(* before, and raises an alert when a process opens connections to one     *)
(* address at regular intervals.                                           *)
(*                                                                         *)
(* The connections are listed in one step, then the owner of each is read  *)
(* while processes go on ending and giving their pids away.  What follows  *)
(* the sample touches nothing but the sensor's own state, and is one step. *)
(* Every owner's pid is known and every connection goes to one address.    *)
(***************************************************************************)
EXTENDS Host, FiniteSetsExt

CONSTANTS
  MinSamples,  \* MIN_BEACON_SAMPLES
  MaxSamples,  \* maxlen of a contact history
  MaxContacts, \* how many contact histories are kept
  Hour,        \* 3600 seconds, in poll intervals
  MaxTime      \* bound: the clock of the samples, in poll intervals

ASSUME NetworkAssumption ==
  /\ MinSamples \in Nat /\ 1 < MinSamples /\ MinSamples <= MaxSamples
  /\ MaxSamples \in Nat /\ MaxContacts \in Nat \ {0} /\ Hour \in Nat /\ MaxTime \in Nat

VARIABLES
  netPoll,   \* _poll_once: where it is, what is listed and whose owner is read
  polledAt,  \* the `now` of the last sample
  active,    \* _active
  contacts,  \* _contact_history
  alertedAt, \* _alerted_at
  alerts     \* history: the alerts raised, each with the connections behind it

networkVars == <<netPoll, polledAt, active, contacts, alertedAt, alerts>>

NetIdle == [pc |-> "idle", listed |-> {}, observed |-> {}]

\* An observation carries the process it takes for the owner, 0 when it was
\* gone.  Its pid and that process's start identify the owner.
Observation == [socket : 1..MaxSockets, owner : Process \cup {0}]
OwnerPid(o) == PidOf(sockets[o.socket].owner)
Identity(o) == <<OwnerPid(o), o.owner, sockets[o.socket].port>>
Key(o) == <<OwnerPid(o), o.owner>>

NetworkInit ==
  /\ netPoll = NetIdle /\ polledAt = 0 /\ active = {}
  /\ contacts = <<>> /\ alertedAt = <<>> /\ alerts = {}

\* _snapshot: net_connections, then the owner of each.
ListConnections ==
  /\ netPoll.pc = "idle" /\ polledAt < MaxTime
  /\ netPoll' = [pc |-> "owners", listed |-> established, observed |-> {}]
  /\ UNCHANGED <<hostVars, polledAt, active, contacts, alertedAt, alerts>>

ReadOwner(s) ==
  /\ netPoll.pc = "owners"
  /\ netPoll' = [netPoll EXCEPT
       !.listed = @ \ {s},
       !.observed = @ \cup {[socket |-> s, owner |-> Holder(running, PidOf(sockets[s].owner))]}]
  /\ UNCHANGED <<hostVars, polledAt, active, contacts, alertedAt, alerts>>

-----------------------------------------------------------------------------
(* What is made of a sample.                                                 *)

New == {o \in netPoll.observed : Identity(o) \notin active}

\* Mutant: only what is published counts as seen.
OnlyPublished == {Identity(o) : o \in New}
Seen == {Identity(o) : o \in netPoll.observed}

HistoryOf(key) == IF key \in DOMAIN contacts THEN contacts[key] ELSE <<>>

\* Entries older than an hour leave at the front, and one more if there are too
\* many. One entry a poll, however many connections of the key are new in it; the
\* entry remembers one of them for the properties.
Extended(key, socket, now) ==
  LET history == HistoryOf(key)
      first == Min({i \in 1..(Len(history) + 1) :
                      i <= Len(history) => now - history[i].at <= Hour})
      recent == SubSeq(history, first, Len(history))
      all == Append(recent, [at |-> now, socket |-> socket])
  IN IF Len(all) > MaxSamples THEN Tail(all) ELSE all

\* _check_pattern, for the population deviation: dev / mean <= 0.15 squared.
Regular(history) ==
  LET n == Len(history) - 1
      gap(i) == history[i + 1].at - history[i].at
      sum == history[n + 1].at - history[1].at
      squares == MapThenSumSet(LAMBDA i : gap(i) * gap(i), 1..n)
  IN sum >= 3 * n /\ 400 * (n * squares - sum * sum) <= 9 * sum * sum

Suspicious(key, history, now) ==
  /\ Len(history) >= MinSamples
  /\ key \in DOMAIN alertedAt => now - alertedAt[key] >= Hour
  /\ Regular(history)

LastContact(histories, key) == histories[key][Len(histories[key])].at

\* Mutant: nothing goes.
AllKept(histories, keys) == keys = DOMAIN histories
\* The histories whose last contact is oldest go when there are too many;
\* those of one poll go in any order.
Kept(histories, keys) ==
  /\ keys \subseteq DOMAIN histories
  /\ Cardinality(keys) = Min({MaxContacts, Cardinality(DOMAIN histories)})
  /\ \A k \in keys, gone \in DOMAIN histories \ keys :
       LastContact(histories, gone) <= LastContact(histories, k)

\* Between two polls the loop sleeps for an interval.
HandleSample(now) ==
  /\ netPoll.pc = "owners" /\ netPoll.listed = {}
  /\ LET fresh == {Key(o) : o \in New}
         socketOf(key) == Min({o.socket : o \in {x \in New : Key(x) = key}})
         histories == [key \in DOMAIN contacts \cup fresh |->
           IF key \in fresh THEN Extended(key, socketOf(key), now) ELSE contacts[key]]
         suspicious == {key \in fresh : Suspicious(key, histories[key], now)}
     IN /\ alerts' = alerts \cup
             {[key |-> key, sockets |-> [i \in DOMAIN histories[key] |-> histories[key][i].socket]] :
                key \in suspicious}
        /\ \E keys \in SUBSET DOMAIN histories :
             /\ Kept(histories, keys)
             /\ contacts' = Restrict(histories, keys)
             /\ alertedAt' = [key \in keys \cap (DOMAIN alertedAt \cup suspicious) |->
                  IF key \in suspicious THEN now ELSE alertedAt[key]]
  /\ active' = Seen
  /\ netPoll' = NetIdle /\ polledAt' = now
  /\ UNCHANGED hostVars

NetworkNext ==
  \/ ListConnections
  \/ \E s \in netPoll.listed : ReadOwner(s)
  \/ \E now \in (polledAt + 1)..MaxTime : HandleSample(now)

-----------------------------------------------------------------------------
(* Properties.                                                               *)

NetworkTypeOK ==
  /\ polledAt \in 0..MaxTime
  /\ netPoll.pc \in {"idle", "owners"} /\ netPoll.observed \subseteq Observation
  /\ active \subseteq Pids \X (Process \cup {0}) \X Ports
  /\ Cardinality(DOMAIN contacts) <= MaxContacts
  /\ DOMAIN alertedAt \subseteq DOMAIN contacts
  /\ \A key \in DOMAIN contacts : Len(contacts[key]) \in 1..MaxSamples

\* "A socket seen in multiple polls is ONE connection, not repeated beacon
\* traffic": behind an alert are enough connections, all different, and but for
\* the first, which may have been listed before its pid was taken over, all of
\* the process that the alert names (network_engine.py:61-133).
BeaconsAreReconnections ==
  \A alert \in alerts :
    /\ Len(alert.sockets) >= MinSamples
    /\ \A i, j \in DOMAIN alert.sockets : alert.sockets[i] = alert.sockets[j] => i = j
    /\ alert.key[2] # 0 => \A i \in DOMAIN alert.sockets :
         i = 1 \/ sockets[alert.sockets[i]].owner = alert.key[2]

=============================================================================
