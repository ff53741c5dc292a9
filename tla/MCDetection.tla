---------------------------- MODULE MCDetection ----------------------------
(* The engine over many events, and dashboards over few.                     *)
EXTENDS Detection

CONSTANTS p1, p2, d1, d2

Fresh(pages) == {o \in Observations : o.fresh /\ o.page \in pages \cup {NoPage}}
HostOnly == {Host("process"), Host("encryption")}

Look(events, observations, watching, limit, disturbed) ==
  [events |-> events, observations |-> observations, watching |-> watching,
   limit |-> limit, disturbances |-> disturbed]

Looks ==
  {Look(4, Fresh({p1}), {}, 1, 0), Look(3, Observations, {}, 1, 0),
   Look(2, HostOnly, {d1}, 1, 2),
   Look(1, {Host("process")}, {d1, d2}, 1, 1), Look(2, {Host("process")}, {d1, d2}, 2, 0)}

=============================================================================
