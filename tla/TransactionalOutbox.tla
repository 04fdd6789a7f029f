------------------------ MODULE TransactionalOutbox ------------------------
(***************************************************************************)
(* What the order service promises to those who read its outbox, without   *)
(* the transactions, locks and stale reads behind it: the status of an     *)
(* order and the rows that announce it change in one atomic step, each     *)
(* sender announces one change at most, and an order is handed over as     *)
(* SHIPPED only after its order.paid.                                      *)
(***************************************************************************)
EXTENDS OrderDomain

CONSTANTS Orders, Senders

VARIABLES status, outbox

Announced(o, s) ==
  \E v \in outbox : v.type = "notification" /\ v.order = o /\ v.status = s

PaidEvent(o) == \E v \in outbox : v.type = "order.paid" /\ v.order = o

Init == status = [o \in Orders |-> Absent] /\ outbox = {}

Create(o) ==
  /\ status[o] = Absent
  /\ status' = [status EXCEPT ![o] = "NEW"]
  /\ outbox' = outbox \union EventsFor(o, "NEW", o)

\* Sender `by' announces that o is now s. A change that lost a race with an
\* equal one may leave the status alone: s has then been announced before.
Change(o, s, by) ==
  /\ status[o] # Absent
  /\ \A v \in outbox : v.by = by => v.status = "NEW"
  /\ s = "SHIPPED" => PaidEvent(o)
  /\ \/ status' = [status EXCEPT ![o] = s]
     \/ Announced(o, s) /\ UNCHANGED status
  /\ outbox' = outbox \union EventsFor(o, s, by)

Next ==
  \/ \E o \in Orders : Create(o)
  \/ \E o \in Orders, s \in Status \ {"NEW"}, by \in Senders : Change(o, s, by)

Spec == Init /\ [][Next]_<<status, outbox>>

\* At every moment the customer's notification for the status an order is in
\* is in the outbox, and so is the one for NEW, even though transactions may
\* overwrite each other's status.
StatusAnnounced ==
  \A o \in Orders : status[o] # Absent =>
    Announced(o, "NEW") /\ Announced(o, status[o])

\* An order is PAID or SHIPPED only if order.paid for it is in the outbox.
PaidIsPublished ==
  \A o \in Orders : status[o] \in {"PAID", "SHIPPED"} => PaidEvent(o)
=============================================================================
