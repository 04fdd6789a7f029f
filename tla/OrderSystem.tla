---------------------------- MODULE OrderSystem ----------------------------
(***************************************************************************)
(* The use cases of OrderTransactions together with the outbox relay and   *)
(* Shipping: from a payment to the hand-over of the order and back.        *)
(*                                                                         *)
(* The relay is taken as AtLeastOnce, which OutboxRelay implements, and    *)
(* runs here on the order.paid rows: notifications go to the customer and  *)
(* nothing comes back. Shipping hears of an order from what the relay has  *)
(* delivered, where OrderTransactions alone lets it look at the outbox.    *)
(***************************************************************************)
EXTENDS OrderTransactions

VARIABLES
  row,        \* the status column of each order.paid row
  delivered   \* the order.paid rows that have reached Kafka

systemVars == <<vars, row, delivered>>

PaidRows == {OrderPaid(o, c) : o \in Requests, c \in Callbacks}

Relay == INSTANCE AtLeastOnce WITH Rows <- PaidRows, status <- row

SystemInit == Init /\ Relay!Init

\* An order.paid row is PENDING from the moment the transaction that inserts
\* it commits.
Enqueue ==
  row' = [v \in PaidRows |-> IF v \in outbox' \ outbox THEN "PENDING" ELSE row[v]]

\* Shipping publishes events only about orders whose order.paid it has got.
ShippingHeard ==
  \A e \in EventIds :
    shipments'[e] # shipments[e] /\ shipments'[e].order \in Requests =>
      \E v \in delivered : v.order = shipments'[e].order

\* The services and use cases take a step.
Transact == Next /\ Enqueue /\ ShippingHeard /\ UNCHANGED delivered

\* The relay delivers a row, or settles it as SENT or FAILED.
RelayStep(v) ==
  /\ Relay!Deliver(v) \/ Relay!Settle({v}, {}) \/ Relay!Settle({}, {v})
  /\ UNCHANGED vars

SystemNext == Transact \/ \E v \in PaidRows : RelayStep(v)

\* OutboxRelay shows that every pending row is settled (EveryRowSettles).
SystemSpec ==
  /\ SystemInit
  /\ [][SystemNext]_systemVars
  /\ \A v \in PaidRows : WF_systemVars(\E S, F \in SUBSET {v} :
                                          Relay!Settle(S, F) /\ UNCHANGED vars)

-----------------------------------------------------------------------------
(* Properties *)

\* From the payment to the parcel: Shipping is told of an order only after its
\* payment has succeeded, and an order is SHIPPED only if Shipping was told of
\* it, whatever the callbacks, the relay and repeated events interleave to.
HandOverIsBacked ==
  /\ \A v \in delivered : payments[v.order] = "succeeded"
  /\ \A o \in Requests :
       orders[o] = "SHIPPED" => \E v \in delivered : v.order = o

\* A paid order is handed over: once it is PAID, whatever overwrites that, an
\* order.paid for it reaches Kafka, or one of its order.paid rows is given up.
PaidIsHandedOver ==
  \A o \in Requests :
    orders[o] = "PAID" ~>
      \/ \E v \in delivered : v.order = o
      \/ \E v \in PaidRows : v.order = o /\ row[v] = "FAILED"
=============================================================================
