------------------------ MODULE MCShipmentConsumer ------------------------
(***************************************************************************)
(* Instances of ShipmentConsumer for TLC.                                  *)
(***************************************************************************)
EXTENDS ShipmentConsumer, TLC

CONSTANTS o1, o2, foreign, id1, d1

Event(id, type, o, detail) ==
  [event_id |-> id, type |-> type, order |-> o, detail |-> detail]

Shipped == Event(None, "order.shipped", o1, None)

\* Enough for the loop, which only sees that a message succeeds or fails: an
\* event may do either.
OneEvent == {Shipped}

\* What the handler and the use case tell apart: one shipment reported without
\* and with an id, another shipment of the order, another order's, one for an
\* order of another service, and messages without a value or an event in it.
AllKinds ==
  {Shipped, Event(id1, "order.shipped", o1, d1), Event(None, "order.shipped", o1, d1),
   Event(None, "order.shipped", o2, None), Event(None, "order.shipped", foreign, None),
   Empty, Malformed}

MCKnownOrders == {o1, o2}

\* Consumers are interchangeable; sound where no liveness is checked.
Symmetry == Permutations(Consumers)
=============================================================================
