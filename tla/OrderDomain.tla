---------------------------- MODULE OrderDomain ----------------------------
(***************************************************************************)
(* The vocabulary of the order service and its pure decision rules:        *)
(* order statuses, the two decisions that turn an incoming event into a    *)
(* status change (or none), and the outbox rows that go with a status.     *)
(***************************************************************************)

\* OrderStatus.
Status == {"NEW", "PAID", "SHIPPED", "CANCELLED"}

\* The statuses both decision rules refuse to leave.
Terminal == {"SHIPPED", "CANCELLED"}

\* An id with no row in the orders table (get_by_id returns None).
Absent == "absent"

\* A decision that leaves the order alone.
NoChange == "no change"

\* PaymentCallbackRequest.status after command.status.lower(): the two
\* outcomes, and every other string as "pending".
CallbackStatus == {"succeeded", "failed", "pending"}

\* ShipmentEventCommand.event_type: the two known types, and any other.
ShipmentType == {"order.shipped", "order.cancelled", "other"}

\* Mutant: any callback that is not a failure counts as a success.
PaymentTarget_PendingPays(status, callback) ==
  IF callback # "failed" /\ status \notin {"PAID"} \union Terminal THEN "PAID"
  ELSE IF callback = "failed" /\ status \notin {"PAID"} \union Terminal THEN "CANCELLED"
  ELSE NoChange

\* Mutant: a failed payment is logged and otherwise ignored.
PaymentTarget_FailureIgnored(status, callback) ==
  IF callback = "succeeded" /\ status \notin {"PAID"} \union Terminal
  THEN "PAID" ELSE NoChange

\* Mutant: a failed payment lets the customer try again.
PaymentTarget_FailureReopens(status, callback) ==
  IF callback = "succeeded" /\ status \notin {"PAID"} \union Terminal THEN "PAID"
  ELSE IF callback = "failed" /\ status \notin {"PAID"} \union Terminal THEN "NEW"
  ELSE NoChange

\* Mutant: the payment's status is stored as the order's.
PaymentTarget_StoredVerbatim(status, callback) ==
  IF status \notin {"PAID"} \union Terminal THEN callback ELSE NoChange

\* ProcessPaymentCallback's branches on the order's status as it was read.
PaymentTarget(status, callback) ==
  IF callback = "succeeded" /\ status \notin {"PAID"} \union Terminal THEN "PAID"
  ELSE IF callback = "failed" /\ status \notin {"PAID"} \union Terminal THEN "CANCELLED"
  ELSE NoChange

\* _apply_shipment_status: note that it does not ask for a PAID order.
ShipmentTarget(status, type) ==
  IF type = "order.shipped" /\ status \notin Terminal THEN "SHIPPED"
  ELSE IF type = "order.cancelled" /\ status \notin Terminal THEN "CANCELLED"
  ELSE NoChange

\* build_notification_outbox_for_order. `by' is the transaction that inserts
\* the row; with type and status it stands for the row's uuid4 primary key.
Notification(o, s, by) ==
  [type |-> "notification", status |-> s, order |-> o, by |-> by]

\* _order_paid_outbox_event, the one event that goes to Kafka.
OrderPaid(o, by) ==
  [type |-> "order.paid", status |-> "PAID", order |-> o, by |-> by]

\* Mutant: the callback forgets to enqueue order.paid.
EventsFor_NoOrderPaid(o, s, by) == {Notification(o, s, by)}

\* Mutant: a cancellation is not announced.
EventsFor_SilentCancel(o, s, by) ==
  (IF s = "CANCELLED" THEN {} ELSE {Notification(o, s, by)}) \union
  (IF s = "PAID" THEN {OrderPaid(o, by)} ELSE {})

\* The outbox rows a transaction inserts along with status s. PAID is set by
\* the payment callback alone, which is the one that also emits order.paid.
EventsFor(o, s, by) ==
  {Notification(o, s, by)} \union
  (IF s = "PAID" THEN {OrderPaid(o, by)} ELSE {})
=============================================================================
