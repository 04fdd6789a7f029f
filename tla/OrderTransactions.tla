------------------------- MODULE OrderTransactions -------------------------
(***************************************************************************)
(* The use cases that write orders (CreateOrder, ProcessPaymentCallback    *)
(* and ProcessShipmentEvent) as concurrent database transactions over the  *)
(* orders, outbox and inbox tables, with the Payments and Shipping         *)
(* services around them.                                                   *)
(*                                                                         *)
(* The database is PostgreSQL at its default READ COMMITTED isolation      *)
(* (create_engine sets no other): a SELECT sees what is committed when it  *)
(* runs and takes no lock, an UPDATE or an INSERT into a unique index      *)
(* waits for the transaction that holds the row or the key, and what a     *)
(* transaction wrote shows when it commits. A variable holds what is       *)
(* committed; the locks a transaction holds follow from its pc.            *)
(*                                                                         *)
(* Each member of Requests, Callbacks and Handlers is one call: a client's *)
(* POST /api/orders, a POST /api/orders/payment-callback, and one delivery *)
(* of a shipment event. An order is named by the request that creates it,  *)
(* which is what its uuid4 id amounts to.                                  *)
(***************************************************************************)
EXTENDS OrderDomain

CONSTANTS
  Requests,       \* calls of CreateOrder, and the orders they create
  Callbacks,      \* calls of ProcessPaymentCallback
  Handlers,       \* calls of ProcessShipmentEvent
  Keys,           \* idempotency keys
  KeyOf,          \* the key each request carries
  EventIds,       \* ids of shipment events
  ForeignOrders,  \* order ids this service never creates
  None

ASSUME DisjointCalls ==
  /\ Requests \intersect Callbacks = {}
  /\ Requests \intersect Handlers = {}
  /\ Callbacks \intersect Handlers = {}
  /\ ForeignOrders \intersect Requests = {}

ASSUME KeyOfAssumption == KeyOf \in [Requests -> Keys]

ASSUME NoneAssumption ==
  None \notin Requests \union ForeignOrders \union EventIds \union CallbackStatus

VARIABLES
  orders,     \* the orders table: status of each committed order, or Absent
  outbox,     \* the outbox table
  inbox,      \* the inbox table: event ids already processed
  payments,   \* the Payments service: how far each order's payment is
  shipments,  \* the shipment topic: the event published under each id
  pc,         \* where each call is
  order,      \* the order each call works on
  input,      \* a callback's status, a handler's event id
  target,     \* the status a call has decided to set, or NoChange
  loaded      \* the status that OrderRepository.update read back

vars == <<orders, outbox, inbox, payments, shipments,
          pc, order, input, target, loaded>>

locals == <<order, input, target, loaded>>

Calls == Requests \union Callbacks \union Handlers
Orders == Requests \union ForeignOrders

PaymentState == {"none", "requested", "pending", "succeeded", "failed"}

\* The Payments service took the payment on.
Accepted == {"pending", "succeeded", "failed"}

\* How a call ends: CreateOrder returns the order found under the key or the
\* one it made, or raises; the other two use cases apply the event, ignore it
\* or raise; "failed" is an exception or a crash at any point.
Final == {"existing", "created", "rejected", "conflict", "pay_error",
          "bad_response", "applied", "ignored", "duplicate", "not_found",
          "failed"}

PC == Final \union
      {"idle", "lookup", "catalog", "recheck", "insert", "commit_new", "pay",
       "paying", "cancel", "inbox", "load", "reread", "flush", "commit"}

Init ==
  /\ orders = [o \in Requests |-> Absent]
  /\ outbox = {}
  /\ inbox = {}
  /\ payments = [o \in Requests |-> "none"]
  /\ shipments = [e \in EventIds |-> None]
  /\ pc = [p \in Calls |-> "idle"]
  /\ order = [p \in Calls |-> IF p \in Requests THEN p ELSE None]
  /\ input = [p \in Calls |-> None]
  /\ target = [p \in Calls |-> NoChange]
  /\ loaded = [p \in Calls |-> Absent]

Goto(p, from, to) == pc[p] = from /\ pc' = [pc EXCEPT ![p] = to]

Committed(o) == o \in Requests /\ orders[o] # Absent

\* get_by_idempotency_key: the committed orders under key k.
ByKey(k) == {o \in Requests : orders[o] # Absent /\ KeyOf[o] = k}

-----------------------------------------------------------------------------
(* CreateOrder *)

\* POST /api/orders arrives.
Post(r) ==
  /\ Goto(r, "idle", "lookup")
  /\ UNCHANGED <<orders, outbox, inbox, payments, shipments, locals>>

\* Mutant: a repeated POST asks for the payment of the order it finds.
Lookup_AsksAgain(r) ==
  /\ Goto(r, "lookup", IF ByKey(KeyOf[r]) # {} THEN "pay" ELSE "catalog")
  /\ UNCHANGED <<orders, outbox, inbox, payments, shipments, locals>>

\* The first unit of work: an order under this key is returned as it is.
Lookup(r) ==
  /\ Goto(r, "lookup", IF ByKey(KeyOf[r]) # {} THEN "existing" ELSE "catalog")
  /\ UNCHANGED <<orders, outbox, inbox, payments, shipments, locals>>

\* catalog.get_item and the stock comparison: go on, or raise (item missing,
\* service unavailable, insufficient stock).
Catalog(r) ==
  /\ \E next \in {"recheck", "rejected"} : Goto(r, "catalog", next)
  /\ UNCHANGED <<orders, outbox, inbox, payments, shipments, locals>>

\* The second unit of work looks the key up again.
Recheck(r) ==
  /\ Goto(r, "recheck", IF ByKey(KeyOf[r]) # {} THEN "existing" ELSE "insert")
  /\ UNCHANGED <<orders, outbox, inbox, payments, shipments, locals>>

\* Mutant: no unique index on idempotency_key.
Insert_NoUniqueIndex(r) ==
  /\ Goto(r, "insert", "commit_new")
  /\ UNCHANGED <<orders, outbox, inbox, payments, shipments, locals>>

\* orders.add flushes the INSERT. The unique index on idempotency_key makes
\* it wait for an uncommitted row with this key; a committed one raises
\* IntegrityError, which nothing catches.
Insert(r) ==
  /\ \A q \in Requests : pc[q] = "commit_new" => KeyOf[q] # KeyOf[r]
  /\ Goto(r, "insert", IF ByKey(KeyOf[r]) # {} THEN "conflict" ELSE "commit_new")
  /\ UNCHANGED <<orders, outbox, inbox, payments, shipments, locals>>

\* outbox.add of the NEW notification, then uow.commit.
CommitNew(r) ==
  /\ Goto(r, "commit_new", "pay")
  /\ orders' = [orders EXCEPT ![r] = "NEW"]
  /\ outbox' = outbox \union EventsFor(r, "NEW", r)
  /\ UNCHANGED <<inbox, payments, shipments, locals>>

\* create_payment sends its request, outside any transaction.
SendPayment(r) ==
  /\ Goto(r, "pay", "paying")
  /\ payments' = [payments EXCEPT ![r] = "requested"]
  /\ UNCHANGED <<orders, outbox, inbox, shipments, locals>>

\* Mutant: a payment error is raised to the client at once.
PaymentAnswer_NoCompensation(r) ==
  /\ \/ payments[r] \in Accepted /\ Goto(r, "paying", "created")
     \/ Goto(r, "paying", "pay_error")
     \/ Goto(r, "paying", "bad_response")
  /\ UNCHANGED <<orders, outbox, inbox, payments, shipments, locals>>

\* Mutant: no timeout on the HTTP client.
PaymentAnswer_NoTimeout(r) ==
  /\ payments[r] \in Accepted
  /\ \E next \in {"created", "cancel", "bad_response"} : Goto(r, "paying", next)
  /\ UNCHANGED <<orders, outbox, inbox, payments, shipments, locals>>

\* The answer to create_payment: the payment; an HTTP error, an error status
\* or the 10 s timeout (PaymentsServiceError), whether or not the service
\* took the payment on; or a body that does not parse, whose exception is not
\* a PaymentsServiceError and leaves CreateOrder as it is.
PaymentAnswer(r) ==
  /\ \/ payments[r] \in Accepted /\ Goto(r, "paying", "created")
     \/ Goto(r, "paying", "cancel")
     \/ Goto(r, "paying", "bad_response")
  /\ UNCHANGED <<orders, outbox, inbox, payments, shipments, locals>>

\* The third unit of work, after a PaymentsServiceError: cancel the order if
\* it is still NEW, and raise either way.
LoadToCancel(r) ==
  /\ IF orders[r] = "NEW"
     THEN /\ Goto(r, "cancel", "reread")
          /\ target' = [target EXCEPT ![r] = "CANCELLED"]
     ELSE Goto(r, "cancel", "pay_error") /\ UNCHANGED target
  /\ UNCHANGED <<orders, outbox, inbox, payments, shipments, order, input, loaded>>

-----------------------------------------------------------------------------
(* ProcessPaymentCallback *)

\* The callbacks the Payments service may have sent for order o: one per
\* status its payment has had. Ids this service never made come with any.
CallbacksFor(o) ==
  IF o \in ForeignOrders THEN CallbackStatus
  ELSE IF payments[o] \in Accepted THEN {"pending", payments[o]} ELSE {}

\* POST /api/orders/payment-callback arrives; late and repeated deliveries
\* are further calls.
Callback(c) ==
  /\ Goto(c, "idle", "load")
  /\ \E o \in Orders : \E s \in CallbacksFor(o) :
       /\ order' = [order EXCEPT ![c] = o]
       /\ input' = [input EXCEPT ![c] = s]
  /\ UNCHANGED <<orders, outbox, inbox, payments, shipments, target, loaded>>

\* get_by_id and the branches on the status read.
LoadForPayment(c) ==
  LET t == PaymentTarget(orders[order[c]], input[c])
  IN /\ \/ ~Committed(order[c]) /\ Goto(c, "load", "not_found") /\ UNCHANGED target
        \/ /\ Committed(order[c])
           /\ Goto(c, "load", IF t = NoChange THEN "ignored" ELSE "reread")
           /\ target' = [target EXCEPT ![c] = t]
     /\ UNCHANGED <<orders, outbox, inbox, payments, shipments, order, input, loaded>>

-----------------------------------------------------------------------------
(* ProcessShipmentEvent *)

\* The consumer hands an event of the topic to the use case; a redelivery is
\* another call.
Deliver(h) ==
  /\ Goto(h, "idle", "inbox")
  /\ \E e \in EventIds :
       /\ shipments[e] # None
       /\ order' = [order EXCEPT ![h] = shipments[e].order]
       /\ input' = [input EXCEPT ![h] = e]
  /\ UNCHANGED <<orders, outbox, inbox, payments, shipments, target, loaded>>

\* h has inserted its inbox row and has not ended its transaction.
HoldsInbox(h) == pc[h] \in {"load", "reread", "flush", "commit"}

\* Mutant: a lookup before the insert instead of ON CONFLICT DO NOTHING.
InboxAdd_CheckFirst(h) ==
  /\ Goto(h, "inbox", IF input[h] \in inbox THEN "duplicate" ELSE "load")
  /\ UNCHANGED <<orders, outbox, inbox, payments, shipments, locals>>

\* inbox.add: INSERT ... ON CONFLICT (event_id) DO NOTHING waits for an
\* uncommitted row with this event id, and inserts nothing over a committed
\* one.
InboxAdd(h) ==
  /\ \A g \in Handlers : HoldsInbox(g) => input[g] # input[h]
  /\ Goto(h, "inbox", IF input[h] \in inbox THEN "duplicate" ELSE "load")
  /\ UNCHANGED <<orders, outbox, inbox, payments, shipments, locals>>

\* Mutant: an event for an unknown order is committed as seen.
LoadForShipment_UnknownSeen(h) ==
  LET t == ShipmentTarget(orders[order[h]], shipments[input[h]].type)
  IN /\ \/ ~Committed(order[h]) /\ Goto(h, "load", "commit") /\ UNCHANGED target
        \/ /\ Committed(order[h])
           /\ Goto(h, "load", IF t = NoChange THEN "commit" ELSE "reread")
           /\ target' = [target EXCEPT ![h] = t]
     /\ UNCHANGED <<orders, outbox, inbox, payments, shipments, order, input, loaded>>

\* get_by_id and _apply_shipment_status. An unknown order raises, which rolls
\* the inbox row back; an event that changes nothing is committed as seen.
LoadForShipment(h) ==
  LET t == ShipmentTarget(orders[order[h]], shipments[input[h]].type)
  IN /\ \/ ~Committed(order[h]) /\ Goto(h, "load", "not_found") /\ UNCHANGED target
        \/ /\ Committed(order[h])
           /\ Goto(h, "load", IF t = NoChange THEN "commit" ELSE "reread")
           /\ target' = [target EXCEPT ![h] = t]
     /\ UNCHANGED <<orders, outbox, inbox, payments, shipments, order, input, loaded>>

-----------------------------------------------------------------------------
(* The rest of a transaction that changes an order *)

\* OrderRepository.update selects the row again (the model that get_by_id
\* loaded is gone from the weak identity map) and decides nothing anew.
Reread(p) ==
  /\ Goto(p, "reread", "flush")
  /\ loaded' = [loaded EXCEPT ![p] = orders[order[p]]]
  /\ UNCHANGED <<orders, outbox, inbox, payments, shipments, order, input, target>>

\* p has updated the row of order o and has not ended its transaction.
HoldsRow(p, o) == pc[p] = "commit" /\ order[p] = o /\ target[p] # NoChange

\* The flushed UPDATE ... WHERE id waits for the row's lock.
Flush(p) ==
  /\ \A q \in Calls : ~HoldsRow(q, order[p])
  /\ Goto(p, "flush", "commit")
  /\ UNCHANGED <<orders, outbox, inbox, payments, shipments, locals>>

\* Mutant: the status is committed before the outbox rows are added.
Commit_EventsLost(p) ==
  /\ Goto(p, "commit", IF p \in Requests THEN "pay_error" ELSE "applied")
  /\ orders' = IF target[p] \in {NoChange, loaded[p]} THEN orders
               ELSE [orders EXCEPT ![order[p]] = target[p]]
  /\ outbox' = outbox
  /\ inbox' = IF p \in Handlers THEN inbox \union {input[p]} ELSE inbox
  /\ UNCHANGED <<payments, shipments, locals>>

\* outbox.add and uow.commit. SQLAlchemy writes the status column only if it
\* differs from the value that update read back.
Commit(p) ==
  /\ Goto(p, "commit", IF p \in Requests THEN "pay_error" ELSE "applied")
  /\ orders' = IF target[p] \in {NoChange, loaded[p]} THEN orders
               ELSE [orders EXCEPT ![order[p]] = target[p]]
  /\ outbox' = IF target[p] = NoChange THEN outbox
               ELSE outbox \union EventsFor(order[p], target[p], p)
  /\ inbox' = IF p \in Handlers THEN inbox \union {input[p]} ELSE inbox
  /\ UNCHANGED <<payments, shipments, locals>>

\* A database error, a cancelled task or a crash of the process: the open
\* transaction is rolled back (UnitOfWork.__aexit__, or the server when the
\* connection drops), what was committed stays, and nothing resumes the call.
Fail(p) ==
  /\ pc[p] \notin Final \union {"idle"}
  /\ pc' = [pc EXCEPT ![p] = "failed"]
  /\ UNCHANGED <<orders, outbox, inbox, payments, shipments, locals>>

-----------------------------------------------------------------------------
(* The services around *)

\* Payments takes on a payment it was asked for, perhaps after the caller
\* stopped waiting.
AcceptPayment(o) ==
  /\ payments[o] = "requested"
  /\ payments' = [payments EXCEPT ![o] = "pending"]
  /\ UNCHANGED <<orders, outbox, inbox, shipments, pc, locals>>

SettlePayment(o) ==
  /\ payments[o] = "pending"
  /\ \E s \in {"succeeded", "failed"} : payments' = [payments EXCEPT ![o] = s]
  /\ UNCHANGED <<orders, outbox, inbox, shipments, pc, locals>>

\* Shipping publishes an event about an order of another service, or about
\* one it has seen order.paid for.
PublishShipment(e) ==
  /\ shipments[e] = None
  /\ \E o \in Orders, t \in ShipmentType :
       /\ o \in Requests => \E v \in outbox : v.type = "order.paid" /\ v.order = o
       /\ shipments' = [shipments EXCEPT ![e] = [order |-> o, type |-> t]]
  /\ UNCHANGED <<orders, outbox, inbox, payments, pc, locals>>

Environment ==
  \/ \E o \in Requests : AcceptPayment(o) \/ SettlePayment(o)
  \/ \E e \in EventIds : PublishShipment(e)

Arrive ==
  \/ \E r \in Requests : Post(r)
  \/ \E c \in Callbacks : Callback(c)
  \/ \E h \in Handlers : Deliver(h)

CreateStep(r) ==
  \/ Lookup(r) \/ Catalog(r) \/ Recheck(r) \/ Insert(r) \/ CommitNew(r)
  \/ SendPayment(r) \/ PaymentAnswer(r) \/ LoadToCancel(r)

HandlerStep(h) == InboxAdd(h) \/ LoadForShipment(h)

UpdateStep(p) == Reread(p) \/ Flush(p) \/ Commit(p)

Next ==
  \/ Arrive
  \/ Environment
  \/ \E r \in Requests : CreateStep(r)
  \/ \E c \in Callbacks : LoadForPayment(c)
  \/ \E h \in Handlers : HandlerStep(h)
  \/ \E p \in Calls : UpdateStep(p) \/ Fail(p)

Spec == Init /\ [][Next]_vars

\* The event loop runs every call that can go on, and every wait ends: HTTP
\* clients time out, and the holder of a lock commits or rolls back.
Fairness ==
  /\ \A r \in Requests : WF_vars(CreateStep(r))
  /\ \A c \in Callbacks : WF_vars(LoadForPayment(c))
  /\ \A h \in Handlers : WF_vars(HandlerStep(h))
  /\ \A p \in Calls : WF_vars(UpdateStep(p))

FairSpec == Spec /\ Fairness

-----------------------------------------------------------------------------
(* Properties *)

OutboxRow == [type : {"order.paid", "notification"}, status : Status,
              order : Requests, by : Calls]

\* Every variable keeps its shape; in particular only known orders, known
\* statuses and known calls reach the outbox.
TypeOK ==
  /\ orders \in [Requests -> Status \union {Absent}]
  /\ outbox \subseteq OutboxRow
  /\ inbox \subseteq EventIds
  /\ payments \in [Requests -> PaymentState]
  /\ shipments \in [EventIds -> [order : Orders, type : ShipmentType] \union {None}]
  /\ pc \in [Calls -> PC]
  /\ order \in [Calls -> Orders \union {None}]
  /\ input \in [Calls -> CallbackStatus \union EventIds \union {None}]
  /\ target \in [Calls -> Status \union {NoChange}]
  /\ loaded \in [Calls -> Status \union {Absent}]

\* One idempotency key buys one order, however the lookups of concurrent
\* POSTs interleave (create_order.py looks the key up twice; the unique
\* index decides).
UniqueKey ==
  \A o, q \in Requests :
    orders[o] # Absent /\ orders[q] # Absent /\ KeyOf[o] = KeyOf[q] => o = q

\* The customer is asked for money once per idempotency key: no two requests
\* with the same key ever both call create_payment.
OnePaymentPerKey ==
  \A r, q \in Requests :
    payments[r] # "none" /\ payments[q] # "none" /\ KeyOf[r] = KeyOf[q] => r = q

\* What readers of the outbox are promised; see TransactionalOutbox.
Outbox == INSTANCE TransactionalOutbox
            WITH Orders <- Requests, Senders <- Calls, status <- orders

\* The overlapping transactions of the use cases implement the outbox that
\* changes a status and announces it in one step: no row without its change,
\* no change without its rows, no transaction that announces two changes,
\* and nothing SHIPPED before its order.paid.
ImplementsOutbox == Outbox!Spec

\* Whatever races overwrote it with, an order's status has been notified.
StatusAnnounced == Outbox!StatusAnnounced

\* No interleaving leaves an order PAID or SHIPPED without its order.paid,
\* given that Shipping publishes events about orders it was told of only:
\* _apply_shipment_status itself would ship an order that is NEW.
PaidIsPublished == Outbox!PaidIsPublished

\* Nothing is handed to Shipping without money: order.paid enters the outbox
\* only for an order whose payment has succeeded at the Payments service.
PaidIsBacked ==
  \A v \in outbox : v.type = "order.paid" => payments[v.order] = "succeeded"

\* "Apply Shipping events idempotently via inbox": concurrent deliveries of
\* an event apply it once, and it is in the inbox exactly if one did.
AppliedOnce ==
  \A e \in EventIds :
    /\ \A g, h \in Handlers :
         /\ pc[g] = "applied" /\ input[g] = e
         /\ pc[h] = "applied" /\ input[h] = e
         => g = h
    /\ e \in inbox <=> \E h \in Handlers : pc[h] = "applied" /\ input[h] = e

\* An event is recorded as seen only if its order exists: one that cannot be
\* applied yet, or names another service's order, stays open to redelivery.
SeenOrderExists ==
  \A e \in inbox : Committed(shipments[e].order)

\* A client told that the payment failed has no NEW order left behind: by
\* then the order was cancelled, or another transaction had moved it.
PaymentErrorCompensated ==
  \A r \in Requests : pc[r] = "pay_error" => orders[r] \notin {Absent, "NEW"}

\* An order no payment was asked for is still NEW, and its creator is about
\* to ask or died before it did (a crash, or an amount that cannot be
\* quantized). Repeated POSTs are answered with it as it is ("existing"), and
\* none of them asks for the payment in the creator's place or hears anything
\* else of the order: its key is spent on an order that stays unpaid.
StrandedByCrashOnly ==
  \A o \in Requests :
    orders[o] # Absent /\ payments[o] = "none" =>
      /\ orders[o] = "NEW" /\ pc[o] \in {"pay", "failed"}
      /\ \A q \in Requests : KeyOf[q] = KeyOf[o] =>
           payments[q] = "none" /\ pc[q] \notin {"created", "pay_error", "bad_response"}

\* A callback that was answered 200 with an outcome is not lost: the order
\* has left NEW, so the Payments service need not call again.
AnsweredCallbackRecorded ==
  \A c \in Callbacks :
    pc[c] \in {"applied", "ignored"} /\ input[c] # "pending"
      => orders[order[c]] \notin {Absent, "NEW"}

\* Orders are never deleted and never go back to NEW, whatever is overwritten.
NeverBackToNew ==
  [][\A o \in Requests :
       orders[o] # Absent => orders'[o] \in {orders[o]} \union (Status \ {"NEW"})]_vars

\* A payment is announced to Shipping once (the repeated callback of
\* test_stage3_flows.py adds no second order.paid).
OneOrderPaid ==
  \A v, w \in outbox :
    v.type = "order.paid" /\ w.type = "order.paid" /\ v.order = w.order => v = w

\* A terminal status is not left: process_payment_callback.py ignores
\* callbacks, and _apply_shipment_status events, that would leave one.
TerminalIsFinal ==
  [][\A o \in Requests : orders[o] \in Terminal => orders'[o] = orders[o]]_vars

\* A repeated POST is answered with the order that exists under its key
\* (test_create_order_idempotent), never with an error about it.
RepeatGetsOrder ==
  \A r \in Requests : pc[r] # "conflict"

\* Every call ends: the waits for the key, the inbox row and the order's row
\* never close a cycle.
EveryCallEnds ==
  \A p \in Calls : pc[p] # "idle" ~> pc[p] \in Final
=============================================================================
