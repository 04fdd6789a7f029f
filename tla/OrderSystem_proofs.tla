------------------------- MODULE OrderSystem_proofs -------------------------
(***************************************************************************)
(* Proofs about OrderSystem: what the theorems of OrderTransactions and    *)
(* the promise of the relay give together. Composition carries every       *)
(* theorem about the use cases over to the whole system; SystemInv adds    *)
(* what ties the outbox to the relay and the relay to Shipping.            *)
(***************************************************************************)
EXTENDS OrderSystem, OrderTransactions_proofs

\* Shipping has got an order.paid of order o.
Told(o) == \E v \in delivered : v.order = o

RelayTypeOK ==
  /\ row \in [PaidRows -> {"absent", "PENDING", "SENT", "FAILED"}]
  /\ delivered \subseteq PaidRows

\* The relay knows an order.paid row exactly if it is committed, and what it
\* has delivered or calls SENT follows from that.
RowsInOutbox ==
  /\ \A v \in PaidRows : v \in outbox <=> row[v] # "absent"
  /\ \A v \in delivered : row[v] # "absent"
  /\ \A v \in PaidRows : row[v] = "SENT" => v \in delivered

\* Payment callbacks alone decide PAID, and so alone write order.paid rows.
PaidByCallback ==
  /\ \A p \in Calls : target[p] = "PAID" => p \in Callbacks
  /\ \A v \in outbox : v.type = "order.paid" => v \in PaidRows

\* Whatever says that an order of ours is shipped (an event on the topic, a
\* transaction in flight, the orders table) came after Shipping was told.
ToldFirst ==
  /\ \A e \in EventIds :
       shipments[e] # None /\ shipments[e].order \in Requests => Told(shipments[e].order)
  /\ \A p \in Calls : Updating(p) /\ target[p] = "SHIPPED" => Told(order[p])
  /\ \A o \in Requests : orders[o] = "SHIPPED" => Told(o)

SystemInv == RelayTypeOK /\ RowsInOutbox /\ PaidByCallback /\ ToldFirst

-----------------------------------------------------------------------------
(* Lemmas *)

\* The system takes the steps of the use cases, or none of theirs.
LEMMA SystemStep ==
  ASSUME [SystemNext]_systemVars
  PROVE  [Next]_vars
  BY DEF SystemNext, systemVars, Transact, RelayStep

LEMMA PaidRowFields ==
  ASSUME NEW v \in PaidRows
  PROVE  v.type = "order.paid" /\ v.order \in Requests
  BY DEF PaidRows, OrderPaid

\* The order.paid row a step adds is that of a call which commits PAID.
LEMMA NewPaidRow ==
  ASSUME Inv, Next, NEW v \in outbox', v \notin outbox, v.type = "order.paid"
  PROVE  \E p \in Calls : /\ Commit(p)
                          /\ target[p] = "PAID"
                          /\ order[p] \in Requests
                          /\ v = OrderPaid(order[p], p)
<1>1. ASSUME NEW r \in Requests, v \in EventsFor(r, "NEW", r)
      PROVE  FALSE
  BY <1>1 DEF EventsFor, Notification
<1>2. ASSUME NEW p \in Calls, Commit(p), target[p] # NoChange,
             v \in EventsFor(order[p], target[p], p)
      PROVE  target[p] = "PAID" /\ order[p] \in Requests /\ v = OrderPaid(order[p], p)
  <2>1. target[p] = "PAID" /\ v = OrderPaid(order[p], p)
    BY <1>2 DEF EventsFor, Notification
  <2>2. Backed(p)
    BY <1>2 DEF Commit, Goto, Inv, Decisions, Updating
  <2> QED
    BY <2>1, <2>2 DEF Backed
<1> QED
  BY <1>1, <1>2, NewRows

\* One step adds one order.paid row at most.
LEMMA OnePaidRow ==
  ASSUME Inv, Next,
         NEW v \in outbox', v \notin outbox, v.type = "order.paid",
         NEW w \in outbox', w \notin outbox, w.type = "order.paid"
  PROVE  v = w
<1>1. PICK p \in Calls : Commit(p) /\ v = OrderPaid(order[p], p)
  BY NewPaidRow
<1>2. PICK q \in Calls : Commit(q) /\ w = OrderPaid(order[q], q)
  BY NewPaidRow
<1>3. p = q
  BY <1>1, <1>2 DEF Commit, Goto, Inv, TypeOK
<1> QED
  BY <1>1, <1>2, <1>3

-----------------------------------------------------------------------------
(* Each part of SystemInv is preserved by every step *)

LEMMA RelaySide ==
  ASSUME SystemInv, NEW v \in PaidRows, RelayStep(v)
  PROVE  SystemInv' /\ delivered \subseteq delivered'
<1> USE DEF SystemInv
<1>1. RelayTypeOK' /\ delivered \subseteq delivered'
  BY DEF RelayTypeOK, RelayStep, Relay!Deliver, Relay!Settle
<1>2. RowsInOutbox'
  BY DEF RelayTypeOK, RowsInOutbox, RelayStep, Relay!Deliver, Relay!Settle, vars
<1>3. PaidByCallback'
  BY DEF PaidByCallback, RelayStep, vars, locals
<1>4. ToldFirst'
  BY <1>1 DEF ToldFirst, Told, Updating, RelayStep, vars, locals
<1> QED
  BY <1>1, <1>2, <1>3, <1>4

LEMMA RowsStep ==
  ASSUME Inv, SystemInv, Transact
  PROVE  RelayTypeOK' /\ RowsInOutbox'
<1> USE DEF SystemInv, RelayTypeOK, Transact
<1>1. RelayTypeOK'
  BY DEF Enqueue
<1>2. \A v \in PaidRows : row'[v] = IF v \in outbox' \ outbox THEN "PENDING" ELSE row[v]
  BY DEF Enqueue
<1>3. outbox \subseteq outbox'
  BY OutboxStep
<1> QED
  BY <1>1, <1>2, <1>3 DEF RowsInOutbox

\* What a step may do to the decision of a call.
LEMMA TargetStep ==
  ASSUME Inv, Next, NEW p \in Calls
  PROVE  \/ target'[p] = target[p]
         \/ target'[p] = "CANCELLED"
         \/ p \in Callbacks /\ target'[p] \in {"PAID", "CANCELLED", NoChange}
         \/ /\ p \in Handlers
            /\ LoadForShipment(p)
            /\ target'[p] \in {"SHIPPED", "CANCELLED", NoChange}
<1> USE DEF Inv, TypeOK, Calls
<1>1. ASSUME NEW r \in Requests, LoadToCancel(r)
      PROVE  target'[p] = target[p] \/ target'[p] = "CANCELLED"
  BY <1>1 DEF LoadToCancel
<1>2. ASSUME NEW c \in Callbacks, LoadForPayment(c)
      PROVE  \/ target'[p] = target[p]
             \/ p \in Callbacks /\ target'[p] \in {"PAID", "CANCELLED", NoChange}
  BY <1>2 DEF LoadForPayment, PaymentTarget
<1>3. ASSUME NEW h \in Handlers, LoadForShipment(h)
      PROVE  \/ target'[p] = target[p]
             \/ p = h /\ target'[p] \in {"SHIPPED", "CANCELLED", NoChange}
  BY <1>3 DEF LoadForShipment, ShipmentTarget
<1>4. \/ UNCHANGED target
      \/ \E r \in Requests : LoadToCancel(r)
      \/ \E c \in Callbacks : LoadForPayment(c)
      \/ \E h \in Handlers : LoadForShipment(h)
  BY DEF Next, Arrive, Environment, CreateStep, HandlerStep, UpdateStep, Post, Callback, Deliver,
         AcceptPayment, SettlePayment, PublishShipment, Lookup, Catalog, Recheck, Insert,
         CommitNew, SendPayment, PaymentAnswer, InboxAdd, Reread, Flush, Commit, Fail, locals
<1> QED
  BY <1>1, <1>2, <1>3, <1>4

LEMMA PaidByStep ==
  ASSUME Inv, SystemInv, Next
  PROVE  PaidByCallback'
<1>1. ASSUME NEW p \in Calls, target'[p] = "PAID"
      PROVE  p \in Callbacks
  BY <1>1, TargetStep DEF SystemInv, PaidByCallback, NoChange
<1>2. ASSUME NEW v \in outbox', v.type = "order.paid"
      PROVE  v \in PaidRows
  <2>1. CASE v \in outbox
    BY <1>2, <2>1 DEF SystemInv, PaidByCallback
  <2>2. CASE v \notin outbox
    BY <1>2, <2>2, NewPaidRow DEF SystemInv, PaidByCallback, PaidRows
  <2> QED
    BY <2>1, <2>2
<1> QED
  BY <1>1, <1>2 DEF PaidByCallback

\* A transaction in flight with a decision already had it and works on the
\* same order, or has just loaded the order and decided.
LEMMA UpdatingStep ==
  ASSUME Inv, Next, NEW p \in Calls, Updating(p)', target'[p] = "SHIPPED"
  PROVE  /\ order'[p] = order[p]
         /\ \/ Updating(p) /\ target[p] = "SHIPPED"
            \/ p \in Handlers /\ LoadForShipment(p)
<1> USE DEF Inv, TypeOK, Calls, Goto, Updating, locals
<1>1. ASSUME NEW r \in Requests, Post(r) \/ CreateStep(r)
      PROVE  order'[p] = order[p] /\ Updating(p) /\ target[p] = "SHIPPED"
  BY <1>1 DEF Post, CreateStep, Lookup, Catalog, Recheck, Insert, CommitNew, SendPayment,
              PaymentAnswer, LoadToCancel
<1>2. ASSUME NEW c \in Callbacks, Callback(c) \/ LoadForPayment(c)
      PROVE  order'[p] = order[p] /\ Updating(p) /\ target[p] = "SHIPPED"
  BY <1>2 DEF Callback, LoadForPayment, PaymentTarget, NoChange
<1>3. ASSUME NEW h \in Handlers, Deliver(h) \/ HandlerStep(h)
      PROVE  /\ order'[p] = order[p]
             /\ \/ Updating(p) /\ target[p] = "SHIPPED"
                \/ p = h /\ LoadForShipment(p)
  BY <1>3 DEF Deliver, HandlerStep, InboxAdd, LoadForShipment
<1>4. ASSUME NEW q \in Calls, UpdateStep(q) \/ Fail(q)
      PROVE  order'[p] = order[p] /\ Updating(p) /\ target[p] = "SHIPPED"
  BY <1>4 DEF UpdateStep, Reread, Flush, Commit, Fail, NoChange
<1>5. CASE Environment
  BY <1>5 DEF Environment, AcceptPayment, SettlePayment, PublishShipment
<1> QED
  BY <1>1, <1>2, <1>3, <1>4, <1>5 DEF Next, Arrive

LEMMA ToldStep ==
  ASSUME Inv, SystemInv, Transact
  PROVE  ToldFirst'
<1> USE DEF SystemInv, Transact
<1>1. \A o : Told(o)' <=> Told(o)
  BY DEF Told
<1>2. ASSUME NEW e \in EventIds, shipments'[e] # None, shipments'[e].order \in Requests
      PROVE  Told(shipments'[e].order)
  BY <1>2 DEF ShippingHeard, ToldFirst, Told
<1>3. ASSUME NEW p \in Calls, Updating(p)', target'[p] = "SHIPPED"
      PROVE  Told(order'[p])
  <2>1. CASE Updating(p) /\ target[p] = "SHIPPED"
    BY <1>3, <2>1, UpdatingStep DEF ToldFirst
  <2>2. CASE p \in Handlers /\ LoadForShipment(p)
    <3>1. Committed(order[p])
      BY <1>3, <2>2 DEF LoadForShipment, Goto, Updating, Inv, TypeOK
    <3>2. input[p] \in EventIds /\ shipments[input[p]] # None
          /\ order[p] = shipments[input[p]].order
      BY <2>2 DEF LoadForShipment, Goto, Inv, Inputs
    <3> QED
      BY <1>3, <3>1, <3>2, UpdatingStep DEF Committed, ToldFirst
  <2> QED
    BY <1>3, <2>1, <2>2, UpdatingStep
<1>4. ASSUME NEW o \in Requests, orders'[o] = "SHIPPED"
      PROVE  Told(o)
  <2>1. CASE orders[o] = "SHIPPED"
    BY <2>1 DEF ToldFirst
  <2>2. ASSUME NEW p \in Calls, Commit(p), orders[o] # "SHIPPED"
        PROVE  Told(o)
    <3>1. order[p] = o /\ target[p] = "SHIPPED"
      BY <1>4, <2>2 DEF Commit, Inv, TypeOK
    <3> QED
      BY <2>2, <3>1 DEF Commit, Goto, Updating, NoChange, ToldFirst
  <2>3. ASSUME NEW r \in Requests, CommitNew(r)
        PROVE  orders[o] = "SHIPPED"
    BY <1>4, <2>3 DEF CommitNew, Inv, TypeOK
  <2>4. \/ UNCHANGED orders
        \/ \E r \in Requests : CommitNew(r)
        \/ \E p \in Calls : Commit(p)
    BY DEF Next, Arrive, Environment, CreateStep, HandlerStep, UpdateStep, Post, Callback, Deliver,
           AcceptPayment, SettlePayment, PublishShipment, Lookup, Catalog, Recheck, Insert,
           SendPayment, PaymentAnswer, LoadToCancel, LoadForPayment, InboxAdd, LoadForShipment,
           Reread, Flush, Fail
  <2> QED
    BY <1>4, <2>1, <2>2, <2>3, <2>4
<1> QED
  BY <1>1, <1>2, <1>3, <1>4 DEF ToldFirst

LEMMA SystemInvInit == SystemInit => SystemInv
<1> SUFFICES ASSUME SystemInit PROVE SystemInv
  OBVIOUS
<1> USE DEF SystemInit, Init, Relay!Init
<1>1. RelayTypeOK /\ RowsInOutbox
  BY DEF RelayTypeOK, RowsInOutbox
<1>2. PaidByCallback /\ ToldFirst
  BY DEF PaidByCallback, ToldFirst, Updating, NoChange, Absent
<1> QED
  BY <1>1, <1>2 DEF SystemInv

LEMMA SystemInvStep == Inv /\ SystemInv /\ [SystemNext]_systemVars => SystemInv'
<1>1. ASSUME Inv, SystemInv, Transact
      PROVE  SystemInv'
  BY <1>1, RowsStep, PaidByStep, ToldStep DEF SystemInv, Transact
<1>2. ASSUME SystemInv, UNCHANGED systemVars
      PROVE  SystemInv'
  BY <1>2 DEF systemVars, vars, locals, SystemInv, RelayTypeOK, RowsInOutbox, PaidByCallback,
              ToldFirst, Told, Updating
<1> QED
  BY <1>1, <1>2, RelaySide DEF SystemNext

-----------------------------------------------------------------------------
(* The theorems *)

\* The use cases inside the system do nothing they do not do alone: every
\* theorem of OrderTransactions_proofs holds of the whole.
THEOREM Composition == SystemSpec => Spec
<1>1. SystemInit => Init
  BY DEF SystemInit
<1>2. [SystemNext]_systemVars => [Next]_vars
  BY SystemStep
<1> QED
  BY <1>1, <1>2, PTL DEF SystemSpec, Spec

\* SystemInv is an invariant of the composed system, with the use cases' own.
THEOREM SystemInvariance == SystemSpec => [](Inv /\ SystemInv)
<1>1. SystemSpec => []Inv
  BY Composition, Invariance, PTL
<1> QED
  BY <1>1, SystemInvInit, SystemInvStep, PTL DEF SystemSpec

\* Shipping is told of an order only after its payment succeeded, and an
\* order is SHIPPED only if Shipping was told of it.
THEOREM HandOverIsEarned == SystemSpec => []HandOverIsBacked
<1>1. ASSUME Inv, SystemInv, NEW v \in delivered
      PROVE  payments[v.order] = "succeeded"
  <2>1. v \in PaidRows /\ v \in outbox
    BY <1>1 DEF SystemInv, RelayTypeOK, RowsInOutbox
  <2> QED
    BY <1>1, <2>1, PaidRowFields DEF Inv, PaidIsBacked
<1>2. Inv /\ SystemInv => HandOverIsBacked
  BY <1>1 DEF SystemInv, ToldFirst, Told, HandOverIsBacked
<1> QED
  BY <1>2, SystemInvariance, PTL

\* An order.paid is never lost between the two: one for every order that is
\* PAID or SHIPPED is waiting in the relay, has reached Kafka, or was given up.
THEOREM PaidIsWithTheRelay ==
  SystemSpec => [](\A o \in Requests : orders[o] \in {"PAID", "SHIPPED"} =>
                     \E v \in PaidRows :
                       /\ v.order = o
                       /\ v \in delivered \/ row[v] \in {"PENDING", "FAILED"})
<1> DEFINE WithRelay == \A o \in Requests : orders[o] \in {"PAID", "SHIPPED"} =>
                          \E v \in PaidRows :
                            /\ v.order = o
                            /\ v \in delivered \/ row[v] \in {"PENDING", "FAILED"}
<1>1. ASSUME Inv, SystemInv, NEW o \in Requests, orders[o] \in {"PAID", "SHIPPED"}
      PROVE  \E v \in PaidRows :
               v.order = o /\ (v \in delivered \/ row[v] \in {"PENDING", "FAILED"})
  <2>1. PICK v \in outbox : v.type = "order.paid" /\ v.order = o
    BY <1>1 DEF Inv, PaidIsPublished, Outbox!PaidIsPublished, Outbox!PaidEvent
  <2>2. v \in PaidRows /\ row[v] # "absent"
    BY <1>1, <2>1 DEF SystemInv, PaidByCallback, RowsInOutbox
  <2> QED
    BY <1>1, <2>1, <2>2 DEF SystemInv, RelayTypeOK, RowsInOutbox
<1>2. Inv /\ SystemInv => WithRelay
  BY <1>1
<1> QED
  BY <1>2, SystemInvariance, PTL

\* The system treats its order.paid rows as AtLeastOnce promises, although
\* the transactions of the use cases feed it: one row at a time, each once.
THEOREM RelayRefinement == SystemSpec => Relay!Spec
<1>1. SystemInit => Relay!Init
  BY DEF SystemInit
<1>2. ASSUME Inv, SystemInv, Transact
      PROVE  Relay!Next \/ UNCHANGED <<row, delivered>>
  <2> USE DEF Transact
  <2>1. CASE \A v \in PaidRows : v \notin outbox' \ outbox
    BY <1>2, <2>1 DEF Enqueue, SystemInv, RelayTypeOK
  <2>2. ASSUME NEW v \in PaidRows, v \in outbox' \ outbox
        PROVE  Relay!Add(v)
    <3>1. row[v] = "absent"
      BY <1>2, <2>2 DEF SystemInv, RowsInOutbox
    <3>2. \A w \in PaidRows : w \in outbox' \ outbox => w = v
      BY <1>2, <2>2, OnePaidRow, PaidRowFields
    <3>3. row' = [row EXCEPT ![v] = "PENDING"]
      BY <1>2, <2>2, <3>2 DEF Enqueue, SystemInv, RelayTypeOK
    <3> QED
      BY <1>2, <3>1, <3>3 DEF Relay!Add
  <2> QED
    BY <2>1, <2>2 DEF Relay!Next
<1>3. ASSUME NEW v \in PaidRows, RelayStep(v)
      PROVE  Relay!Next
  <2>1. CASE Relay!Deliver(v)
    BY <2>1 DEF Relay!Next
  <2>2. CASE \E S, F \in SUBSET PaidRows : Relay!Settle(S, F)
    BY <2>2 DEF Relay!Next
  <2>3. {v} \in SUBSET PaidRows /\ {} \in SUBSET PaidRows
    OBVIOUS
  <2> QED
    BY <1>3, <2>1, <2>2, <2>3 DEF RelayStep
<1>4. Inv /\ SystemInv /\ [SystemNext]_systemVars => [Relay!Next]_<<row, delivered>>
  BY <1>2, <1>3 DEF SystemNext, systemVars
<1> QED
  BY <1>1, <1>4, SystemInvariance, PTL DEF SystemSpec, Relay!Spec
=============================================================================
