---------------------- MODULE OrderTransactions_proofs ----------------------
(***************************************************************************)
(* Proofs about OrderTransactions for any number of requests, callbacks,   *)
(* deliveries, keys and events. Inv is the inductive invariant; its parts  *)
(* say what a transaction in flight still knows about the tables, although *)
(* other transactions have committed since it read them.                   *)
(***************************************************************************)
EXTENDS OrderTransactions, TLAPS

\* A request whose order is not committed, and one whose order is.
BeforeOrder == {"idle", "lookup", "catalog", "recheck", "insert", "commit_new",
                "existing", "rejected", "conflict"}
AfterOrder == {"pay", "paying", "cancel", "reread", "flush", "commit",
               "created", "pay_error", "bad_response"}

\* What a call works on.
Inputs ==
  /\ \A r \in Requests : order[r] = r
  /\ \A c \in Callbacks : pc[c] # "idle" =>
       order[c] \in Orders /\ input[c] \in CallbackStatus
  /\ \A h \in Handlers : pc[h] # "idle" =>
       /\ input[h] \in EventIds
       /\ shipments[input[h]] # None
       /\ order[h] = shipments[input[h]].order

\* A request's progress, the row it inserts and the payment it asks for.
Stages ==
  \A r \in Requests :
    /\ pc[r] \in BeforeOrder => orders[r] = Absent
    /\ pc[r] \in AfterOrder => orders[r] # Absent
    /\ orders[r] = Absent \/ pc[r] = "pay" => payments[r] = "none"

\* The key lock: whoever is about to commit an order is alone with its key.
KeyLock ==
  \A r, q \in Requests :
    pc[r] = "commit_new" /\ KeyOf[q] = KeyOf[r] =>
      orders[q] = Absent /\ (pc[q] = "commit_new" => q = r)

\* p is between its decision to change an order and its commit.
Updating(p) ==
  pc[p] \in {"reread", "flush"} \/ (pc[p] = "commit" /\ target[p] # NoChange)

\* The decision of a transaction in flight is backed by the tables and the
\* services, however stale the status it was based on.
Backed(p) ==
  /\ order[p] \in Requests
  /\ orders[order[p]] # Absent
  /\ target[p] \in Status \ {"NEW"}
  /\ target[p] = "PAID" => payments[order[p]] = "succeeded"
  /\ target[p] = "SHIPPED" => Outbox!PaidEvent(order[p])

Decisions ==
  /\ \A p \in Calls : Updating(p) => Backed(p)
  /\ \A r \in Requests :
       pc[r] \in {"reread", "flush", "commit"} => target[r] = "CANCELLED"
  /\ \A c \in Callbacks :
       pc[c] \in {"reread", "flush", "commit"} => target[c] # NoChange
  /\ \A p \in Callbacks \union Handlers :
       pc[p] \in {"reread", "flush", "commit", "applied", "ignored"} => Committed(order[p])

\* What OrderRepository.update read back has been announced, and says enough
\* about the status now to leave the column alone when it equals the target.
Rereads ==
  \A p \in Calls : Updating(p) /\ pc[p] # "reread" =>
    /\ loaded[p] # Absent
    /\ loaded[p] # "NEW" => orders[order[p]] # "NEW"
    /\ Outbox!Announced(order[p], loaded[p])

\* Whose outbox rows there are: a change is announced by a call that ended.
Announcers ==
  \A v \in outbox : v.status # "NEW" => pc[v.by] \in {"applied", "pay_error"}

\* What the services outside have said is true of their state.
Backing ==
  /\ \A c \in Callbacks :
       pc[c] # "idle" /\ order[c] \in Requests /\ input[c] = "succeeded"
         => payments[order[c]] = "succeeded"
  /\ \A e \in EventIds :
       shipments[e] # None /\ shipments[e].order \in Requests
         => Outbox!PaidEvent(shipments[e].order)

\* The inbox lock: whoever has inserted an event's row is alone with it.
InboxLock ==
  \A h \in Handlers : HoldsInbox(h) =>
    /\ input[h] \notin inbox
    /\ \A g \in Handlers : HoldsInbox(g) /\ input[g] = input[h] => g = h

Inv ==
  /\ TypeOK
  /\ Inputs
  /\ Stages
  /\ KeyLock /\ UniqueKey
  /\ Decisions
  /\ Rereads
  /\ Announcers
  /\ Backing /\ PaidIsBacked
  /\ StatusAnnounced /\ PaidIsPublished
  /\ InboxLock /\ AppliedOnce
  /\ PaymentErrorCompensated /\ AnsweredCallbackRecorded

-----------------------------------------------------------------------------
(* The decision rules *)

\* ProcessPaymentCallback decides PAID for a success alone, and leaves an
\* order that is NEW alone only for a status it does not know.
LEMMA PaymentDecision ==
  ASSUME NEW s \in Status, NEW i \in CallbackStatus
  PROVE  /\ PaymentTarget(s, i) \in {"PAID", "CANCELLED", NoChange}
         /\ PaymentTarget(s, i) = "PAID" => i = "succeeded"
         /\ PaymentTarget(s, i) = NoChange /\ i # "pending" => s # "NEW"
  BY DEF PaymentTarget, Status, CallbackStatus, NoChange, Terminal

\* _apply_shipment_status decides SHIPPED, CANCELLED or nothing.
LEMMA ShipmentDecision ==
  ASSUME NEW s \in Status, NEW t \in ShipmentType
  PROVE  ShipmentTarget(s, t) \in {"SHIPPED", "CANCELLED", NoChange}
  BY DEF ShipmentTarget, Status, ShipmentType, NoChange, Terminal

\* The rows that announce a status are outbox rows.
LEMMA EventRows ==
  ASSUME NEW o \in Requests, NEW s \in Status, NEW p \in Calls
  PROVE  EventsFor(o, s, p) \subseteq OutboxRow
  BY DEF EventsFor, Notification, OrderPaid, OutboxRow, Status

-----------------------------------------------------------------------------
(* Each part of Inv is preserved by every step *)

LEMMA TypeStep ==
  ASSUME Inv, Next
  PROVE  TypeOK'
<1> USE DEF Inv, TypeOK, Calls
<1>1. ASSUME NEW r \in Requests, Post(r) \/ Lookup(r) \/ Catalog(r) \/ Recheck(r) \/ Insert(r)
      PROVE  TypeOK'
  BY <1>1 DEF Post, Lookup, Catalog, Recheck, Insert, Goto, PC, Final, locals
<1>2. ASSUME NEW r \in Requests, CommitNew(r)
      PROVE  TypeOK'
  BY <1>2, EventRows DEF CommitNew, Goto, PC, Final, locals, Status
<1>3. ASSUME NEW r \in Requests, SendPayment(r) \/ PaymentAnswer(r) \/ LoadToCancel(r)
      PROVE  TypeOK'
  BY <1>3 DEF SendPayment, PaymentAnswer, LoadToCancel, Goto, PC, Final, locals,
              Status, PaymentState
<1>4. ASSUME NEW c \in Callbacks, Callback(c)
      PROVE  TypeOK'
  BY <1>4 DEF Callback, CallbacksFor, Goto, PC, CallbackStatus, PaymentState, Accepted
<1>5. ASSUME NEW c \in Callbacks, LoadForPayment(c)
      PROVE  TypeOK'
  BY <1>5 DEF LoadForPayment, PaymentTarget, Goto, PC, Final, Status, NoChange
<1>6. ASSUME NEW h \in Handlers, Deliver(h)
      PROVE  TypeOK'
  <2> PICK e \in EventIds :
         /\ shipments[e] # None
         /\ order' = [order EXCEPT ![h] = shipments[e].order]
         /\ input' = [input EXCEPT ![h] = e]
    BY <1>6 DEF Deliver
  <2>1. shipments[e].order \in Orders
    OBVIOUS
  <2> QED
    BY <1>6, <2>1 DEF Deliver, Goto, PC
<1>a. ASSUME NEW h \in Handlers, InboxAdd(h) \/ LoadForShipment(h)
      PROVE  TypeOK'
  BY <1>a DEF InboxAdd, LoadForShipment, ShipmentTarget, Goto, PC, Final, Status, NoChange, locals
<1>7. ASSUME NEW p \in Calls, Reread(p) \/ Flush(p) \/ Fail(p)
      PROVE  TypeOK'
  BY <1>7 DEF Reread, Flush, Fail, Goto, PC, Final, locals, Decisions, Updating, Backed
<1>8. ASSUME NEW p \in Calls, Commit(p)
      PROVE  TypeOK'
  <2>1. target[p] # NoChange =>
          order[p] \in Requests /\ EventsFor(order[p], target[p], p) \subseteq OutboxRow
    BY <1>8, EventRows DEF Commit, Goto, Decisions, Updating, Backed
  <2>2. p \in Handlers => input[p] \in EventIds
    BY <1>8 DEF Commit, Goto, Inputs
  <2> QED
    BY <1>8, <2>1, <2>2 DEF Commit, Goto, PC, Final, locals, NoChange
<1>9. CASE Environment
  BY <1>9 DEF Environment, AcceptPayment, SettlePayment, PublishShipment, PaymentState, locals
<1> QED
  BY <1>1, <1>2, <1>3, <1>4, <1>5, <1>6, <1>a, <1>7, <1>8, <1>9
     DEF Next, Arrive, CreateStep, HandlerStep, UpdateStep

LEMMA InputsStep ==
  ASSUME Inv, Next
  PROVE  Inputs'
<1> USE DisjointCalls DEF Inv, TypeOK, Inputs, Calls, Goto
<1>1. ASSUME NEW r \in Requests, Post(r) \/ CreateStep(r)
      PROVE  Inputs'
  BY <1>1 DEF Post, CreateStep, Lookup, Catalog, Recheck, Insert, CommitNew, SendPayment,
              PaymentAnswer, LoadToCancel, locals
<1>2. ASSUME NEW c \in Callbacks, Callback(c) \/ LoadForPayment(c)
      PROVE  Inputs'
  BY <1>2 DEF Callback, LoadForPayment, CallbacksFor, CallbackStatus, Accepted
<1>3. ASSUME NEW h \in Handlers, Deliver(h)
      PROVE  Inputs'
  BY <1>3 DEF Deliver
<1>4. ASSUME NEW h \in Handlers, HandlerStep(h)
      PROVE  Inputs'
  BY <1>4 DEF HandlerStep, InboxAdd, LoadForShipment, locals
<1>5. ASSUME NEW p \in Calls, UpdateStep(p) \/ Fail(p)
      PROVE  Inputs'
  BY <1>5 DEF UpdateStep, Reread, Flush, Commit, Fail, locals
<1>6. CASE Environment
  BY <1>6 DEF Environment, AcceptPayment, SettlePayment, PublishShipment, locals
<1> QED
  BY <1>1, <1>2, <1>3, <1>4, <1>5, <1>6 DEF Next, Arrive

LEMMA StagesStep ==
  ASSUME Inv, Next
  PROVE  Stages'
<1> USE DisjointCalls DEF Inv, TypeOK, Stages, Calls, Goto, BeforeOrder, AfterOrder
<1>1. ASSUME NEW r \in Requests, Post(r) \/ CreateStep(r)
      PROVE  Stages'
  BY <1>1 DEF Post, CreateStep, Lookup, Catalog, Recheck, Insert, CommitNew, SendPayment,
              PaymentAnswer, LoadToCancel, locals, Absent
<1>2. ASSUME NEW c \in Callbacks, Callback(c) \/ LoadForPayment(c)
      PROVE  Stages'
  BY <1>2 DEF Callback, LoadForPayment
<1>3. ASSUME NEW h \in Handlers, Deliver(h) \/ HandlerStep(h)
      PROVE  Stages'
  BY <1>3 DEF Deliver, HandlerStep, InboxAdd, LoadForShipment, locals
<1>4. ASSUME NEW p \in Calls, Reread(p) \/ Flush(p) \/ Fail(p)
      PROVE  Stages'
  BY <1>4 DEF Reread, Flush, Fail, locals, Final
<1>5. ASSUME NEW p \in Calls, Commit(p)
      PROVE  Stages'
  <2>1. \A o \in Requests : orders'[o] = Absent <=> orders[o] = Absent
    BY <1>5 DEF Commit, Decisions, Updating, Backed, Status, Absent
  <2> QED
    BY <1>5, <2>1 DEF Commit, locals
<1>6. CASE Environment
  BY <1>6 DEF Environment, AcceptPayment, SettlePayment, PublishShipment, locals
<1> QED
  BY <1>1, <1>2, <1>3, <1>4, <1>5, <1>6 DEF Next, Arrive, UpdateStep

\* Committed orders stay committed and never go back to NEW.
LEMMA OrdersStep ==
  ASSUME Inv, Next
  PROVE  /\ \A o \in Requests : orders[o] # Absent => orders'[o] # Absent
         /\ \A o \in Requests : orders[o] \notin {Absent, "NEW"} => orders'[o] # "NEW"
<1> USE DEF Inv, TypeOK, Calls, Goto
<1>1. ASSUME NEW r \in Requests, CommitNew(r)
      PROVE  orders[r] = Absent /\ \A o \in Requests \ {r} : orders'[o] = orders[o]
  BY <1>1 DEF CommitNew, Stages, BeforeOrder
<1>2. ASSUME NEW p \in Calls, Commit(p)
      PROVE  \A o \in Requests :
               orders'[o] = orders[o] \/ (orders[o] # Absent /\ orders'[o] \in Status \ {"NEW"})
  BY <1>2 DEF Commit, Decisions, Updating, Backed
<1>3. \/ UNCHANGED orders
      \/ \E r \in Requests : CommitNew(r)
      \/ \E p \in Calls : Commit(p)
  BY DEF Next, Arrive, Environment, CreateStep, HandlerStep, UpdateStep, Post, Callback, Deliver,
         AcceptPayment, SettlePayment, PublishShipment, Lookup, Catalog, Recheck, Insert,
         SendPayment, PaymentAnswer, LoadToCancel, LoadForPayment, InboxAdd, LoadForShipment,
         Reread, Flush, Fail
<1> QED
  BY <1>1, <1>2, <1>3 DEF Absent, Status

\* Outbox rows are never removed.
LEMMA OutboxStep ==
  ASSUME Next
  PROVE  outbox \subseteq outbox'
<1> QED
  BY DEF Next, Arrive, Environment, CreateStep, HandlerStep, UpdateStep, Post, Callback, Deliver,
         AcceptPayment, SettlePayment, PublishShipment, Lookup, Catalog, Recheck, Insert,
         CommitNew, SendPayment, PaymentAnswer, LoadToCancel, LoadForPayment, InboxAdd,
         LoadForShipment, Reread, Flush, Commit, Fail

\* A payment that succeeded stays so, and is not asked for again.
LEMMA PaymentsStep ==
  ASSUME Inv, Next
  PROVE  \A o \in Requests : payments[o] = "succeeded" => payments'[o] = "succeeded"
<1>1. ASSUME NEW r \in Requests, SendPayment(r)
      PROVE  payments[r] = "none" /\ \A o \in Requests \ {r} : payments'[o] = payments[o]
  BY <1>1 DEF SendPayment, Goto, Inv, TypeOK, Stages
<1>2. CASE Environment
  BY <1>2 DEF Environment, AcceptPayment, SettlePayment, PublishShipment, Inv, TypeOK
<1>3. UNCHANGED payments \/ Environment \/ \E r \in Requests : SendPayment(r)
  BY DEF Next, Arrive, CreateStep, HandlerStep, UpdateStep, Post, Callback, Deliver,
         Lookup, Catalog, Recheck, Insert, CommitNew, PaymentAnswer, LoadToCancel,
         LoadForPayment, InboxAdd, LoadForShipment, Reread, Flush, Commit, Fail
<1> QED
  BY <1>1, <1>2, <1>3

\* The unique index: the request that gets to commit_new found no committed
\* order under its key and is alone there until it commits.
LEMMA KeyStep ==
  ASSUME Inv, Next
  PROVE  KeyLock' /\ UniqueKey'
<1> USE DEF Inv, TypeOK, KeyLock, UniqueKey, Calls, Goto
<1>1. ASSUME NEW r \in Requests, Insert(r)
      PROVE  KeyLock' /\ UniqueKey'
  BY <1>1 DEF Insert, ByKey
<1>2. ASSUME NEW r \in Requests, CommitNew(r)
      PROVE  KeyLock' /\ UniqueKey'
  BY <1>2 DEF CommitNew
<1>3. ASSUME \A o \in Requests : orders'[o] = Absent <=> orders[o] = Absent,
             \A r \in Requests : pc'[r] = "commit_new" => pc[r] = "commit_new"
      PROVE  KeyLock' /\ UniqueKey'
  BY <1>3
<1>4. ASSUME NEW p \in Calls, Commit(p)
      PROVE  /\ \A o \in Requests : orders'[o] = Absent <=> orders[o] = Absent
             /\ \A r \in Requests : pc'[r] = "commit_new" => pc[r] = "commit_new"
  BY <1>4 DEF Commit, Decisions, Updating, Backed, Status, Absent
<1>5. \/ \E r \in Requests : Insert(r) \/ CommitNew(r)
      \/ \E p \in Calls : Commit(p)
      \/ UNCHANGED orders /\ \A r \in Requests : pc'[r] = "commit_new" => pc[r] = "commit_new"
  BY DEF Next, Arrive, Environment, CreateStep, HandlerStep, UpdateStep, Post, Callback, Deliver,
         AcceptPayment, SettlePayment, PublishShipment, Lookup, Catalog, Recheck,
         SendPayment, PaymentAnswer, LoadToCancel, LoadForPayment, InboxAdd, LoadForShipment,
         Reread, Flush, Fail, locals
<1> QED
  BY <1>1, <1>2, <1>3, <1>4, <1>5

\* What a transaction decided stays backed whatever commits meanwhile.
LEMMA DecisionsStep ==
  ASSUME Inv, Next
  PROVE  Decisions'
<1>1. ASSUME NEW p \in Calls, Backed(p), UNCHANGED <<order[p], target[p]>>
      PROVE  Backed(p)'
  BY <1>1, OrdersStep, OutboxStep, PaymentsStep DEF Backed, Outbox!PaidEvent
<1>2. ASSUME NEW p \in Calls, Committed(order[p]), UNCHANGED order[p]
      PROVE  Committed(order[p])'
  BY <1>2, OrdersStep DEF Committed
<1> USE DisjointCalls, <1>1, <1>2 DEF Inv, TypeOK, Decisions, Updating, Calls, Goto
<1>3. ASSUME NEW r \in Requests, LoadToCancel(r)
      PROVE  Decisions'
  <2>1. Backed(r)' \/ pc'[r] = "pay_error"
    BY <1>3 DEF LoadToCancel, Inputs, Backed, Status, Absent
  <2> QED
    BY <1>3, <2>1 DEF LoadToCancel
<1>4. ASSUME NEW c \in Callbacks, LoadForPayment(c)
      PROVE  Decisions'
  <2>1. CASE Committed(order[c]) /\ pc'[c] = "reread"
    <3>1. input[c] \in CallbackStatus /\ orders[order[c]] \in Status /\ order[c] \in Requests
      BY <1>4, <2>1 DEF Committed, Inputs, LoadForPayment
    <3>2. /\ target'[c] \in {"PAID", "CANCELLED"}
          /\ target'[c] = "PAID" => input[c] = "succeeded"
      BY <1>4, <2>1, <3>1, PaymentDecision DEF LoadForPayment
    <3>3. target'[c] = "PAID" => payments'[order'[c]] = "succeeded"
      BY <1>4, <3>1, <3>2 DEF LoadForPayment, Backing
    <3>4. Backed(c)'
      BY <1>4, <2>1, <3>1, <3>2, <3>3 DEF LoadForPayment, Backed, Status, Committed
    <3> QED
      BY <1>4, <2>1, <3>2, <3>4 DEF LoadForPayment, NoChange
  <2> QED
    BY <1>4, <2>1 DEF LoadForPayment
<1>5. ASSUME NEW h \in Handlers, LoadForShipment(h)
      PROVE  Decisions'
  <2>1. CASE Committed(order[h])
    <3>1. /\ shipments[input[h]].type \in ShipmentType
          /\ orders[order[h]] \in Status
          /\ order[h] \in Requests
      BY <1>5, <2>1 DEF Committed, Inputs, LoadForShipment
    <3>2. target'[h] \in {"SHIPPED", "CANCELLED", NoChange}
      BY <1>5, <2>1, <3>1, ShipmentDecision DEF LoadForShipment
    <3>3. Outbox!PaidEvent(order[h])'
      BY <1>5, <3>1 DEF LoadForShipment, Backing, Inputs, Outbox!PaidEvent
    <3>4. target'[h] # NoChange => Backed(h)'
      BY <1>5, <2>1, <3>1, <3>2, <3>3 DEF LoadForShipment, Backed, Status, Committed
    <3> QED
      BY <1>5, <2>1, <3>1, <3>4 DEF LoadForShipment, Committed
  <2> QED
    BY <1>5, <2>1 DEF LoadForShipment
<1>6. ASSUME NEW p \in Calls, UpdateStep(p) \/ Fail(p)
      PROVE  Decisions'
  BY <1>6 DEF UpdateStep, Reread, Flush, Commit, Fail, locals
<1>7. ASSUME NEW r \in Requests, Post(r) \/ Lookup(r) \/ Catalog(r) \/ Recheck(r) \/ Insert(r)
                                 \/ CommitNew(r) \/ SendPayment(r) \/ PaymentAnswer(r)
      PROVE  Decisions'
  BY <1>7 DEF Post, Lookup, Catalog, Recheck, Insert, CommitNew, SendPayment, PaymentAnswer, locals
<1>8. ASSUME NEW p \in Callbacks \union Handlers, Callback(p) \/ Deliver(p) \/ InboxAdd(p)
      PROVE  Decisions'
  BY <1>8 DEF Callback, Deliver, InboxAdd, locals
<1>9. CASE Environment
  BY <1>9 DEF Environment, AcceptPayment, SettlePayment, PublishShipment, locals
<1> QED
  BY <1>3, <1>4, <1>5, <1>6, <1>7, <1>8, <1>9 DEF Next, Arrive, CreateStep, HandlerStep

\* What update read back stays announced.
LEMMA RereadsStep ==
  ASSUME Inv, Next
  PROVE  Rereads'
<1> DEFINE Known(p) == /\ loaded[p] # Absent
                       /\ loaded[p] # "NEW" => orders[order[p]] # "NEW"
                       /\ Outbox!Announced(order[p], loaded[p])
<1>1. ASSUME NEW p \in Calls, Updating(p), pc[p] # "reread", UNCHANGED <<order[p], loaded[p]>>
      PROVE  Known(p)'
  BY <1>1, OrdersStep, OutboxStep DEF Inv, Rereads, Decisions, Backed, Outbox!Announced
<1>2. ASSUME NEW p \in Calls, Reread(p)
      PROVE  Known(p)'
  <2>1. order[p] \in Requests /\ orders[order[p]] # Absent
    BY <1>2 DEF Reread, Goto, Inv, Decisions, Updating, Backed
  <2>2. loaded'[p] = orders[order[p]]
    BY <1>2 DEF Reread, Inv, TypeOK
  <2> QED
    BY <1>2, <2>1, <2>2 DEF Reread, Inv, StatusAnnounced, Outbox!StatusAnnounced, Outbox!Announced,
       Outbox!Absent, Absent
<1>3. ASSUME NEW p \in Calls, Updating(p)', pc'[p] # "reread"
      PROVE  Reread(p) \/ (Updating(p) /\ pc[p] # "reread" /\ UNCHANGED <<order[p], loaded[p]>>)
  <2> USE DisjointCalls DEF Inv, TypeOK, Updating, Calls, Goto
  <2>1. ASSUME NEW r \in Requests, Post(r) \/ CreateStep(r)
        PROVE  Updating(p) /\ pc[p] # "reread" /\ UNCHANGED <<order[p], loaded[p]>>
    BY <1>3, <2>1 DEF Post, CreateStep, Lookup, Catalog, Recheck, Insert, CommitNew, SendPayment,
                      PaymentAnswer, LoadToCancel, locals
  <2>2. ASSUME NEW c \in Callbacks \union Handlers,
               Callback(c) \/ LoadForPayment(c) \/ Deliver(c) \/ HandlerStep(c)
        PROVE  Updating(p) /\ pc[p] # "reread" /\ UNCHANGED <<order[p], loaded[p]>>
    BY <1>3, <2>2 DEF Callback, LoadForPayment, Deliver, HandlerStep, InboxAdd, LoadForShipment,
                      locals
  <2>3. ASSUME NEW q \in Calls, Flush(q) \/ Commit(q) \/ Fail(q) \/ Reread(q)
        PROVE  Reread(p) \/ (Updating(p) /\ pc[p] # "reread" /\ UNCHANGED <<order[p], loaded[p]>>)
    BY <1>3, <2>3 DEF Flush, Commit, Fail, Reread, locals
  <2>4. CASE Environment
    BY <1>3, <2>4 DEF Environment, AcceptPayment, SettlePayment, PublishShipment, locals
  <2> QED
    BY <2>1, <2>2, <2>3, <2>4 DEF Next, Arrive, UpdateStep
<1> QED
  BY <1>1, <1>2, <1>3 DEF Rereads

\* Every row of the outbox was there, is one of a new order's, or is one of
\* a call that commits its change.
LEMMA NewRows ==
  ASSUME Inv, Next, NEW v \in outbox', v \notin outbox
  PROVE  \/ \E r \in Requests : CommitNew(r) /\ v \in EventsFor(r, "NEW", r)
         \/ \E p \in Calls : /\ Commit(p)
                             /\ target[p] # NoChange
                             /\ v \in EventsFor(order[p], target[p], p)
  BY DEF Next, Arrive, Environment, CreateStep, HandlerStep, UpdateStep, Post, Callback, Deliver,
         AcceptPayment, SettlePayment, PublishShipment, Lookup, Catalog, Recheck, Insert,
         CommitNew, SendPayment, PaymentAnswer, LoadToCancel, LoadForPayment, InboxAdd,
         LoadForShipment, Reread, Flush, Commit, Fail

\* A call that ended stays where it ended.
LEMMA EndedStays ==
  ASSUME Inv, Next, NEW p \in Calls, pc[p] \in Final
  PROVE  pc'[p] = pc[p]
<1> USE DEF Inv, TypeOK, Calls, Goto, Final
<1>1. ASSUME NEW r \in Requests, Post(r) \/ CreateStep(r)
      PROVE  pc'[p] = pc[p]
  BY <1>1 DEF Post, CreateStep, Lookup, Catalog, Recheck, Insert, CommitNew, SendPayment,
              PaymentAnswer, LoadToCancel
<1>2. ASSUME NEW c \in Calls, Callback(c) \/ LoadForPayment(c) \/ Deliver(c) \/ HandlerStep(c)
                              \/ UpdateStep(c) \/ Fail(c)
      PROVE  pc'[p] = pc[p]
  BY <1>2 DEF Callback, LoadForPayment, Deliver, HandlerStep, InboxAdd, LoadForShipment,
              UpdateStep, Flush, Commit, Fail, Reread
<1>3. CASE Environment
  BY <1>3 DEF Environment, AcceptPayment, SettlePayment, PublishShipment
<1> QED
  BY <1>1, <1>2, <1>3 DEF Next, Arrive

LEMMA AnnouncersStep ==
  ASSUME Inv, Next
  PROVE  Announcers'
<1> SUFFICES ASSUME NEW v \in outbox', v.status # "NEW"
             PROVE  pc'[v.by] \in {"applied", "pay_error"}
  BY DEF Announcers
<1>1. CASE v \in outbox
  BY <1>1, EndedStays DEF Inv, TypeOK, OutboxRow, Announcers, Final
<1>2. ASSUME NEW r \in Requests, v \in EventsFor(r, "NEW", r)
      PROVE  FALSE
  BY <1>2 DEF EventsFor, Notification
<1>3. ASSUME NEW p \in Calls, Commit(p), v \in EventsFor(order[p], target[p], p)
      PROVE  pc'[v.by] \in {"applied", "pay_error"}
  <2>1. v.by = p
    BY <1>3 DEF EventsFor, Notification, OrderPaid
  <2> QED
    BY <1>3, <2>1 DEF Commit, Goto, Inv, TypeOK
<1> QED
  BY <1>1, <1>2, <1>3, NewRows

LEMMA BackingStep ==
  ASSUME Inv, Next
  PROVE  Backing' /\ PaidIsBacked'
<1>1. PaidIsBacked'
  <2> SUFFICES ASSUME NEW v \in outbox', v.type = "order.paid"
               PROVE  payments'[v.order] = "succeeded"
    BY DEF PaidIsBacked
  <2>1. CASE v \in outbox
    BY <2>1, PaymentsStep DEF Inv, TypeOK, OutboxRow, PaidIsBacked
  <2>2. ASSUME NEW r \in Requests, v \in EventsFor(r, "NEW", r)
        PROVE  FALSE
    BY <2>2 DEF EventsFor, Notification
  <2>3. ASSUME NEW p \in Calls, Commit(p), target[p] # NoChange,
               v \in EventsFor(order[p], target[p], p)
        PROVE  payments'[v.order] = "succeeded"
    <3>1. target[p] = "PAID" /\ v.order = order[p]
      BY <2>3 DEF EventsFor, Notification, OrderPaid
    <3>2. Backed(p)
      BY <2>3 DEF Commit, Goto, Inv, Decisions, Updating
    <3> QED
      BY <3>1, <3>2, PaymentsStep DEF Backed
  <2> QED
    BY <2>1, <2>2, <2>3, NewRows
<1>2. ASSUME NEW c \in Callbacks, pc'[c] # "idle", order'[c] \in Requests, input'[c] = "succeeded"
      PROVE  payments'[order'[c]] = "succeeded"
  <2> USE DisjointCalls DEF Inv, TypeOK, Calls, Goto
  <2>1. CASE Callback(c)
    BY <1>2, <2>1 DEF Callback, CallbacksFor
  <2>2. CASE ~Callback(c)
    <3>1. pc[c] # "idle" /\ UNCHANGED <<order[c], input[c]>>
      <4>1. ASSUME NEW r \in Requests, Post(r) \/ CreateStep(r)
            PROVE  pc[c] # "idle" /\ UNCHANGED <<order[c], input[c]>>
        BY <1>2, <4>1 DEF Post, CreateStep, Lookup, Catalog, Recheck, Insert, CommitNew,
                          SendPayment, PaymentAnswer, LoadToCancel, locals
      <4>2. ASSUME NEW q \in Calls, Callback(q) \/ LoadForPayment(q) \/ UpdateStep(q) \/ Fail(q)
            PROVE  pc[c] # "idle" /\ UNCHANGED <<order[c], input[c]>>
        BY <1>2, <2>2, <4>2 DEF Callback, LoadForPayment, UpdateStep, Flush, Commit, Fail, Reread,
                                locals
      <4>3. ASSUME NEW h \in Handlers, Deliver(h) \/ HandlerStep(h)
            PROVE  pc[c] # "idle" /\ UNCHANGED <<order[c], input[c]>>
        BY <1>2, <4>3 DEF Deliver, HandlerStep, InboxAdd, LoadForShipment, locals
      <4>4. CASE Environment
        BY <1>2, <4>4 DEF Environment, AcceptPayment, SettlePayment, PublishShipment, locals
      <4> QED
        BY <4>1, <4>2, <4>3, <4>4 DEF Next, Arrive
    <3> QED
      BY <1>2, <3>1, PaymentsStep DEF Backing
  <2> QED
    BY <2>1, <2>2
<1>3. ASSUME NEW e \in EventIds, shipments'[e] # None, shipments'[e].order \in Requests
      PROVE  Outbox!PaidEvent(shipments[e].order)'
  <2>1. CASE UNCHANGED shipments[e]
    BY <1>3, <2>1, OutboxStep DEF Inv, Backing, Outbox!PaidEvent
  <2>2. CASE PublishShipment(e)
    BY <1>3, <2>2 DEF PublishShipment, Inv, TypeOK, Outbox!PaidEvent
  <2>3. UNCHANGED shipments \/ \E f \in EventIds : PublishShipment(f)
    BY DEF Next, Arrive, Environment, CreateStep, HandlerStep, UpdateStep, Post, Callback, Deliver,
           AcceptPayment, SettlePayment, Lookup, Catalog, Recheck, Insert, CommitNew, SendPayment,
           PaymentAnswer, LoadToCancel, LoadForPayment, InboxAdd, LoadForShipment, Reread, Flush,
           Commit, Fail
  <2> QED
    BY <2>1, <2>2, <2>3 DEF PublishShipment, Inv, TypeOK
<1> QED
  BY <1>1, <1>2, <1>3 DEF Backing

\* The outbox as a whole: the notification and the order.paid that a status
\* calls for are inserted by the transaction that writes it, or were there.
LEMMA AnnouncedStep ==
  ASSUME Inv, Next
  PROVE  StatusAnnounced' /\ PaidIsPublished'
<1> DEFINE Good(o) == orders[o] # Absent =>
                        /\ Outbox!Announced(o, "NEW")
                        /\ Outbox!Announced(o, orders[o])
                        /\ orders[o] \in {"PAID", "SHIPPED"} => Outbox!PaidEvent(o)
<1>1. \A o \in Requests : Good(o)
  BY DEF Inv, StatusAnnounced, PaidIsPublished, Outbox!StatusAnnounced, Outbox!PaidIsPublished,
         Outbox!Absent, Absent
<1>2. ASSUME NEW o \in Requests, UNCHANGED orders[o]
      PROVE  Good(o)'
  BY <1>1, <1>2, OutboxStep DEF Outbox!Announced, Outbox!PaidEvent
<1>3. ASSUME NEW r \in Requests, CommitNew(r)
      PROVE  Good(r)'
  <2>1. orders'[r] = "NEW" /\ Notification(r, "NEW", r) \in outbox'
    BY <1>3 DEF CommitNew, EventsFor, Inv, TypeOK
  <2> QED
    BY <2>1 DEF Notification, Outbox!Announced
<1>4. ASSUME NEW p \in Calls, Commit(p), target[p] # NoChange, NEW o \in Requests, o = order[p]
      PROVE  Good(o)'
  <2>1. Backed(p)
    BY <1>4 DEF Commit, Goto, Inv, Decisions, Updating
  <2>2. CASE orders' = [orders EXCEPT ![o] = target[p]]
    <3>1. /\ Notification(o, target[p], p) \in outbox'
          /\ target[p] = "PAID" => OrderPaid(o, p) \in outbox'
      BY <1>4 DEF Commit, EventsFor
    <3>2. orders'[o] = target[p]
      BY <2>2 DEF Inv, TypeOK
    <3>3. Outbox!Announced(o, orders[o])'
      BY <3>1, <3>2 DEF Notification, Outbox!Announced
    <3>4. Outbox!Announced(o, "NEW")'
      BY <1>1, <1>4, <2>1, OutboxStep DEF Backed, Outbox!Announced
    <3>5. target[p] \in {"PAID", "SHIPPED"} => Outbox!PaidEvent(o)'
      BY <1>4, <2>1, <3>1, OutboxStep DEF Backed, OrderPaid, Outbox!PaidEvent
    <3> QED
      BY <3>2, <3>3, <3>4, <3>5
  <2> QED
    BY <1>2, <1>4, <2>2 DEF Commit
<1>5. ASSUME NEW o \in Requests
      PROVE  \/ UNCHANGED orders[o]
             \/ CommitNew(o)
             \/ \E p \in Calls : Commit(p) /\ target[p] # NoChange /\ o = order[p]
  BY DEF Next, Arrive, Environment, CreateStep, HandlerStep, UpdateStep, Post, Callback, Deliver,
         AcceptPayment, SettlePayment, PublishShipment, Lookup, Catalog, Recheck, Insert,
         CommitNew, SendPayment, PaymentAnswer, LoadToCancel, LoadForPayment, InboxAdd,
         LoadForShipment, Reread, Flush, Commit, Fail, Inv, TypeOK
<1>6. \A o \in Requests : Good(o)'
  BY <1>2, <1>3, <1>4, <1>5
<1> QED
  BY <1>6 DEF StatusAnnounced, PaidIsPublished, Outbox!StatusAnnounced, Outbox!PaidIsPublished,
              Outbox!Absent, Absent

\* ON CONFLICT (event_id): the delivery that inserts an event's inbox row is
\* alone with it until it commits, and no later one gets past the row.
LEMMA InboxStep ==
  ASSUME Inv, Next
  PROVE  InboxLock' /\ AppliedOnce'
<1> DEFINE Applied(h) == pc[h] = "applied"
<1> USE DisjointCalls DEF Inv, TypeOK, Calls, Goto, HoldsInbox
<1>1. ASSUME NEW h \in Handlers, InboxAdd(h)
      PROVE  InboxLock' /\ AppliedOnce'
  BY <1>1 DEF InboxAdd, locals, InboxLock, AppliedOnce
<1>2. ASSUME NEW h \in Handlers, Commit(h)
      PROVE  InboxLock' /\ AppliedOnce'
  BY <1>2 DEF Commit, locals, InboxLock, AppliedOnce, Inputs
<1>3. ASSUME UNCHANGED inbox,
             \A h \in Handlers : /\ Applied(h)' <=> Applied(h)
                                 /\ HoldsInbox(h)' => HoldsInbox(h)
                                 /\ pc[h] # "idle" => UNCHANGED input[h]
      PROVE  InboxLock' /\ AppliedOnce'
  <2>1. InboxLock'
    BY <1>3 DEF InboxLock
  <2>2. AppliedOnce'
    BY <1>3 DEF AppliedOnce
  <2> QED
    BY <2>1, <2>2
<1>4. \/ \E h \in Handlers : InboxAdd(h) \/ Commit(h)
      \/ /\ UNCHANGED inbox
         /\ \A h \in Handlers : /\ Applied(h)' <=> Applied(h)
                                /\ HoldsInbox(h)' => HoldsInbox(h)
                                /\ pc[h] # "idle" => UNCHANGED input[h]
  <2>1. ASSUME NEW r \in Requests, Post(r) \/ CreateStep(r)
        PROVE  UNCHANGED inbox /\ UNCHANGED input /\ \A h \in Handlers : UNCHANGED pc[h]
    BY <2>1 DEF Post, CreateStep, Lookup, Catalog, Recheck, Insert, CommitNew, SendPayment,
                PaymentAnswer, LoadToCancel, locals
  <2>2. ASSUME NEW c \in Callbacks, Callback(c) \/ LoadForPayment(c)
        PROVE  UNCHANGED inbox /\ \A h \in Handlers : UNCHANGED <<pc[h], input[h]>>
    BY <2>2 DEF Callback, LoadForPayment
  <2>3. ASSUME NEW q \in Calls \ Handlers, Commit(q)
        PROVE  UNCHANGED inbox /\ UNCHANGED input /\ \A h \in Handlers : UNCHANGED pc[h]
    BY <2>3 DEF Commit, locals
  <2>4. ASSUME NEW q \in Calls, Reread(q) \/ Flush(q) \/ Fail(q)
        PROVE  /\ UNCHANGED inbox
               /\ \A h \in Handlers : /\ Applied(h)' <=> Applied(h)
                                      /\ HoldsInbox(h)' => HoldsInbox(h)
                                      /\ UNCHANGED input[h]
    BY <2>4 DEF Reread, Flush, Fail, locals, Final
  <2>5. ASSUME NEW g \in Handlers, Deliver(g) \/ LoadForShipment(g)
        PROVE  /\ UNCHANGED inbox
               /\ \A h \in Handlers : /\ Applied(h)' <=> Applied(h)
                                      /\ HoldsInbox(h)' => HoldsInbox(h)
                                      /\ pc[h] # "idle" => UNCHANGED input[h]
    BY <2>5 DEF Deliver, LoadForShipment
  <2>6. CASE Environment
    BY <2>6 DEF Environment, AcceptPayment, SettlePayment, PublishShipment, locals
  <2> QED
    BY <2>1, <2>2, <2>3, <2>4, <2>5, <2>6 DEF Next, Arrive, HandlerStep, UpdateStep
<1> QED
  BY <1>1, <1>2, <1>3, <1>4

\* What clients and the Payments service were told stays true.
LEMMA AnswersStep ==
  ASSUME Inv, Next
  PROVE  PaymentErrorCompensated' /\ AnsweredCallbackRecorded'
<1> USE DisjointCalls DEF Inv, TypeOK, Calls, Goto
<1>1. ASSUME NEW p \in Calls, Commit(p), target[p] # NoChange
      PROVE  orders'[order[p]] \notin {Absent, "NEW"}
  <2>1. Backed(p) /\ loaded[p] # Absent /\ (loaded[p] # "NEW" => orders[order[p]] # "NEW")
    BY <1>1 DEF Commit, Decisions, Rereads, Updating
  <2> QED
    BY <1>1, <2>1 DEF Commit, Backed, Status, Absent
<1>2. ASSUME NEW r \in Requests, pc'[r] = "pay_error"
      PROVE  orders'[r] \notin {Absent, "NEW"}
  <2>1. CASE pc[r] = "pay_error"
    BY <2>1, OrdersStep DEF PaymentErrorCompensated
  <2>2. CASE Commit(r)
    BY <1>1, <1>2, <2>2 DEF Commit, Decisions, NoChange, Inputs
  <2>3. CASE LoadToCancel(r)
    BY <1>2, <2>3 DEF LoadToCancel, Stages, AfterOrder
  <2>4. pc[r] = "pay_error" \/ Commit(r) \/ LoadToCancel(r)
    <3>1. ASSUME NEW q \in Requests, Post(q) \/ CreateStep(q)
          PROVE  pc[r] = "pay_error" \/ LoadToCancel(r)
      BY <1>2, <3>1 DEF Post, CreateStep, Lookup, Catalog, Recheck, Insert, CommitNew,
                        SendPayment, PaymentAnswer, LoadToCancel
    <3>2. ASSUME NEW q \in Callbacks \union Handlers,
                 Callback(q) \/ LoadForPayment(q) \/ Deliver(q) \/ HandlerStep(q)
          PROVE  pc[r] = "pay_error"
      BY <1>2, <3>2 DEF Callback, LoadForPayment, Deliver, HandlerStep, InboxAdd, LoadForShipment
    <3>3. ASSUME NEW q \in Calls, UpdateStep(q) \/ Fail(q)
          PROVE  pc[r] = "pay_error" \/ Commit(r)
      BY <1>2, <3>3 DEF UpdateStep, Reread, Flush, Commit, Fail
    <3>4. CASE Environment
      BY <1>2, <3>4 DEF Environment, AcceptPayment, SettlePayment, PublishShipment
    <3> QED
      BY <3>1, <3>2, <3>3, <3>4 DEF Next, Arrive
  <2> QED
    BY <2>1, <2>2, <2>3, <2>4
<1>3. ASSUME NEW c \in Callbacks, pc'[c] \in {"applied", "ignored"}, input'[c] # "pending"
      PROVE  orders'[order'[c]] \notin {Absent, "NEW"}
  <2>1. CASE pc[c] \in {"applied", "ignored"} /\ UNCHANGED <<order[c], input[c]>>
    <3>1. order[c] \in Requests
      BY <2>1 DEF Decisions, Committed
    <3> QED
      BY <1>3, <2>1, <3>1, OrdersStep DEF AnsweredCallbackRecorded
  <2>2. CASE Commit(c)
    BY <1>1, <1>3, <2>2 DEF Commit, Decisions, locals
  <2>3. CASE LoadForPayment(c)
    <3>1. /\ Committed(order[c])
          /\ PaymentTarget(orders[order[c]], input[c]) = NoChange
          /\ UNCHANGED <<orders, order, input>>
      BY <1>3, <2>3 DEF LoadForPayment
    <3>2. input[c] \in CallbackStatus /\ orders[order[c]] \in Status
      BY <2>3, <3>1 DEF LoadForPayment, Inputs, Committed
    <3> QED
      BY <1>3, <3>1, <3>2, PaymentDecision DEF Absent, Status
  <2>4. \/ pc[c] \in {"applied", "ignored"} /\ UNCHANGED <<order[c], input[c]>>
        \/ Commit(c)
        \/ LoadForPayment(c)
    <3>1. ASSUME NEW q \in Requests, Post(q) \/ CreateStep(q)
          PROVE  pc[c] \in {"applied", "ignored"} /\ UNCHANGED <<order[c], input[c]>>
      BY <1>3, <3>1 DEF Post, CreateStep, Lookup, Catalog, Recheck, Insert, CommitNew,
                        SendPayment, PaymentAnswer, LoadToCancel, locals
    <3>2. ASSUME NEW q \in Callbacks, Callback(q) \/ LoadForPayment(q)
          PROVE  \/ pc[c] \in {"applied", "ignored"} /\ UNCHANGED <<order[c], input[c]>>
                 \/ LoadForPayment(c)
      BY <1>3, <3>2 DEF Callback, LoadForPayment
    <3>3. ASSUME NEW h \in Handlers, Deliver(h) \/ HandlerStep(h)
          PROVE  pc[c] \in {"applied", "ignored"} /\ UNCHANGED <<order[c], input[c]>>
      BY <1>3, <3>3 DEF Deliver, HandlerStep, InboxAdd, LoadForShipment, locals
    <3>4. ASSUME NEW q \in Calls, UpdateStep(q) \/ Fail(q)
          PROVE  \/ pc[c] \in {"applied", "ignored"} /\ UNCHANGED <<order[c], input[c]>>
                 \/ Commit(c)
      BY <1>3, <3>4 DEF UpdateStep, Reread, Flush, Commit, Fail, locals
    <3>5. CASE Environment
      BY <1>3, <3>5 DEF Environment, AcceptPayment, SettlePayment, PublishShipment, locals
    <3> QED
      BY <3>1, <3>2, <3>3, <3>4, <3>5 DEF Next, Arrive
  <2> QED
    BY <2>1, <2>2, <2>3, <2>4
<1> QED
  BY <1>2, <1>3 DEF PaymentErrorCompensated, AnsweredCallbackRecorded

-----------------------------------------------------------------------------
(* The theorems *)

LEMMA InvInit == Init => Inv
<1> SUFFICES ASSUME Init PROVE Inv
  OBVIOUS
<1> USE DisjointCalls, NoneAssumption DEF Init, Calls
<1>1. TypeOK
  BY DEF TypeOK, Orders, PaymentState, PC, Final, Status
<1>2. Inputs /\ Stages /\ KeyLock /\ UniqueKey
  BY DEF Inputs, Stages, AfterOrder, KeyLock, UniqueKey, Absent
<1>3. Decisions /\ Rereads /\ Announcers /\ Backing /\ PaidIsBacked
  BY DEF Decisions, Updating, Rereads, Announcers, Backing, PaidIsBacked
<1>4. StatusAnnounced /\ PaidIsPublished
  BY DEF StatusAnnounced, PaidIsPublished, Outbox!StatusAnnounced, Outbox!PaidIsPublished,
         Outbox!Absent, Absent
<1>5. InboxLock /\ AppliedOnce /\ PaymentErrorCompensated /\ AnsweredCallbackRecorded
  BY DEF InboxLock, HoldsInbox, AppliedOnce, PaymentErrorCompensated, AnsweredCallbackRecorded
<1> QED
  BY <1>1, <1>2, <1>3, <1>4, <1>5 DEF Inv

LEMMA InvStutter == Inv /\ UNCHANGED vars => Inv'
<1> SUFFICES ASSUME Inv, UNCHANGED vars PROVE Inv'
  OBVIOUS
<1> USE DEF vars, locals
<1>1. TypeOK' /\ Inputs' /\ Stages' /\ KeyLock' /\ UniqueKey'
  BY DEF Inv, TypeOK, Inputs, Stages, KeyLock, UniqueKey
<1>2. Decisions' /\ Rereads' /\ Announcers' /\ Backing' /\ PaidIsBacked'
  BY DEF Inv, Decisions, Updating, Backed, Committed, Rereads, Announcers, Backing, PaidIsBacked,
         Outbox!PaidEvent, Outbox!Announced
<1>3. StatusAnnounced' /\ PaidIsPublished'
  BY DEF Inv, StatusAnnounced, PaidIsPublished, Outbox!StatusAnnounced, Outbox!PaidIsPublished,
         Outbox!PaidEvent, Outbox!Announced
<1>4. InboxLock' /\ AppliedOnce' /\ PaymentErrorCompensated' /\ AnsweredCallbackRecorded'
  BY DEF Inv, InboxLock, HoldsInbox, AppliedOnce, PaymentErrorCompensated, AnsweredCallbackRecorded
<1> QED
  BY <1>1, <1>2, <1>3, <1>4 DEF Inv

\* Inv is an invariant of the use cases under any interleaving.
THEOREM Invariance == Spec => []Inv
<1>1. Inv /\ [Next]_vars => Inv'
  <2>1. ASSUME Inv, Next
        PROVE  Inv'
    BY <2>1, TypeStep, InputsStep, StagesStep, KeyStep, DecisionsStep, RereadsStep, AnnouncersStep,
       BackingStep, AnnouncedStep, InboxStep, AnswersStep DEF Inv
  <2> QED
    BY <2>1, InvStutter
<1> QED
  BY <1>1, InvInit, PTL DEF Spec

\* Only known orders, statuses and calls ever reach the tables.
THEOREM TypeCorrect == Spec => []TypeOK
<1>1. Inv => TypeOK
  BY DEF Inv
<1> QED
  BY <1>1, Invariance, PTL

\* However many clients repeat a POST at once, their key buys one order
\* (create_order.py, the unique index of models.py) ...
THEOREM Idempotence == Spec => []UniqueKey
<1>1. Inv => UniqueKey
  BY DEF Inv
<1> QED
  BY <1>1, Invariance, PTL

\* ... and asks the Payments service for one payment.
THEOREM ChargedOnce == Spec => []OnePaymentPerKey
<1>1. Inv => OnePaymentPerKey
  BY DEF Inv, TypeOK, Stages, UniqueKey, OnePaymentPerKey
<1> QED
  BY <1>1, Invariance, PTL

\* order.paid is enqueued only for a payment that succeeded, however stale the
\* status was that the callback read (process_payment_callback.py).
THEOREM PaidIsReal == Spec => []PaidIsBacked
<1>1. Inv => PaidIsBacked
  BY DEF Inv
<1> QED
  BY <1>1, Invariance, PTL

\* Every order that is PAID or SHIPPED has its order.paid in the outbox.
THEOREM PaidIsHeardOf == Spec => []PaidIsPublished
<1>1. Inv => PaidIsPublished
  BY DEF Inv
<1> QED
  BY <1>1, Invariance, PTL

\* Whatever overwrites whatever, the status an order is in was notified.
THEOREM NotifiedAlways == Spec => []StatusAnnounced
<1>1. Inv => StatusAnnounced
  BY DEF Inv
<1> QED
  BY <1>1, Invariance, PTL

\* Any number of concurrent deliveries of a shipment event apply it once, and
\* it is in the inbox exactly if one did (process_shipment_event.py, inbox.add).
THEOREM ExactlyOnceEffect == Spec => []AppliedOnce
<1>1. Inv => AppliedOnce
  BY DEF Inv
<1> QED
  BY <1>1, Invariance, PTL

\* The event of an order that does not exist is not recorded as seen: the
\* exception rolls its inbox row back, and a redelivery can still apply it.
THEOREM UnknownStaysOpen == Spec => []SeenOrderExists
<1>1. ASSUME Inv, NEW e \in inbox
      PROVE  Committed(shipments[e].order)
  <2>1. PICK h \in Handlers : pc[h] = "applied" /\ input[h] = e
    BY <1>1 DEF Inv, TypeOK, AppliedOnce
  <2> QED
    BY <1>1, <2>1 DEF Inv, Decisions, Inputs
<1>2. Inv => SeenOrderExists
  BY <1>1 DEF SeenOrderExists
<1> QED
  BY <1>2, Invariance, PTL

\* A client that got a payment error has no NEW order left (create_order.py).
THEOREM ErrorIsCompensated == Spec => []PaymentErrorCompensated
<1>1. Inv => PaymentErrorCompensated
  BY DEF Inv
<1> QED
  BY <1>1, Invariance, PTL

\* A callback that was answered with an outcome has moved its order for good.
THEOREM AnswersHold == Spec => []AnsweredCallbackRecorded
<1>1. Inv => AnsweredCallbackRecorded
  BY DEF Inv
<1> QED
  BY <1>1, Invariance, PTL

\* No transaction deletes an order or puts it back to NEW.
THEOREM NewIsLeftForGood == Spec => NeverBackToNew
<1>1. Inv /\ [Next]_vars =>
        [\A o \in Requests :
           orders[o] # Absent => orders'[o] \in {orders[o]} \union (Status \ {"NEW"})]_vars
  <2> SUFFICES ASSUME Inv, Next, NEW o \in Requests, orders[o] # Absent
               PROVE  orders'[o] \in {orders[o]} \union (Status \ {"NEW"})
    OBVIOUS
  <2>1. orders'[o] \in Status
    BY TypeStep, OrdersStep DEF TypeOK
  <2>2. orders[o] # "NEW" => orders'[o] # "NEW"
    BY OrdersStep
  <2> QED
    BY <2>1, <2>2
<1> QED
  BY <1>1, Invariance, PTL DEF Spec, NeverBackToNew

-----------------------------------------------------------------------------
(* Orders nobody was asked to pay for *)

AfterPay == AfterOrder \ {"pay"}

\* Who has asked for a payment, and whose payment a callback is about.
Asked ==
  /\ \A r \in Requests : pc[r] \in AfterPay => payments[r] # "none"
  /\ \A c \in Callbacks :
       pc[c] # "idle" /\ order[c] \in Requests => payments[order[c]] # "none"

\* A payment that was asked for stays asked for.
LEMMA AskedOnce ==
  ASSUME Inv, Next, NEW o \in Requests, payments[o] # "none"
  PROVE  payments'[o] # "none"
<1> USE DEF Inv, TypeOK
<1>1. CASE Environment
  BY <1>1 DEF Environment, AcceptPayment, SettlePayment, PublishShipment
<1>2. ASSUME NEW r \in Requests, SendPayment(r)
      PROVE  payments'[o] # "none"
  BY <1>2 DEF SendPayment
<1>3. UNCHANGED payments \/ Environment \/ \E r \in Requests : SendPayment(r)
  BY DEF Next, Arrive, CreateStep, HandlerStep, UpdateStep, Post, Callback, Deliver,
         Lookup, Catalog, Recheck, Insert, CommitNew, PaymentAnswer, LoadToCancel,
         LoadForPayment, InboxAdd, LoadForShipment, Reread, Flush, Commit, Fail
<1> QED
  BY <1>1, <1>2, <1>3

\* Whoever is about to change an order, its payment was asked for.
LEMMA UpdatesAreAsked ==
  ASSUME Inv, Asked, NEW p \in Calls, Updating(p)
  PROVE  payments[order[p]] # "none"
<1>1. order[p] \in Requests
  BY DEF Inv, Decisions, Backed
<1>2. CASE p \in Requests
  BY <1>2 DEF Asked, Updating, AfterPay, AfterOrder, Inv, Inputs
<1>3. CASE p \in Callbacks
  BY <1>1, <1>3 DEF Asked, Updating
<1>4. CASE p \in Handlers
  <2>1. Outbox!PaidEvent(order[p])
    BY <1>1, <1>4 DEF Updating, Inv, Inputs, Backing
  <2> QED
    BY <2>1 DEF Outbox!PaidEvent, Inv, PaidIsBacked
<1> QED
  BY <1>2, <1>3, <1>4 DEF Calls

\* How a call comes to a pc, for the pcs that matter here.
LEMMA AskedStep ==
  ASSUME Inv, Asked, Next
  PROVE  Asked'
<1> USE DisjointCalls DEF Inv, TypeOK, Calls, Goto, AfterPay, AfterOrder
<1>1. ASSUME NEW r \in Requests, pc'[r] \in AfterPay
      PROVE  pc[r] \in AfterPay \/ payments'[r] # "none"
  <2>1. ASSUME NEW q \in Requests, Post(q) \/ CreateStep(q)
        PROVE  pc[r] \in AfterPay \/ payments'[r] # "none"
    BY <1>1, <2>1 DEF Post, CreateStep, Lookup, Catalog, Recheck, Insert, CommitNew, SendPayment,
                      PaymentAnswer, LoadToCancel
  <2>2. ASSUME NEW q \in Callbacks \union Handlers,
               Callback(q) \/ LoadForPayment(q) \/ Deliver(q) \/ HandlerStep(q)
        PROVE  pc[r] \in AfterPay
    BY <1>1, <2>2 DEF Callback, LoadForPayment, Deliver, HandlerStep, InboxAdd, LoadForShipment
  <2>3. ASSUME NEW q \in Calls, UpdateStep(q) \/ Fail(q)
        PROVE  pc[r] \in AfterPay
    BY <1>1, <2>3 DEF UpdateStep, Reread, Flush, Commit, Fail
  <2>4. CASE Environment
    BY <1>1, <2>4 DEF Environment, AcceptPayment, SettlePayment, PublishShipment
  <2> QED
    BY <2>1, <2>2, <2>3, <2>4 DEF Next, Arrive
<1>2. ASSUME NEW c \in Callbacks, pc'[c] # "idle", order'[c] \in Requests
      PROVE  \/ payments'[order'[c]] # "none"
             \/ pc[c] # "idle" /\ UNCHANGED order[c]
  <2>1. CASE Callback(c)
    BY <1>2, <2>1 DEF Callback, CallbacksFor, Accepted
  <2>2. ASSUME NEW q \in Requests, Post(q) \/ CreateStep(q)
        PROVE  pc[c] # "idle" /\ UNCHANGED order[c]
    BY <1>2, <2>2 DEF Post, CreateStep, Lookup, Catalog, Recheck, Insert, CommitNew, SendPayment,
                      PaymentAnswer, LoadToCancel, locals
  <2>3. ASSUME NEW q \in Callbacks, q # c, Callback(q)
        PROVE  pc[c] # "idle" /\ UNCHANGED order[c]
    BY <1>2, <2>3 DEF Callback
  <2>4. ASSUME NEW q \in Calls, LoadForPayment(q) \/ UpdateStep(q) \/ Fail(q)
        PROVE  pc[c] # "idle" /\ UNCHANGED order[c]
    BY <1>2, <2>4 DEF LoadForPayment, UpdateStep, Reread, Flush, Commit, Fail, locals
  <2>5. ASSUME NEW h \in Handlers, Deliver(h) \/ HandlerStep(h)
        PROVE  pc[c] # "idle" /\ UNCHANGED order[c]
    BY <1>2, <2>5 DEF Deliver, HandlerStep, InboxAdd, LoadForShipment, locals
  <2>6. CASE Environment
    BY <1>2, <2>6 DEF Environment, AcceptPayment, SettlePayment, PublishShipment, locals
  <2> QED
    BY <2>1, <2>2, <2>3, <2>4, <2>5, <2>6 DEF Next, Arrive
<1> QED
  BY <1>1, <1>2, AskedOnce DEF Asked

\* The stranded order itself and its creator.
StrandedIsNew ==
  \A o \in Requests :
    orders[o] # Absent /\ payments[o] = "none" => orders[o] = "NEW" /\ pc[o] \in {"pay", "failed"}

LEMMA StrandedStep ==
  ASSUME Inv, Asked, StrandedIsNew, Next
  PROVE  StrandedIsNew'
<1> SUFFICES ASSUME NEW o \in Requests, orders'[o] # Absent, payments'[o] = "none"
             PROVE  orders'[o] = "NEW" /\ pc'[o] \in {"pay", "failed"}
  BY DEF StrandedIsNew
<1> USE DisjointCalls DEF Inv, TypeOK, Calls, Goto
<1>1. payments[o] = "none"
  BY AskedOnce
<1>2. CASE orders[o] = Absent
  <2>1. CommitNew(o)
    <3>1. ASSUME NEW p \in Calls, Commit(p)
          PROVE  orders'[o] = Absent
      BY <1>2, <3>1 DEF Commit, Decisions, Updating, Backed
    <3>2. ASSUME NEW r \in Requests, CommitNew(r), r # o
          PROVE  orders'[o] = Absent
      BY <1>2, <3>2 DEF CommitNew
    <3> QED
      BY <1>2, <3>1, <3>2
         DEF Next, Arrive, Environment, CreateStep, HandlerStep, UpdateStep, Post, Callback,
             Deliver, AcceptPayment, SettlePayment, PublishShipment, Lookup, Catalog, Recheck,
             Insert, SendPayment, PaymentAnswer, LoadToCancel, LoadForPayment, InboxAdd,
             LoadForShipment, Reread, Flush, Fail
  <2> QED
    BY <2>1 DEF CommitNew
<1>3. CASE orders[o] # Absent
  <2>1. orders[o] = "NEW" /\ pc[o] \in {"pay", "failed"}
    BY <1>1, <1>3 DEF StrandedIsNew
  <2>2. orders'[o] = orders[o]
    <3>1. ASSUME NEW p \in Calls, Commit(p)
          PROVE  orders'[o] = orders[o]
      BY <1>1, <3>1, UpdatesAreAsked DEF Commit, Decisions, Updating, Backed
    <3>2. ASSUME NEW r \in Requests, CommitNew(r)
          PROVE  orders'[o] = orders[o]
      BY <1>3, <3>2 DEF CommitNew, Stages, BeforeOrder
    <3> QED
      BY <3>1, <3>2
         DEF Next, Arrive, Environment, CreateStep, HandlerStep, UpdateStep, Post, Callback,
             Deliver, AcceptPayment, SettlePayment, PublishShipment, Lookup, Catalog, Recheck,
             Insert, SendPayment, PaymentAnswer, LoadToCancel, LoadForPayment, InboxAdd,
             LoadForShipment, Reread, Flush, Fail
  <2>3. pc'[o] \in {"pay", "failed"}
    <3>1. CASE pc[o] = "failed"
      BY <3>1, EndedStays DEF Final
    <3>2. CASE pc[o] = "pay"
      <4>1. ASSUME NEW r \in Requests, Post(r) \/ CreateStep(r)
            PROVE  pc'[o] \in {"pay", "failed"}
        BY <3>2, <4>1 DEF Post, CreateStep, Lookup, Catalog, Recheck, Insert, CommitNew,
                          SendPayment, PaymentAnswer, LoadToCancel
      <4>2. ASSUME NEW q \in Callbacks \union Handlers,
                   Callback(q) \/ LoadForPayment(q) \/ Deliver(q) \/ HandlerStep(q)
            PROVE  pc'[o] = "pay"
        BY <3>2, <4>2 DEF Callback, LoadForPayment, Deliver, HandlerStep, InboxAdd, LoadForShipment
      <4>3. ASSUME NEW q \in Calls, UpdateStep(q) \/ Fail(q)
            PROVE  pc'[o] \in {"pay", "failed"}
        BY <3>2, <4>3 DEF UpdateStep, Reread, Flush, Commit, Fail
      <4>4. CASE Environment
        BY <3>2, <4>4 DEF Environment, AcceptPayment, SettlePayment, PublishShipment
      <4> QED
        BY <4>1, <4>2, <4>3, <4>4 DEF Next, Arrive
    <3> QED
      BY <2>1, <3>1, <3>2
  <2> QED
    BY <2>1, <2>2, <2>3
<1> QED
  BY <1>2, <1>3

\* A repeated POST has no order of its own, so it neither asks for a payment
\* nor is answered with the creator's outcome.
LEMMA RepeatsOnlyRead ==
  ASSUME Inv, StrandedIsNew
  PROVE  StrandedByCrashOnly
<1> SUFFICES ASSUME NEW o \in Requests, orders[o] # Absent, payments[o] = "none",
                    NEW q \in Requests, KeyOf[q] = KeyOf[o]
             PROVE  payments[q] = "none" /\ pc[q] \notin {"created", "pay_error", "bad_response"}
  BY DEF StrandedByCrashOnly, StrandedIsNew
<1>1. CASE q = o
  BY <1>1 DEF StrandedIsNew
<1>2. CASE q # o
  <2>1. orders[q] = Absent
    BY <1>2 DEF Inv, UniqueKey
  <2> QED
    BY <2>1 DEF Inv, Stages, AfterOrder
<1> QED
  BY <1>1, <1>2

\* An order without a payment request is still NEW and is the trace of a
\* creator that is about to ask or that died; the POSTs that repeat its key
\* neither ask in the creator's place nor hear of a payment.
THEOREM OnlyCrashesStrand == Spec => []StrandedByCrashOnly
<1>1. Init => Asked /\ StrandedIsNew
  BY DisjointCalls DEF Init, Asked, StrandedIsNew, Calls, AfterPay, AfterOrder, Absent
<1>2. Asked /\ StrandedIsNew /\ UNCHANGED vars => Asked' /\ StrandedIsNew'
  BY DEF vars, locals, Asked, StrandedIsNew
<1>3. Inv /\ Asked /\ StrandedIsNew /\ [Next]_vars => Asked' /\ StrandedIsNew'
  BY <1>2, AskedStep, StrandedStep
<1> QED
  BY <1>1, <1>3, RepeatsOnlyRead, Invariance, PTL DEF Spec

-----------------------------------------------------------------------------
(* The refinement *)

\* The overlapping transactions implement the outbox in which a status and
\* the rows that announce it change in one step (TransactionalOutbox).
THEOREM Refinement == Spec => ImplementsOutbox
<1> USE DEF Outbox!EventsFor, EventsFor, Outbox!Notification, Notification,
            Outbox!OrderPaid, OrderPaid
<1>1. Init => Outbox!Init
  BY DEF Init, Outbox!Init, Outbox!Absent, Absent
<1>2. ASSUME Inv, NEW r \in Requests, CommitNew(r)
      PROVE  Outbox!Create(r)
  BY <1>2 DEF CommitNew, Goto, Inv, Stages, BeforeOrder, Outbox!Create, Outbox!Absent, Absent
<1>3. ASSUME Inv, NEW p \in Calls, Commit(p), target[p] # NoChange
      PROVE  Outbox!Change(order[p], target[p], p)
  <2>1. Backed(p) /\ Outbox!Announced(order[p], loaded[p])
    BY <1>3 DEF Commit, Goto, Inv, Decisions, Rereads, Updating
  <2>2. \A v \in outbox : v.by = p => v.status = "NEW"
    BY <1>3 DEF Commit, Goto, Inv, Announcers
  <2>3. \/ orders' = [orders EXCEPT ![order[p]] = target[p]]
        \/ Outbox!Announced(order[p], target[p]) /\ UNCHANGED orders
    BY <1>3, <2>1 DEF Commit
  <2> QED
    BY <1>3, <2>1, <2>2, <2>3 DEF Commit, Backed, Outbox!Change, Outbox!Absent, Absent
<1>4. ASSUME Inv, Next
      PROVE  Outbox!Next \/ UNCHANGED <<orders, outbox>>
  <2>1. \/ UNCHANGED <<orders, outbox>>
        \/ \E r \in Requests : CommitNew(r)
        \/ \E p \in Calls : Commit(p)
    BY <1>4 DEF Next, Arrive, Environment, CreateStep, HandlerStep, UpdateStep, Post, Callback,
         Deliver, AcceptPayment, SettlePayment, PublishShipment, Lookup, Catalog, Recheck, Insert,
         SendPayment, PaymentAnswer, LoadToCancel, LoadForPayment, InboxAdd, LoadForShipment,
         Reread, Flush, Fail
  <2>2. CASE \E r \in Requests : CommitNew(r)
    BY <1>2, <1>4, <2>2 DEF Outbox!Next
  <2>3. ASSUME NEW p \in Calls, Commit(p)
        PROVE  Outbox!Next \/ UNCHANGED <<orders, outbox>>
    <3>1. CASE target[p] = NoChange
      BY <2>3, <3>1 DEF Commit
    <3>2. CASE target[p] # NoChange
      <4>1. order[p] \in Requests /\ target[p] \in Outbox!Status \ {"NEW"}
        BY <1>4, <2>3, <3>2 DEF Commit, Goto, Inv, Decisions, Updating, Backed, Status,
                                Outbox!Status
      <4> QED
        BY <1>3, <1>4, <2>3, <3>2, <4>1 DEF Outbox!Next
    <3> QED
      BY <3>1, <3>2
  <2> QED
    BY <2>1, <2>2, <2>3
<1>5. Inv /\ [Next]_vars => [Outbox!Next]_<<orders, outbox>>
  BY <1>4 DEF vars
<1> QED
  BY <1>1, <1>5, Invariance, PTL DEF Spec, ImplementsOutbox, Outbox!Spec
=============================================================================
