-------------------------- MODULE ShipmentConsumer --------------------------
(***************************************************************************)
(* shipment_consumer_loop: the consumers of one Kafka group (the task in   *)
(* the API process and the containers of bin/shipment_consumer.py) read    *)
(* Shipping's topic in batches, hand every message to ProcessShipmentEvent *)
(* and commit offsets, while partitions move between them and they stop,   *)
(* crash and come back.                                                    *)
(*                                                                         *)
(* A message is <<p, i>>, the i-th of partition p. ProcessShipmentEvent is *)
(* one step here: OrderTransactions has its transaction, and shows that    *)
(* overlapping calls for one event id take effect one after the other.     *)
(***************************************************************************)
EXTENDS OrderDomain, Naturals, Sequences, FiniteSets

CONSTANTS
  Consumers,
  Partitions,
  Payloads,        \* what Shipping may publish
  KnownOrders,     \* orders of this service; other orders are not found
  Empty,           \* a message without a value
  Malformed,       \* no JSON, no order_id or no UUID in it
  None,
  MaxRecords,      \* max_records of getmany
  MaxMessages,     \* bound: messages in all partitions
  MaxDisruptions   \* bound: stops, crashes and spontaneous rebalances

ASSUME BoundsAssumption ==
  MaxRecords \in Nat \ {0} /\ MaxMessages \in Nat /\ MaxDisruptions \in Nat

ASSUME PartitionsAssumption == IsFiniteSet(Partitions)

Events == Payloads \ {Empty, Malformed}

\* An event has an event_id or None, a type, an order, and as detail its
\* shipment_id or its reason, or None. Shipping gives an event_id to one
\* thing that happened to one order.
ASSUME EventsAssumption ==
  /\ Empty # Malformed
  /\ \A e, f \in Events :
       e.event_id = f.event_id /\ e.event_id # None
         => e.order = f.order /\ e.type = f.type

ASSUME NoneAssumption == None \notin Consumers \union (Partitions \X Nat)

VARIABLES
  log,          \* the payloads of each partition
  committed,    \* the group's committed offset in each partition
  owner,        \* the consumer each partition is assigned to, or None
  position,     \* how far the owner of each partition has fetched it
  members,      \* the consumers whose loop is running
  batch,        \* messages of each consumer's last getmany it still has to do
  hand,         \* the message each consumer is about to commit(), or None
  inbox,        \* event ids in the inbox table
  fate,         \* history: what has happened to each message
  disruptions

vars == <<log, committed, owner, position, members, batch, hand, inbox, fate,
          disruptions>>

Messages == Partitions \X (1..MaxMessages)

Published(m) == m[2] <= Len(log[m[1]])

Payload(m) == log[m[1]][m[2]]

Init ==
  /\ log = [p \in Partitions |-> << >>]
  /\ committed = [p \in Partitions |-> 0]
  /\ owner = [p \in Partitions |-> None]
  /\ position = [p \in Partitions |-> 0]
  /\ members = {}
  /\ batch = [c \in Consumers |-> {}]
  /\ hand = [c \in Consumers |-> None]
  /\ inbox = {}
  /\ fate = [m \in Messages |-> {}]
  /\ disruptions = 0

\* fate' when `what' happens to the messages in S.
Record(S, what) ==
  fate' = [m \in Messages |-> IF m \in S THEN fate[m] \union {what} ELSE fate[m]]

-----------------------------------------------------------------------------
(* Shipping and the group coordinator *)

Publish(p) ==
  /\ Cardinality({m \in Messages : Published(m)}) < MaxMessages
  /\ \E x \in Payloads : log' = [log EXCEPT ![p] = Append(@, x)]
  /\ UNCHANGED <<committed, owner, position, members, batch, hand, inbox, fate,
                 disruptions>>

\* Some partition belongs to nobody, or to a consumer that is gone.
Orphaned == \E p \in Partitions : owner[p] \notin members

\* Every partition goes to some member, whose position starts at the
\* committed offset (auto_offset_reset="earliest" if there is none). Batches
\* already fetched stay where they are.
Assign ==
  /\ owner' \in [Partitions -> members]
  /\ position' = committed
  /\ UNCHANGED <<log, committed, members, batch, hand, inbox, fate>>

\* The coordinator replaces a member that left or stopped to send heartbeats.
Reassign == Orphaned /\ Assign /\ UNCHANGED disruptions

\* A rebalance for any other reason.
Rebalance ==
  /\ disruptions < MaxDisruptions
  /\ disruptions' = disruptions + 1
  /\ Assign

-----------------------------------------------------------------------------
(* The loop *)

\* What is left when the partitions of c are taken from it.
Released(c) == [p \in Partitions |-> IF owner[p] = c THEN None ELSE owner[p]]

\* consumer.start() has succeeded: a new member, which has no partition before
\* the coordinator gives it one, whatever was owned under its name before a
\* crash. Failed attempts are retried every 5 s and leave nothing behind.
Join(c) ==
  /\ c \notin members
  /\ members' = members \union {c}
  /\ owner' = Released(c)
  /\ UNCHANGED <<log, committed, position, batch, hand, inbox, fate, disruptions>>

\* The messages between each partition's position and next[p].
Fetched(next) == {m \in Messages : position[m[1]] < m[2] /\ m[2] <= next[m[1]]}

\* getmany with a result: up to max_records messages of the partitions that c
\* owns, whose positions it moves past them. Without one the loop polls again.
GetMany(c) ==
  /\ c \in members
  /\ hand[c] = None
  /\ batch[c] = {}
  /\ \E next \in [Partitions -> 0..MaxMessages] :
       /\ \A p \in Partitions : IF owner[p] = c
                                THEN next[p] \in position[p]..Len(log[p])
                                ELSE next[p] = position[p]
       /\ Cardinality(Fetched(next)) \in 1..MaxRecords
       /\ batch' = [batch EXCEPT ![c] = Fetched(next)]
       /\ position' = next
  /\ UNCHANGED <<log, committed, owner, members, hand, inbox, fate, disruptions>>

\* The loops over the batch have come to message m: a partition is read in
\* order; which partition is next is left open.
Current(c, m) ==
  /\ c \in members
  /\ hand[c] = None
  /\ m \in batch[c]
  /\ \A n \in batch[c] : n[1] = m[1] => m[2] <= n[2]

\* Mutant: the derived id leaves the order out.
build_shipment_event_id_NoOrder(e) ==
  IF e.event_id # None THEN <<e.event_id>>
  ELSE <<e.type, IF e.type = "other" THEN None ELSE e.detail>>

\* The explicit id, or one made of type, order and detail. A missing
\* shipment_id or reason counts like any other; events of unknown type have
\* no detail.
build_shipment_event_id(e) ==
  IF e.event_id # None THEN <<e.event_id>>
  ELSE <<e.type, e.order, IF e.type = "other" THEN None ELSE e.detail>>

\* Mutant: the use case ends without uow.commit, so the inbox row goes.
Handle_NotCommitted(c, m) ==
  /\ Current(c, m)
  /\ hand' = [hand EXCEPT ![c] = m]
  /\ \/ Payload(m) = Empty /\ Record({m}, "empty")
     \/ Payload(m) \in Events /\ Record({m}, "applied")
  /\ UNCHANGED <<log, committed, owner, position, members, batch, inbox, disruptions>>

\* _handle_shipment_message up to commit(): an empty message is skipped, an
\* event goes through ProcessShipmentEvent, which commits it to the inbox
\* (with its effect on the order) or finds it there.
Handle(c, m) ==
  /\ Current(c, m)
  /\ hand' = [hand EXCEPT ![c] = m]
  /\ \/ Payload(m) = Empty /\ Record({m}, "empty") /\ UNCHANGED inbox
     \/ /\ Payload(m) \in Events
        /\ LET id == build_shipment_event_id(Payload(m))
           IN IF id \in inbox
              THEN Record({m}, "duplicate") /\ UNCHANGED inbox
              ELSE /\ Payload(m).order \in KnownOrders
                   /\ inbox' = inbox \union {id}
                   /\ Record({m}, "applied")
  /\ UNCHANGED <<log, committed, owner, position, members, batch, disruptions>>

\* Mutant: the rest of the batch is dropped after an error.
HandleError_Break(c, m) ==
  /\ Current(c, m)
  /\ Payload(m) # Empty
  /\ batch' = [batch EXCEPT ![c] = {}]
  /\ Record({m}, "failed")
  /\ UNCHANGED <<log, committed, owner, position, members, hand, inbox, disruptions>>

\* Mutant: a message that failed is tried again until it succeeds.
HandleError_Retry(c, m) ==
  /\ Current(c, m)
  /\ Payload(m) # Empty
  /\ UNCHANGED vars

\* The handler raises: the payload cannot be read, the order is not found or
\* the database fails. The exception is logged and the loop goes on with the
\* next message.
HandleError(c, m) ==
  /\ Current(c, m)
  /\ Payload(m) # Empty
  /\ batch' = [batch EXCEPT ![c] = @ \ {m}]
  /\ Record({m}, "failed")
  /\ UNCHANGED <<log, committed, owner, position, members, hand, inbox, disruptions>>

\* Mutant: commit({tp: offset + 1}) of the message just handled.
Commit_ByMessage(c) ==
  /\ hand[c] # None
  /\ committed' = [p \in Partitions |->
       IF p = hand[c][1] /\ owner[p] = c THEN hand[c][2] ELSE committed[p]]
  /\ batch' = [batch EXCEPT ![c] = @ \ {hand[c]}]
  /\ hand' = [hand EXCEPT ![c] = None]
  /\ UNCHANGED <<log, owner, position, members, inbox, fate, disruptions>>

\* Mutant: one past the position.
Commit_OffByOne(c) ==
  /\ hand[c] # None
  /\ committed' = [p \in Partitions |->
       IF owner[p] = c THEN position[p] + 1 ELSE committed[p]]
  /\ batch' = [batch EXCEPT ![c] = @ \ {hand[c]}]
  /\ hand' = [hand EXCEPT ![c] = None]
  /\ UNCHANGED <<log, owner, position, members, inbox, fate, disruptions>>

\* consumer.commit() without offsets commits the position of every partition
\* that c owns now, which is past its whole batch.
Commit(c) ==
  /\ hand[c] # None
  /\ committed' = [p \in Partitions |->
       IF owner[p] = c THEN position[p] ELSE committed[p]]
  /\ batch' = [batch EXCEPT ![c] = @ \ {hand[c]}]
  /\ hand' = [hand EXCEPT ![c] = None]
  /\ UNCHANGED <<log, owner, position, members, inbox, fate, disruptions>>

\* commit() raises, for instance during a rebalance: logged like any other
\* error, and the loop goes on.
CommitError(c) ==
  /\ hand[c] # None
  /\ batch' = [batch EXCEPT ![c] = @ \ {hand[c]}]
  /\ hand' = [hand EXCEPT ![c] = None]
  /\ UNCHANGED <<log, committed, owner, position, members, inbox, fate, disruptions>>

\* c is gone, and with it what it had fetched.
Leave(c) ==
  /\ c \in members
  /\ disruptions < MaxDisruptions
  /\ disruptions' = disruptions + 1
  /\ members' = members \ {c}
  /\ Record(batch[c], "abandoned")
  /\ batch' = [batch EXCEPT ![c] = {}]
  /\ hand' = [hand EXCEPT ![c] = None]
  /\ UNCHANGED <<log, committed, position, inbox>>

\* The stop event is seen before a message or a poll, the task is cancelled,
\* or getmany raises: `finally' closes the consumer, which leaves the group.
Stop(c) ==
  /\ Leave(c)
  /\ owner' = Released(c)

\* The process dies; its partitions stay its own until the session times out.
Crash(c) == Leave(c) /\ UNCHANGED owner

Step(c) ==
  \/ GetMany(c)
  \/ \E m \in Messages : Handle(c, m) \/ HandleError(c, m)
  \/ Commit(c) \/ CommitError(c)

Next ==
  \/ \E p \in Partitions : Publish(p)
  \/ Reassign \/ Rebalance
  \/ \E c \in Consumers : Join(c) \/ Step(c) \/ Stop(c) \/ Crash(c)

Spec == Init /\ [][Next]_vars

\* The event loop runs every consumer that can go on, its calls end, and the
\* coordinator gives orphaned partitions to the members it has.
FairSpec == Spec /\ WF_vars(Reassign) /\ \A c \in Consumers : WF_vars(Step(c))

-----------------------------------------------------------------------------
(* Properties *)

InHand(m) == \E c \in Consumers : m \in batch[c]

\* Every variable keeps its shape.
TypeOK ==
  /\ log \in [Partitions -> Seq(Payloads)]
  /\ \A p \in Partitions : Len(log[p]) <= MaxMessages
  /\ committed \in [Partitions -> 0..MaxMessages]
  /\ owner \in [Partitions -> Consumers \union {None}]
  /\ position \in [Partitions -> 0..MaxMessages]
  /\ members \subseteq Consumers
  /\ batch \in [Consumers -> SUBSET Messages]
  /\ hand \in [Consumers -> Messages \union {None}]
  /\ inbox \subseteq {build_shipment_event_id(e) : e \in Events}
  /\ fate \in [Messages -> SUBSET {"applied", "duplicate", "empty", "failed", "abandoned"}]
  /\ disruptions \in 0..MaxDisruptions

\* The loop itself skips nothing: whatever lies before the committed offset,
\* or before a message that was dealt with, was dealt with too, is in the
\* hands of a consumer, or was in those of one that stopped. Partitions may
\* move with half a batch done and be read by two consumers at a time.
Accounted ==
  \A m \in Messages :
    m[2] <= committed[m[1]] \/ fate[m] # {} =>
      \A i \in 1..m[2] : fate[<<m[1], i>>] # {} \/ InHand(<<m[1], i>>)

\* A message dropped as a duplicate repeats one that was applied: an event of
\* the same type for the same order and, where build_shipment_event_id made
\* the id, of the same shipment or reason. Events that differ in those are
\* never mixed up, whichever comes first and however often.
DuplicateWasApplied ==
  \A m \in Messages :
    "duplicate" \in fate[m] =>
      \E n \in Messages :
        /\ "applied" \in fate[n]
        /\ Payload(n).type = Payload(m).type
        /\ Payload(n).order = Payload(m).order
        /\ Payload(m).event_id = None /\ Payload(m).type # "other" =>
             Payload(n).detail = Payload(m).detail

\* A consumer that lost a partition and is still working on messages of it
\* cannot take back what its new owner has committed.
OffsetsNeverGoBack ==
  [][\A p \in Partitions : committed'[p] >= committed[p]]_vars

\* "Kafka -> inbox -> order status": an event the group has committed is in
\* the inbox, or a consumer is still at it.
NoEventLost ==
  \A m \in Messages :
    /\ m[2] <= committed[m[1]]
    /\ Payload(m) \in Events
    /\ Payload(m).order \in KnownOrders
    => build_shipment_event_id(Payload(m)) \in inbox \/ InHand(m)

\* What is left of that: an event the group has committed is in the inbox or
\* in hand, unless its handler raised or its consumer ended with it in hand.
\* No rebalance, and no error of another message or of commit(), loses one.
LossExplained ==
  \A m \in Messages :
    m[2] <= committed[m[1]] /\ Payload(m) \in Events =>
      \/ build_shipment_event_id(Payload(m)) \in inbox
      \/ InHand(m)
      \/ fate[m] \intersect {"failed", "abandoned"} # {}

\* As long as some consumer stays up, every message is taken up: no message
\* that cannot be handled, no rebalance and no end of another consumer blocks
\* those behind it.
EveryMessageTakenUp ==
  (\E c \in Consumers : <>[](c \in members)) =>
    \A m \in Messages : Published(m) ~> fate[m] # {}
=============================================================================
