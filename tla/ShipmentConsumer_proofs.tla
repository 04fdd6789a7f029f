---------------------- MODULE ShipmentConsumer_proofs ----------------------
(***************************************************************************)
(* Proofs about ShipmentConsumer for any consumers, partitions, payloads   *)
(* and batch size, and however often partitions move and consumers end:    *)
(* offsets never go back, the loop skips nothing, what is dropped as a     *)
(* duplicate was applied, and an event that the group has committed is in  *)
(* the inbox unless its handler failed or its consumer ended.              *)
(***************************************************************************)
EXTENDS ShipmentConsumer, FiniteSetTheorems, TLAPS

Fates == {"applied", "duplicate", "empty", "failed", "abandoned"}

\* m has reached a consumer.
Taken(m) == fate[m] # {} \/ InHand(m)

\* The group never commits past what its owners have fetched.
Positions ==
  \A p \in Partitions : committed[p] <= position[p] /\ position[p] <= Len(log[p])

\* Only what was published reaches a consumer.
TakenIsPublished ==
  \A m \in Messages : Taken(m) => Published(m)

\* The handler has returned for a message that is about to be committed.
HandIsDone ==
  \A c \in Consumers : hand[c] # None => fate[hand[c]] # {}

\* Whatever lies before a position, or before a message that reached a
\* consumer, reached one too.
NoGaps ==
  \A m \in Messages : m[2] <= position[m[1]] \/ Taken(m) =>
    \A i \in 1..m[2] : Taken(<<m[1], i>>)

\* An id enters the inbox with a message that is applied.
InboxWasApplied ==
  \A id \in inbox : \E n \in Messages :
    /\ "applied" \in fate[n]
    /\ Payload(n) \in Events
    /\ id = build_shipment_event_id(Payload(n))

\* What is recorded of a message is true of its payload and of the inbox.
FateIsTrue ==
  \A m \in Messages :
    /\ "empty" \in fate[m] => Payload(m) = Empty
    /\ fate[m] \intersect {"applied", "duplicate"} # {} =>
         /\ Payload(m) \in Events
         /\ build_shipment_event_id(Payload(m)) \in inbox

Inv ==
  /\ TypeOK
  /\ Positions
  /\ TakenIsPublished
  /\ HandIsDone
  /\ NoGaps
  /\ InboxWasApplied
  /\ FateIsTrue

-----------------------------------------------------------------------------
(* Lemmas about the operators *)

\* A full partition alone takes up the bound, so Publish stays within it.
LEMMA RoomToPublish ==
  ASSUME TypeOK, NEW p \in Partitions,
         Cardinality({m \in Messages : Published(m)}) < MaxMessages
  PROVE  Len(log[p]) < MaxMessages
<1> DEFINE S == {m \in Messages : Published(m)}
           T == {p} \X (1..MaxMessages)
           f == [i \in 1..MaxMessages |-> <<p, i>>]
<1>1. MaxMessages \in Nat /\ Len(log[p]) \in Nat /\ Len(log[p]) <= MaxMessages
  BY BoundsAssumption DEF TypeOK
<1>2. SUFFICES ASSUME Len(log[p]) = MaxMessages
               PROVE  FALSE
  BY <1>1
<1>3. IsFiniteSet(1..MaxMessages) /\ Cardinality(1..MaxMessages) = MaxMessages
  BY <1>1, FS_Interval
<1>4. IsFiniteSet(Messages)
  BY <1>3, PartitionsAssumption, FS_Product DEF Messages
<1>5. f \in Bijection(1..MaxMessages, T)
  BY DEF Bijection, Injection, Surjection, IsInjective
<1>6. Cardinality(T) = MaxMessages
  BY <1>3, <1>5, FS_Bijection DEF ExistsBijection
<1>7. T \subseteq S
  BY <1>2 DEF Messages, Published
<1>8. IsFiniteSet(S)
  BY <1>4, FS_Subset
<1>9. Cardinality(T) <= Cardinality(S)
  BY <1>7, <1>8, FS_Subset
<1>10. Cardinality(S) \in Nat
  BY <1>8, FS_CardinalityType
<1> QED
  BY <1>1, <1>6, <1>9, <1>10

\* Two events under one inbox id are the same thing happening to the same
\* order: an explicit id is never equal to a derived one, and a derived one
\* holds type, order and detail.
LEMMA SameIdSameEvent ==
  ASSUME NEW e \in Events, NEW f \in Events,
         build_shipment_event_id(e) = build_shipment_event_id(f)
  PROVE  /\ e.type = f.type /\ e.order = f.order
         /\ e.event_id = None /\ e.type # "other" => e.detail = f.detail
<1>1. ASSUME NEW a, NEW b, NEW c, NEW d
      PROVE  <<a>> # <<b, c, d>>
  BY Len(<<a>>) = 1, Len(<<b, c, d>>) = 3
<1>2. CASE e.event_id # None /\ f.event_id # None
  BY <1>2, EventsAssumption DEF build_shipment_event_id
<1>3. CASE e.event_id = None /\ f.event_id = None
  BY <1>3 DEF build_shipment_event_id
<1>4. CASE e.event_id # None /\ f.event_id = None
  BY <1>1, <1>4 DEF build_shipment_event_id
<1>5. CASE e.event_id = None /\ f.event_id # None
  BY <1>1, <1>5 DEF build_shipment_event_id
<1> QED
  BY <1>2, <1>3, <1>4, <1>5

-----------------------------------------------------------------------------
(* What a step does to the log, the history and the batches *)

\* Taking a message out of a batch, or dropping the batch, keeps their shape.
LEMMA BatchType ==
  ASSUME batch \in [Consumers -> SUBSET Messages],
         hand \in [Consumers -> Messages \union {None}],
         NEW c \in Consumers, NEW x
  PROVE  /\ [batch EXCEPT ![c] = @ \ {x}] \in [Consumers -> SUBSET Messages]
         /\ [batch EXCEPT ![c] = {}] \in [Consumers -> SUBSET Messages]
         /\ [hand EXCEPT ![c] = None] \in [Consumers -> Messages \union {None}]
         /\ x \in Messages => [hand EXCEPT ![c] = x] \in [Consumers -> Messages \union {None}]
  OBVIOUS

LEMMA RecordType ==
  ASSUME fate \in [Messages -> SUBSET Fates], NEW S, NEW what \in Fates, Record(S, what)
  PROVE  fate' \in [Messages -> SUBSET Fates]
<1>1. \A m \in Messages : (IF m \in S THEN fate[m] \union {what} ELSE fate[m]) \in SUBSET Fates
  OBVIOUS
<1> QED
  BY <1>1 DEF Record

LEMMA TypeStep ==
  ASSUME Inv, Next
  PROVE  TypeOK'
<1> USE BoundsAssumption, NoneAssumption DEF Inv, TypeOK
<1>1. ASSUME NEW p \in Partitions, Publish(p)
      PROVE  TypeOK'
  <2>1. PICK x \in Payloads : log' = [log EXCEPT ![p] = Append(@, x)]
    BY <1>1 DEF Publish
  <2>2. Len(log[p]) < MaxMessages
    BY <1>1, RoomToPublish DEF Publish
  <2>3. log' \in [Partitions -> Seq(Payloads)]
    BY <2>1
  <2>4. ASSUME NEW q \in Partitions
        PROVE  Len(log'[q]) <= MaxMessages
    BY <2>1, <2>2
  <2> QED
    BY <1>1, <2>3, <2>4 DEF Publish
<1>2. CASE Reassign \/ Rebalance
  BY <1>2 DEF Reassign, Rebalance, Assign
<1>a. ASSUME NEW c \in Consumers, Join(c)
      PROVE  TypeOK'
  BY <1>a DEF Join, Released
<1>3. ASSUME NEW c \in Consumers, Commit(c) \/ CommitError(c)
      PROVE  TypeOK'
  <2>1. committed' \in [Partitions -> 0..MaxMessages]
    <3>1. CASE committed' = [p \in Partitions |->
                               IF owner[p] = c THEN position[p] ELSE committed[p]]
      BY <3>1
    <3>2. CASE UNCHANGED committed
      BY <3>2
    <3> QED
      BY <1>3, <3>1, <3>2 DEF Commit, CommitError
  <2>2. batch' \in [Consumers -> SUBSET Messages] /\ hand' \in [Consumers -> Messages \union {None}]
    <3>1. batch' = [batch EXCEPT ![c] = @ \ {hand[c]}] /\ hand' = [hand EXCEPT ![c] = None]
      BY <1>3 DEF Commit, CommitError
    <3> QED
      BY <3>1, BatchType
  <2> QED
    BY <1>3, <2>1, <2>2 DEF Commit, CommitError
<1>4. ASSUME NEW c \in Consumers, GetMany(c)
      PROVE  TypeOK'
  BY <1>4 DEF GetMany, Fetched
<1>5. ASSUME NEW c \in Consumers, NEW m \in Messages, Handle(c, m) \/ HandleError(c, m)
      PROVE  TypeOK'
  <2>1. hand' \in [Consumers -> Messages \union {None}] /\ batch' \in [Consumers -> SUBSET Messages]
    <3>1. \/ hand' = [hand EXCEPT ![c] = m] /\ UNCHANGED batch
          \/ batch' = [batch EXCEPT ![c] = @ \ {m}] /\ UNCHANGED hand
      BY <1>5 DEF Handle, HandleError
    <3>2. CASE hand' = [hand EXCEPT ![c] = m] /\ UNCHANGED batch
      BY <3>2, BatchType
    <3>3. CASE batch' = [batch EXCEPT ![c] = @ \ {m}] /\ UNCHANGED hand
      BY <3>3, BatchType
    <3> QED
      BY <3>1, <3>2, <3>3
  <2>2. inbox' \subseteq {build_shipment_event_id(e) : e \in Events}
    <3>1. \/ UNCHANGED inbox
          \/ Payload(m) \in Events /\ inbox' = inbox \union {build_shipment_event_id(Payload(m))}
      BY <1>5 DEF Handle, HandleError
    <3> QED
      BY <3>1
  <2>3. \E what \in Fates : Record({m}, what)
    BY <1>5 DEF Handle, HandleError, Fates
  <2>4. fate' \in [Messages -> SUBSET Fates]
    BY <2>3, RecordType DEF Fates
  <2> QED
    BY <1>5, <2>1, <2>2, <2>4 DEF Handle, HandleError, Fates
<1>6. ASSUME NEW c \in Consumers, Stop(c) \/ Crash(c)
      PROVE  TypeOK'
  <2>1. hand' \in [Consumers -> Messages \union {None}] /\ batch' \in [Consumers -> SUBSET Messages]
    BY <1>6, BatchType DEF Stop, Crash, Leave
  <2>2. owner' \in [Partitions -> Consumers \union {None}] /\ disruptions' \in 0..MaxDisruptions
    BY <1>6 DEF Stop, Crash, Leave, Released
  <2>3. fate' \in [Messages -> SUBSET Fates]
    BY <1>6, RecordType DEF Stop, Crash, Leave, Fates
  <2> QED
    BY <1>6, <2>1, <2>2, <2>3 DEF Stop, Crash, Leave, Fates
<1> QED
  BY <1>1, <1>2, <1>a, <1>3, <1>4, <1>5, <1>6 DEF Next, Step

\* The topic only grows: what was published keeps its payload.
LEMMA LogStep ==
  ASSUME Inv, Next, NEW m \in Messages, Published(m)
  PROVE  Published(m)' /\ Payload(m)' = Payload(m)
<1> USE DEF Inv, TypeOK, Messages, Published, Payload
<1>1. ASSUME NEW p \in Partitions, Publish(p)
      PROVE  Published(m)' /\ Payload(m)' = Payload(m)
  BY <1>1 DEF Publish
<1>2. UNCHANGED log \/ \E p \in Partitions : Publish(p)
  BY DEF Next, Step, Reassign, Rebalance, Assign, Join, GetMany, Handle, HandleError, Commit,
         CommitError, Stop, Crash, Leave
<1> QED
  BY <1>1, <1>2

\* The inbox and the history only grow.
LEMMA HistoryStep ==
  ASSUME Inv, Next
  PROVE  inbox \subseteq inbox' /\ \A m \in Messages : fate[m] \subseteq fate'[m]
<1>1. inbox \subseteq inbox'
  BY DEF Next, Step, Publish, Reassign, Rebalance, Assign, Join, GetMany, Handle, HandleError,
         Commit, CommitError, Stop, Crash, Leave
<1>2. UNCHANGED fate \/ \E S \in SUBSET Messages : \E what : Record(S, what)
  <2> USE DEF Inv, TypeOK
  <2>1. ASSUME NEW c \in Consumers, NEW m \in Messages, Handle(c, m) \/ HandleError(c, m)
        PROVE  \E S \in SUBSET Messages : \E what : Record(S, what)
    BY <2>1, {m} \in SUBSET Messages DEF Handle, HandleError
  <2>2. ASSUME NEW c \in Consumers, Stop(c) \/ Crash(c)
        PROVE  \E S \in SUBSET Messages : \E what : Record(S, what)
    BY <2>2 DEF Stop, Crash, Leave
  <2> QED
    BY <2>1, <2>2 DEF Next, Step, Publish, Reassign, Rebalance, Assign, Join, GetMany, Commit,
                      CommitError
<1> QED
  BY <1>1, <1>2 DEF Record

LEMMA PositionsStep ==
  ASSUME Inv, Next
  PROVE  Positions'
<1> USE DEF Inv, TypeOK, Positions
<1>1. ASSUME NEW p \in Partitions, Publish(p)
      PROVE  Positions'
  BY <1>1 DEF Publish
<1>2. CASE Reassign \/ Rebalance
  BY <1>2 DEF Reassign, Rebalance, Assign
<1>3. ASSUME NEW c \in Consumers, GetMany(c)
      PROVE  Positions'
  BY <1>3 DEF GetMany
<1>4. ASSUME NEW c \in Consumers, Commit(c)
      PROVE  Positions'
  BY <1>4 DEF Commit
<1>5. CASE UNCHANGED <<log, committed, position>>
  BY <1>5
<1> QED
  BY <1>1, <1>2, <1>3, <1>4, <1>5
     DEF Next, Step, Join, Handle, HandleError, CommitError, Stop, Crash, Leave

\* Whatever reached a consumer stays in hand or has something recorded of it:
\* a message leaves a batch only after its handler returned or raised, or
\* with its consumer.
LEMMA TakenStays ==
  ASSUME Inv, Next, NEW m \in Messages, Taken(m)
  PROVE  Taken(m)'
<1> USE DEF Taken, InHand
<1>1. CASE fate[m] # {}
  BY <1>1, HistoryStep
<1>2. CASE InHand(m)
  <2>1. PICK c \in Consumers : m \in batch[c]
    BY <1>2
  <2>2. ASSUME NEW d \in Consumers, GetMany(d)
        PROVE  m \in batch'[c]
    BY <2>1, <2>2 DEF GetMany, Inv, TypeOK
  <2>3. ASSUME NEW d \in Consumers, NEW n \in Messages, HandleError(d, n)
        PROVE  m \in batch'[c] \/ fate'[m] # {}
    BY <2>1, <2>3 DEF HandleError, Record, Inv, TypeOK
  <2>4. ASSUME NEW d \in Consumers, Commit(d) \/ CommitError(d)
        PROVE  m \in batch'[c] \/ fate'[m] # {}
    <3>1. batch' = [batch EXCEPT ![d] = @ \ {hand[d]}] /\ hand[d] # None /\ UNCHANGED fate
      BY <2>4 DEF Commit, CommitError
    <3>2. fate[hand[d]] # {}
      BY <3>1 DEF Inv, HandIsDone
    <3> QED
      BY <2>1, <3>1, <3>2 DEF Inv, TypeOK
  <2>5. ASSUME NEW d \in Consumers, Stop(d) \/ Crash(d)
        PROVE  m \in batch'[c] \/ fate'[m] # {}
    <3>1. /\ batch' = [batch EXCEPT ![d] = {}]
          /\ fate'[m] = IF m \in batch[d] THEN fate[m] \union {"abandoned"} ELSE fate[m]
      BY <2>5 DEF Stop, Crash, Leave, Record
    <3> QED
      BY <2>1, <3>1 DEF Inv, TypeOK
  <2>6. CASE UNCHANGED batch
    BY <2>1, <2>6
  <2> QED
    BY <2>2, <2>3, <2>4, <2>5, <2>6
       DEF Next, Step, Publish, Reassign, Rebalance, Assign, Join, Handle
<1> QED
  BY <1>1, <1>2

\* Messages reach consumers by getmany alone, which takes them in order.
LEMMA NewlyTaken ==
  ASSUME Inv, Next, NEW m \in Messages, ~Taken(m), Taken(m)'
  PROVE  position[m[1]] < m[2] /\ m[2] <= position'[m[1]] /\ Published(m)
<1> USE DEF Taken, InHand, Inv, TypeOK
<1>1. ASSUME NEW c \in Consumers, GetMany(c)
      PROVE  position[m[1]] < m[2] /\ m[2] <= position'[m[1]] /\ Published(m)
  <2>1. PICK next \in [Partitions -> 0..MaxMessages] :
          /\ \A p \in Partitions : IF owner[p] = c
                                   THEN next[p] \in position[p]..Len(log[p])
                                   ELSE next[p] = position[p]
          /\ batch' = [batch EXCEPT ![c] = Fetched(next)]
          /\ position' = next
    BY <1>1 DEF GetMany
  <2>2. m \in Fetched(next)
    BY <1>1, <2>1 DEF GetMany
  <2>3. m[1] \in Partitions /\ m[2] \in Nat /\ position[m[1]] < m[2] /\ m[2] <= next[m[1]]
    BY <2>2 DEF Fetched, Messages
  <2>4. next[m[1]] <= Len(log[m[1]])
    BY <2>1, <2>3
  <2> QED
    BY <2>1, <2>3, <2>4 DEF Published
<1>2. ASSUME NEW c \in Consumers, NEW n \in Messages, Handle(c, n) \/ HandleError(c, n)
      PROVE  FALSE
  <2>1. n \in batch[c] /\ (UNCHANGED batch \/ batch' = [batch EXCEPT ![c] = @ \ {n}])
    BY <1>2 DEF Handle, HandleError, Current
  <2>2. \E what : fate' = [k \in Messages |-> IF k \in {n} THEN fate[k] \union {what} ELSE fate[k]]
    BY <1>2 DEF Handle, HandleError, Record
  <2>3. m # n
    BY <2>1
  <2>4. fate'[m] = fate[m]
    BY <2>2, <2>3
  <2> QED
    BY <2>1, <2>4
<1>3. ASSUME NEW c \in Consumers, Commit(c) \/ CommitError(c)
      PROVE  FALSE
  BY <1>3 DEF Commit, CommitError
<1>4. ASSUME NEW c \in Consumers, Stop(c) \/ Crash(c)
      PROVE  FALSE
  BY <1>4 DEF Stop, Crash, Leave, Record
<1>5. CASE UNCHANGED <<batch, fate>>
  BY <1>5
<1> QED
  BY <1>1, <1>2, <1>3, <1>4, <1>5
     DEF Next, Step, Publish, Reassign, Rebalance, Assign, Join

\* A position moves on by getmany alone, past messages that are then in hand.
LEMMA PassedIsTaken ==
  ASSUME Inv, Next, NEW m \in Messages, position[m[1]] < m[2], m[2] <= position'[m[1]]
  PROVE  Taken(m)'
<1> USE DEF Inv, TypeOK, Messages
<1>1. ASSUME NEW c \in Consumers, GetMany(c)
      PROVE  Taken(m)'
  <2>1. PICK next \in [Partitions -> 0..MaxMessages] :
          batch' = [batch EXCEPT ![c] = Fetched(next)] /\ position' = next
    BY <1>1 DEF GetMany
  <2>2. m \in batch'[c]
    BY <2>1 DEF Fetched
  <2> QED
    BY <2>2 DEF Taken, InHand
<1>2. CASE Reassign \/ Rebalance
  BY <1>2 DEF Reassign, Rebalance, Assign, Positions
<1>3. CASE UNCHANGED position
  BY <1>3
<1> QED
  BY <1>1, <1>2, <1>3
     DEF Next, Step, Publish, Join, Handle, HandleError, Commit, CommitError, Stop, Crash, Leave

LEMMA TakenStep ==
  ASSUME Inv, Next
  PROVE  TakenIsPublished' /\ NoGaps'
<1>1. TakenIsPublished'
  BY LogStep, NewlyTaken DEF TakenIsPublished, Inv
<1>2. ASSUME NEW m \in Messages, m[2] <= position'[m[1]] \/ Taken(m)', NEW i \in 1..m[2]
      PROVE  Taken(<<m[1], i>>)'
  <2> DEFINE n == <<m[1], i>>
  <2>1. n \in Messages /\ n[1] = m[1] /\ n[2] = i /\ i \in Nat /\ m[2] \in Nat /\ i <= m[2]
    BY BoundsAssumption DEF Messages
  <2>a. position[m[1]] \in Nat /\ position'[m[1]] \in Nat
    BY TypeStep DEF Messages, Inv, TypeOK
  <2>2. CASE Taken(m) \/ m[2] <= position[m[1]]
    BY <2>1, <2>2, TakenStays DEF Inv, NoGaps
  <2>3. CASE i <= position[m[1]]
    <3>1. i \in 1..n[2]
      BY <2>1
    <3>2. Taken(n)
      BY <2>1, <2>3, <3>1 DEF Inv, NoGaps
    <3> QED
      BY <2>1, <3>2, TakenStays
  <2>4. CASE ~Taken(m) /\ ~(m[2] <= position[m[1]]) /\ ~(i <= position[m[1]])
    <3>1. m[2] <= position'[m[1]]
      BY <1>2, <2>4, NewlyTaken
    <3>2. position[n[1]] < n[2] /\ n[2] <= position'[n[1]]
      BY <2>1, <2>a, <2>4, <3>1
    <3> QED
      BY <2>1, <3>2, PassedIsTaken
  <2> QED
    BY <2>2, <2>3, <2>4
<1> QED
  BY <1>1, <1>2 DEF NoGaps

LEMMA HandStep ==
  ASSUME Inv, Next
  PROVE  HandIsDone'
<1> SUFFICES ASSUME NEW d \in Consumers, hand'[d] # None
             PROVE  fate'[hand'[d]] # {}
  BY DEF HandIsDone
<1> USE NoneAssumption DEF Inv, TypeOK
<1>1. CASE hand'[d] = hand[d]
  <2>1. hand[d] \in Messages /\ fate[hand[d]] # {}
    BY <1>1 DEF HandIsDone
  <2> QED
    BY <1>1, <2>1, HistoryStep
<1>2. ASSUME NEW c \in Consumers, NEW m \in Messages, Handle(c, m)
      PROVE  hand'[d] = hand[d] \/ fate'[hand'[d]] # {}
  <2>1. hand'[d] = IF c = d THEN m ELSE hand[d]
    BY <1>2 DEF Handle
  <2>2. \E what : Record({m}, what)
    BY <1>2 DEF Handle
  <2>3. fate'[m] # {}
    BY <2>2 DEF Record
  <2> QED
    BY <2>1, <2>3
<1>3. ASSUME NEW c \in Consumers, Commit(c) \/ CommitError(c) \/ Stop(c) \/ Crash(c)
      PROVE  hand'[d] = hand[d]
  BY <1>3 DEF Commit, CommitError, Stop, Crash, Leave
<1>4. CASE UNCHANGED hand
  BY <1>1, <1>4
<1> QED
  BY <1>1, <1>2, <1>3, <1>4
     DEF Next, Step, Publish, Reassign, Rebalance, Assign, Join, GetMany, HandleError

\* What a step adds to the history of a message, and to the inbox.
LEMMA HandlerStep ==
  ASSUME Inv, Next, NEW m \in Messages, NEW what, what \in fate'[m], what \notin fate[m]
  PROVE  /\ Published(m)
         /\ what = "empty" => Payload(m) = Empty
         /\ what \in {"applied", "duplicate"} =>
              /\ Payload(m) \in Events
              /\ build_shipment_event_id(Payload(m)) \in inbox'
<1> USE DEF Inv, TypeOK
<1>1. ASSUME NEW c \in Consumers, NEW n \in Messages, Handle(c, n) \/ HandleError(c, n)
      PROVE  n = m /\ m \in batch[c] /\ \/ Handle(c, m)
                                        \/ what = "failed"
  BY <1>1 DEF Handle, HandleError, Current, Record
<1>2. ASSUME NEW c \in Consumers, Stop(c) \/ Crash(c)
      PROVE  what = "abandoned" /\ m \in batch[c]
  BY <1>2 DEF Stop, Crash, Leave, Record
<1>3. ASSUME NEW c \in Consumers, Handle(c, m)
      PROVE  /\ what = "empty" => Payload(m) = Empty
             /\ what \in {"applied", "duplicate"} =>
                  /\ Payload(m) \in Events
                  /\ build_shipment_event_id(Payload(m)) \in inbox'
  BY <1>3 DEF Handle, Record
<1>4. ASSUME NEW c \in Consumers, m \in batch[c]
      PROVE  Published(m)
  BY <1>4 DEF TakenIsPublished, Taken, InHand
<1>5. \/ \E c \in Consumers, n \in Messages : Handle(c, n) \/ HandleError(c, n)
      \/ \E c \in Consumers : Stop(c) \/ Crash(c)
  BY DEF Next, Step, Publish, Reassign, Rebalance, Assign, Join, GetMany, Commit, CommitError
<1> QED
  BY <1>1, <1>2, <1>3, <1>4, <1>5

LEMMA FateStep ==
  ASSUME Inv, Next
  PROVE  FateIsTrue'
<1> SUFFICES ASSUME NEW m \in Messages, NEW what, what \in fate'[m]
             PROVE  /\ what = "empty" => Payload(m)' = Empty
                    /\ what \in {"applied", "duplicate"} =>
                         /\ Payload(m)' \in Events
                         /\ build_shipment_event_id(Payload(m))' \in inbox'
  BY DEF FateIsTrue
<1>1. /\ Published(m)
      /\ what = "empty" => Payload(m) = Empty
      /\ what \in {"applied", "duplicate"} =>
           /\ Payload(m) \in Events
           /\ build_shipment_event_id(Payload(m)) \in inbox'
  <2>1. CASE what \in fate[m]
    BY <2>1, HistoryStep DEF Inv, FateIsTrue, TakenIsPublished, Taken
  <2>2. CASE what \notin fate[m]
    BY <2>2, HandlerStep
  <2> QED
    BY <2>1, <2>2
<1>2. Payload(m)' = Payload(m)
  BY <1>1, LogStep
<1>3. build_shipment_event_id(Payload(m))' = build_shipment_event_id(Payload(m))
  BY <1>2 DEF build_shipment_event_id
<1> QED
  BY <1>1, <1>2, <1>3

LEMMA InboxStep ==
  ASSUME Inv, Next
  PROVE  InboxWasApplied'
<1> DEFINE Source(id, n) == /\ "applied" \in fate[n]
                            /\ Payload(n) \in Events
                            /\ id = build_shipment_event_id(Payload(n))
<1> SUFFICES ASSUME NEW id \in inbox'
             PROVE  \E n \in Messages : Source(id, n)'
  BY DEF InboxWasApplied
<1>1. ASSUME NEW n \in Messages, Published(n), "applied" \in fate'[n], Payload(n) \in Events,
             id = build_shipment_event_id(Payload(n))
      PROVE  Source(id, n)'
  <2>1. Payload(n)' = Payload(n)
    BY <1>1, LogStep
  <2> QED
    BY <1>1, <2>1 DEF build_shipment_event_id
<1>2. CASE id \in inbox
  <2>1. PICK n \in Messages : Source(id, n)
    BY <1>2 DEF Inv, InboxWasApplied
  <2>2. Published(n)
    BY <2>1 DEF Inv, TakenIsPublished, Taken
  <2> QED
    BY <1>1, <2>1, <2>2, HistoryStep
<1>3. CASE id \notin inbox
  <2>1. PICK c \in Consumers, n \in Messages : Handle(c, n)
    BY <1>3 DEF Next, Step, Publish, Reassign, Rebalance, Assign, Join, GetMany, HandleError,
                Commit, CommitError, Stop, Crash, Leave
  <2>2. /\ Payload(n) \in Events
        /\ id = build_shipment_event_id(Payload(n))
        /\ Record({n}, "applied")
    BY <1>3, <2>1 DEF Handle
  <2>3. "applied" \in fate'[n]
    BY <2>2 DEF Record
  <2>4. Published(n)
    BY <2>1 DEF Handle, Current, Inv, TakenIsPublished, Taken, InHand
  <2> QED
    BY <1>1, <2>2, <2>3, <2>4
<1> QED
  BY <1>2, <1>3

-----------------------------------------------------------------------------
(* The theorems *)

LEMMA InvInit == Init => Inv
<1> SUFFICES ASSUME Init PROVE Inv
  OBVIOUS
<1> USE BoundsAssumption, NoneAssumption DEF Init
<1>1. TypeOK
  BY DEF TypeOK
<1>2. Positions /\ HandIsDone /\ InboxWasApplied
  BY DEF Positions, HandIsDone, InboxWasApplied
<1>3. ASSUME NEW m \in Messages
      PROVE  ~Taken(m) /\ position[m[1]] = 0 /\ m[2] \in Nat /\ m[2] > 0
  BY DEF Taken, InHand, Messages
<1>4. TakenIsPublished /\ NoGaps /\ FateIsTrue
  BY <1>3 DEF TakenIsPublished, NoGaps, FateIsTrue
<1> QED
  BY <1>1, <1>2, <1>4 DEF Inv

\* Inv is an invariant of any number of consumers under any rebalances.
THEOREM Invariance == Spec => []Inv
<1>1. Inv /\ UNCHANGED vars => Inv'
  <2> USE DEF vars, Taken, InHand, Published, Payload
  <2>1. Inv /\ UNCHANGED vars => TypeOK' /\ Positions' /\ TakenIsPublished' /\ HandIsDone'
    BY DEF Inv, TypeOK, Positions, TakenIsPublished, HandIsDone
  <2>2. Inv /\ UNCHANGED vars => NoGaps'
    BY DEF Inv, NoGaps
  <2>3. Inv /\ UNCHANGED vars => InboxWasApplied' /\ FateIsTrue'
    BY DEF Inv, InboxWasApplied, FateIsTrue
  <2> QED
    BY <2>1, <2>2, <2>3 DEF Inv
<1>2. Inv /\ [Next]_vars => Inv'
  BY <1>1, TypeStep, PositionsStep, TakenStep, HandStep, InboxStep, FateStep DEF Inv
<1> QED
  BY <1>2, InvInit, PTL DEF Spec

\* Every variable keeps its shape; in particular no partition outgrows the
\* bound and no position leaves the log.
THEOREM TypeCorrect == Spec => []TypeOK
<1>1. Inv => TypeOK
  BY DEF Inv
<1> QED
  BY <1>1, Invariance, PTL

\* The loop skips nothing: a commit() of the whole position, a partition that
\* moves half way through a batch and a consumer that ends leave no message
\* behind that no consumer ever had in hand.
THEOREM NothingIsSkipped == Spec => []Accounted
<1>1. ASSUME Inv, NEW m \in Messages, m[2] <= committed[m[1]] \/ fate[m] # {}
      PROVE  \A i \in 1..m[2] : fate[<<m[1], i>>] # {} \/ InHand(<<m[1], i>>)
  <2>1. m[1] \in Partitions /\ m[2] \in Nat
    BY BoundsAssumption DEF Messages
  <2>2. m[2] <= position[m[1]] \/ Taken(m)
    BY <1>1, <2>1 DEF Inv, TypeOK, Positions, Taken
  <2> QED
    BY <1>1, <2>2 DEF Inv, NoGaps, Taken
<1>2. Inv => Accounted
  BY <1>1 DEF Accounted
<1> QED
  BY <1>2, Invariance, PTL

\* A message is dropped as a duplicate only if an event of its type for its
\* order, and of its shipment or reason if its id is a derived one, has been
\* applied (build_shipment_event_id mixes no two events up).
THEOREM DuplicatesAreReal == Spec => []DuplicateWasApplied
<1>1. ASSUME Inv, NEW m \in Messages, "duplicate" \in fate[m]
      PROVE  \E n \in Messages : /\ "applied" \in fate[n]
                                 /\ Payload(n).type = Payload(m).type
                                 /\ Payload(n).order = Payload(m).order
                                 /\ Payload(m).event_id = None /\ Payload(m).type # "other" =>
                                      Payload(n).detail = Payload(m).detail
  <2>1. Payload(m) \in Events /\ build_shipment_event_id(Payload(m)) \in inbox
    BY <1>1 DEF Inv, FateIsTrue
  <2>2. PICK n \in Messages :
          /\ "applied" \in fate[n]
          /\ Payload(n) \in Events
          /\ build_shipment_event_id(Payload(m)) = build_shipment_event_id(Payload(n))
    BY <1>1, <2>1 DEF Inv, InboxWasApplied
  <2> QED
    BY <2>1, <2>2, SameIdSameEvent
<1>2. Inv => DuplicateWasApplied
  BY <1>1 DEF DuplicateWasApplied
<1> QED
  BY <1>2, Invariance, PTL

\* A committed event is in the inbox or in hand, or its handler raised, or its
\* consumer ended with it: the loop itself loses nothing.
THEOREM LossHasACause == Spec => []LossExplained
<1>1. ASSUME Inv, NEW m \in Messages, m[2] <= committed[m[1]], Payload(m) \in Events,
             ~InHand(m), fate[m] \intersect {"failed", "abandoned"} = {}
      PROVE  build_shipment_event_id(Payload(m)) \in inbox
  <2>1. m = <<m[1], m[2]>> /\ m[1] \in Partitions /\ m[2] \in 1..m[2]
    BY BoundsAssumption DEF Messages
  <2>2. m[2] <= position[m[1]]
    BY <1>1, <2>1 DEF Inv, TypeOK, Positions
  <2>3. fate[m] # {}
    BY <1>1, <2>1, <2>2 DEF Inv, NoGaps, Taken
  <2>4. Payload(m) # Empty
    BY <1>1 DEF Events
  <2>5. fate[m] \intersect {"applied", "duplicate"} # {}
    BY <1>1, <2>3, <2>4 DEF Inv, TypeOK, FateIsTrue
  <2> QED
    BY <1>1, <2>5 DEF Inv, FateIsTrue
<1>2. Inv => LossExplained
  BY <1>1 DEF LossExplained
<1> QED
  BY <1>2, Invariance, PTL

\* A consumer that lost a partition and commits late takes nothing back.
THEOREM OffsetsOnlyGrow == Spec => OffsetsNeverGoBack
<1>1. Inv /\ [Next]_vars => [\A p \in Partitions : committed'[p] >= committed[p]]_vars
  <2> SUFFICES ASSUME Inv, Next, NEW p \in Partitions
               PROVE  committed'[p] >= committed[p]
    OBVIOUS
  <2> USE DEF Inv, TypeOK
  <2>1. ASSUME NEW c \in Consumers, Commit(c)
        PROVE  committed'[p] >= committed[p]
    BY <2>1 DEF Commit, Positions
  <2>2. CASE UNCHANGED committed
    BY <2>2
  <2> QED
    BY <2>1, <2>2
       DEF Next, Step, Publish, Reassign, Rebalance, Assign, Join, GetMany, Handle, HandleError,
           CommitError, Stop, Crash, Leave
<1> QED
  BY <1>1, Invariance, PTL DEF Spec, OffsetsNeverGoBack
=============================================================================
