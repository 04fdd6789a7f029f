----------------------- MODULE WorkerLifecycle_proofs -----------------------
(***************************************************************************)
(* Proofs about WorkerLifecycle for any set of roles: a broker that cannot *)
(* be reached ends no worker, and outbox_worker_loop leaves neither an     *)
(* open producer nor a task that could open one, at whatever await the     *)
(* shutdown meets it.                                                      *)
(***************************************************************************)
EXTENDS WorkerLifecycle, TLAPS

\* The connect task and the producer are made by outbox_worker_loop: not
\* before it begins, and the task right then.
MadeByLoop ==
  /\ outbox = "created" => connect = "none" /\ producer = "none"
  /\ outbox \in {"processing", "hanging", "sleeping", "closing"} => connect # "none"

\* Only the shutdown makes a worker meet a cancellation or close.
QuietBeforeStop ==
  ~stop => cancelled = {} /\ outbox # "closing" /\ shipment # "closing"

\* A cancellation waits for a connect task that can still meet it.
CancelledIsAlive ==
  "connect" \in cancelled => connect \in {"created", "starting", "waiting"}

\* The gather in outbox_worker_loop's `finally' waits for a connect task that
\* has ended or is about to: the connect task is never left to its retries.
GatherReturns ==
  outbox = "closing" => ConnectEnded \/ "connect" \in cancelled

Inv ==
  /\ TypeOK
  /\ MadeByLoop
  /\ OutboxLeavesNothing
  /\ QuietBeforeStop
  /\ OutageEndsNobody
  /\ CancelledIsAlive
  /\ GatherReturns

-----------------------------------------------------------------------------
(* Each part of Inv is preserved by every step *)

\* The tasks of a process are the two workers at most.
LEMMA HostedTasks ==
  ASSUME TypeOK
  PROVE  tasks \subseteq {"outbox", "shipment"}
  BY RolesAssumption DEF TypeOK, Hosted

\* The type of each variable survives every step.
LEMMA TypeStep ==
  ASSUME Inv, Next
  PROVE  TypeOK'
<1> USE DEF Inv, TypeOK, config, Next, ConnectStep, OutboxStep, ShipmentStep, Exit,
            TryStart, StartOk, StartError, ConnectCancelled,
            OutboxBegin, RoundEnds, OutboxRound, PublishReturns, OutboxCancelled, OutboxClose,
            Hang, ShipmentConnect, ShipmentStarted, ShipmentStartError, ShipmentRetry,
            ShipmentStopSeen, ShipmentClose, ShipmentCancelled, GetManyError,
            Shutdown, RequestStop, LifespanEnd, RunEnd
<1>1. role' \in Roles /\ tasks' \in Hosted(role')
  BY Zenon
<1>2. stop' \in BOOLEAN
  BY Zenon
<1>3. cancelled' \subseteq {"outbox", "connect", "shipment"}
  BY HostedTasks, Zenon
<1>4. outbox' \in {"created", "processing", "hanging", "sleeping", "closing", "ended"}
  BY Zenon
<1>5. connect' \in {"none", "created", "starting", "waiting", "connected", "gave up",
                    "cancelled"}
  BY Zenon
<1>6. producer' \in {"none", "unstarted", "started"}
  BY Zenon
<1>7. shipment' \in {"created", "starting", "aborting", "waiting", "consuming",
                     "closing", "failing", "ended", "failed"}
  BY Zenon
<1>8. consumer' \in {"none", "open"} /\ process' \in {"up", "exited"}
  BY Zenon
<1> QED
  BY <1>1, <1>2, <1>3, <1>4, <1>5, <1>6, <1>7, <1>8, Zenon DEF TypeOK

\* The producer and the connect task, from OutboxBegin to OutboxClose.
LEMMA ProducerStep ==
  ASSUME Inv, Next
  PROVE  MadeByLoop' /\ OutboxLeavesNothing'
<1> USE DEF Inv, MadeByLoop, OutboxLeavesNothing, ConnectEnded, config
<1>1. CASE ConnectStep
  BY <1>1 DEF ConnectStep, TryStart, StartOk, StartError, ConnectCancelled
<1>2. CASE OutboxStep \/ Hang \/ PublishReturns
  BY <1>2 DEF OutboxStep, OutboxBegin, RoundEnds, OutboxRound, PublishReturns, OutboxCancelled,
              OutboxClose, Hang
<1>3. CASE UNCHANGED <<outbox, connect, producer>>
  BY <1>3
<1> QED
  BY <1>1, <1>2, <1>3
     DEF Next, ShipmentStep, ShipmentConnect, ShipmentStarted, ShipmentStartError, ShipmentRetry,
         ShipmentStopSeen, ShipmentClose, ShipmentCancelled, GetManyError, Shutdown, RequestStop,
         Exit, LifespanEnd, RunEnd

\* Before the shutdown no path of a worker leads to its end.
LEMMA QuietStep ==
  ASSUME Inv, Next
  PROVE  QuietBeforeStop' /\ OutageEndsNobody'
<1> USE DEF Inv, QuietBeforeStop, OutageEndsNobody, config
<1>1. CASE ConnectStep
  BY <1>1 DEF ConnectStep, TryStart, StartOk, StartError, ConnectCancelled
<1>2. CASE OutboxStep \/ Hang \/ PublishReturns
  BY <1>2 DEF OutboxStep, OutboxBegin, RoundEnds, OutboxRound, PublishReturns, OutboxCancelled,
              OutboxClose, Hang
<1>3. CASE ShipmentStep \/ GetManyError
  BY <1>3 DEF ShipmentStep, ShipmentConnect, ShipmentStarted, ShipmentStartError, ShipmentRetry,
              ShipmentStopSeen, ShipmentClose, ShipmentCancelled, GetManyError
<1>4. CASE Shutdown \/ RequestStop \/ Exit
  BY <1>4 DEF Shutdown, RequestStop, Exit, LifespanEnd, RunEnd
<1> QED
  BY <1>1, <1>2, <1>3, <1>4 DEF Next

\* Whoever closes has cancelled the connect task or found it ended.
LEMMA CancelStep ==
  ASSUME Inv, Next
  PROVE  CancelledIsAlive' /\ GatherReturns'
<1> USE DEF Inv, TypeOK, MadeByLoop, QuietBeforeStop, CancelledIsAlive, GatherReturns, ConnectEnded
<1>1. CASE ConnectStep
  BY <1>1 DEF ConnectStep, TryStart, StartOk, StartError, ConnectCancelled
<1>2. CASE OutboxStep \/ Hang \/ PublishReturns
  BY <1>2 DEF OutboxStep, OutboxBegin, RoundEnds, OutboxRound, PublishReturns, OutboxCancelled,
              OutboxClose, Hang
<1>3. CASE ShipmentStep \/ GetManyError
  <2>1. UNCHANGED <<outbox, connect>> /\ cancelled' \in {cancelled, cancelled \ {"shipment"}}
    BY <1>3 DEF ShipmentStep, ShipmentConnect, ShipmentStarted, ShipmentStartError, ShipmentRetry,
                ShipmentStopSeen, ShipmentClose, ShipmentCancelled, GetManyError
  <2> QED
    BY <2>1
<1>4. CASE Shutdown \/ RequestStop \/ Exit
  BY <1>4, HostedTasks DEF Shutdown, RequestStop, Exit, LifespanEnd, RunEnd
<1> QED
  BY <1>1, <1>2, <1>3, <1>4 DEF Next

-----------------------------------------------------------------------------
(* The theorems *)

LEMMA InvInit == Init => Inv
  BY DEF Init, Inv, TypeOK, MadeByLoop, OutboxLeavesNothing, QuietBeforeStop,
         OutageEndsNobody, CancelledIsAlive, GatherReturns

\* Inv is an invariant of a process in any role.
THEOREM Invariance == Spec => []Inv
<1>1. Inv /\ UNCHANGED vars => Inv'
  <2> USE DEF Inv, vars, config
  <2>1. Inv /\ UNCHANGED vars => TypeOK'
    BY DEF TypeOK
  <2>2. Inv /\ UNCHANGED vars =>
          MadeByLoop' /\ OutboxLeavesNothing' /\ CancelledIsAlive' /\ GatherReturns'
    BY DEF MadeByLoop, OutboxLeavesNothing, CancelledIsAlive, GatherReturns, ConnectEnded
  <2>3. Inv /\ UNCHANGED vars => QuietBeforeStop' /\ OutageEndsNobody'
    BY DEF QuietBeforeStop, OutageEndsNobody
  <2> QED
    BY <2>1, <2>2, <2>3
<1>2. Inv /\ [Next]_vars => Inv'
  BY <1>1, TypeStep, ProducerStep, QuietStep, CancelStep DEF Inv
<1> QED
  BY <1>2, InvInit, PTL DEF Spec

\* Every task is where the code can be, in any role.
THEOREM TypeCorrect == Spec => []TypeOK
<1>1. Inv => TypeOK
  BY DEF Inv
<1> QED
  BY <1>1, Invariance, PTL

\* Once outbox_worker_loop is over its producer is closed and no connect task
\* is left to open another, whatever the stop event, the cancellation and the
\* connect attempt interleave to (bin/outbox_worker.py and the lifespan).
THEOREM OutboxCleansUp == Spec => []OutboxLeavesNothing
<1>1. Inv => OutboxLeavesNothing
  BY DEF Inv
<1> QED
  BY <1>1, Invariance, PTL

\* Without a shutdown the outbox loop never ends, and the consumer's ends by
\* an error of getmany alone: failed connects are retried for ever.
THEOREM OutageIsSurvived == Spec => []OutageEndsNobody
<1>1. Inv => OutageEndsNobody
  BY DEF Inv
<1> QED
  BY <1>1, Invariance, PTL

\* The `finally' of outbox_worker_loop never waits in vain: the connect task
\* it gathers has ended, or has a cancellation to meet at the await it is at.
THEOREM GatherIsAnswered ==
  Spec => [](outbox = "closing" =>
               \/ ConnectEnded
               \/ "connect" \in cancelled /\ connect \in {"created", "starting", "waiting"})
<1>1. Inv => (outbox = "closing" =>
                \/ ConnectEnded
                \/ "connect" \in cancelled /\ connect \in {"created", "starting", "waiting"})
  BY DEF Inv, GatherReturns, CancelledIsAlive
<1> QED
  BY <1>1, Invariance, PTL
=============================================================================
