-------------------------- MODULE WorkerLifecycle --------------------------
(***************************************************************************)
(* One operating system process of the service, from start to exit: which  *)
(* worker tasks it runs, how they connect to Kafka, and how they end. The  *)
(* role is the APP_ROLE of the container:                                  *)
(*                                                                         *)
(*   api                 lifespan starts both workers as tasks; shutdown   *)
(*                       sets the stop event and cancels them              *)
(*   outbox-worker       bin/outbox_worker.py awaits outbox_worker_loop;   *)
(*                       a signal sets the stop event and cancels nothing  *)
(*   shipment-consumer   bin/shipment_consumer.py, likewise                *)
(*                                                                         *)
(* asyncio switches tasks only at an await, so a pc names the await a task *)
(* is at, and a step runs from there to its next await. What the workers   *)
(* do in between is the subject of OutboxRelay and ShipmentConsumer.       *)
(***************************************************************************)
CONSTANT Roles

ASSUME RolesAssumption == Roles \subseteq {"api", "outbox-worker", "shipment-consumer"}

VARIABLES
  role,
  tasks,      \* the workers the process runs
  stop,       \* the stop event
  cancelled,  \* tasks with a cancellation they have not met yet
  outbox,     \* pc of outbox_worker_loop
  connect,    \* pc of its task _connect_kafka
  producer,   \* AIOKafkaEventPublisher._producer
  shipment,   \* pc of shipment_consumer_loop
  consumer,   \* its AIOKafkaConsumer
  process     \* up, or exited after engine.dispose()

config == <<role, tasks>>

vars == <<config, stop, cancelled, outbox, connect, producer, shipment, consumer, process>>

\* The API runs both workers or, without KAFKA_BOOTSTRAP_SERVERS or with
\* RUN_KAFKA_WORKERS_IN_API off, none; the programs in bin/ run one.
Hosted(r) ==
  CASE r = "api" -> {{}, {"outbox", "shipment"}}
    [] r = "outbox-worker" -> {{"outbox"}}
    [] r = "shipment-consumer" -> {{"shipment"}}

\* create_task of the workers, or the await of the one that bin/ runs.
Init ==
  /\ role \in Roles
  /\ tasks \in Hosted(role)
  /\ stop = FALSE
  /\ cancelled = {}
  /\ outbox = IF "outbox" \in tasks THEN "created" ELSE "ended"
  /\ connect = "none"
  /\ producer = "none"
  /\ shipment = IF "shipment" \in tasks THEN "created" ELSE "ended"
  /\ consumer = "none"
  /\ process = "up"

-----------------------------------------------------------------------------
(* AIOKafkaEventPublisher and the task _connect_kafka *)

\* The loop of _connect_kafka comes round: it ends if stop is set. Otherwise
\* it calls start(), which does nothing if there is a producer, and makes one
\* and awaits its start() if not.
TryStart ==
  /\ "connect" \notin cancelled
  /\ connect \in {"created", "waiting"}
  /\ IF stop THEN connect' = "gave up" /\ UNCHANGED producer
     ELSE IF producer # "none" THEN connect' = "connected" /\ UNCHANGED producer
     ELSE connect' = "starting" /\ producer' = "unstarted"
  /\ UNCHANGED <<config, stop, cancelled, outbox, shipment, consumer, process>>

\* The producer's start() returns ("Outbox Kafka publisher connected").
StartOk ==
  /\ "connect" \notin cancelled
  /\ connect = "starting"
  /\ connect' = "connected"
  /\ producer' = "started"
  /\ UNCHANGED <<config, stop, cancelled, outbox, shipment, consumer, process>>

\* Mutant: a failed connect ends the whole worker.
StartError_Fatal ==
  /\ "connect" \notin cancelled
  /\ connect = "starting"
  /\ connect' = "gave up"
  /\ outbox' = "ended"
  /\ UNCHANGED <<config, stop, cancelled, producer, shipment, consumer, process>>

\* It raises ("Kafka connect failed, retry in 5s"); _producer stays set.
StartError ==
  /\ "connect" \notin cancelled
  /\ connect = "starting"
  /\ connect' = "waiting"
  /\ UNCHANGED <<config, stop, cancelled, outbox, producer, shipment, consumer, process>>

\* CancelledError is no Exception: it passes the handler and ends the task.
ConnectCancelled ==
  /\ "connect" \in cancelled
  /\ connect \in {"created", "starting", "waiting"}
  /\ connect' = "cancelled"
  /\ cancelled' = cancelled \ {"connect"}
  /\ UNCHANGED <<config, stop, outbox, producer, shipment, consumer, process>>

ConnectEnded == connect \in {"connected", "gave up", "cancelled"}

-----------------------------------------------------------------------------
(* outbox_worker_loop *)

\* The task starts: the connect task is created, the first round begins.
OutboxBegin ==
  /\ "outbox" \notin cancelled
  /\ outbox = "created"
  /\ connect' = "created"
  /\ outbox' = IF stop THEN "closing" ELSE "processing"
  /\ cancelled' = IF stop THEN cancelled \union {"connect"} ELSE cancelled
  /\ UNCHANGED <<config, stop, producer, shipment, consumer, process>>

\* A round of ProcessOutboxEvents hands an event to publish, which may not
\* return: a producer that is set and not started waits for metadata nobody
\* fetches, and a started one with enable_idempotence retries for as long as
\* the broker is away. (Otherwise it returns or raises, see OutboxRound.)
Hang ==
  /\ "outbox" \notin cancelled
  /\ outbox = "processing"
  /\ producer # "none"
  /\ outbox' = "hanging"
  /\ UNCHANGED <<config, stop, cancelled, connect, producer, shipment, consumer, process>>

\* A round ends, or raises and counts as empty; the loop sleeps after an empty
\* one. The next round begins, unless stop is set: then the loop ends, and
\* `finally' cancels the connect task.
RoundEnds ==
  /\ IF stop THEN /\ outbox' = "closing"
                  /\ cancelled' = cancelled \union (IF ConnectEnded THEN {} ELSE {"connect"})
     ELSE /\ outbox' \in {"processing", "sleeping"} \ {outbox}
          /\ UNCHANGED cancelled
  /\ UNCHANGED <<config, stop, connect, producer, shipment, consumer, process>>

OutboxRound ==
  /\ "outbox" \notin cancelled
  /\ outbox \in {"processing", "sleeping"}
  /\ RoundEnds

\* The broker is there again, and publish on a started producer returns. What
\* is left of the round may hang once more, which is one longer hang.
PublishReturns ==
  /\ "outbox" \notin cancelled
  /\ outbox = "hanging"
  /\ producer = "started"
  /\ RoundEnds

\* CancelledError at the await: the round is rolled back, `finally' runs. A
\* task that had not started never does.
OutboxCancelled ==
  /\ "outbox" \in cancelled
  /\ outbox \in {"created", "processing", "hanging", "sleeping"}
  /\ IF outbox = "created"
     THEN outbox' = "ended" /\ cancelled' = cancelled \ {"outbox"}
     ELSE /\ outbox' = "closing"
          /\ cancelled' = (cancelled \ {"outbox"}) \union
                          (IF ConnectEnded THEN {} ELSE {"connect"})
  /\ UNCHANGED <<config, stop, connect, producer, shipment, consumer, process>>

\* Mutant: publisher.stop() without waiting for the connect task.
OutboxClose_NoGather ==
  /\ outbox = "closing"
  /\ outbox' = "ended"
  /\ producer' = "none"
  /\ UNCHANGED <<config, stop, cancelled, connect, shipment, consumer, process>>

\* Mutant: publisher.stop() keeps the producer it has closed.
OutboxClose_KeepsProducer ==
  /\ outbox = "closing"
  /\ ConnectEnded
  /\ outbox' = "ended"
  /\ producer' = "closed"
  /\ UNCHANGED <<config, stop, cancelled, connect, shipment, consumer, process>>

\* gather(connect_task) returns once that task has ended, then
\* publisher.stop() closes the producer, started or not.
OutboxClose ==
  /\ outbox = "closing"
  /\ ConnectEnded
  /\ outbox' = "ended"
  /\ producer' = "none"
  /\ UNCHANGED <<config, stop, cancelled, connect, shipment, consumer, process>>

-----------------------------------------------------------------------------
(* shipment_consumer_loop *)

\* The connect loop comes round: a new consumer, and the await of its start().
ShipmentConnect ==
  /\ "shipment" \notin cancelled
  /\ shipment \in {"created", "waiting"}
  /\ IF stop THEN shipment' = "ended" /\ UNCHANGED consumer
     ELSE shipment' = "starting" /\ consumer' = "open"
  /\ UNCHANGED <<config, stop, cancelled, outbox, connect, producer, process>>

\* start() returns and the loop is left; if stop was set meanwhile the
\* function returns right away.
ShipmentStarted ==
  /\ "shipment" \notin cancelled
  /\ shipment = "starting"
  /\ shipment' = IF stop THEN "ended" ELSE "consuming"
  /\ UNCHANGED <<config, stop, cancelled, outbox, connect, producer, consumer, process>>

\* start() raises: the handler awaits consumer.stop(), ...
ShipmentStartError ==
  /\ "shipment" \notin cancelled
  /\ shipment = "starting"
  /\ shipment' = "aborting"
  /\ UNCHANGED <<config, stop, cancelled, outbox, connect, producer, consumer, process>>

\* ... forgets the consumer, and waits 5 s or for the stop event.
ShipmentRetry ==
  /\ "shipment" \notin cancelled
  /\ shipment = "aborting"
  /\ shipment' = "waiting"
  /\ consumer' = "none"
  /\ UNCHANGED <<config, stop, cancelled, outbox, connect, producer, process>>

\* getmany or the handling of a message returns, and stop is set.
ShipmentStopSeen ==
  /\ "shipment" \notin cancelled
  /\ shipment = "consuming"
  /\ stop
  /\ shipment' = "closing"
  /\ UNCHANGED <<config, stop, cancelled, outbox, connect, producer, consumer, process>>

\* getmany raises, which leaves the loop for good.
GetManyError ==
  /\ "shipment" \notin cancelled
  /\ shipment = "consuming"
  /\ shipment' = "failing"
  /\ UNCHANGED <<config, stop, cancelled, outbox, connect, producer, consumer, process>>

\* `finally': consumer.stop() returns.
ShipmentClose ==
  /\ "shipment" \notin cancelled
  /\ \/ shipment = "closing" /\ shipment' = "ended"
     \/ shipment = "failing" /\ shipment' = "failed"
  /\ consumer' = "none"
  /\ UNCHANGED <<config, stop, cancelled, outbox, connect, producer, process>>

\* CancelledError at the await: `finally' closes a consumer that was
\* consuming; no handler closes one that was being started, and one that was
\* being closed is left half way.
ShipmentCancelled ==
  /\ "shipment" \in cancelled
  /\ cancelled' = cancelled \ {"shipment"}
  /\ \/ shipment \in {"created", "starting", "aborting", "waiting"} /\ shipment' = "ended"
     \/ shipment = "consuming" /\ shipment' = "closing"
     \/ shipment = "failing" /\ shipment' = "failed"
  /\ UNCHANGED <<config, stop, outbox, connect, producer, consumer, process>>

-----------------------------------------------------------------------------
(* The process *)

WorkersEnded == outbox = "ended" /\ shipment \in {"ended", "failed"}

\* Mutant: the lifespan relies on the stop event alone.
Shutdown_NoCancel ==
  /\ role = "api"
  /\ ~stop
  /\ stop' = TRUE
  /\ UNCHANGED <<config, cancelled, outbox, connect, producer, shipment, consumer, process>>

\* The lifespan goes on after its yield: stop.set(), and task.cancel() for
\* both tasks, which does nothing to one that has failed.
Shutdown ==
  /\ role = "api"
  /\ ~stop
  /\ stop' = TRUE
  /\ cancelled' = {t \in tasks : t = "shipment" => shipment # "failed"}
  /\ UNCHANGED <<config, outbox, connect, producer, shipment, consumer, process>>

\* SIGINT or SIGTERM reaches a program of bin/: _request_stop.
RequestStop ==
  /\ role # "api"
  /\ process = "up"
  /\ ~stop
  /\ stop' = TRUE
  /\ UNCHANGED <<config, cancelled, outbox, connect, producer, shipment, consumer, process>>

\* The lifespan's gather of both tasks returns, and engine.dispose() is last.
LifespanEnd ==
  /\ role = "api"
  /\ process = "up"
  /\ stop
  /\ WorkersEnded
  /\ process' = "exited"
  /\ UNCHANGED <<config, stop, cancelled, outbox, connect, producer, shipment, consumer>>

\* run() in bin/: the awaited loop returns or raises; `finally' disposes of
\* the engine.
RunEnd ==
  /\ role # "api"
  /\ process = "up"
  /\ WorkersEnded
  /\ process' = "exited"
  /\ UNCHANGED <<config, stop, cancelled, outbox, connect, producer, shipment, consumer>>

ConnectStep == TryStart \/ StartOk \/ StartError \/ ConnectCancelled

OutboxStep == OutboxBegin \/ OutboxRound \/ OutboxCancelled \/ OutboxClose

ShipmentStep ==
  \/ ShipmentConnect \/ ShipmentStarted \/ ShipmentStartError \/ ShipmentRetry
  \/ ShipmentStopSeen \/ ShipmentClose \/ ShipmentCancelled

Exit == LifespanEnd \/ RunEnd

Next ==
  \/ ConnectStep
  \/ OutboxStep
  \/ Hang \/ PublishReturns
  \/ ShipmentStep
  \/ GetManyError
  \/ Shutdown \/ RequestStop
  \/ Exit

Spec == Init /\ [][Next]_vars

\* The event loop runs every task that is not waiting for another, and every
\* call to Kafka or the database returns or raises, but for publish in Hang:
\* that the broker comes back (PublishReturns) is not assumed.
FairSpec ==
  /\ Spec
  /\ WF_vars(ConnectStep) /\ WF_vars(OutboxStep) /\ WF_vars(ShipmentStep) /\ WF_vars(Exit)

-----------------------------------------------------------------------------
(* Properties *)

\* Every variable keeps its shape.
TypeOK ==
  /\ role \in Roles
  /\ tasks \in Hosted(role)
  /\ stop \in BOOLEAN
  /\ cancelled \subseteq {"outbox", "connect", "shipment"}
  /\ outbox \in {"created", "processing", "hanging", "sleeping", "closing", "ended"}
  /\ connect \in {"none", "created", "starting", "waiting", "connected", "gave up",
                  "cancelled"}
  /\ producer \in {"none", "unstarted", "started"}
  /\ shipment \in {"created", "starting", "aborting", "waiting", "consuming",
                   "closing", "failing", "ended", "failed"}
  /\ consumer \in {"none", "open"}
  /\ process \in {"up", "exited"}

\* Whatever moment the shutdown hits, also in the middle of a connect: once
\* outbox_worker_loop is over, no producer is open and no task is left that
\* could open one.
OutboxLeavesNothing ==
  outbox = "ended" => producer = "none" /\ (connect = "none" \/ ConnectEnded)

\* A broker that cannot be reached ends no worker: before shutdown the outbox
\* loop keeps going, and only an error of getmany ends the consumer's.
OutageEndsNobody ==
  ~stop => /\ "outbox" \in tasks => outbox # "ended"
           /\ "shipment" \in tasks => shipment # "ended"

\* "Kafka workers shut down": when the process exits its Kafka consumer has
\* been closed and has left the group.
ConsumerClosed == process = "exited" => consumer = "none"

\* "Outbox Kafka publisher connected" means that the producer is started, as
\* long as the worker uses it.
ConnectedMeansStarted ==
  connect = "connected" /\ outbox # "ended" => producer = "started"

\* Shutdown ends the process whatever its tasks are waiting for, but for a
\* worker of its own whose publish never returns and that nobody cancels.
ShutdownEnds ==
  stop ~> process = "exited" \/ [](role = "outbox-worker" /\ outbox = "hanging")
=============================================================================
