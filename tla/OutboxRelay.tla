---------------------------- MODULE OutboxRelay ----------------------------
(***************************************************************************)
(* ProcessOutboxEvents, run over and over by outbox_worker_loop in each    *)
(* of the Workers: the task inside the API process and the containers of   *)
(* bin/outbox_worker.py, all on one outbox table.                          *)
(*                                                                         *)
(* One round of a worker is one database transaction: it locks a batch of  *)
(* pending rows, hands each to Kafka or to the Notifications service,      *)
(* marks it, and commits once at the end. What it marks shows only at that *)
(* commit; what it handed over cannot be taken back.                       *)
(***************************************************************************)
EXTENDS Naturals, FiniteSets

CONSTANTS
  Workers,
  Rows,            \* outbox rows, numbered by created_at
  KafkaRows,       \* the order.paid rows; the others are notifications
  BatchSize,       \* outbox_batch_size
  MaxRetries,      \* outbox_max_retries
  NotifyAttempts,  \* notification_send_attempts
  MaxRollbacks     \* bound: transactions of the workers that do not commit

ASSUME RowsAssumption == Rows \subseteq Nat /\ KafkaRows \subseteq Rows

ASSUME SettingsAssumption ==
  /\ BatchSize \in Nat \ {0}
  /\ MaxRetries \in Nat \ {0}
  /\ NotifyAttempts \in Nat \ {0}
  /\ MaxRollbacks \in Nat

VARIABLES
  status,    \* the committed status of each row, "absent" before it exists
  retries,   \* the committed retry_count of each row
  copies,    \* how often the receiver of each row has got it
  held,      \* the rows each worker has locked in this round
  todo,      \* those of them it has not dealt with yet
  marked,    \* those of them it has marked as sent
  attempt,   \* attempt of _publish_notification at the row in hand
  rollbacks

vars == <<status, retries, copies, held, todo, marked, attempt, rollbacks>>

RowStatus == {"absent", "PENDING", "SENT", "FAILED"}

Init ==
  /\ status = [r \in Rows |-> "absent"]
  /\ retries = [r \in Rows |-> 0]
  /\ copies = [r \in Rows |-> 0]
  /\ held = [w \in Workers |-> {}]
  /\ todo = [w \in Workers |-> {}]
  /\ marked = [w \in Workers |-> {}]
  /\ attempt = [w \in Workers |-> 1]
  /\ rollbacks = 0

\* A use case commits row r. It set created_at before it committed, so rows
\* need not appear in their order.
Add(r) ==
  /\ status[r] = "absent"
  /\ status' = [status EXCEPT ![r] = "PENDING"]
  /\ UNCHANGED <<retries, copies, held, todo, marked, attempt, rollbacks>>

Pending == {r \in Rows : status[r] = "PENDING"}

\* The BatchSize oldest of a set of rows: ORDER BY created_at LIMIT.
Oldest(S) == {r \in S : Cardinality({q \in S : q < r}) < BatchSize}

\* Mutant: a plain SELECT, without FOR UPDATE SKIP LOCKED.
Unlocked_NoRowLocks == Pending

\* Mutant: only rows that never failed are selected.
Unlocked_FirstTry ==
  {r \in Pending : retries[r] = 0} \ UNION {held[w] : w \in Workers}

\* FOR UPDATE SKIP LOCKED: the pending rows no worker holds.
Unlocked == Pending \ UNION {held[w] : w \in Workers}

\* get_pending_for_update. An empty batch ends the round (processed = 0), and
\* the loop sleeps and polls again, which changes nothing here.
Fetch(w) ==
  /\ held[w] = {}
  /\ Unlocked # {}
  /\ held' = [held EXCEPT ![w] = Oldest(Unlocked)]
  /\ todo' = [todo EXCEPT ![w] = Oldest(Unlocked)]
  /\ UNCHANGED <<status, retries, copies, marked, attempt, rollbacks>>

\* The for loop over the batch takes row r in hand.
Current(w, r) == r \in todo[w] /\ \A q \in todo[w] : r <= q

\* Mutant: no return after the successful attempt of _publish_notification.
SendOk_NoReturn(w, r) ==
  /\ Current(w, r)
  /\ copies' = [copies EXCEPT ![r] = @ + 1]
  /\ marked' = [marked EXCEPT ![w] = @ \union {r}]
  /\ IF attempt[w] < (IF r \in KafkaRows THEN 1 ELSE NotifyAttempts)
     THEN attempt' = [attempt EXCEPT ![w] = @ + 1] /\ UNCHANGED todo
     ELSE attempt' = [attempt EXCEPT ![w] = 1] /\ todo' = [todo EXCEPT ![w] = @ \ {r}]
  /\ UNCHANGED <<status, retries, held, rollbacks>>

\* publish returns, or one attempt of _publish_notification does; then
\* mark_as_sent.
SendOk(w, r) ==
  /\ Current(w, r)
  /\ copies' = [copies EXCEPT ![r] = @ + 1]
  /\ marked' = [marked EXCEPT ![w] = @ \union {r}]
  /\ todo' = [todo EXCEPT ![w] = @ \ {r}]
  /\ attempt' = [attempt EXCEPT ![w] = 1]
  /\ UNCHANGED <<status, retries, held, rollbacks>>

\* Mutant: range(1, attempts + 2).
Attempts_OffByOne(r) == IF r \in KafkaRows THEN 1 ELSE NotifyAttempts + 1

\* How often one round tries row r: _publish_kafka once, _publish_notification
\* up to notify_attempts times.
Attempts(r) == IF r \in KafkaRows THEN 1 ELSE NotifyAttempts

\* Mutant: the last error of _publish_notification is not raised again.
SendError_Swallowed(w, r) ==
  /\ Current(w, r)
  /\ \E arrived \in {0, 1} : copies' = [copies EXCEPT ![r] = @ + arrived]
  /\ IF attempt[w] < Attempts(r)
     THEN /\ attempt' = [attempt EXCEPT ![w] = @ + 1]
          /\ UNCHANGED <<todo, marked>>
     ELSE /\ attempt' = [attempt EXCEPT ![w] = 1]
          /\ todo' = [todo EXCEPT ![w] = @ \ {r}]
          /\ marked' = [marked EXCEPT ![w] = @ \union {r}]
  /\ UNCHANGED <<status, retries, held, rollbacks>>

\* The send raises: producer not started, timeout, error status or unreadable
\* answer, so the receiver may have got the row all the same. Notifications
\* are tried NotifyAttempts times; the last error reaches mark_as_failed.
SendError(w, r) ==
  /\ Current(w, r)
  /\ \E arrived \in {0, 1} : copies' = [copies EXCEPT ![r] = @ + arrived]
  /\ IF attempt[w] < Attempts(r)
     THEN /\ attempt' = [attempt EXCEPT ![w] = @ + 1]
          /\ UNCHANGED todo
     ELSE /\ attempt' = [attempt EXCEPT ![w] = 1]
          /\ todo' = [todo EXCEPT ![w] = @ \ {r}]
  /\ UNCHANGED <<status, retries, held, marked, rollbacks>>

\* Mutant: retry_count > max_retries.
GivesUp_OffByOne(n) == n > MaxRetries

\* mark_as_failed: does the n-th error give the row up?
GivesUp(n) == n >= MaxRetries

\* Mutant: mark_as_failed does not count the retry.
Commit_ForgetsRetry(w) ==
  /\ held[w] # {}
  /\ todo[w] = {}
  /\ status' = [r \in Rows |-> IF r \in marked[w] THEN "SENT" ELSE status[r]]
  /\ held' = [held EXCEPT ![w] = {}]
  /\ marked' = [marked EXCEPT ![w] = {}]
  /\ UNCHANGED <<retries, copies, todo, attempt, rollbacks>>

\* uow.commit at the end of the batch: the rows marked as sent are SENT, the
\* others have one more retry and may be FAILED, and the locks are gone.
Commit(w) ==
  LET errors == held[w] \ marked[w]
  IN /\ held[w] # {}
     /\ todo[w] = {}
     /\ retries' = [r \in Rows |-> IF r \in errors THEN retries[r] + 1 ELSE retries[r]]
     /\ status' = [r \in Rows |->
          IF r \in marked[w] THEN "SENT"
          ELSE IF r \in errors /\ GivesUp(retries[r] + 1) THEN "FAILED"
          ELSE status[r]]
     /\ held' = [held EXCEPT ![w] = {}]
     /\ marked' = [marked EXCEPT ![w] = {}]
     /\ UNCHANGED <<copies, todo, attempt, rollbacks>>

\* A crash, a cancelled task or a database error (after which mark_as_failed
\* raises too): the whole batch is rolled back and the worker, restarted or
\* back in its loop, starts a new round.
Rollback(w) ==
  /\ held[w] # {}
  /\ rollbacks < MaxRollbacks
  /\ rollbacks' = rollbacks + 1
  /\ held' = [held EXCEPT ![w] = {}]
  /\ todo' = [todo EXCEPT ![w] = {}]
  /\ marked' = [marked EXCEPT ![w] = {}]
  /\ attempt' = [attempt EXCEPT ![w] = 1]
  /\ UNCHANGED <<status, retries, copies>>

Step(w) ==
  \/ Fetch(w)
  \/ \E r \in Rows : SendOk(w, r) \/ SendError(w, r)
  \/ Commit(w)

Next ==
  \/ \E r \in Rows : Add(r)
  \/ \E w \in Workers : Step(w) \/ Rollback(w)

Spec == Init /\ [][Next]_vars

\* Every worker keeps going: the event loop runs it, each send returns or
\* times out, and the poll interval elapses. For a send to Kafka this takes a
\* producer that has been started; WorkerLifecycle has the other case.
FairSpec == Spec /\ \A w \in Workers : WF_vars(Step(w))

-----------------------------------------------------------------------------
(* Properties *)

\* Every variable keeps its shape, and a worker's bookkeeping stays within
\* the rows it has locked.
TypeOK ==
  /\ status \in [Rows -> RowStatus]
  /\ retries \in [Rows -> Nat]
  /\ copies \in [Rows -> Nat]
  /\ held \in [Workers -> SUBSET Rows]
  /\ todo \in [Workers -> SUBSET Rows]
  /\ marked \in [Workers -> SUBSET Rows]
  /\ attempt \in [Workers -> 1..NotifyAttempts]
  /\ rollbacks \in 0..MaxRollbacks
  /\ \A w \in Workers : todo[w] \union marked[w] \subseteq held[w]

\* SKIP LOCKED: no row is in the hands of two workers, and none that is
\* settled is in anyone's, however fetches, commits and rollbacks interleave.
OneWorkerPerRow ==
  /\ \A v, w \in Workers : v # w => held[v] \intersect held[w] = {}
  /\ \A w \in Workers : held[w] \subseteq Pending

\* At least once: a row that is SENT has reached its receiver, although the
\* mark is committed much later than the send and for a whole batch at once.
SentWasDelivered ==
  \A r \in Rows : status[r] = "SENT" => copies[r] > 0

\* A row is given up exactly when its retry budget is spent; no crash or
\* concurrent worker spends it twice or loses count.
FailedSpentBudget ==
  \A r \in Rows :
    /\ retries[r] <= MaxRetries
    /\ status[r] = "FAILED" <=> retries[r] = MaxRetries

\* Duplicates are bounded: a receiver gets no more copies of a row than there
\* are attempts in the rounds that failed, sent it, are open or were rolled
\* back (one attempt for Kafka, NotifyAttempts for a notification).
DuplicatesExplained ==
  \A r \in Rows :
    LET settled == IF status[r] = "SENT" THEN 1 ELSE 0
        open == IF \E w \in Workers : r \in held[w] THEN 1 ELSE 0
    IN copies[r] <= Attempts(r) * (retries[r] + settled + open + rollbacks)

\* Rows as readers of the outbox see them; see AtLeastOnce.
Delivery == INSTANCE AtLeastOnce WITH delivered <- {r \in Rows : copies[r] > 0}

\* Batches of several workers implement the relay that hands over one pending
\* row at a time and never touches one that is SENT or FAILED.
ImplementsDelivery == Delivery!Spec

\* A send that succeeded is not repeated: the receiver gets no further copy of
\* a row that is SENT or FAILED, nor of one whose mark as sent waits for the
\* end of the batch. So what is sent again is what reported an error before,
\* or was thrown away by a rollback.
NoCopyAfterSuccess ==
  [][\A r \in Rows : copies'[r] # copies[r] =>
       status[r] = "PENDING" /\ \A w \in Workers : r \notin marked[w]]_vars

\* Every row is SENT or given up in the end, whatever fails before it in the
\* batch, as long as only finitely many rounds are rolled back.
EveryRowSettles ==
  \A r \in Rows : status[r] = "PENDING" ~> status[r] \in {"SENT", "FAILED"}
=============================================================================
