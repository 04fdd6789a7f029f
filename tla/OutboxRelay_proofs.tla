------------------------- MODULE OutboxRelay_proofs -------------------------
(***************************************************************************)
(* Proofs about OutboxRelay for any number of workers and rows and any     *)
(* settings: rows are locked by one worker at a time, are SENT only after  *)
(* delivery and FAILED exactly when the retry budget is spent, and the     *)
(* batches implement AtLeastOnce.                                          *)
(***************************************************************************)
EXTENDS OutboxRelay, TLAPS

\* What a worker has marked as sent in its open transaction was delivered.
MarkedWasDelivered ==
  \A w \in Workers : \A r \in marked[w] : copies[r] > 0

\* A row is marked or still to do, not both.
MarkedIsDone ==
  \A w \in Workers : marked[w] \intersect todo[w] = {}

Inv ==
  /\ TypeOK
  /\ OneWorkerPerRow
  /\ MarkedWasDelivered
  /\ MarkedIsDone
  /\ SentWasDelivered
  /\ FailedSpentBudget

\* get_pending_for_update returns pending rows that nobody has locked.
LEMMA BatchIsFree ==
  ASSUME NEW r \in Oldest(Unlocked)
  PROVE  r \in Pending /\ \A w \in Workers : r \notin held[w]
  BY DEF Oldest, Unlocked

LEMMA InvInit == Init => Inv
  BY RowsAssumption, SettingsAssumption
     DEF Init, Inv, TypeOK, RowStatus, OneWorkerPerRow, Pending, MarkedWasDelivered, MarkedIsDone,
         SentWasDelivered, FailedSpentBudget

LEMMA InvStep ==
  ASSUME Inv, [Next]_vars
  PROVE  Inv'
<1> USE SettingsAssumption DEF Inv, TypeOK, OneWorkerPerRow, Pending, MarkedWasDelivered,
                               MarkedIsDone, SentWasDelivered, FailedSpentBudget
<1>1. ASSUME NEW r \in Rows, Add(r)
      PROVE  Inv'
  BY <1>1 DEF Add, RowStatus
<1>2. ASSUME NEW w \in Workers, Fetch(w)
      PROVE  Inv'
  <2>1. Oldest(Unlocked) \subseteq Rows
    BY BatchIsFree
  <2>2. TypeOK' /\ MarkedWasDelivered' /\ SentWasDelivered' /\ FailedSpentBudget'
    BY <1>2, <2>1 DEF Fetch
  <2>3. OneWorkerPerRow' /\ MarkedIsDone'
    BY <1>2, BatchIsFree DEF Fetch
  <2> QED
    BY <2>2, <2>3
<1>3. ASSUME NEW w \in Workers, NEW r \in Rows, SendOk(w, r)
      PROVE  Inv'
  <2>1. TypeOK'
    BY <1>3 DEF SendOk, Current
  <2>2. OneWorkerPerRow' /\ MarkedWasDelivered' /\ MarkedIsDone'
    BY <1>3 DEF SendOk, Current
  <2>3. SentWasDelivered' /\ FailedSpentBudget'
    BY <1>3 DEF SendOk
  <2> QED
    BY <2>1, <2>2, <2>3
<1>4. ASSUME NEW w \in Workers, NEW r \in Rows, SendError(w, r)
      PROVE  Inv'
  <2>1. TypeOK'
    BY <1>4 DEF SendError, Current, Attempts
  <2>2. OneWorkerPerRow' /\ MarkedWasDelivered' /\ MarkedIsDone'
    BY <1>4 DEF SendError, Current
  <2>3. SentWasDelivered' /\ FailedSpentBudget'
    BY <1>4 DEF SendError
  <2> QED
    BY <2>1, <2>2, <2>3
<1>5. ASSUME NEW w \in Workers, Commit(w)
      PROVE  Inv'
  <2>1. TypeOK'
    BY <1>5 DEF Commit, RowStatus
  <2>2. OneWorkerPerRow' /\ MarkedWasDelivered' /\ MarkedIsDone'
    BY <1>5 DEF Commit
  <2>3. SentWasDelivered'
    BY <1>5 DEF Commit
  <2>4. FailedSpentBudget'
    <3> SUFFICES ASSUME NEW r \in Rows
                 PROVE  /\ retries'[r] <= MaxRetries
                        /\ status'[r] = "FAILED" <=> retries'[r] = MaxRetries
      BY DEF FailedSpentBudget
    <3>1. CASE r \in held[w]
      <4>1. status[r] = "PENDING" /\ retries[r] < MaxRetries
        BY <3>1 DEF Pending, RowStatus
      <4> QED
        BY <1>5, <3>1, <4>1 DEF Commit, GivesUp
    <3>2. CASE r \notin held[w]
      BY <1>5, <3>2 DEF Commit
    <3> QED
      BY <3>1, <3>2
  <2> QED
    BY <2>1, <2>2, <2>3, <2>4
<1>6. ASSUME NEW w \in Workers, Rollback(w)
      PROVE  Inv'
  BY <1>6 DEF Rollback
<1>7. CASE UNCHANGED vars
  BY <1>7 DEF vars
<1> QED
  BY <1>1, <1>2, <1>3, <1>4, <1>5, <1>6, <1>7 DEF Next, Step

\* Inv is an invariant of the relay for every number of workers.
THEOREM Invariance == Spec => []Inv
  BY InvInit, InvStep, PTL DEF Spec

\* Workers' bookkeeping stays within the rows they have locked.
THEOREM TypeCorrect == Spec => []TypeOK
<1>1. Inv => TypeOK
  BY DEF Inv
<1> QED
  BY <1>1, Invariance, PTL

\* SKIP LOCKED keeps every row in the hands of one worker, and settled rows
\* in nobody's (repositories.py, get_pending_for_update).
THEOREM RowsAreExclusive == Spec => []OneWorkerPerRow
<1>1. Inv => OneWorkerPerRow
  BY DEF Inv
<1> QED
  BY <1>1, Invariance, PTL

\* A row is marked SENT only after its receiver has got it, whatever was
\* rolled back in between (process_outbox_events.py, mark_as_sent).
THEOREM SentIsDelivered == Spec => []SentWasDelivered
<1>1. Inv => SentWasDelivered
  BY DEF Inv
<1> QED
  BY <1>1, Invariance, PTL

\* A row is given up exactly when its retries are used up, no earlier and no
\* later (process_outbox_events.py, mark_as_failed).
THEOREM FailedIsEarned == Spec => []FailedSpentBudget
<1>1. Inv => FailedSpentBudget
  BY DEF Inv
<1> QED
  BY <1>1, Invariance, PTL

\* Only the worker that holds a row hands it over, while it is pending and
\* before it is marked as sent.
LEMMA SendsArePending ==
  ASSUME Inv, Next, NEW r \in Rows, copies'[r] # copies[r]
  PROVE  /\ status[r] = "PENDING" /\ UNCHANGED status
         /\ \A w \in Workers : r \notin marked[w]
         /\ \A q \in Rows \ {r} : copies'[q] = copies[q]
<1>1. PICK w \in Workers, q \in Rows : SendOk(w, q) \/ SendError(w, q)
  BY DEF Next, Step, Add, Fetch, Commit, Rollback
<1>2. q = r
  BY <1>1 DEF SendOk, SendError, Inv, TypeOK
<1>3. r \in todo[w] /\ r \in held[w]
  BY <1>1, <1>2 DEF SendOk, SendError, Current, Inv, TypeOK
<1>4. ASSUME NEW v \in Workers
      PROVE  r \notin marked[v]
  BY <1>3 DEF Inv, TypeOK, OneWorkerPerRow, MarkedIsDone
<1> QED
  BY <1>1, <1>2, <1>3, <1>4 DEF SendOk, SendError, Inv, TypeOK, OneWorkerPerRow, Pending

\* No receiver gets a further copy of a row that is SENT or FAILED, or of one
\* whose send succeeded in a round that is still open.
THEOREM SuccessIsQuiet == Spec => NoCopyAfterSuccess
<1>1. Inv /\ [Next]_vars =>
        [\A r \in Rows : copies'[r] # copies[r] =>
           status[r] = "PENDING" /\ \A w \in Workers : r \notin marked[w]]_vars
  BY SendsArePending
<1> QED
  BY <1>1, Invariance, PTL DEF Spec, NoCopyAfterSuccess

-----------------------------------------------------------------------------
(* How many copies a receiver can get *)

\* The rounds of row r that are over: it was sent, failed or rolled back.
RoundsEnded(r) == retries[r] + (IF status[r] = "SENT" THEN 1 ELSE 0) + rollbacks

\* The copies that those can have made.
Allowance(r) == Attempts(r) * RoundsEnded(r)

\* The attempts at r in the open round of the worker that holds it.
Used(w, r) ==
  IF r \notin todo[w] THEN Attempts(r) ELSE IF Current(w, r) THEN attempt[w] - 1 ELSE 0

\* The attempt counter belongs to the row in hand and starts anew with it.
AttemptInRange ==
  \A w \in Workers :
    /\ todo[w] = {} => attempt[w] = 1
    /\ \A r \in Rows : Current(w, r) => attempt[w] <= Attempts(r)

\* Every copy is accounted for by a round that is over or by an attempt of
\* the open one.
CopiesBounded ==
  \A r \in Rows :
    /\ (\A w \in Workers : r \notin held[w]) => copies[r] <= Allowance(r)
    /\ \A w \in Workers : r \in held[w] => copies[r] <= Allowance(r) + Used(w, r)

LEMMA OneMoreRound ==
  ASSUME NEW a \in Nat, NEW n \in Nat
  PROVE  a * (n + 1) = a * n + a /\ a * n \in Nat
  OBVIOUS

LEMMA AllowanceType ==
  ASSUME Inv, NEW r \in Rows
  PROVE  Attempts(r) \in Nat /\ Attempts(r) > 0 /\ RoundsEnded(r) \in Nat /\ Allowance(r) \in Nat
<1>1. Attempts(r) \in Nat /\ Attempts(r) > 0
  BY SettingsAssumption DEF Attempts
<1>2. RoundsEnded(r) \in Nat
  BY SettingsAssumption DEF RoundsEnded, Inv, TypeOK
<1> QED
  BY <1>1, <1>2, OneMoreRound DEF Allowance

\* At most one row of a worker is in hand.
LEMMA OneInHand ==
  ASSUME Inv, NEW w \in Workers, NEW q \in Rows, NEW r \in Rows, Current(w, q), Current(w, r)
  PROVE  q = r
  BY RowsAssumption DEF Current

\* One round never makes more than Attempts(r) copies.
LEMMA UsedBound ==
  ASSUME Inv, AttemptInRange, NEW w \in Workers, NEW r \in Rows
  PROVE  Used(w, r) \in Nat /\ Used(w, r) <= Attempts(r)
<1>1. Attempts(r) \in Nat /\ Attempts(r) > 0 /\ attempt[w] \in Nat /\ attempt[w] > 0
  BY AllowanceType, SettingsAssumption DEF Inv, TypeOK
<1> QED
  BY <1>1 DEF Used, AttemptInRange

LEMMA AttemptStep ==
  ASSUME Inv, AttemptInRange, Next
  PROVE  AttemptInRange'
<1> USE SettingsAssumption DEF Inv, TypeOK, AttemptInRange
<1>1. \A r \in Rows : Attempts(r) \in Nat /\ Attempts(r) > 0
  BY AllowanceType
<1>2. ASSUME NEW w \in Workers, Fetch(w)
      PROVE  AttemptInRange'
  <2>1. attempt[w] = 1
    BY <1>2 DEF Fetch
  <2> QED
    BY <1>1, <1>2, <2>1 DEF Fetch, Current
<1>3. ASSUME NEW w \in Workers, NEW r \in Rows, SendOk(w, r)
      PROVE  AttemptInRange'
  BY <1>1, <1>3 DEF SendOk, Current
<1>4. ASSUME NEW w \in Workers, NEW r \in Rows, SendError(w, r)
      PROVE  AttemptInRange'
  <2>1. CASE attempt[w] < Attempts(r)
    <3>1. attempt' = [attempt EXCEPT ![w] = @ + 1] /\ UNCHANGED todo /\ Current(w, r)
      BY <1>4, <2>1 DEF SendError
    <3>2. \A v \in Workers, q \in Rows : Current(v, q)' <=> Current(v, q)
      BY <3>1 DEF Current
    <3>3. \A q \in Rows : Current(w, q) => attempt[w] + 1 <= Attempts(q)
      BY <1>1, <2>1, <3>1, OneInHand
    <3>4. todo[w] # {}
      BY <3>1 DEF Current
    <3> QED
      BY <3>1, <3>2, <3>3, <3>4
  <2>2. CASE ~(attempt[w] < Attempts(r))
    BY <1>1, <1>4, <2>2 DEF SendError, Current
  <2> QED
    BY <2>1, <2>2
<1>5. ASSUME NEW w \in Workers, Rollback(w)
      PROVE  AttemptInRange'
  BY <1>1, <1>5 DEF Rollback, Current
<1>6. CASE UNCHANGED <<todo, attempt>>
  BY <1>6 DEF Current
<1> QED
  BY <1>2, <1>3, <1>4, <1>5, <1>6 DEF Next, Step, Add, Commit

\* A row that the step leaves alone keeps its account.
LEMMA QuietRow ==
  ASSUME Inv, CopiesBounded, NEW r \in Rows,
         copies'[r] = copies[r], Allowance(r)' = Allowance(r),
         \A w \in Workers : /\ r \in held'[w] <=> r \in held[w]
                            /\ r \in held[w] => Used(w, r)' = Used(w, r)
  PROVE  /\ (\A w \in Workers : r \notin held'[w]) => copies'[r] <= Allowance(r)'
         /\ \A w \in Workers : r \in held'[w] => copies'[r] <= Allowance(r)' + Used(w, r)'
  BY DEF CopiesBounded

\* An attempt at the row in hand makes one copy at most and is counted.
LEMMA CopiesSend ==
  ASSUME Inv, AttemptInRange, CopiesBounded,
         NEW w \in Workers, NEW r \in Rows, SendOk(w, r) \/ SendError(w, r)
  PROVE  CopiesBounded'
<1>1. /\ Current(w, r)
      /\ \E n \in {0, 1} : copies' = [copies EXCEPT ![r] = @ + n]
      /\ UNCHANGED <<held, status, retries, rollbacks>>
      /\ \/ todo' = [todo EXCEPT ![w] = @ \ {r}] /\ attempt' = [attempt EXCEPT ![w] = 1]
         \/ UNCHANGED todo /\ attempt' = [attempt EXCEPT ![w] = @ + 1]
  BY DEF SendOk, SendError
<1>2. r \in held[w] /\ r \in todo[w] /\ \A v \in Workers \ {w} : r \notin held[v]
  BY <1>1 DEF Current, Inv, TypeOK, OneWorkerPerRow
<1>3. \A q \in Rows : Allowance(q)' = Allowance(q)
  BY <1>1 DEF Allowance, RoundsEnded, Attempts
<1>4. copies[r] <= Allowance(r) + (attempt[w] - 1)
  BY <1>1, <1>2 DEF CopiesBounded, Used
<1>5. Used(w, r)' = IF UNCHANGED todo THEN attempt[w] ELSE Attempts(r)
  <2>1. CASE todo' = [todo EXCEPT ![w] = @ \ {r}]
    <3>1. r \notin todo'[w] /\ todo' # todo
      BY <1>2, <2>1 DEF Inv, TypeOK
    <3> QED
      BY <3>1 DEF Used, Attempts
  <2>2. CASE UNCHANGED todo /\ attempt' = [attempt EXCEPT ![w] = @ + 1]
    <3>1. r \in todo'[w] /\ Current(w, r)' /\ attempt'[w] = attempt[w] + 1 /\ attempt[w] \in Nat
      BY <1>1, <1>2, <2>2, SettingsAssumption DEF Current, Inv, TypeOK
    <3> QED
      BY <2>2, <3>1 DEF Used
  <2> QED
    BY <1>1, <2>1, <2>2
<1>6. copies'[r] <= Allowance(r)' + Used(w, r)'
  <2>1. copies'[r] <= copies[r] + 1 /\ copies[r] \in Nat /\ copies'[r] \in Nat
    BY <1>1 DEF Inv, TypeOK
  <2>2. /\ attempt[w] \in Nat /\ attempt[w] <= Attempts(r)
        /\ Attempts(r) \in Nat /\ Allowance(r) \in Nat
    BY <1>1, AllowanceType, SettingsAssumption DEF AttemptInRange, Inv, TypeOK
  <2> QED
    BY <1>3, <1>4, <1>5, <2>1, <2>2
<1>7. ASSUME NEW q \in Rows \ {r}, NEW v \in Workers
      PROVE  Used(v, q)' = Used(v, q)
  <2>1. CASE v # w
    BY <1>1, <2>1 DEF Used, Current, Attempts, Inv, TypeOK
  <2>2. CASE v = w
    <3>1. ~Current(w, q)
      BY <1>1, OneInHand
    <3>2. q \in todo'[w] <=> q \in todo[w]
      BY <1>1 DEF Inv, TypeOK
    <3>3. CASE q \notin todo[w]
      BY <2>2, <3>2, <3>3 DEF Used, Attempts
    <3>4. CASE q \in todo[w]
      <4>1. Used(w, q) = 0
        BY <3>1, <3>4 DEF Used
      <4>2. CASE UNCHANGED todo
        BY <2>2, <3>1, <3>4, <4>1, <4>2 DEF Used, Current
      <4>3. CASE attempt' = [attempt EXCEPT ![w] = 1]
        <5>1. attempt'[w] = 1
          BY <4>3 DEF Inv, TypeOK
        <5> QED
          BY <2>2, <3>2, <3>4, <4>1, <5>1 DEF Used
      <4> QED
        BY <1>1, <4>2, <4>3
    <3> QED
      BY <3>3, <3>4
  <2> QED
    BY <2>1, <2>2
<1>8. ASSUME NEW q \in Rows \ {r}
      PROVE  copies'[q] = copies[q]
  BY <1>1 DEF Inv, TypeOK
<1>9. ASSUME NEW q \in Rows \ {r}
      PROVE  /\ (\A v \in Workers : q \notin held'[v]) => copies'[q] <= Allowance(q)'
             /\ \A v \in Workers : q \in held'[v] => copies'[q] <= Allowance(q)' + Used(v, q)'
  BY <1>1, <1>3, <1>7, <1>8, QuietRow
<1> QED
  BY <1>1, <1>2, <1>6, <1>9 DEF CopiesBounded

\* A round that ends, by commit or rollback, is one more to account for.
LEMMA CopiesEnd ==
  ASSUME Inv, AttemptInRange, CopiesBounded,
         NEW w \in Workers, Commit(w) \/ Rollback(w)
  PROVE  CopiesBounded'
<1>1. /\ UNCHANGED copies
      /\ held' = [held EXCEPT ![w] = {}]
      /\ \A v \in Workers \ {w} : UNCHANGED <<todo[v], attempt[v]>>
  BY DEF Commit, Rollback, Inv, TypeOK
<1>2. ASSUME NEW r \in Rows
      PROVE  \/ RoundsEnded(r)' = RoundsEnded(r) + 1
             \/ r \notin held[w] /\ RoundsEnded(r)' = RoundsEnded(r)
  <2>1. CASE Rollback(w)
    BY <2>1 DEF Rollback, RoundsEnded, Inv, TypeOK
  <2>2. CASE Commit(w) /\ r \in held[w]
    <3>1. status[r] = "PENDING" /\ retries[r] \in Nat /\ rollbacks \in Nat
      BY <2>2, SettingsAssumption DEF Inv, TypeOK, OneWorkerPerRow, Pending
    <3>2. /\ r \in marked[w] => status'[r] = "SENT" /\ retries'[r] = retries[r]
          /\ r \notin marked[w] => status'[r] # "SENT" /\ retries'[r] = retries[r] + 1
          /\ rollbacks' = rollbacks
      BY <2>2, <3>1 DEF Commit
    <3> QED
      BY <3>1, <3>2 DEF RoundsEnded
  <2>3. CASE Commit(w) /\ r \notin held[w]
    BY <2>3 DEF Commit, RoundsEnded, Inv, TypeOK
  <2> QED
    BY <2>1, <2>2, <2>3
<1>3. ASSUME NEW r \in Rows
      PROVE  \/ Allowance(r)' = Allowance(r) + Attempts(r)
             \/ r \notin held[w] /\ Allowance(r)' = Allowance(r)
  <2>1. Attempts(r)' = Attempts(r)
    BY DEF Attempts
  <2> QED
    BY <1>2, <2>1, AllowanceType, OneMoreRound DEF Allowance
<1>4. ASSUME NEW r \in Rows
      PROVE  /\ Allowance(r) \in Nat /\ Attempts(r) \in Nat /\ copies[r] \in Nat
             /\ Used(w, r) \in Nat /\ Used(w, r) <= Attempts(r)
  BY AllowanceType, UsedBound DEF Inv, TypeOK
<1>5. ASSUME NEW r \in Rows, NEW v \in Workers, r \in held'[v]
      PROVE  copies'[r] <= Allowance(r)' + Used(v, r)'
  <2>1. v # w /\ r \in held[v]
    BY <1>1, <1>5 DEF Inv, TypeOK
  <2>2. Used(v, r)' = Used(v, r)
    BY <1>1, <2>1 DEF Used, Current, Attempts
  <2>3. copies[r] <= Allowance(r) + Used(v, r) /\ Used(v, r) \in Nat
    BY <2>1, UsedBound DEF CopiesBounded
  <2> QED
    BY <1>1, <1>3, <1>4, <2>2, <2>3
<1>6. ASSUME NEW r \in Rows, \A v \in Workers : r \notin held'[v]
      PROVE  copies'[r] <= Allowance(r)'
  <2>1. CASE r \in held[w]
    <3>1. copies[r] <= Allowance(r) + Used(w, r)
      BY <2>1 DEF CopiesBounded
    <3> QED
      BY <1>1, <1>3, <1>4, <2>1, <3>1
  <2>2. CASE r \notin held[w]
    <3>1. \A v \in Workers : r \notin held[v]
      BY <1>1, <1>6, <2>2 DEF Inv, TypeOK
    <3>2. copies[r] <= Allowance(r)
      BY <3>1 DEF CopiesBounded
    <3> QED
      BY <1>1, <1>3, <1>4, <3>2
  <2> QED
    BY <2>1, <2>2
<1> QED
  BY <1>5, <1>6 DEF CopiesBounded

LEMMA CopiesStep ==
  ASSUME Inv, AttemptInRange, CopiesBounded, Next
  PROVE  CopiesBounded'
<1>1. ASSUME NEW q \in Rows, Add(q)
      PROVE  CopiesBounded'
  <2>1. \A r \in Rows : Allowance(r)' = Allowance(r)
    BY <1>1 DEF Add, Allowance, RoundsEnded, Attempts, Inv, TypeOK
  <2>2. \A r \in Rows, w \in Workers : Used(w, r)' = Used(w, r)
    BY <1>1 DEF Add, Used, Current, Attempts
  <2> QED
    BY <1>1, <2>1, <2>2 DEF Add, CopiesBounded
<1>2. ASSUME NEW w \in Workers, Fetch(w)
      PROVE  CopiesBounded'
  <2>1. /\ \A r \in Rows : Allowance(r)' = Allowance(r) /\ copies'[r] = copies[r]
        /\ \A v \in Workers \ {w} : UNCHANGED <<held[v], todo[v], attempt[v]>>
        /\ held[w] = {} /\ held'[w] = todo'[w] /\ attempt'[w] = 1
    BY <1>2 DEF Fetch, Allowance, RoundsEnded, Attempts, Inv, TypeOK, AttemptInRange
  <2>2. ASSUME NEW r \in Rows, r \in held'[w]
        PROVE  Used(w, r)' = 0 /\ \A v \in Workers : r \notin held[v]
    <3>1. r \in Oldest(Unlocked)
      BY <1>2, <2>2 DEF Fetch, Inv, TypeOK
    <3> QED
      BY <2>1, <2>2, <3>1, BatchIsFree DEF Used
  <2>3. ASSUME NEW r \in Rows, NEW v \in Workers \ {w}
        PROVE  Used(v, r)' = Used(v, r)
    BY <2>1 DEF Used, Current, Attempts
  <2>4. ASSUME NEW r \in Rows, r \in held'[w]
        PROVE  copies'[r] <= Allowance(r)' + Used(w, r)'
    BY <2>1, <2>2, <2>4, AllowanceType DEF CopiesBounded
  <2> QED
    BY <2>1, <2>3, <2>4 DEF CopiesBounded
<1> QED
  BY <1>1, <1>2, CopiesSend, CopiesEnd DEF Next, Step

LEMMA RoundsInvariance == Spec => [](Inv /\ AttemptInRange /\ CopiesBounded)
<1>1. Init => AttemptInRange
  BY DEF Init, AttemptInRange, Current
<1>2. Init => CopiesBounded
  <2> SUFFICES ASSUME Init, NEW r \in Rows
               PROVE  copies[r] <= Allowance(r) /\ \A w \in Workers : r \notin held[w]
    BY DEF CopiesBounded
  <2> QED
    BY InvInit, AllowanceType DEF Init
<1>3. Inv /\ AttemptInRange /\ CopiesBounded /\ [Next]_vars
        => Inv' /\ AttemptInRange' /\ CopiesBounded'
  <2>1. ASSUME AttemptInRange, CopiesBounded, UNCHANGED vars
        PROVE  AttemptInRange' /\ CopiesBounded'
    BY <2>1 DEF vars, AttemptInRange, CopiesBounded, Allowance, RoundsEnded, Used, Current, Attempts
  <2> QED
    BY <2>1, InvStep, AttemptStep, CopiesStep
<1> QED
  BY <1>1, <1>2, <1>3, InvInit, PTL DEF Spec

\* However many workers, retries and rollbacks there are, a receiver gets no
\* more copies of a row than its attempts in the rounds that reported an
\* error, settled it, were rolled back or are still open.
THEOREM DuplicatesAreCounted == Spec => []DuplicatesExplained
<1>1. ASSUME Inv, AttemptInRange, CopiesBounded, NEW r \in Rows, NEW w \in Workers, r \in held[w]
      PROVE  copies[r] <= Attempts(r) * (RoundsEnded(r) + 1)
  <2>1. copies[r] <= Allowance(r) + Attempts(r)
    BY <1>1, AllowanceType, UsedBound DEF CopiesBounded, Inv, TypeOK
  <2> QED
    BY <2>1, <1>1, AllowanceType, OneMoreRound DEF Allowance
<1>2. ASSUME Inv, AttemptInRange, CopiesBounded, NEW r \in Rows
      PROVE  LET settled == IF status[r] = "SENT" THEN 1 ELSE 0
                 open == IF \E w \in Workers : r \in held[w] THEN 1 ELSE 0
             IN copies[r] <= Attempts(r) * (retries[r] + settled + open + rollbacks)
  <2> DEFINE settled == IF status[r] = "SENT" THEN 1 ELSE 0
             open == IF \E w \in Workers : r \in held[w] THEN 1 ELSE 0
  <2>1. retries[r] \in Nat /\ settled \in Nat /\ rollbacks \in Nat
    BY <1>2, SettingsAssumption DEF Inv, TypeOK
  <2>2. CASE \E w \in Workers : r \in held[w]
    <3>1. retries[r] + settled + open + rollbacks = RoundsEnded(r) + 1
      BY <2>1, <2>2 DEF RoundsEnded
    <3> QED
      BY <1>1, <1>2, <2>2, <3>1
  <2>3. CASE \A w \in Workers : r \notin held[w]
    <3>1. retries[r] + settled + open + rollbacks = RoundsEnded(r)
      BY <2>1, <2>3 DEF RoundsEnded
    <3> QED
      BY <1>2, <2>3, <3>1 DEF CopiesBounded, Allowance
  <2> QED
    BY <2>2, <2>3
<1>3. Inv /\ AttemptInRange /\ CopiesBounded => DuplicatesExplained
  BY <1>2 DEF DuplicatesExplained
<1> QED
  BY <1>3, RoundsInvariance, PTL

-----------------------------------------------------------------------------
(* The refinement *)

\* Batches of any number of workers implement the relay that hands over one
\* pending row at a time (AtLeastOnce).
THEOREM Refinement == Spec => ImplementsDelivery
<1> DEFINE got == {r \in Rows : copies[r] > 0}
<1>1. Init => Delivery!Init
  BY DEF Init, Delivery!Init
<1>2. ASSUME Inv, NEW r \in Rows, Add(r)
      PROVE  Delivery!Add(r)
  BY <1>2 DEF Add, Delivery!Add
<1>3. ASSUME Inv, NEW w \in Workers, NEW r \in Rows, SendOk(w, r) \/ SendError(w, r)
      PROVE  Delivery!Deliver(r) \/ UNCHANGED <<status, got>>
  <2>1. status[r] = "PENDING" /\ UNCHANGED status
    BY <1>3 DEF SendOk, SendError, Current, Inv, TypeOK, OneWorkerPerRow, Pending
  <2>2. \E n \in {0, 1} : copies' = [copies EXCEPT ![r] = @ + n]
    BY <1>3 DEF SendOk, SendError
  <2>3. got' = got \union {r} \/ got' = got
    BY <1>3, <2>2 DEF Inv, TypeOK
  <2> QED
    BY <2>1, <2>3 DEF Delivery!Deliver
<1>4. ASSUME Inv, NEW w \in Workers, Commit(w)
      PROVE  \E S, F \in SUBSET Rows : Delivery!Settle(S, F)
  <2> DEFINE F == {r \in held[w] \ marked[w] : GivesUp(retries[r] + 1)}
  <2>1. marked[w] \in SUBSET Rows /\ F \in SUBSET Rows /\ marked[w] \intersect F = {}
    BY <1>4 DEF Inv, TypeOK
  <2>2. marked[w] \subseteq got
    BY <1>4 DEF Inv, TypeOK, MarkedWasDelivered
  <2>3. \A r \in marked[w] \union F : status[r] = "PENDING"
    BY <1>4 DEF Inv, TypeOK, OneWorkerPerRow, Pending
  <2>4. status' = [r \in Rows |-> IF r \in marked[w] THEN "SENT"
                                  ELSE IF r \in F THEN "FAILED" ELSE status[r]]
    BY <1>4 DEF Commit, Inv, TypeOK
  <2>5. UNCHANGED got
    BY <1>4 DEF Commit
  <2>6. Delivery!Settle(marked[w], F)
    BY <2>1, <2>2, <2>3, <2>4, <2>5 DEF Delivery!Settle
  <2> QED
    BY <2>1, <2>6
<1>5. Inv /\ [Next]_vars => [Delivery!Next]_<<status, got>>
  <2>1. ASSUME Inv, Next
        PROVE  Delivery!Next \/ UNCHANGED <<status, got>>
    <3>1. CASE \E r \in Rows : Add(r)
      BY <1>2, <2>1, <3>1 DEF Delivery!Next
    <3>2. CASE \E w \in Workers, r \in Rows : SendOk(w, r) \/ SendError(w, r)
      BY <1>3, <2>1, <3>2 DEF Delivery!Next
    <3>3. CASE \E w \in Workers : Commit(w)
      BY <1>4, <2>1, <3>3 DEF Delivery!Next
    <3>4. CASE \E w \in Workers : Fetch(w) \/ Rollback(w)
      BY <3>4 DEF Fetch, Rollback
    <3> QED
      BY <2>1, <3>1, <3>2, <3>3, <3>4 DEF Next, Step
  <2> QED
    BY <2>1 DEF vars
<1> QED
  BY <1>1, <1>5, Invariance, PTL DEF Spec, ImplementsDelivery, Delivery!Spec
=============================================================================
