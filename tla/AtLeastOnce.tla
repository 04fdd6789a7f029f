---------------------------- MODULE AtLeastOnce ----------------------------
(***************************************************************************)
(* What the outbox relay promises, without workers, batches and locks:     *)
(* a row is handed to its receiver only while it is pending, it is called  *)
(* SENT only after that, and a row that is SENT or FAILED stays so.        *)
(***************************************************************************)
CONSTANT Rows

VARIABLES
  status,     \* of each row; "absent" before its transaction commits
  delivered   \* the rows a receiver has got, once or more

Init == status = [r \in Rows |-> "absent"] /\ delivered = {}

Add(r) ==
  /\ status[r] = "absent"
  /\ status' = [status EXCEPT ![r] = "PENDING"]
  /\ UNCHANGED delivered

Deliver(r) ==
  /\ status[r] = "PENDING"
  /\ delivered' = delivered \union {r}
  /\ UNCHANGED status

\* The rows in S are SENT and those in F given up, in one transaction.
Settle(S, F) ==
  /\ S \subseteq delivered
  /\ S \intersect F = {}
  /\ \A r \in S \union F : status[r] = "PENDING"
  /\ status' = [r \in Rows |-> IF r \in S THEN "SENT"
                            ELSE IF r \in F THEN "FAILED" ELSE status[r]]
  /\ UNCHANGED delivered

Next ==
  \/ \E r \in Rows : Add(r) \/ Deliver(r)
  \/ \E S, F \in SUBSET Rows : Settle(S, F)

Spec == Init /\ [][Next]_<<status, delivered>>
=============================================================================
