------------------------ MODULE MCOrderTransactions ------------------------
(***************************************************************************)
(* Instances of OrderTransactions for TLC: all requests carry one key, as  *)
(* the retries of a client do.                                             *)
(***************************************************************************)
EXTENDS OrderTransactions

CONSTANT k1

MCKeyOf == [r \in Requests |-> k1]
=============================================================================
