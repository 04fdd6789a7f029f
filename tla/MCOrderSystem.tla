--------------------------- MODULE MCOrderSystem ---------------------------
(***************************************************************************)
(* Instances of OrderSystem for TLC: all requests carry one key.           *)
(***************************************************************************)
EXTENDS OrderSystem

CONSTANT k1

MCKeyOf == [r \in Requests |-> k1]
=============================================================================
