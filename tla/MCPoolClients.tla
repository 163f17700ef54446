--------------------------- MODULE MCPoolClients ---------------------------
(***************************************************************************)
(* PoolClients for TLC: the callers are interchangeable.                   *)
(***************************************************************************)
EXTENDS PoolClients, TLC

Callers == Permutations(Clients)
=============================================================================
