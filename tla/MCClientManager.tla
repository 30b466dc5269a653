-------------------------- MODULE MCClientManager --------------------------
(***************************************************************************)
(* The client table for TLC: three slots, callers that pass any socket and *)
(* any slot in any order.                                                  *)
(***************************************************************************)
EXTENDS ClientManager, TLC

PeerSymmetry == Permutations(Peers)
=============================================================================
