---------------------------- MODULE MCLifecycle ----------------------------
(***************************************************************************)
(* The life of the server for TLC.                                         *)
(***************************************************************************)
EXTENDS Lifecycle
=============================================================================
