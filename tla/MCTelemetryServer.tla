------------------------- MODULE MCTelemetryServer -------------------------
(***************************************************************************)
(* The server for TLC.  Descriptors are numbered from 5, the first that    *)
(* accept can return beside the standard ones, the listening socket and    *)
(* the log.                                                                *)
(***************************************************************************)
EXTENDS TelemetryServer, TLC

(* Connections are interchangeable: the safety runs are reduced by this. *)
ConnSymmetry == Permutations(Conns)
=============================================================================
