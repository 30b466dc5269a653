------------------------------ MODULE MCLogger ------------------------------
(***************************************************************************)
(* The logger for TLC.                                                     *)
(***************************************************************************)
EXTENDS Logger, TLC

ThreadSymmetry == Permutations(Threads)
=============================================================================
