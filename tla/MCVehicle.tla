----------------------------- MODULE MCVehicle -----------------------------
(***************************************************************************)
(* The vehicle and its callers for TLC.                                    *)
(***************************************************************************)
EXTENDS VehicleService, TLC

(* Leaps between two updates that take battery and temperature to the       *)
(* limits of their ranges and leave fractions to truncate, and as far back. *)
MCClockSteps == {290, -290}

CallerSymmetry == Permutations(Callers)
=============================================================================
