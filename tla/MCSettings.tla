------------------------------ MODULE MCSettings ------------------------------
(***************************************************************************)
(* Settings on a small instance: two apply tasks may overlap each other,   *)
(* start-up and DJ mode.                                                   *)
(***************************************************************************)
EXTENDS Settings, TLC

TaskSymmetry == Permutations(Tasks)

=============================================================================
