------------------------------ MODULE MCDrone ------------------------------
(* One drone of either kind. *)
EXTENDS Drone
=============================================================================
