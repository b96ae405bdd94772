------------------------------ MODULE MCSwarm ------------------------------
(* One scout and one fighter, or two scouts. *)
EXTENDS Swarm

CONSTANTS s1, s2, f1, f2
=============================================================================
