-------------------------- MODULE MCFireCommander --------------------------
(* Two leaders in one zone with a backup, or three fires and one leader.    *)
EXTENDS FireCommander

CONSTANTS f1, f2, f3, l1, l2, b1

MCZone == [n \in Node |-> "zone_alpha"]
\* l1 is the nearer one to every fire.
MCDistance == [f \in Fire |-> [l \in Leader |-> IF l = l1 THEN 1 ELSE 2]]

\* Nothing tells the fires apart.
MCFireSymmetry == Permutations(Fire)
=============================================================================
