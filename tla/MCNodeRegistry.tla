--------------------------- MODULE MCNodeRegistry ---------------------------
(* NodeRegistry with one or two leaders and one fire.                      *)
EXTENDS NodeRegistry

CONSTANTS l1, l2, f1
=============================================================================
