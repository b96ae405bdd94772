--------------------------- MODULE MCApprovalGate ---------------------------
(* A risky command and a safe one, with three faults; or two risky commands *)
(* that share the threads, with none.                                       *)
EXTENDS ApprovalGate

CONSTANTS risky1, risky2, safe

MCSafe == {safe} \cap Cmd
=============================================================================
