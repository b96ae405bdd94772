--------------------------- MODULE MCAckProtocol ---------------------------
(* One node with an idempotent command and one of a type it does not know. *)
EXTENDS AckProtocol

CONSTANTS respond, odd, n1

MCTarget == [t \in Trace |-> n1]
MCUnknown == {odd}
MCIdempotent == {respond}
=============================================================================
