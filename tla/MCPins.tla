------------------------------- MODULE MCPins -------------------------------
(* Three processes for Pins. *)
EXTENDS Pins
CONSTANTS p1, p2, p3
==============================================================================
