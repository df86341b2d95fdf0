----------------------------- MODULE MCBootstrap -----------------------------
(* Instances of Bootstrap for TLC: up to three names that fit the receive
   buffer, and a fourth it cuts, so that what is left of it reads "a". *)
EXTENDS Bootstrap

CONSTANTS a, b, c, d

MCNames    == {a, b, c, d}
MCSpecName == <<a, b, c, d>>
MCWire     == [w \in MCNames |-> IF w = d THEN a ELSE w]
==============================================================================
