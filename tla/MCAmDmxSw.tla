----------------------------- MODULE MCAmDmxSw -----------------------------
(* Model checking of AmDmxSw: short sections and packets. *)
EXTENDS AmDmxSw

MCLengths == <<3, 5>>
=============================================================================
