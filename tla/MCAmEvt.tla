------------------------------ MODULE MCAmEvt ------------------------------
(* Model checking of AmEvt. *)
EXTENDS AmEvt
=============================================================================
