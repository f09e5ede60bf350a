---------------------------- MODULE MCAmBlindScan ----------------------------
(* Model checking of AmBlindScan. *)
EXTENDS AmBlindScan
=============================================================================
