---------------------------- MODULE MCAmUserdata ----------------------------
(* Model checking of AmUserdata: the clients are interchangeable. *)
EXTENDS AmUserdata

Symm == Permutations(Clients)
=============================================================================
