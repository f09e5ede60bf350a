------------------------------ MODULE MCAmDmx ------------------------------
(***************************************************************************)
(* AmDmx for TLC: client threads and registrations are interchangeable.    *)
(***************************************************************************)
EXTENDS AmDmx, TLC

Symm == Permutations(Callers) \cup Permutations(Cbs)
=============================================================================
