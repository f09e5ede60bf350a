------------------------------ MODULE MCAmDvr ------------------------------
(***************************************************************************)
(* AmDvr for TLC: client threads and filters are interchangeable.          *)
(***************************************************************************)
EXTENDS AmDvr, TLC

Symm == Permutations(Callers) \cup Permutations(Fids)
=============================================================================
