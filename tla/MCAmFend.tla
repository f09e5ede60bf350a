------------------------------ MODULE MCAmFend ------------------------------
(***************************************************************************)
(* AmFend for TLC: client threads, registrations, frequencies and details  *)
(* are interchangeable.                                                    *)
(***************************************************************************)
EXTENDS AmFend, TLC

Symm == Permutations(Callers) \cup Permutations(Cbs)
          \cup Permutations(Freqs) \cup Permutations(Details)
=============================================================================
