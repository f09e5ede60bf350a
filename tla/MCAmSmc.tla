------------------------------ MODULE MCAmSmc ------------------------------
(***************************************************************************)
(* AmSmc for TLC.                                                          *)
(***************************************************************************)
EXTENDS AmSmc
=============================================================================
