---------------------------- MODULE SnekFrameMC ----------------------------
(***************************************************************************)
(* Names are interchangeable: nothing orders or computes with ids.         *)
(***************************************************************************)
EXTENDS SnekFrame, TLC

Symmetry == Permutations(Name)
=============================================================================
