---------------------------- MODULE MCProjectGraph ----------------------------
(***************************************************************************)
(* Finite instances of ProjectGraph for TLC.                               *)
(***************************************************************************)
EXTENDS ProjectGraph, TLC

GraphSymmetry == Permutations(Claim) \cup Permutations(Predicate) \cup Permutations(Category)
================================================================================
