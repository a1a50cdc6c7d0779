----------------------------- MODULE MCReplication -----------------------------
(***************************************************************************)
(* Finite instances of Replication for TLC.                                *)
(***************************************************************************)
EXTENDS Replication

(* What remember may carry: a processed fact.                              *)
MCFact == {[key |-> NoKey, tier |-> "short_term", processing |-> "processed"]}
================================================================================
