----------------------------- MODULE MCProjections -----------------------------
(***************************************************************************)
(* Finite instances of Projections for TLC.                                *)
(***************************************************************************)
EXTENDS Projections, TLC

(* Claims that promote and archive can move.                               *)
MCFacts == {[key |-> NoKey, tier |-> "short_term", processing |-> "processed"]}

(* Valid time has no bearing on projections: what is recorded holds from   *)
(* the moment it is recorded.                                              *)
RecordedWhenValid == validFrom = recordedAt

(* Claims have no evidence but their own.                                  *)
NoLinks == \A c, e \in Source : Cites(c, e) => c = e

(* With a link, what happens to one vector of one lane and one repair row. *)
LinksOrLanes ==
    \/ NoLinks
    \/ /\ \A x \in Target : embedding[x] # 2
       /\ Cardinality({x \in Target : embedding[x] # NoLane}) <= 1
       /\ \A w \in Embedder : job[w] = NoTarget
       /\ Cardinality(outbox) <= 1
================================================================================
