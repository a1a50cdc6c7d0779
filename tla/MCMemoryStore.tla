----------------------------- MODULE MCMemoryStore -----------------------------
(***************************************************************************)
(* Finite instances of MemoryStore for TLC.                                *)
(***************************************************************************)
EXTENDS MemoryStore, TLC

(* What remember may carry: a processed profile fact that promote and      *)
(* archive can both move.                                                  *)
MCProfileFact ==
    {[key |-> k, tier |-> "short_term", processing |-> "processed"] : k \in Key}

(* What remember may carry when only time matters.                         *)
MCFact == {[key |-> NoKey, tier |-> "short_term", processing |-> "processed"]}

(* Links beyond a claim's own evidence, of either relation.                *)
ExtraLinks == {<<c, e>> \in Source \X Source : c # e /\ Cites(c, e)}

Profiled == \E k \in Key : profile[k] # NoClaim
Reviewed == \E r \in Review : review[r] # {}

(* What remember stores holds from 1 on, corrections from 2 on, and there  *)
(* are two times of recording.                                             *)
TwoTimes ==
    /\ \A s \in Source : corrects[s] = NoClaim => validFrom[s] \in {1, Open}
    /\ \A s \in Source : /\ validFrom[s] # 3 /\ recordedAt[s] # 3
                         /\ claim[s].recordedUntil # 3

(* One lineage of corrections, whatever was deleted.                       *)
OneLineage ==
    /\ \A c, d \in Source : claim[c].status # "none" /\ claim[d].status # "none"
                            => LineageRoot[c] = LineageRoot[d]
    /\ \A c \in Source : claim[c].tier = "long_term" => corrects[c] # NoClaim
    /\ \A s \in Source : source[s] # "absent" => claim[s].status # "none"

(* One lineage over three times on both axes; or two times and two links,  *)
(* or a link beside a profile entry or a review.                           *)
OneSize ==
    \/ ~Profiled /\ ~Reviewed /\ ExtraLinks = {} /\ OneLineage
    \/ TwoTimes /\ ~(Profiled /\ Reviewed) /\ Cardinality(ExtraLinks) <= 1
    \/ TwoTimes /\ ~Profiled /\ ~Reviewed /\ Cardinality(ExtraLinks) <= 2

NoLinks == ExtraLinks = {}

SourceSymmetry == Permutations(Source)
================================================================================
