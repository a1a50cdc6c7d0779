----------------------------- MODULE MCSummaryTree -----------------------------
(***************************************************************************)
(* Finite instances of SummaryTree and SummaryWake for TLC.                *)
(***************************************************************************)
EXTENDS SummaryWake, TLC

(* Ids are random; the instances use them in the order they are minted.    *)
IdsInOrder ==
    \A n, m \in Id : n < m /\ node[m].state # "absent" => node[n].state # "absent"

(* Trees with a leaf that cites several pieces of evidence have at most    *)
(* five nodes; the others can grow to every id, four leaves under a root.  *)
SmallOrPlain ==
    \/ Cardinality(Live \cup Stale) < 5
    \/ \A n \in Live \cup Stale : node[n].level = 0 => Cardinality(node[n].cites) = 1

(* Texts of one to three bytes, parents shorter or longer than children.   *)
MCBytes == [n \in Id |-> 1 + (n % 3)]

EvidenceSymmetry == Permutations(Evidence)
================================================================================
