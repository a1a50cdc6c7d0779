------------------------------ MODULE SummaryTree ------------------------------
(***************************************************************************)
(* The summary tree of one scope (src/store/summaries.rs, with the calls   *)
(* that lifecycle.rs and apply.rs make).  Leaves summarize evidence at one *)
(* position each; merge joins two adjacent summaries of one level into a   *)
(* parent; deletion and correction mark what cites the evidence stale;     *)
(* rebuild puts a new node on the range of a stale one.  Each operation is *)
(* one transaction.                                                        *)
(*                                                                         *)
(* Texts are left out, and so is recorded_at: the caller supplies it, an   *)
(* operation given one that is too early fails, and no other reads it.  A  *)
(* source has one piece of evidence, as remember and correct write it.     *)
(***************************************************************************)
EXTENDS Naturals, FiniteSetsExt

CONSTANTS
    Evidence,    \* evidence the store can record
    Id           \* ids of summary nodes

VARIABLES
    evidence,    \* evidence[e]: absent, live or deleted
    node         \* node[n]: the row of summary n

vars == <<evidence, node>>

State == {"absent", "live", "stale"}

NoNode == [state |-> "absent", level |-> 0, first |-> 0, last |-> 0,
           cites |-> {}, children |-> {}]

TypeOK ==
    /\ evidence \in [Evidence -> {"absent", "live", "deleted"}]
    /\ node \in [Id -> [state : State, level : Nat, first : Nat, last : Nat,
                        cites : SUBSET Evidence, children : SUBSET Id]]

LiveEvidence == {e \in Evidence : evidence[e] = "live"}
Live == {n \in Id : node[n].state = "live"}
Stale == {n \in Id : node[n].state = "stale"}

Init ==
    /\ evidence = [e \in Evidence |-> "absent"]
    /\ node = [n \in Id |-> NoNode]

--------------------------------------------------------------------------------
SameRange(n, level, first, last) ==
    node[n].level = level /\ node[n].first = first /\ node[n].last = last

(* Summaries n and m stand for the same range at the same level.           *)
Counterparts(n, m) == SameRange(n, node[m].level, node[m].first, node[m].last)

(* insert_summary, with the trigger on summary_nodes (citations exist and  *)
(* are live, children are live) and the unique index on live ranges.       *)
Insert(n, level, first, last, cites, children) ==
    /\ node[n].state = "absent"
    /\ cites # {} /\ cites \subseteq LiveEvidence
    /\ children \subseteq Live
    /\ \A m \in Live : ~SameRange(m, level, first, last)
    /\ node' = [node EXCEPT ![n] = [state |-> "live", level |-> level, first |-> first,
                                    last |-> last, cites |-> cites, children |-> children]]
    /\ UNCHANGED evidence

(* The position after that of every leaf, live or stale.                   *)
NextPosition ==
    Max({0} \cup {node[n].last + 1 : n \in {m \in Live \cup Stale : node[m].level = 0}})

Nap(n, cited) == Insert(n, 0, NextPosition, NextPosition, cited, {})

(* Seeded fault: any two neighbours can be merged.                         *)
AdjacentAnywhere(l, r) ==
    /\ node[l].level = node[r].level
    /\ node[l].last + 1 = node[r].first

(* The number of positions a summary of a level covers: 1_u64 << level.    *)
Width[level \in Nat] == IF level = 0 THEN 1 ELSE 2 * Width[level - 1]

(* Children of a parent are neighbours at an aligned position.             *)
Adjacent(l, r) ==
    /\ node[l].level = node[r].level
    /\ node[l].last + 1 = node[r].first
    /\ node[l].first % Width[node[l].level + 1] = 0

HasParent(n) == \E p \in Live : n \in node[p].children

(* Seeded fault: a parent takes over the citations of one child.           *)
FirstCites(nodes) == node[CHOOSE n \in nodes : TRUE].cites

(* unique_evidence.                                                        *)
UniqueEvidence(nodes) == UNION {node[n].cites : n \in nodes}

Merge(n, l, r) ==
    /\ {l, r} \subseteq Live
    /\ Adjacent(l, r)
    /\ ~HasParent(l) /\ ~HasParent(r)
    /\ Insert(n, node[l].level + 1, node[l].first, node[r].last,
              UniqueEvidence({l, r}), {l, r})

RebuildLeaf(n, old, cited) ==
    /\ old \in Stale /\ node[old].level = 0
    /\ Insert(n, 0, node[old].first, node[old].last, cited, {})

(* Seeded fault: the children are looked up by their ids.                  *)
SameChildren(old) == node[old].children \cap Live

(* The live summaries on the ranges of the children of a stale parent.     *)
LiveChildren(old) == {m \in Live : \E c \in node[old].children : Counterparts(m, c)}

RebuildParent(n, old) ==
    /\ old \in Stale /\ node[old].level > 0
    /\ \A c \in node[old].children : \E m \in LiveChildren(old) : Counterparts(m, c)
    /\ Insert(n, node[old].level, node[old].first, node[old].last,
              UniqueEvidence(LiveChildren(old)), LiveChildren(old))

--------------------------------------------------------------------------------
Citing(gone) == {n \in Live : node[n].cites \cap gone # {}}

(* Seeded fault: parents are left to a later pass.                         *)
AffectedLeaves(gone) == {n \in Citing(gone) : node[n].level = 0}

(* What invalidate_summaries_for_evidence marks: the least set of live     *)
(* nodes that has those citing the evidence and every parent of its own.   *)
Affected(gone) ==
    {n \in Live : \A marked \in SUBSET Live :
        /\ Citing(gone) \subseteq marked
        /\ \A p \in Live : node[p].children \cap marked # {} => p \in marked
        => n \in marked}

(* Seeded fault: summaries are deleted with the evidence.                  *)
DeleteCiting(gone) ==
    node' = [n \in Id |-> IF n \in Affected(gone) THEN [node[n] EXCEPT !.state = "deleted"]
                                                  ELSE node[n]]

Invalidate(gone) ==
    node' = [n \in Id |-> IF n \in Affected(gone) THEN [node[n] EXCEPT !.state = "stale"]
                                                  ELSE node[n]]

(* remember: evidence to summarize.                                        *)
Remember(e) ==
    /\ evidence[e] = "absent"
    /\ evidence' = [evidence EXCEPT ![e] = "live"]
    /\ UNCHANGED node

(* delete_source: the evidence is tombstoned.                              *)
DeleteSource(e) ==
    /\ evidence[e] = "live"
    /\ evidence' = [evidence EXCEPT ![e] = "deleted"]
    /\ Invalidate({e})

(* correct: the evidence that supports the old claim, deleted or not, stays*)
(* as it is, but summaries of it are out of date; some of it is live,      *)
(* because the claim was accepted.                                         *)
Correct(e, support) ==
    /\ evidence[e] = "absent"
    /\ support \cap LiveEvidence # {}
    /\ \A s \in support : evidence[s] # "absent"
    /\ evidence' = [evidence EXCEPT ![e] = "live"]
    /\ Invalidate(support)

(* The stale nodes dream reports: those without a live node on their range.*)
Reported == {n \in Stale : \A m \in Live : ~Counterparts(m, n)}

Rebuild ==
    \E n \in Id, old \in Reported :
        RebuildParent(n, old) \/ \E cited \in SUBSET Evidence : RebuildLeaf(n, old, cited)

Next ==
    \/ \E n \in Id, cited \in SUBSET Evidence : Nap(n, cited)
    \/ \E n, l, r \in Id : Merge(n, l, r)
    \/ Rebuild
    \/ \E e \in Evidence : Remember(e) \/ DeleteSource(e)
    \/ \E e \in Evidence, support \in SUBSET Evidence : Correct(e, support)

Spec == Init /\ [][Next]_vars

(* apply_deletion on a replica: the evidence is tombstoned as by           *)
(* delete_source, the summaries are not.                                   *)
ApplyDeletion(e) ==
    /\ evidence[e] = "live"
    /\ evidence' = [evidence EXCEPT ![e] = "deleted"]
    /\ UNCHANGED node

ReplicaSpec == Init /\ [][Next \/ \E e \in Evidence : ApplyDeletion(e)]_vars

--------------------------------------------------------------------------------
(* What a live summary says rests on evidence that is still live: deletion *)
(* reaches every summary that cites the evidence, at every level.          *)
SummariesCiteLiveEvidence == \A n \in Live : node[n].cites \subseteq LiveEvidence

(* A live parent is the sum of two live children, whatever was deleted,    *)
(* corrected and rebuilt below it: zoom into a live summary never fails,   *)
(* and a parent cites what its children cite.                              *)
ParentsMatchChildren ==
    \A p \in Live : node[p].level > 0 =>
        \E l, r \in Live :
            /\ node[p].children = {l, r}
            /\ node[l].level + 1 = node[p].level /\ node[r].level + 1 = node[p].level
            /\ node[l].first = node[p].first /\ node[r].last = node[p].last
            /\ node[l].last + 1 = node[r].first
            /\ node[p].cites = node[l].cites \cup node[r].cites

(* Live ranges are nested or disjoint, and never the same at one level: a  *)
(* position is summarized once per level.                                  *)
Positions(n) == node[n].first .. node[n].last

LiveRangesNest ==
    \A n, m \in Live : n # m =>
        \/ Positions(n) \cap Positions(m) = {}
        \/ node[n].level < node[m].level /\ Positions(n) \subseteq Positions(m)
        \/ node[m].level < node[n].level /\ Positions(m) \subseteq Positions(n)

(* Repair never gets stuck: while anything is reported, there is live      *)
(* evidence to cite and an id to mint, some reported node can be rebuilt,  *)
(* so a host that rebuilds what dream reports ends with the tree whole.    *)
RepairNeverStuck ==
    Reported # {} /\ LiveEvidence # {} /\ Live \cup Stale # Id => ENABLED Rebuild
================================================================================
