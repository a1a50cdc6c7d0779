--------------------------- MODULE SummaryTreeProofs ---------------------------
(***************************************************************************)
(* Theorems about SummaryTree for every set of evidence and ids.  The      *)
(* argument: a parent cites what its children cite, so the live nodes that *)
(* cite some evidence are closed under live parents, and marking them is   *)
(* all that invalidation does.                                             *)
(***************************************************************************)
EXTENDS SummaryWake, Recursion, TLAPS

(* Nodes that were ever inserted.                                          *)
Known == Live \cup Stale

(* Nodes l and r are the halves of the range of node p.                    *)
Halves(p, l, r) ==
    /\ node[l].level + 1 = node[p].level /\ node[r].level + 1 = node[p].level
    /\ node[l].first = node[p].first /\ node[r].last = node[p].last
    /\ node[l].last + 1 = node[r].first

(* The row of node n, in state s.                                          *)
Row(n, s) == [state |-> s, level |-> node[n].level, first |-> node[n].first,
              last |-> node[n].last, cites |-> node[n].cites, children |-> node[n].children]

TableOK ==
    /\ evidence = [e \in Evidence |-> evidence[e]]
    /\ node = [n \in Id |-> Row(n, node[n].state)]
    /\ \A n \in Id : node[n].level \in Nat

(* Every node, stale ones included, keeps the shape it was inserted with.  *)
NodesHaveShape ==
    \A p \in Known :
        IF node[p].level = 0 THEN node[p].children = {}
        ELSE \E l, r \in Known : node[p].children = {l, r} /\ Halves(p, l, r)

LiveRangesDiffer == \A n, m \in Live : Counterparts(n, m) => n = m

TreeInv ==
    /\ TableOK
    /\ NodesHaveShape
    /\ LiveRangesDiffer
    /\ SummariesCiteLiveEvidence
    /\ ParentsMatchChildren

(* The invariant holds of an empty tree.                                   *)
LEMMA TreeInit == Init => TreeInv
  BY DEF Init, TreeInv, TableOK, Row, NodesHaveShape, LiveRangesDiffer, Known,
         SummariesCiteLiveEvidence, ParentsMatchChildren, Live, Stale, NoNode

(* Invalidation marks the nodes that cite the evidence, and no others: the *)
(* parents of a node that cites it cite it too.                            *)
LEMMA AffectedIsCiting ==
    ASSUME TreeInv, NEW gone
    PROVE  Affected(gone) = Citing(gone)
<1>1. Citing(gone) \in SUBSET Live
  BY DEF Citing
<1>2. \A p \in Live : node[p].children \cap Citing(gone) # {} => p \in Citing(gone)
  <2> SUFFICES ASSUME NEW p \in Live, NEW n \in node[p].children, n \in Citing(gone)
               PROVE  p \in Citing(gone)
    OBVIOUS
  <2>1. node[p].level # 0
    BY DEF TreeInv, NodesHaveShape, Known
  <2>2. node[p].level > 0
    BY <2>1 DEF TreeInv, TableOK, Live
  <2>3. node[n].cites \subseteq node[p].cites
    BY <2>2 DEF TreeInv, ParentsMatchChildren
  <2> QED
    BY <2>3 DEF Citing
<1>3. Affected(gone) \subseteq Citing(gone)
  BY <1>1, <1>2 DEF Affected
<1>4. Citing(gone) \subseteq Affected(gone)
  BY DEF Affected, Citing
<1> QED
  BY <1>3, <1>4

--------------------------------------------------------------------------------
(* A step that inserts a leaf, or a parent over two live halves.           *)
LEMMA InsertStep ==
    ASSUME TreeInv, NEW n \in Id, NEW level \in Nat, NEW first, NEW last, NEW cites,
           NEW children, Insert(n, level, first, last, cites, children),
           \/ level = 0 /\ children = {}
           \/ /\ level > 0
              /\ \E l, r \in Live :
                    /\ children = {l, r}
                    /\ node[l].level + 1 = level /\ node[r].level + 1 = level
                    /\ node[l].first = first /\ node[r].last = last
                    /\ node[l].last + 1 = node[r].first
                    /\ cites = node[l].cites \cup node[r].cites
    PROVE  TreeInv'
<1> DEFINE row == [state |-> "live", level |-> level, first |-> first, last |-> last,
                   cites |-> cites, children |-> children]
<1>1. node' = [node EXCEPT ![n] = row] /\ evidence' = evidence /\ node[n].state = "absent"
  BY DEF Insert
<1>2. node'[n] = row /\ \A m \in Id : m # n => node'[m] = node[m]
  BY <1>1 DEF TreeInv, TableOK
<1>3. Live' = Live \cup {n} /\ Stale' = Stale /\ n \notin Live \cup Stale
  BY <1>1, <1>2 DEF Live, Stale
<1>4. \A m \in Live \cup Stale : m \in Id /\ node'[m] = node[m]
  BY <1>2, <1>3 DEF Live, Stale
<1>5. TableOK'
  BY <1>1, <1>2 DEF TreeInv, TableOK, Row
<1>6. NodesHaveShape'
  <2> SUFFICES ASSUME NEW p \in Known'
               PROVE  IF node'[p].level = 0 THEN node'[p].children = {}
                      ELSE \E l, r \in Known' : node'[p].children = {l, r} /\ Halves(p, l, r)'
    BY DEF NodesHaveShape
  <2>1. CASE p = n
    BY <2>1, <1>2, <1>3, <1>4 DEF Known, Halves
  <2>2. CASE p # n
    <3>1. p \in Known /\ node'[p] = node[p]
      BY <2>2, <1>3, <1>4 DEF Known
    <3>2. CASE node[p].level = 0
      BY <3>1, <3>2 DEF TreeInv, NodesHaveShape
    <3>3. CASE node[p].level # 0
      <4>1. PICK l \in Known, r \in Known : node[p].children = {l, r} /\ Halves(p, l, r)
        BY <3>1, <3>3 DEF TreeInv, NodesHaveShape
      <4>2. l \in Known' /\ r \in Known' /\ Halves(p, l, r)'
        BY <3>1, <4>1, <1>3, <1>4 DEF Known, Halves
      <4> QED
        BY <3>1, <3>3, <4>1, <4>2
    <3> QED
      BY <3>2, <3>3
  <2> QED
    BY <2>1, <2>2
<1>7. LiveRangesDiffer'
  <2>1. \A m \in Live : ~SameRange(m, level, first, last)
    BY DEF Insert
  <2> QED
    BY <2>1, <1>2, <1>3, <1>4 DEF TreeInv, LiveRangesDiffer, Counterparts, SameRange
<1>8. SummariesCiteLiveEvidence'
  BY <1>1, <1>2, <1>3, <1>4
     DEF TreeInv, SummariesCiteLiveEvidence, Insert, LiveEvidence
<1>9. ParentsMatchChildren'
  <2> SUFFICES ASSUME NEW p \in Live', node'[p].level > 0
               PROVE  \E l, r \in Live' :
                        /\ node'[p].children = {l, r}
                        /\ Halves(p, l, r)'
                        /\ node'[p].cites = node'[l].cites \cup node'[r].cites
    BY DEF ParentsMatchChildren, Halves
  <2>1. CASE p = n
    BY <2>1, <1>2, <1>3, <1>4 DEF Halves
  <2>2. CASE p # n
    <3>1. p \in Live /\ node'[p] = node[p]
      BY <2>2, <1>3, <1>4
    <3>2. PICK l \in Live, r \in Live :
            /\ node[p].children = {l, r} /\ Halves(p, l, r)
            /\ node[p].cites = node[l].cites \cup node[r].cites
      BY <3>1 DEF TreeInv, ParentsMatchChildren, Halves
    <3>3. l \in Live' /\ r \in Live' /\ node'[l] = node[l] /\ node'[r] = node[r]
      BY <1>3, <1>4
    <3> QED
      BY <3>1, <3>2, <3>3 DEF Halves
  <2> QED
    BY <2>1, <2>2
<1> QED
  BY <1>5, <1>6, <1>7, <1>8, <1>9 DEF TreeInv

(* A step that invalidates what cites evidence that goes or is outdated.   *)
LEMMA InvalidateStep ==
    ASSUME TreeInv, NEW gone, Invalidate(gone), evidence' = [e \in Evidence |-> evidence'[e]],
           LiveEvidence \ gone \subseteq LiveEvidence'
    PROVE  TreeInv'
<1>1. \A n \in Id : node'[n] = IF n \in Citing(gone) THEN Row(n, "stale")
                                                     ELSE Row(n, node[n].state)
  <2> TAKE n \in Id
  <2>1. node[n] = Row(n, node[n].state)
    BY DEF TreeInv, TableOK
  <2>2. [node[n] EXCEPT !.state = "stale"] = Row(n, "stale")
    BY <2>1 DEF Row
  <2> QED
    BY <2>1, <2>2, AffectedIsCiting DEF Invalidate
<1>2. \A n \in Id : /\ node'[n].level = node[n].level /\ node'[n].first = node[n].first
                    /\ node'[n].last = node[n].last /\ node'[n].cites = node[n].cites
                    /\ node'[n].children = node[n].children
                    /\ node'[n].state = IF n \in Citing(gone) THEN "stale" ELSE node[n].state
  <2> TAKE n \in Id
  <2>1. CASE n \in Citing(gone)
    <3>1. node'[n] = Row(n, "stale")
      BY <1>1, <2>1
    <3> QED
      BY <2>1, <3>1 DEF Row
  <2>2. CASE n \notin Citing(gone)
    <3>1. node'[n] = Row(n, node[n].state)
      BY <1>1, <2>2
    <3> QED
      BY <2>2, <3>1 DEF Row
  <2> QED
    BY <2>1, <2>2
<1>3. Live' = Live \ Citing(gone) /\ Known' = Known
  <2>1. Citing(gone) \subseteq Live
    BY DEF Citing
  <2> QED
    BY <1>2, <2>1 DEF Live, Stale, Known
<1>4. TableOK'
  <2>1. node' = [n \in Id |-> node'[n]]
    BY DEF Invalidate
  <2>2. \A n \in Id : node'[n] = [state |-> node'[n].state, level |-> node'[n].level,
                                   first |-> node'[n].first, last |-> node'[n].last,
                                   cites |-> node'[n].cites, children |-> node'[n].children]
    <3> TAKE n \in Id
    <3>1. PICK s : node'[n] = Row(n, s)
      BY <1>1
    <3> QED
      BY <3>1 DEF Row
  <2> QED
    BY <1>2, <2>1, <2>2 DEF TreeInv, TableOK, Row
<1>5. NodesHaveShape'
  BY <1>2, <1>3 DEF TreeInv, NodesHaveShape, Halves, Known, Live, Stale
<1>6. LiveRangesDiffer'
  BY <1>2, <1>3 DEF TreeInv, LiveRangesDiffer, Counterparts, SameRange, Live
<1>7. SummariesCiteLiveEvidence'
  BY <1>2, <1>3 DEF TreeInv, SummariesCiteLiveEvidence, Citing, Live
<1>8. ParentsMatchChildren'
  <2> SUFFICES ASSUME NEW p \in Live', node'[p].level > 0
               PROVE  \E l, r \in Live' :
                        /\ node'[p].children = {l, r}
                        /\ Halves(p, l, r)'
                        /\ node'[p].cites = node'[l].cites \cup node'[r].cites
    BY DEF ParentsMatchChildren, Halves
  <2>1. p \in Live /\ p \notin Citing(gone) /\ node[p].level > 0
    BY <1>2, <1>3 DEF Live
  <2>2. PICK l \in Live, r \in Live :
          /\ node[p].children = {l, r} /\ Halves(p, l, r)
          /\ node[p].cites = node[l].cites \cup node[r].cites
    BY <2>1 DEF TreeInv, ParentsMatchChildren, Halves
  <2>3. l \in Live' /\ r \in Live'
    BY <2>1, <2>2, <1>3 DEF Citing
  <2> QED
    BY <2>1, <2>2, <2>3, <1>2 DEF Halves, Live
<1> QED
  BY <1>4, <1>5, <1>6, <1>7, <1>8 DEF TreeInv

--------------------------------------------------------------------------------
(* A rebuilt parent joins the two live halves of its range: the nodes on   *)
(* the ranges of its old children are unique.                              *)
LEMMA RebuiltParentHasHalves ==
    ASSUME TreeInv, NEW n \in Id, NEW old \in Id, RebuildParent(n, old)
    PROVE  \E l, r \in Live :
             /\ LiveChildren(old) = {l, r} /\ Halves(old, l, r)
             /\ UniqueEvidence(LiveChildren(old)) = node[l].cites \cup node[r].cites
<1>1. old \in Known /\ node[old].level # 0
  BY DEF RebuildParent, Known
<1>2. PICK c \in Known, d \in Known : node[old].children = {c, d} /\ Halves(old, c, d)
  BY <1>1 DEF TreeInv, NodesHaveShape
<1>3. PICK l \in Live : Counterparts(l, c)
  BY <1>2 DEF RebuildParent, LiveChildren
<1>4. PICK r \in Live : Counterparts(r, d)
  BY <1>2 DEF RebuildParent, LiveChildren
<1>5. \A m \in Live : (Counterparts(m, c) => m = l) /\ (Counterparts(m, d) => m = r)
  BY <1>3, <1>4 DEF TreeInv, LiveRangesDiffer, Counterparts, SameRange
<1>6. LiveChildren(old) = {l, r}
  BY <1>2, <1>3, <1>4, <1>5 DEF LiveChildren
<1>7. Halves(old, l, r)
  BY <1>2, <1>3, <1>4 DEF Halves, Counterparts, SameRange
<1>8. UniqueEvidence({l, r}) = node[l].cites \cup node[r].cites
  BY DEF UniqueEvidence
<1> QED
  BY <1>6, <1>7, <1>8

(* A step that leaves the nodes alone and takes no evidence away.          *)
LEMMA NodesUnchanged ==
    ASSUME TreeInv, UNCHANGED node, evidence' = [e \in Evidence |-> evidence'[e]],
           LiveEvidence \subseteq LiveEvidence'
    PROVE  TreeInv'
<1>1. Live' = Live /\ Stale' = Stale /\ Known' = Known
  BY DEF Live, Stale, Known
<1>2. TableOK'
  BY DEF TreeInv, TableOK, Row
<1>3. NodesHaveShape'
  BY <1>1 DEF TreeInv, NodesHaveShape, Halves
<1>4. LiveRangesDiffer'
  BY <1>1 DEF TreeInv, LiveRangesDiffer, Counterparts, SameRange
<1>5. SummariesCiteLiveEvidence'
  BY <1>1 DEF TreeInv, SummariesCiteLiveEvidence
<1>6. ParentsMatchChildren'
  <2> SUFFICES ASSUME NEW p \in Live', node'[p].level > 0
               PROVE  \E l, r \in Live' :
                        /\ node'[p].children = {l, r}
                        /\ Halves(p, l, r)'
                        /\ node'[p].cites = node'[l].cites \cup node'[r].cites
    BY DEF ParentsMatchChildren, Halves
  <2>1. PICK l \in Live, r \in Live :
          /\ node[p].children = {l, r} /\ Halves(p, l, r)
          /\ node[p].cites = node[l].cites \cup node[r].cites
    BY <1>1 DEF TreeInv, ParentsMatchChildren, Halves
  <2> QED
    BY <1>1, <2>1 DEF Halves
<1> QED
  BY <1>2, <1>3, <1>4, <1>5, <1>6 DEF TreeInv

(* Every operation keeps it.                                               *)
LEMMA TreeStep == TreeInv /\ [Next]_vars => TreeInv'
<1> SUFFICES ASSUME TreeInv, [Next]_vars
             PROVE  TreeInv'
  OBVIOUS
<1>1. ASSUME NEW n \in Id, NEW cited \in SUBSET Evidence, Nap(n, cited)
      PROVE  TreeInv'
  <2>1. Insert(n, 0, NextPosition, NextPosition, cited, {})
    BY <1>1 DEF Nap
  <2> QED
    BY <2>1, InsertStep
<1>2. ASSUME NEW n \in Id, NEW l \in Id, NEW r \in Id, Merge(n, l, r)
      PROVE  TreeInv'
  <2> DEFINE level == node[l].level + 1
  <2>1. /\ l \in Live /\ r \in Live
        /\ Insert(n, level, node[l].first, node[r].last, UniqueEvidence({l, r}), {l, r})
    BY <1>2 DEF Merge
  <2>2. level \in Nat /\ level > 0
    BY DEF TreeInv, TableOK
  <2>3. /\ node[l].level + 1 = level /\ node[r].level + 1 = level
        /\ node[l].last + 1 = node[r].first
    BY <1>2 DEF Merge, Adjacent
  <2>4. UniqueEvidence({l, r}) = node[l].cites \cup node[r].cites
    BY DEF UniqueEvidence
  <2> HIDE DEF level
  <2> QED
    BY <2>1, <2>2, <2>3, <2>4, InsertStep
<1>3. ASSUME NEW n \in Id, NEW old \in Id, NEW cited \in SUBSET Evidence,
             RebuildLeaf(n, old, cited)
      PROVE  TreeInv'
  <2>1. Insert(n, 0, node[old].first, node[old].last, cited, {})
    BY <1>3 DEF RebuildLeaf
  <2> QED
    BY <2>1, InsertStep
<1>4. ASSUME NEW n \in Id, NEW old \in Id, RebuildParent(n, old)
      PROVE  TreeInv'
  <2>1. PICK l \in Live, r \in Live :
          /\ LiveChildren(old) = {l, r} /\ Halves(old, l, r)
          /\ UniqueEvidence(LiveChildren(old)) = node[l].cites \cup node[r].cites
    BY <1>4, RebuiltParentHasHalves
  <2>2. /\ node[old].level \in Nat /\ node[old].level > 0
        /\ Insert(n, node[old].level, node[old].first, node[old].last,
                  UniqueEvidence(LiveChildren(old)), LiveChildren(old))
    BY <1>4 DEF RebuildParent, TreeInv, TableOK
  <2> QED
    BY <2>1, <2>2, InsertStep DEF Halves
<1>5. ASSUME NEW e \in Evidence, Remember(e)
      PROVE  TreeInv'
  <2>1. evidence' = [evidence EXCEPT ![e] = "live"] /\ UNCHANGED node
    BY <1>5 DEF Remember
  <2>2. evidence' = [x \in Evidence |-> evidence'[x]] /\ LiveEvidence \subseteq LiveEvidence'
    BY <2>1 DEF TreeInv, TableOK, LiveEvidence
  <2> QED
    BY <2>1, <2>2, NodesUnchanged
<1>6. ASSUME NEW e \in Evidence, DeleteSource(e)
      PROVE  TreeInv'
  <2>1. evidence' = [evidence EXCEPT ![e] = "deleted"] /\ Invalidate({e})
    BY <1>6 DEF DeleteSource
  <2>2. evidence' = [x \in Evidence |-> evidence'[x]] /\ LiveEvidence \ {e} \subseteq LiveEvidence'
    BY <2>1 DEF TreeInv, TableOK, LiveEvidence
  <2> QED
    BY <2>1, <2>2, InvalidateStep
<1>7. ASSUME NEW e \in Evidence, NEW support \in SUBSET Evidence, Correct(e, support)
      PROVE  TreeInv'
  <2>1. evidence' = [evidence EXCEPT ![e] = "live"] /\ Invalidate(support)
    BY <1>7 DEF Correct
  <2>2. /\ evidence' = [x \in Evidence |-> evidence'[x]]
        /\ LiveEvidence \ support \subseteq LiveEvidence'
    BY <2>1 DEF TreeInv, TableOK, LiveEvidence
  <2> QED
    BY <2>1, <2>2, InvalidateStep
<1>8. ASSUME UNCHANGED vars
      PROVE  TreeInv'
  <2>1. UNCHANGED node /\ UNCHANGED evidence
    BY <1>8 DEF vars
  <2>2. evidence' = [x \in Evidence |-> evidence'[x]] /\ LiveEvidence \subseteq LiveEvidence'
    BY <2>1 DEF TreeInv, TableOK, LiveEvidence
  <2> QED
    BY <2>1, <2>2, NodesUnchanged
<1> QED
  BY <1>1, <1>2, <1>3, <1>4, <1>5, <1>6, <1>7, <1>8 DEF Next, Rebuild, Reported, Stale

(* Whatever is summarized, deleted, corrected and rebuilt, the tree keeps  *)
(* its shape and its citations.                                            *)
THEOREM TreeAlwaysSound == Spec => []TreeInv
  BY TreeInit, TreeStep, PTL DEF Spec

(* What a live summary says rests on live evidence: delete_source and      *)
(* correct reach every summary of what they remove, at every level.        *)
THEOREM LiveSummariesAlwaysCite == Spec => []SummariesCiteLiveEvidence
<1>1. TreeInv => SummariesCiteLiveEvidence
  BY DEF TreeInv
<1> QED
  BY <1>1, TreeAlwaysSound, PTL

(* A live parent always is the sum of two live children, whatever rebuild  *)
(* put in their place: zoom into a live summary cannot fail.               *)
THEOREM ParentsAlwaysMatch == Spec => []ParentsMatchChildren
<1>1. TreeInv => ParentsMatchChildren
  BY DEF TreeInv
<1> QED
  BY <1>1, TreeAlwaysSound, PTL

--------------------------------------------------------------------------------
(* The positions after the leaves, live or stale.                          *)
LeafEnds == {0} \cup {node[n].last + 1 : n \in {m \in Live \cup Stale : node[m].level = 0}}

(* There is a last one.  Ids need not be finite: naps are one by one.      *)
HasLastLeaf == \E b \in LeafEnds : \A x \in LeafEnds : b >= x

TypeInv == TypeOK /\ HasLastLeaf

(* The position nap takes is after every leaf.                             *)
LEMMA NextPositionIsLast ==
    ASSUME TypeInv
    PROVE  /\ LeafEnds \subseteq Nat
           /\ NextPosition \in Nat
           /\ \A x \in LeafEnds : NextPosition >= x
<1>1. LeafEnds \subseteq Nat
  BY DEF TypeInv, TypeOK, LeafEnds, Live, Stale
<1>2. NextPosition = CHOOSE b \in LeafEnds : \A x \in LeafEnds : b >= x
  BY DEF NextPosition, LeafEnds, Max
<1>3. \E b \in LeafEnds : \A x \in LeafEnds : b >= x
  BY DEF TypeInv, HasLastLeaf
<1>4. NextPosition \in LeafEnds /\ \A x \in LeafEnds : NextPosition >= x
  BY <1>2, <1>3
<1> QED
  BY <1>1, <1>4

(* A new node adds a leaf end of its own, or one that was there, or none.  *)
LEMMA InsertTypes ==
    ASSUME TypeInv, NEW n \in Id, NEW level \in Nat, NEW first \in Nat, NEW last \in Nat,
           NEW cites, NEW children, Insert(n, level, first, last, cites, children),
           \/ level > 0
           \/ last + 1 \in LeafEnds
           \/ \A x \in LeafEnds : last + 1 >= x
    PROVE  TypeInv'
<1> DEFINE row == [state |-> "live", level |-> level, first |-> first, last |-> last,
                   cites |-> cites, children |-> children]
<1>1. node' = [node EXCEPT ![n] = row] /\ evidence' = evidence /\ node[n].state = "absent"
  BY DEF Insert
<1>2. cites \in SUBSET Evidence /\ children \in SUBSET Id
  BY DEF Insert, LiveEvidence, Live
<1>3. TypeOK'
  BY <1>1, <1>2 DEF TypeInv, TypeOK, State
<1>4. node'[n] = row /\ \A m \in Id : m # n => node'[m] = node[m]
  BY <1>1 DEF TypeInv, TypeOK
<1>5. n \notin Live \cup Stale /\ Live' \cup Stale' = Live \cup Stale \cup {n}
  BY <1>1, <1>4 DEF Live, Stale
<1>6. LeafEnds' = LeafEnds \cup (IF level = 0 THEN {last + 1} ELSE {})
  BY <1>4, <1>5 DEF LeafEnds, Live, Stale
<1>7. PICK b \in LeafEnds : \A x \in LeafEnds : b >= x
  BY DEF TypeInv, HasLastLeaf
<1>8. CASE level > 0 \/ last + 1 \in LeafEnds
  <2>1. LeafEnds' = LeafEnds
    BY <1>6, <1>8
  <2> QED
    BY <1>3, <1>7, <2>1 DEF TypeInv, HasLastLeaf
<1>9. CASE level = 0 /\ \A x \in LeafEnds : last + 1 >= x
  <2>1. LeafEnds' = LeafEnds \cup {last + 1} /\ last + 1 >= last + 1
    BY <1>6, <1>9
  <2>2. \A x \in LeafEnds' : last + 1 >= x
    BY <1>9, <2>1
  <2> QED
    BY <1>3, <2>1, <2>2 DEF TypeInv, HasLastLeaf
<1> QED
  BY <1>8, <1>9

(* Invalidation and evidence leave the leaves where they are.              *)
LEMMA LeavesStay ==
    ASSUME TypeInv, evidence' \in [Evidence -> {"absent", "live", "deleted"}],
           node' = node \/ \E gone \in SUBSET Evidence : Invalidate(gone)
    PROVE  TypeInv'
<1>1. CASE node' = node
  BY <1>1 DEF TypeInv, TypeOK, HasLastLeaf, LeafEnds, Live, Stale
<1>2. ASSUME NEW gone \in SUBSET Evidence, Invalidate(gone) PROVE TypeInv'
  <2>1. \A n \in Id : node'[n] = node[n] \/ node'[n] = [node[n] EXCEPT !.state = "stale"]
    BY <1>2 DEF Invalidate
  <2>2. Affected(gone) \subseteq Live
    BY DEF Affected
  <2>3. \A n \in Id : /\ node'[n].level = node[n].level /\ node'[n].last = node[n].last
                      /\ node'[n].state \in {"live", "stale"} <=> node[n].state \in {"live", "stale"}
    BY <1>2, <2>2 DEF Invalidate, TypeInv, TypeOK, Live
  <2>4. TypeOK'
    <3>1. node' = [n \in Id |-> node'[n]]
      BY <1>2 DEF Invalidate
    <3> QED
      BY <2>1, <3>1 DEF TypeInv, TypeOK, State
  <2>5. LeafEnds' = LeafEnds
    <3>1. Live' \cup Stale' = Live \cup Stale /\ Live \cup Stale \subseteq Id
      BY <2>3 DEF Live, Stale
    <3> QED
      BY <2>3, <3>1 DEF LeafEnds
  <2> QED
    BY <2>4, <2>5 DEF TypeInv, HasLastLeaf
<1> QED
  BY <1>1, <1>2

(* Every operation keeps the types, and a last leaf.                       *)
LEMMA TypeStep == TypeInv /\ [Next]_vars => TypeInv'
<1> SUFFICES ASSUME TypeInv, [Next]_vars PROVE TypeInv'
  OBVIOUS
<1>0. /\ \A n \in Id : /\ node[n].level \in Nat /\ node[n].first \in Nat /\ node[n].last \in Nat
                       /\ node[n].level + 1 \in Nat /\ node[n].level + 1 > 0
      /\ LeafEnds \subseteq Nat
  BY NextPositionIsLast DEF TypeInv, TypeOK
<1>1. ASSUME NEW n \in Id, NEW cited \in SUBSET Evidence, Nap(n, cited)
      PROVE  TypeInv'
  <2>1. NextPosition \in Nat /\ \A x \in LeafEnds : NextPosition + 1 >= x
    BY <1>0, NextPositionIsLast
  <2>2. Insert(n, 0, NextPosition, NextPosition, cited, {})
    BY <1>1 DEF Nap
  <2> QED
    BY <2>1, <2>2, InsertTypes
<1>2. ASSUME NEW n \in Id, NEW l \in Id, NEW r \in Id, Merge(n, l, r)
      PROVE  TypeInv'
  <2>1. Insert(n, node[l].level + 1, node[l].first, node[r].last, UniqueEvidence({l, r}), {l, r})
    BY <1>2 DEF Merge
  <2> QED
    BY <1>0, <2>1, InsertTypes
<1>3. ASSUME NEW n \in Id, NEW old \in Id, NEW cited \in SUBSET Evidence,
             RebuildLeaf(n, old, cited)
      PROVE  TypeInv'
  <2>1. Insert(n, 0, node[old].first, node[old].last, cited, {})
    BY <1>3 DEF RebuildLeaf
  <2>2. node[old].last + 1 \in LeafEnds
    BY <1>3 DEF RebuildLeaf, LeafEnds
  <2> QED
    BY <1>0, <2>1, <2>2, InsertTypes
<1>4. ASSUME NEW n \in Id, NEW old \in Id, RebuildParent(n, old)
      PROVE  TypeInv'
  <2>1. /\ node[old].level > 0
        /\ Insert(n, node[old].level, node[old].first, node[old].last,
                  UniqueEvidence(LiveChildren(old)), LiveChildren(old))
    BY <1>4 DEF RebuildParent
  <2> QED
    BY <1>0, <2>1, InsertTypes
<1>5. ASSUME NEW e \in Evidence, Remember(e)
      PROVE  TypeInv'
  <2>1. evidence' \in [Evidence -> {"absent", "live", "deleted"}] /\ node' = node
    BY <1>5 DEF Remember, TypeInv, TypeOK
  <2> QED
    BY <2>1, LeavesStay
<1>6. ASSUME NEW e \in Evidence, DeleteSource(e)
      PROVE  TypeInv'
  <2>1. evidence' \in [Evidence -> {"absent", "live", "deleted"}] /\ Invalidate({e})
    BY <1>6 DEF DeleteSource, TypeInv, TypeOK
  <2> QED
    BY <2>1, LeavesStay
<1>7. ASSUME NEW e \in Evidence, NEW support \in SUBSET Evidence, Correct(e, support)
      PROVE  TypeInv'
  <2>1. evidence' \in [Evidence -> {"absent", "live", "deleted"}] /\ Invalidate(support)
    BY <1>7 DEF Correct, TypeInv, TypeOK
  <2> QED
    BY <2>1, LeavesStay
<1>8. ASSUME UNCHANGED vars
      PROVE  TypeInv'
  <2>1. evidence' \in [Evidence -> {"absent", "live", "deleted"}] /\ node' = node
    BY <1>8 DEF vars, TypeInv, TypeOK
  <2> QED
    BY <2>1, LeavesStay
<1> QED
  BY <1>1, <1>2, <1>3, <1>4, <1>5, <1>6, <1>7, <1>8 DEF Next, Rebuild, Reported, Stale

(* Positions, levels, citations and children stay what a node has; the     *)
(* position a nap takes is always a number.                                *)
THEOREM TreeTypes == Spec => []TypeOK
<1>1. Init => TypeInv
  BY DEF Init, TypeInv, TypeOK, NoNode, State, HasLastLeaf, LeafEnds, Live, Stale
<1>2. TypeInv => TypeOK
  BY DEF TypeInv
<1> QED
  BY <1>1, <1>2, TypeStep, PTL DEF Spec

--------------------------------------------------------------------------------
(* A summary covers twice as much as one a level lower.                    *)
LEMMA WidthDef ==
    /\ Width[0] = 1
    /\ \A k \in Nat : Width[k] \in Nat \ {0} /\ Width[k + 1] = 2 * Width[k]
<1> DEFINE S == Nat \ {0}
           base == 1
           Def(f) == [k \in Nat |-> IF k = 0 THEN 1 ELSE 2 * f[k - 1]]
           step == [k \in Nat \ {0} |-> [x \in S |-> 2 * x]]
           width == Width
<1>1. base \in S
  OBVIOUS
<1>2. step \in [Nat \ {0} -> [S -> S]]
  OBVIOUS
<1>3. \A k \in Nat \ {0}, x \in S : step[k][x] = 2 * x
  OBVIOUS
<1> HIDE DEF S, base, step
<1>4. PICK f : IteratesOn(f, S, base, step)
  BY <1>1, <1>2, EndlessIterationExists, Zenon
<1>5. f = Def(f)
  <2>1. \A k \in Nat : f[k] = IF k = 0 THEN 1 ELSE 2 * f[k - 1]
    BY <1>3, <1>4 DEF base, IteratesOn
  <2>2. QED
    BY <1>4, <2>1 DEF IteratesOn
<1>6. width = CHOOSE g : g = Def(g)
  BY Zenon DEF Width
<1>7. width = Def(width)
  <2> HIDE DEF Def, width
  <2>1. QED
    BY <1>5, <1>6, Zenon
<1> HIDE DEF width
<1>8. width[0] = 1 /\ \A k \in Nat : width[k + 1] = 2 * width[k]
  <2>1. \A k \in Nat : width[k] = IF k = 0 THEN 1 ELSE 2 * width[k - 1]
    BY <1>7
  <2>2. QED
    BY <2>1
<1> DEFINE T == {k \in Nat : width[k] \in Nat \ {0}}
<1>9. 0 \in T
  BY <1>8
<1>10. \A k \in Nat : k \in T => k + 1 \in T
  BY <1>8
<1> HIDE DEF T
<1>11. \A k \in Nat : k \in T
  BY <1>9, <1>10, InductiveSet
<1>12. QED
  BY <1>8, <1>11 DEF T, width

(* The i-th range of a level.                                              *)
BlockStart(k, i) == i * Width[k]
Block(k, i) == BlockStart(k, i) .. BlockStart(k, i) + Width[k] - 1

(* Starts of ranges are positions; an even one starts a range a level up.  *)
LEMMA BlockStarts ==
    ASSUME NEW k \in Nat, NEW i \in Nat
    PROVE  /\ BlockStart(k, i) \in Nat
           /\ BlockStart(k, 2 * i) = BlockStart(k + 1, i)
           /\ BlockStart(k, i + 1) = BlockStart(k, i) + Width[k]
<1>1. Width[k] \in Nat /\ Width[k + 1] = 2 * Width[k]
  BY WidthDef
<1> DEFINE w == Width[k]
<1>2. w \in Nat /\ i * w \in Nat /\ (2 * i) * w = i * (2 * w) /\ (i + 1) * w = i * w + w
  BY <1>1
<1>3. QED
  BY <1>1, <1>2 DEF BlockStart

(* Every range is within one of the level above.                           *)
LEMMA BlockInHigher ==
    ASSUME NEW k \in Nat, NEW i \in Nat
    PROVE  \E j \in Nat : Block(k, i) \subseteq Block(k + 1, j)
<1>0. Width[k] \in Nat /\ Width[k + 1] = 2 * Width[k]
  BY WidthDef
<1>1. PICK j \in Nat : i = 2 * j \/ i = 2 * j + 1
  <2>1. i \div 2 \in Nat /\ (i = 2 * (i \div 2) \/ i = 2 * (i \div 2) + 1)
    OBVIOUS
  <2>2. QED
    BY <2>1
<1>2. /\ BlockStart(k, 2 * j) \in Nat
      /\ BlockStart(k, 2 * j) = BlockStart(k + 1, j)
      /\ BlockStart(k, 2 * j + 1) = BlockStart(k, 2 * j) + Width[k]
  <2>1. 2 * j \in Nat
    OBVIOUS
  <2> DEFINE h == 2 * j
  <2>2. BlockStart(k, h) \in Nat /\ BlockStart(k, h + 1) = BlockStart(k, h) + Width[k]
    <3> HIDE DEF h
    <3>1. QED
      BY <2>1, BlockStarts DEF h
  <2>3. QED
    BY <2>2, BlockStarts
<1>3. Block(k, i) \subseteq Block(k + 1, j)
  BY <1>0, <1>1, <1>2 DEF Block
<1>4. QED
  BY <1>3

(* Every range is within one of any higher level.                          *)
LEMMA BlockInAnyHigher ==
    ASSUME NEW k \in Nat, NEW i \in Nat
    PROVE  \A d \in Nat : \E j \in Nat : Block(k, i) \subseteq Block(k + d, j)
<1> DEFINE T == {d \in Nat : \E j \in Nat : Block(k, i) \subseteq Block(k + d, j)}
<1>1. 0 \in T
  OBVIOUS
<1>2. ASSUME NEW d \in Nat, d \in T PROVE d + 1 \in T
  <2>1. PICK j \in Nat : Block(k, i) \subseteq Block(k + d, j)
    BY <1>2
  <2>2. PICK h \in Nat : Block(k + d, j) \subseteq Block((k + d) + 1, h)
    BY BlockInHigher
  <2>3. (k + d) + 1 = k + (d + 1)
    OBVIOUS
  <2>4. QED
    BY <2>1, <2>2, <2>3
<1> HIDE DEF T
<1>3. \A d \in Nat : d \in T
  BY <1>1, <1>2, InductiveSet
<1>4. QED
  BY <1>3 DEF T

(* Ranges of one level are the same or disjoint.                           *)
LEMMA BlocksOfLevel ==
    ASSUME NEW k \in Nat, NEW i \in Nat, NEW j \in Nat, i < j
    PROVE  Block(k, i) \cap Block(k, j) = {}
<1> DEFINE w == Width[k]
<1>1. w \in Nat
  BY WidthDef
<1>2. PICK d \in Nat : j = i + 1 + d
  <2>1. j - i - 1 \in Nat /\ j = i + 1 + (j - i - 1)
    OBVIOUS
  <2>2. QED
    BY <2>1
<1>3. i * w + w <= j * w /\ i * w \in Nat /\ j * w \in Nat
  <2> HIDE DEF w
  <2>1. j * w = i * w + w + d * w
    BY <1>1, <1>2
  <2>2. d * w \in Nat /\ i * w \in Nat /\ j * w \in Nat
    BY <1>1
  <2>3. QED
    BY <1>1, <2>1, <2>2
<1>4. QED
  BY <1>1, <1>3 DEF Block, BlockStart

(* So two ranges are disjoint, or the one of the lower level is within the *)
(* other.                                                                  *)
LEMMA BlocksNest ==
    ASSUME NEW k \in Nat, NEW i \in Nat, NEW m \in Nat, NEW j \in Nat, k <= m
    PROVE  Block(k, i) \cap Block(m, j) = {} \/ Block(k, i) \subseteq Block(m, j)
<1>1. m - k \in Nat /\ k + (m - k) = m
  OBVIOUS
<1>2. PICK h \in Nat : Block(k, i) \subseteq Block(m, h)
  BY <1>1, BlockInAnyHigher
<1>3. h = j \/ Block(m, h) \cap Block(m, j) = {}
  BY BlocksOfLevel
<1>4. QED
  BY <1>2, <1>3

--------------------------------------------------------------------------------
(* Every node, stale ones included, is at a range of its level.            *)
AtBlock(level, first, last) ==
    \E i \in Nat : first = BlockStart(level, i) /\ last + 1 = first + Width[level]

RangesAreBlocks ==
    \A n \in Known : AtBlock(node[n].level, node[n].first, node[n].last)

BlockInv == TreeInv /\ TypeInv /\ RangesAreBlocks

(* A position by itself is a range of level 0.                             *)
LEMMA LeafIsBlock ==
    ASSUME NEW p \in Nat
    PROVE  AtBlock(0, p, p)
  BY WidthDef DEF AtBlock, BlockStart

(* Two neighbours that merge accepts make a range of the next level.       *)
LEMMA MergedIsBlock ==
    ASSUME BlockInv, NEW l \in Live, NEW r \in Live, Adjacent(l, r)
    PROVE  AtBlock(node[l].level + 1, node[l].first, node[r].last)
<1> DEFINE k == node[l].level
           first == node[l].first
           w == Width[k + 1]
<1>1. /\ k \in Nat /\ first \in Nat /\ node[l].last \in Nat
      /\ node[r].first \in Nat /\ node[r].last \in Nat /\ node[r].level = k
      /\ node[l].last + 1 = node[r].first
      /\ first % w = 0
  BY DEF BlockInv, TypeInv, TypeOK, Live, Adjacent
<1>2. /\ node[l].last + 1 = first + Width[k]
      /\ node[r].last + 1 = node[r].first + Width[k]
  BY <1>1 DEF BlockInv, RangesAreBlocks, Known, AtBlock
<1>3. w \in Nat \ {0} /\ Width[k] \in Nat /\ w = 2 * Width[k]
  BY <1>1, WidthDef
<1>4. first \div w \in Nat /\ first = (first \div w) * w
  <2> HIDE DEF w, first
  <2>1. QED
    BY <1>1, <1>3
<1>5. node[r].last + 1 = first + w
  BY <1>1, <1>2, <1>3
<1>6. QED
  BY <1>4, <1>5 DEF AtBlock, BlockStart

(* A step that inserts a node on a range of its level.                     *)
LEMMA InsertBlock ==
    ASSUME TypeInv, RangesAreBlocks, NEW n \in Id, NEW level, NEW first, NEW last, NEW cites,
           NEW children, Insert(n, level, first, last, cites, children),
           AtBlock(level, first, last)
    PROVE  RangesAreBlocks'
<1> DEFINE row == [state |-> "live", level |-> level, first |-> first, last |-> last,
                   cites |-> cites, children |-> children]
<1>1. node' = [node EXCEPT ![n] = row]
  BY DEF Insert
<1>2. node'[n] = row /\ \A m \in Id : m # n => node'[m] = node[m]
  BY <1>1 DEF TypeInv, TypeOK
<1>3. Known' \subseteq Known \cup {n}
  BY <1>2 DEF Known, Live, Stale
<1>4. SUFFICES ASSUME NEW m \in Known'
               PROVE  AtBlock(node'[m].level, node'[m].first, node'[m].last)
  BY DEF RangesAreBlocks, AtBlock, BlockStart
<1>5. CASE m = n
  BY <1>2, <1>5
<1>6. CASE m # n
  <2>1. m \in Known /\ m \in Id
    BY <1>3, <1>4, <1>6 DEF Known, Live, Stale
  <2>2. QED
    BY <1>2, <1>6, <2>1 DEF RangesAreBlocks
<1>7. QED
  BY <1>5, <1>6

(* A step that inserts nothing.                                            *)
LEMMA BlocksStay ==
    ASSUME TypeInv, RangesAreBlocks,
           node' = node \/ \E gone \in SUBSET Evidence : Invalidate(gone)
    PROVE  RangesAreBlocks'
<1>1. \A n \in Id : node'[n] = node[n] \/ node'[n] = [node[n] EXCEPT !.state = "stale"]
  BY DEF Invalidate
<1>2. \A n \in Id : /\ node'[n].level = node[n].level /\ node'[n].first = node[n].first
                    /\ node'[n].last = node[n].last
  <2>1. SUFFICES ASSUME NEW n \in Id
                 PROVE  /\ node'[n].level = node[n].level /\ node'[n].first = node[n].first
                        /\ node'[n].last = node[n].last
    OBVIOUS
  <2>2. node[n] \in [state : State, level : Nat, first : Nat, last : Nat,
                     cites : SUBSET Evidence, children : SUBSET Id]
    BY DEF TypeInv, TypeOK
  <2>3. QED
    BY <1>1, <2>2
<1>3. Known' \subseteq Known
  <2>1. CASE node' = node
    BY <2>1 DEF Known, Live, Stale
  <2>2. ASSUME NEW gone \in SUBSET Evidence, Invalidate(gone) PROVE Known' \subseteq Known
    <3>1. \A n \in Id : n \notin Affected(gone) => node'[n] = node[n]
      BY <2>2 DEF Invalidate
    <3>2. Affected(gone) \subseteq Live
      BY DEF Affected
    <3>3. QED
      BY <3>1, <3>2 DEF Known, Live, Stale
  <2>3. QED
    BY <2>1, <2>2
<1>4. SUFFICES ASSUME NEW n \in Known'
               PROVE  AtBlock(node'[n].level, node'[n].first, node'[n].last)
  BY DEF RangesAreBlocks, AtBlock, BlockStart
<1>5. n \in Id /\ n \in Known
  BY <1>3, <1>4 DEF Known, Live, Stale
<1>6. QED
  BY <1>2, <1>5 DEF RangesAreBlocks

(* Every operation leaves all nodes on ranges of their level.              *)
LEMMA BlockStep == BlockInv /\ [Next]_vars => BlockInv'
<1> SUFFICES ASSUME BlockInv, [Next]_vars PROVE RangesAreBlocks'
  BY TreeStep, TypeStep DEF BlockInv
<1>0. TypeInv /\ RangesAreBlocks /\ NextPosition \in Nat
  BY NextPositionIsLast DEF BlockInv
<1>1. ASSUME NEW n \in Id, NEW cited \in SUBSET Evidence, Nap(n, cited)
      PROVE  RangesAreBlocks'
  <2>1. Insert(n, 0, NextPosition, NextPosition, cited, {})
    BY <1>1 DEF Nap
  <2>2. AtBlock(0, NextPosition, NextPosition)
    BY <1>0, LeafIsBlock
  <2>3. QED
    BY <1>0, <2>1, <2>2, InsertBlock
<1>2. ASSUME NEW n \in Id, NEW l \in Id, NEW r \in Id, Merge(n, l, r)
      PROVE  RangesAreBlocks'
  <2>1. /\ l \in Live /\ r \in Live /\ Adjacent(l, r)
        /\ Insert(n, node[l].level + 1, node[l].first, node[r].last, UniqueEvidence({l, r}), {l, r})
    BY <1>2 DEF Merge
  <2>2. AtBlock(node[l].level + 1, node[l].first, node[r].last)
    BY <2>1, MergedIsBlock
  <2>3. QED
    BY <1>0, <2>1, <2>2, InsertBlock
<1>3. ASSUME NEW n \in Id, NEW old \in Id, NEW cited \in SUBSET Evidence,
             RebuildLeaf(n, old, cited)
      PROVE  RangesAreBlocks'
  <2>1. /\ old \in Known /\ node[old].level = 0
        /\ Insert(n, 0, node[old].first, node[old].last, cited, {})
    BY <1>3 DEF RebuildLeaf, Known
  <2>2. AtBlock(0, node[old].first, node[old].last)
    BY <1>0, <2>1 DEF RangesAreBlocks
  <2>3. QED
    BY <1>0, <2>1, <2>2, InsertBlock
<1>4. ASSUME NEW n \in Id, NEW old \in Id, RebuildParent(n, old)
      PROVE  RangesAreBlocks'
  <2>1. /\ old \in Known
        /\ Insert(n, node[old].level, node[old].first, node[old].last,
                  UniqueEvidence(LiveChildren(old)), LiveChildren(old))
    BY <1>4 DEF RebuildParent, Known
  <2>2. AtBlock(node[old].level, node[old].first, node[old].last)
    BY <1>0, <2>1 DEF RangesAreBlocks
  <2>3. QED
    BY <1>0, <2>1, <2>2, InsertBlock
<1>5. ASSUME NEW e \in Evidence, Remember(e)
      PROVE  RangesAreBlocks'
  BY <1>0, <1>5, BlocksStay DEF Remember
<1>6. ASSUME NEW e \in Evidence, DeleteSource(e)
      PROVE  RangesAreBlocks'
  <2>1. Invalidate({e}) /\ {e} \in SUBSET Evidence
    BY <1>6 DEF DeleteSource
  <2>2. QED
    BY <1>0, <2>1, BlocksStay
<1>7. ASSUME NEW e \in Evidence, NEW support \in SUBSET Evidence, Correct(e, support)
      PROVE  RangesAreBlocks'
  BY <1>0, <1>7, BlocksStay DEF Correct
<1>8. ASSUME UNCHANGED vars
      PROVE  RangesAreBlocks'
  BY <1>0, <1>8, BlocksStay DEF vars
<1> QED
  BY <1>1, <1>2, <1>3, <1>4, <1>5, <1>6, <1>7, <1>8 DEF Next, Rebuild, Reported, Stale

(* So this invariant always holds; it is what wake and repair rest on.     *)
LEMMA BlocksAlways == Spec => []BlockInv
<1>1. Init => TypeInv
  BY DEF Init, TypeInv, TypeOK, NoNode, State, HasLastLeaf, LeafEnds, Live, Stale
<1>2. Init => RangesAreBlocks
  BY DEF Init, RangesAreBlocks, Known, NoNode, Live, Stale
<1>3. Init => BlockInv
  BY <1>1, <1>2, TreeInit DEF BlockInv
<1>4. QED
  BY <1>3, BlockStep, PTL DEF Spec

(* The positions of a live node are a range of its level.                  *)
LEMMA PositionsAreBlock ==
    ASSUME BlockInv, NEW n \in Live
    PROVE  node[n].level \in Nat /\ \E i \in Nat : Positions(n) = Block(node[n].level, i)
<1>1. node[n].level \in Nat /\ node[n].first \in Nat /\ node[n].last \in Nat
  BY DEF BlockInv, TypeInv, TypeOK, Live
<1>2. PICK i \in Nat : /\ node[n].first = BlockStart(node[n].level, i)
                       /\ node[n].last + 1 = node[n].first + Width[node[n].level]
  BY DEF BlockInv, RangesAreBlocks, Known, AtBlock
<1>3. Width[node[n].level] \in Nat
  BY <1>1, WidthDef
<1>4. node[n].last = BlockStart(node[n].level, i) + Width[node[n].level] - 1
  BY <1>1, <1>2, <1>3
<1>5. QED
  BY <1>1, <1>2, <1>4 DEF Positions, Block

(* Of two live summaries the ranges are disjoint, or the lower one is part *)
(* of the other: naps, merges and rebuilds never overlap half-way.         *)
LEMMA LiveBlocksNest ==
    ASSUME BlockInv
    PROVE  LiveRangesNest
<1>1. SUFFICES ASSUME NEW n \in Live, NEW m \in Live, n # m,
                      node[n].level <= node[m].level,
                      Positions(n) \cap Positions(m) # {}
               PROVE  node[n].level < node[m].level /\ Positions(n) \subseteq Positions(m)
  <2>1. \A n \in Live : node[n].level \in Nat
    BY PositionsAreBlock
  <2>2. QED
    BY <1>1, <2>1 DEF LiveRangesNest
<1>2. /\ node[n].level \in Nat /\ node[m].level \in Nat
      /\ \E i \in Nat : Positions(n) = Block(node[n].level, i)
      /\ \E j \in Nat : Positions(m) = Block(node[m].level, j)
  BY PositionsAreBlock
<1>3. Positions(n) \subseteq Positions(m)
  BY <1>1, <1>2, BlocksNest
<1>4. ASSUME node[n].level = node[m].level PROVE FALSE
  <2>1. /\ node[n].first \in Nat /\ node[n].last \in Nat
        /\ node[m].first \in Nat /\ node[m].last \in Nat
    BY DEF BlockInv, TypeInv, TypeOK, Live
  <2>2. Positions(n) = Positions(m)
    <3>1. Positions(m) \cap Positions(n) # {}
      BY <1>1
    <3>2. Positions(m) \subseteq Positions(n)
      BY <1>2, <1>4, <3>1, BlocksNest
    <3>3. QED
      BY <1>3, <3>2
  <2>3. node[n].first = node[m].first /\ node[n].last = node[m].last
    BY <1>1, <2>1, <2>2 DEF Positions
  <2>4. QED
    BY <1>1, <1>4, <2>3 DEF BlockInv, TreeInv, LiveRangesDiffer, Counterparts, SameRange
<1>5. QED
  BY <1>1, <1>2, <1>3, <1>4

(* A position is summarized at most once per level, and ranges are nested  *)
(* or disjoint, whatever naps, merges, deletions and rebuilds do.          *)
THEOREM LiveRangesAlwaysNest == Spec => []LiveRangesNest
  BY BlocksAlways, LiveBlocksNest, PTL

--------------------------------------------------------------------------------
(* Some summary of a set begins first, and some parent last.               *)
LEMMA OldestFound ==
    ASSUME TypeOK, NEW nodes \in SUBSET Id, nodes # {}
    PROVE  Oldest(nodes) \in nodes
<1> DEFINE Firsts == {node[n].first : n \in nodes}
<1>1. Firsts \subseteq Nat /\ Firsts # {}
  BY DEF TypeOK
<1>2. PICK b \in Firsts : \A x \in Firsts : b <= x
  <2> HIDE DEF Firsts
  <2>1. QED
    BY <1>1, LeastNatural
<1>3. \E n \in nodes : \A m \in nodes : node[n].first <= node[m].first
  BY <1>2
<1>4. QED
  BY <1>3 DEF Oldest

(* The parent wake opens next is there, and the newest.                    *)
LEMMA NewestParentFound ==
    ASSUME TypeOK, NEW nodes \in SUBSET Id, ParentsIn(nodes) # {}
    PROVE  /\ NewestParent(nodes) \in ParentsIn(nodes)
           /\ \A q \in ParentsIn(nodes) : node[q].first <= node[NewestParent(nodes)].first
<1> DEFINE first == [n \in Id |-> node[n].first]
<1>1. ParentsIn(nodes) \in SUBSET Id
  BY DEF ParentsIn
<1>2. IsFiniteSet(ParentsIn(nodes))
  BY <1>1, IdsAreFinite, FS_Subset
<1>3. \A n \in ParentsIn(nodes) : first[n] \in Nat /\ first[n] = node[n].first
  BY <1>1 DEF TypeOK
<1> HIDE DEF first
<1>4. \E p \in ParentsIn(nodes) : \A q \in ParentsIn(nodes) : first[q] <= first[p]
  BY <1>2, <1>3, GreatestValue
<1>5. \E p \in ParentsIn(nodes) : \A q \in ParentsIn(nodes) : node[q].first <= node[p].first
  BY <1>3, <1>4
<1>6. QED
  BY <1>5 DEF NewestParent

(* No summaries have no bytes.                                             *)
LEMMA NothingFits == \A max \in Nat : Fits({}, max)
<1> DEFINE Def(f) == [s \in SUBSET {} |-> IF s = {} THEN 0
                                          ELSE LET x == CHOOSE x \in s : TRUE
                                               IN  Bytes[x] + f[s \ {x}]]
           iter == CHOOSE f : f = Def(f)
           zero == [s \in SUBSET {} |-> 0]
<1>1. zero = Def(zero)
  OBVIOUS
<1>2. iter = Def(iter)
  <2> HIDE DEF Def, zero
  <2>1. QED
    BY <1>1
<1> HIDE DEF iter
<1>3. iter[{}] = 0
  BY <1>2
<1>4. TotalBytes({}) = iter[{}]
  BY Zenon DEF TotalBytes, MapThenSumSet, MapThenFoldSet, iter, Def
<1>5. QED
  BY <1>3, <1>4 DEF Fits

(* The texts of some summaries have a number of bytes.                     *)
LEMMA TotalBytesType ==
    ASSUME NEW nodes \in SUBSET Id
    PROVE  TotalBytes(nodes) \in Nat
<1> DEFINE any(s) == CHOOSE x \in s : TRUE
           choice == [s \in SUBSET nodes |-> any(s)]
           step == [n \in nodes |-> [b \in Nat |-> Bytes[n] + b]]
           Def(f) == [s \in SUBSET nodes |-> IF s = {} THEN 0
                                             ELSE LET x == CHOOSE x \in s : TRUE
                                                  IN  Bytes[x] + f[s \ {x}]]
           iter == CHOOSE f : f = Def(f)
<1>1. IsFiniteSet(nodes)
  BY IdsAreFinite, FS_Subset
<1>2. \A n \in nodes : Bytes[n] \in Nat
  BY BytesAreLengths
<1>3. step \in [nodes -> [Nat -> Nat]] /\ \A n \in nodes, b \in Nat : step[n][b] = Bytes[n] + b
  BY <1>2
<1>4. \A s \in SUBSET nodes : choice[s] = any(s) /\ (s # {} => any(s) \in s)
  OBVIOUS
<1> HIDE DEF step, choice
<1>5. PICK f : FoldsBy(f, nodes, Nat, 0, choice, step)
  <2>1. \A s \in SUBSET nodes : s # {} => choice[s] \in s
    BY <1>4
  <2>2. QED
    BY <1>1, <1>3, <2>1, FoldExists
<1>6. f = Def(f)
  <2>1. /\ f \in [SUBSET nodes -> Nat]
        /\ \A s \in SUBSET nodes :
              f[s] = IF s = {} THEN 0 ELSE step[choice[s]][f[s \ {choice[s]}]]
    BY <1>5 DEF FoldsBy
  <2>2. \A s \in SUBSET nodes : s # {} => step[any(s)][f[s \ {any(s)}]] = Bytes[any(s)] + f[s \ {any(s)}]
    BY <1>3, <1>4, <2>1
  <2>3. \A s \in SUBSET nodes : f[s] = IF s = {} THEN 0 ELSE Bytes[any(s)] + f[s \ {any(s)}]
    BY <1>4, <2>1, <2>2
  <2>4. QED
    BY <2>1, <2>3
<1>7. iter = Def(iter)
  <2> HIDE DEF Def
  <2>1. QED
    BY <1>6
<1> HIDE DEF iter
<1>8. \A s \in SUBSET nodes : iter[s] = IF s = {} THEN 0 ELSE Bytes[any(s)] + iter[s \ {any(s)}]
  BY <1>7
<1> HIDE DEF any
<1>9. ASSUME NEW s \in SUBSET nodes PROVE iter[s] \in Nat
  <2> DEFINE T == {m \in Nat : \A u \in SUBSET nodes : Cardinality(u) = m => iter[u] \in Nat}
  <2>1. \A u \in SUBSET nodes : IsFiniteSet(u) /\ Cardinality(u) \in Nat
    <3>1. \A u \in SUBSET nodes : IsFiniteSet(u)
      BY <1>1, FS_Subset
    <3>2. QED
      BY <3>1, FS_CardinalityType
  <2>2. 0 \in T
    <3>1. \A u \in SUBSET nodes : Cardinality(u) = 0 => u = {}
      BY <2>1, FS_EmptySet
    <3>2. QED
      BY <1>8, <3>1
  <2>3. ASSUME NEW m \in Nat, m \in T PROVE m + 1 \in T
    <3>1. SUFFICES ASSUME NEW u \in SUBSET nodes, Cardinality(u) = m + 1 PROVE iter[u] \in Nat
      OBVIOUS
    <3>2. u # {}
      BY <3>1, FS_EmptySet
    <3>3. any(u) \in u
      BY <1>4, <3>2
    <3>4. Cardinality(u \ {any(u)}) \in Nat /\ Cardinality(u) = Cardinality(u \ {any(u)}) + 1
      BY <2>1, <3>3, OneLess
    <3>5. Cardinality(u \ {any(u)}) = m
      BY <3>1, <3>4
    <3>6. iter[u \ {any(u)}] \in Nat
      BY <2>3, <3>5
    <3>7. Bytes[any(u)] \in Nat
      BY <1>2, <3>3
    <3>8. iter[u] = Bytes[any(u)] + iter[u \ {any(u)}]
      BY <1>8, <3>2
    <3>9. QED
      BY <3>6, <3>7, <3>8
  <2> HIDE DEF T
  <2>4. \A m \in Nat : m \in T
    BY <2>2, <2>3, InductiveSet
  <2>5. QED
    BY <2>1, <2>4 DEF T
<1>10. TotalBytes(nodes) = iter[nodes]
  BY Zenon DEF TotalBytes, MapThenSumSet, MapThenFoldSet, iter, Def
<1>11. QED
  BY <1>9, <1>10

(* The roots wake begins with fit, and are roots.                          *)
LEMMA RootsFit ==
    ASSUME TypeOK, NEW max \in Nat
    PROVE  RootsWithin(max) \subseteq Roots /\ Fits(RootsWithin(max), max)
<1> DEFINE V == {nodes \in SUBSET Roots : Fits(nodes, max)}
           Take(n, newer) == IF Fits(newer \cup {n}, max) THEN newer \cup {n} ELSE newer
           choice == [s \in SUBSET Roots |-> Oldest(s)]
           step == [n \in Roots |-> [newer \in V |-> Take(n, newer)]]
           Def(f) == [s \in SUBSET Roots |-> IF s = {} THEN {}
                                             ELSE LET x == Oldest(s) IN Take(x, f[s \ {x}])]
           iter == CHOOSE f : f = Def(f)
<1>1. Roots \subseteq Id /\ IsFiniteSet(Roots)
  <2>1. Roots \in SUBSET Id
    BY DEF Roots, Live
  <2>2. QED
    BY <2>1, IdsAreFinite, FS_Subset
<1>2. {} \in V
  BY NothingFits
<1>3. \A n \in Roots, newer \in V : Take(n, newer) \in V
  OBVIOUS
<1>4. step \in [Roots -> [V -> V]] /\ \A n \in Roots, newer \in V : step[n][newer] = Take(n, newer)
  BY <1>3
<1>5. \A s \in SUBSET Roots : s # {} => Oldest(s) \in s
  BY <1>1, OldestFound
<1>6. \A s \in SUBSET Roots : choice[s] = Oldest(s)
  OBVIOUS
<1> HIDE DEF step, choice, V, Take
<1>7. PICK f : FoldsBy(f, Roots, V, {}, choice, step)
  <2>1. \A s \in SUBSET Roots : s # {} => choice[s] \in s
    BY <1>5, <1>6
  <2>2. QED
    BY <1>1, <1>2, <1>4, <2>1, FoldExists
<1>8. /\ f = [s \in SUBSET Roots |-> f[s]] /\ \A s \in SUBSET Roots : f[s] \in V
      /\ \A s \in SUBSET Roots : f[s] = IF s = {} THEN {} ELSE Take(Oldest(s), f[s \ {Oldest(s)}])
  <2>1. /\ f \in [SUBSET Roots -> V]
        /\ \A s \in SUBSET Roots :
              f[s] = IF s = {} THEN {} ELSE step[choice[s]][f[s \ {choice[s]}]]
    BY <1>7 DEF FoldsBy
  <2>2. \A s \in SUBSET Roots : s # {} =>
           step[Oldest(s)][f[s \ {Oldest(s)}]] = Take(Oldest(s), f[s \ {Oldest(s)}])
    BY <1>4, <1>5, <2>1
  <2>3. QED
    BY <1>6, <2>1, <2>2
<1>9. iter = Def(iter)
  <2>1. f = Def(f)
    BY <1>8
  <2> HIDE DEF Def
  <2>2. QED
    BY <2>1
<1> HIDE DEF iter
<1>10. \A s \in SUBSET Roots :
          iter[s] = IF s = {} THEN {} ELSE Take(Oldest(s), iter[s \ {Oldest(s)}])
  BY <1>9
<1>11. \A s \in SUBSET Roots : iter[s] = f[s]
  <2> DEFINE T == {m \in Nat : \A s \in SUBSET Roots : Cardinality(s) = m => iter[s] = f[s]}
  <2>1. \A s \in SUBSET Roots : IsFiniteSet(s) /\ Cardinality(s) \in Nat
    <3>1. \A s \in SUBSET Roots : IsFiniteSet(s)
      BY <1>1, FS_Subset
    <3>2. QED
      BY <3>1, FS_CardinalityType
  <2>2. 0 \in T
    <3>1. \A s \in SUBSET Roots : Cardinality(s) = 0 => s = {}
      BY <2>1, FS_EmptySet
    <3>2. QED
      BY <1>8, <1>10, <3>1
  <2>3. ASSUME NEW m \in Nat, m \in T PROVE m + 1 \in T
    <3>1. SUFFICES ASSUME NEW s \in SUBSET Roots, Cardinality(s) = m + 1 PROVE iter[s] = f[s]
      OBVIOUS
    <3>2. s # {}
      BY <3>1, FS_EmptySet
    <3>3. Oldest(s) \in s
      BY <1>5, <3>2
    <3>4. Cardinality(s \ {Oldest(s)}) \in Nat /\ Cardinality(s) = Cardinality(s \ {Oldest(s)}) + 1
      BY <2>1, <3>3, OneLess
    <3>5. Cardinality(s \ {Oldest(s)}) = m
      BY <3>1, <3>4
    <3>6. iter[s \ {Oldest(s)}] = f[s \ {Oldest(s)}]
      BY <2>3, <3>5
    <3>7. QED
      BY <1>8, <1>10, <3>2, <3>6
  <2> HIDE DEF T
  <2>4. \A m \in Nat : m \in T
    BY <2>2, <2>3, InductiveSet
  <2>5. QED
    BY <2>1, <2>4 DEF T
<1>12. RootsWithin(max) = iter[Roots]
  BY Zenon DEF RootsWithin, MapThenFoldSet, iter, Def, Take
<1>13. RootsWithin(max) \in V
  <2>1. Roots \in SUBSET Roots
    OBVIOUS
  <2>2. iter[Roots] = f[Roots] /\ f[Roots] \in V
    BY <1>8, <1>11, <2>1
  <2>3. QED
    BY <1>12, <2>2
<1>14. QED
  BY <1>13 DEF V

--------------------------------------------------------------------------------
(* The positions of a live summary; those of a parent are those of its two *)
(* children.                                                               *)
LEMMA RangeOfLive ==
    ASSUME BlockInv, NEW n \in Live
    PROVE  /\ node[n].level \in Nat /\ node[n].first \in Nat /\ node[n].last \in Nat
           /\ node[n].first <= node[n].last
           /\ node[n].first \in Positions(n) /\ node[n].last \in Positions(n)
           /\ node[n].children # {} <=> node[n].level # 0
<1>1. node[n].level \in Nat /\ node[n].first \in Nat /\ node[n].last \in Nat
  BY DEF BlockInv, TypeInv, TypeOK, Live
<1>2. node[n].last + 1 = node[n].first + Width[node[n].level]
  BY DEF BlockInv, RangesAreBlocks, Known, AtBlock
<1>3. Width[node[n].level] \in Nat \ {0}
  BY <1>1, WidthDef
<1>4. node[n].first <= node[n].last
  BY <1>1, <1>2, <1>3
<1>5. node[n].children # {} <=> node[n].level # 0
  BY DEF BlockInv, TreeInv, NodesHaveShape, Known
<1>6. QED
  BY <1>1, <1>4, <1>5 DEF Positions

(* A live parent covers what its two live children cover, each once.       *)
LEMMA HalvesOfParent ==
    ASSUME BlockInv, NEW p \in Live, node[p].level # 0
    PROVE  \E l, r \in Live :
             /\ node[p].children = {l, r}
             /\ node[l].level + 1 = node[p].level /\ node[r].level + 1 = node[p].level
             /\ Positions(p) = Positions(l) \cup Positions(r)
             /\ Positions(l) \cap Positions(r) = {}
<1>1. node[p].level > 0
  BY RangeOfLive
<1>2. PICK l \in Live, r \in Live :
         /\ node[p].children = {l, r}
         /\ node[l].level + 1 = node[p].level /\ node[r].level + 1 = node[p].level
         /\ node[l].first = node[p].first /\ node[r].last = node[p].last
         /\ node[l].last + 1 = node[r].first
  BY <1>1 DEF BlockInv, TreeInv, ParentsMatchChildren
<1>3. /\ node[l].first \in Nat /\ node[l].last \in Nat /\ node[l].first <= node[l].last
      /\ node[r].first \in Nat /\ node[r].last \in Nat /\ node[r].first <= node[r].last
  BY RangeOfLive
<1>4. Positions(p) = Positions(l) \cup Positions(r) /\ Positions(l) \cap Positions(r) = {}
  BY <1>2, <1>3 DEF Positions
<1>5. QED
  BY <1>2, <1>4

(* A summary within a live one of a higher level is the child of one.      *)
LEMMA WithinHasParent ==
    ASSUME BlockInv
    PROVE  \A d \in Nat : \A n, m \in Live :
             node[m].level = node[n].level + d + 1 /\ Positions(n) \cap Positions(m) # {}
                => HasParent(n)
<1> DEFINE T == {d \in Nat : \A n, m \in Live :
                   node[m].level = node[n].level + d + 1 /\ Positions(n) \cap Positions(m) # {}
                      => HasParent(n)}
<1>1. ASSUME NEW d \in Nat, \A e \in Nat : e < d => e \in T PROVE d \in T
  <2>1. SUFFICES ASSUME NEW n \in Live, NEW m \in Live,
                        node[m].level = node[n].level + d + 1, Positions(n) \cap Positions(m) # {}
                 PROVE  HasParent(n)
    OBVIOUS
  <2>2. node[n].level \in Nat /\ node[m].level \in Nat /\ node[m].level # 0
    BY <2>1, RangeOfLive
  <2>3. PICK l \in Live, r \in Live :
           /\ node[m].children = {l, r}
           /\ node[l].level + 1 = node[m].level /\ node[r].level + 1 = node[m].level
           /\ Positions(m) = Positions(l) \cup Positions(r)
    BY <2>2, HalvesOfParent
  <2>4. PICK c \in Live : /\ c \in node[m].children /\ node[c].level + 1 = node[m].level
                          /\ Positions(n) \cap Positions(c) # {}
    BY <2>1, <2>3
  <2>5. node[c].level \in Nat /\ node[c].level = node[n].level + d
    BY <2>1, <2>2, <2>4, RangeOfLive
  <2>6. CASE d = 0
    <3>1. node[c].level = node[n].level
      BY <2>2, <2>5, <2>6
    <3>2. c = n
      BY <2>2, <2>4, <3>1, LiveBlocksNest DEF LiveRangesNest
    <3>3. QED
      BY <2>4, <3>2 DEF HasParent
  <2>7. CASE d # 0
    <3>1. d - 1 \in Nat /\ d - 1 < d /\ node[c].level = node[n].level + (d - 1) + 1
      BY <2>2, <2>5, <2>7
    <3>2. d - 1 \in T
      BY <1>1, <3>1
    <3>3. QED
      BY <2>4, <3>1, <3>2
  <2>8. QED
    BY <2>6, <2>7
<1> HIDE DEF T
<1>2. \A d \in Nat : d \in T
  BY <1>1, ProgressiveSet
<1>3. QED
  BY <1>2 DEF T

(* Two roots have no position in common.                                   *)
LEMMA RootsAreApart ==
    ASSUME BlockInv, NEW n \in Roots, NEW m \in Roots, n # m
    PROVE  Positions(n) \cap Positions(m) = {}
<1>1. n \in Live /\ m \in Live /\ ~HasParent(n) /\ ~HasParent(m)
  BY DEF Roots
<1>2. node[n].level \in Nat /\ node[m].level \in Nat
  BY <1>1, RangeOfLive
<1>3. ASSUME NEW x \in Live, NEW y \in Live, ~HasParent(x), node[x].level < node[y].level
      PROVE  Positions(x) \cap Positions(y) = {}
  <2>1. node[x].level \in Nat /\ node[y].level \in Nat
    BY RangeOfLive
  <2>2. node[y].level - node[x].level - 1 \in Nat
        /\ node[y].level = node[x].level + (node[y].level - node[x].level - 1) + 1
    BY <1>3, <2>1
  <2>3. QED
    BY <1>3, <2>2, WithinHasParent
<1>4. CASE node[n].level < node[m].level
  BY <1>1, <1>3, <1>4
<1>5. CASE node[m].level < node[n].level
  <2>1. Positions(m) \cap Positions(n) = {}
    BY <1>1, <1>3, <1>5
  <2>2. QED
    BY <2>1
<1>6. CASE node[n].level = node[m].level
  BY <1>1, <1>2, <1>6, LiveBlocksNest DEF LiveRangesNest
<1>7. QED
  BY <1>2, <1>4, <1>5, <1>6

(* A summary is the child of one live parent at most.                      *)
LEMMA OneParent ==
    ASSUME BlockInv, NEW p \in Live, NEW q \in Live, NEW n,
           n \in node[p].children, n \in node[q].children
    PROVE  p = q
<1>1. node[p].level # 0 /\ node[q].level # 0
  BY RangeOfLive
<1>2. n \in Live /\ node[n].level + 1 = node[p].level /\ Positions(n) \subseteq Positions(p)
  BY <1>1, HalvesOfParent
<1>3. node[n].level + 1 = node[q].level /\ Positions(n) \subseteq Positions(q)
  BY <1>1, HalvesOfParent
<1>4. node[n].first \in Positions(n) /\ node[p].level \in Nat
  BY <1>2, RangeOfLive
<1>5. QED
  BY <1>2, <1>3, <1>4, LiveBlocksNest DEF LiveRangesNest

(* A child is within its parent.                                           *)
LEMMA ChildWithin ==
    ASSUME BlockInv, NEW p \in Live, NEW n \in node[p].children
    PROVE  /\ n \in Live /\ node[p].level # 0
           /\ Positions(n) \subseteq Positions(p)
           /\ node[p].first <= node[n].first /\ node[n].first <= node[p].last
<1>1. node[p].level # 0
  BY RangeOfLive
<1>2. n \in Live /\ Positions(n) \subseteq Positions(p)
  BY <1>1, HalvesOfParent
<1>3. node[n].first \in Positions(p)
  BY <1>2, RangeOfLive
<1>4. QED
  BY <1>1, <1>2, <1>3, RangeOfLive DEF Positions

--------------------------------------------------------------------------------
Apart(nodes) == \A n, m \in nodes : n # m => Positions(n) \cap Positions(m) = {}

NewestInDetail(nodes) ==
    \A p \in Live, n, m \in nodes :
        n \in node[p].children /\ node[m].first > node[p].last => node[m].level = 0

(* What stays true while wake opens parents.                               *)
CoverOK(nodes, max) ==
    /\ nodes \subseteq Live
    /\ Fits(nodes, max)
    /\ Apart(nodes)
    /\ UNION {Positions(n) : n \in nodes} = UNION {Positions(n) : n \in RootsWithin(max)}
    /\ NewestInDetail(nodes)

(* The roots have no live parent, so nothing is newer than a part.         *)
LEMMA RootsAreCover ==
    ASSUME BlockInv, NEW max \in Nat
    PROVE  CoverOK(RootsWithin(max), max)
<1>1. RootsWithin(max) \subseteq Roots /\ Fits(RootsWithin(max), max)
  BY RootsFit DEF BlockInv, TypeInv
<1>2. Roots \subseteq Live /\ \A n \in Roots, p \in Live : n \notin node[p].children
  BY DEF Roots, HasParent
<1>3. Apart(RootsWithin(max))
  BY <1>1, RootsAreApart DEF Apart
<1>4. NewestInDetail(RootsWithin(max))
  BY <1>1, <1>2 DEF NewestInDetail
<1>5. QED
  BY <1>1, <1>2, <1>3, <1>4 DEF CoverOK

(* Opening the newest parent, where its children fit, keeps all of it.     *)
LEMMA OpeningKeepsCover ==
    ASSUME BlockInv, NEW max, NEW nodes, CoverOK(nodes, max), CanOpen(nodes, max)
    PROVE  CoverOK(Opened(nodes, NewestParent(nodes)), max)
<1> DEFINE q == NewestParent(nodes)
           next == Opened(nodes, q)
<1>1. /\ nodes \in SUBSET Id /\ nodes \subseteq Live /\ ParentsIn(nodes) # {}
      /\ Fits(next, max) /\ node[q].children \subseteq Live
  BY DEF CoverOK, CanOpen, Live
<1>2. q \in ParentsIn(nodes) /\ \A m \in ParentsIn(nodes) : node[m].first <= node[q].first
  BY <1>1, NewestParentFound DEF BlockInv, TypeInv
<1> HIDE DEF q
<1>3. q \in nodes /\ q \in Live /\ node[q].children # {}
  BY <1>1, <1>2 DEF ParentsIn
<1>4. node[q].level # 0
  BY <1>3, RangeOfLive
<1>5. PICK l \in Live, r \in Live :
         /\ node[q].children = {l, r}
         /\ Positions(q) = Positions(l) \cup Positions(r)
         /\ Positions(l) \cap Positions(r) = {}
  BY <1>3, <1>4, HalvesOfParent
<1>6. next = (nodes \ {q}) \cup {l, r}
  BY <1>5 DEF Opened
<1> HIDE DEF next
<1>7. next \subseteq Live
  BY <1>1, <1>6
<1>8. Apart(next)
  <2>1. \A n \in nodes : n # q => Positions(n) \cap Positions(q) = {}
    BY <1>3 DEF CoverOK, Apart
  <2>2. \A n \in nodes : n # q => /\ Positions(n) \cap Positions(l) = {}
                                  /\ Positions(n) \cap Positions(r) = {}
    BY <2>1, <1>5
  <2>3. \A n, m \in nodes : n # m => Positions(n) \cap Positions(m) = {}
    BY DEF CoverOK, Apart
  <2>4. SUFFICES ASSUME NEW n \in next, NEW m \in next, n # m
                 PROVE  Positions(n) \cap Positions(m) = {}
    BY DEF Apart
  <2>5. CASE n \in nodes \ {q} /\ m \in nodes \ {q}
    BY <2>3, <2>4, <2>5
  <2>6. CASE n \in nodes \ {q} /\ m \in {l, r}
    BY <2>2, <2>6
  <2>7. CASE n \in {l, r} /\ m \in nodes \ {q}
    BY <2>2, <2>7
  <2>8. CASE n \in {l, r} /\ m \in {l, r}
    BY <2>4, <2>8, <1>5
  <2>9. QED
    BY <2>4, <2>5, <2>6, <2>7, <2>8, <1>6
<1>9. UNION {Positions(n) : n \in next} = UNION {Positions(n) : n \in RootsWithin(max)}
  <2>1. UNION {Positions(n) : n \in next} = UNION {Positions(n) : n \in nodes}
    <3>1. \A x : (\E n \in next : x \in Positions(n)) <=> (\E n \in nodes : x \in Positions(n))
      <4>1. ASSUME NEW x, NEW n \in next, x \in Positions(n)
            PROVE  \E m \in nodes : x \in Positions(m)
        BY <4>1, <1>3, <1>5, <1>6
      <4>2. ASSUME NEW x, NEW n \in nodes, x \in Positions(n)
            PROVE  \E m \in next : x \in Positions(m)
        BY <4>2, <1>5, <1>6
      <4>3. QED
        BY <4>1, <4>2
    <3>2. QED
      BY <3>1
  <2>2. QED
    BY <2>1 DEF CoverOK
<1>10. NewestInDetail(next)
  <2>1. SUFFICES ASSUME NEW p \in Live, NEW n \in next, NEW m \in next,
                        n \in node[p].children, node[m].first > node[p].last
                 PROVE  node[m].level = 0
    BY DEF NewestInDetail
  <2>2. /\ n \in Live /\ Positions(n) \subseteq Positions(p) /\ node[n].first \in Positions(n)
        /\ m \in Live /\ node[m].first \in Nat
        /\ node[p].first \in Nat /\ node[p].last \in Nat /\ node[p].last \in Positions(p)
        /\ node[q].first \in Nat /\ node[q].last \in Nat /\ node[q].first <= node[q].last
    BY <1>3, <1>7, <2>1, ChildWithin, RangeOfLive
  <2>3. m \in {l, r} => /\ Positions(m) \subseteq Positions(q)
                        /\ node[q].first <= node[m].first /\ node[m].first <= node[q].last
    BY <1>3, <1>5, ChildWithin
  <2>4. CASE n \in {l, r}
    <3>1. p = q
      BY <1>3, <1>5, <2>1, <2>4, OneParent
    <3>2. m \in nodes
      BY <1>6, <2>1, <2>2, <2>3, <3>1
    <3>3. m \notin ParentsIn(nodes)
      BY <1>2, <2>1, <2>2, <3>1
    <3>4. QED
      BY <2>2, <3>2, <3>3, RangeOfLive DEF ParentsIn
  <2>5. CASE n \in nodes \ {q} /\ m \in nodes
    BY <2>1, <2>5 DEF CoverOK, NewestInDetail
  <2>6. CASE n \in nodes \ {q} /\ m \in {l, r}
    <3>1. ~(node[q].first > node[p].last)
      BY <1>3, <1>4, <2>1, <2>6 DEF CoverOK, NewestInDetail
    <3>2. node[p].last \in Positions(q)
      BY <2>1, <2>2, <2>3, <2>6, <3>1 DEF Positions
    <3>3. ~(Positions(q) \subseteq Positions(p))
      <4>1. node[m].first \notin Positions(p)
        BY <2>1, <2>2 DEF Positions
      <4>2. node[m].first \in Positions(q)
        BY <2>2, <2>3, <2>6 DEF Positions
      <4>3. QED
        BY <4>1, <4>2
    <3>4. Positions(p) \subseteq Positions(q)
      BY <1>3, <2>2, <3>2, <3>3, LiveBlocksNest DEF LiveRangesNest
    <3>5. Positions(n) \cap Positions(q) = {}
      BY <1>3, <2>6 DEF CoverOK, Apart
    <3>6. QED
      BY <2>2, <3>4, <3>5
  <2>7. QED
    BY <1>6, <2>1, <2>4, <2>5, <2>6
<1>11. QED
  BY <1>1, <1>7, <1>8, <1>9, <1>10 DEF CoverOK, next, q

(* The function that CoverWithin iterates exists, so its answer keeps all of it. *)
LEMMA CoverWithinIsOK ==
    ASSUME BlockInv, NEW max \in Nat
    PROVE  CoverOK(CoverWithin(max), max)
<1> DEFINE last == Cardinality(Id)
           S == SUBSET Id
           Open(x) == IF CanOpen(x, max) THEN Opened(x, NewestParent(x)) ELSE x
           base == RootsWithin(max)
           step == [i \in 1..last |-> [x \in S |-> Open(x)]]
           Def(f) == [k \in 0..last |-> IF k = 0 THEN base ELSE Open(f[k - 1])]
           opened == CHOOSE f : f = Def(f)
<1>1. last \in Nat
  BY IdsAreFinite, FS_CardinalityType
<1>2. CoverOK(base, max)
  BY RootsAreCover
<1>3. base \in S
  BY <1>2 DEF CoverOK, Live
<1>4. \A x \in S : Open(x) \in S
  BY DEF CanOpen, Opened, Live
<1>5. ASSUME NEW x, CoverOK(x, max) PROVE CoverOK(Open(x), max)
  BY <1>5, OpeningKeepsCover
<1> HIDE DEF Open, base, S, last
<1>6. step \in [1..last -> [S -> S]] /\ \A i \in 1..last, x \in S : step[i][x] = Open(x)
  BY <1>4
<1> HIDE DEF step
<1>7. PICK f : Iterates(f, S, base, last, step)
  BY <1>1, <1>3, <1>6, IterationExists, Zenon
<1>8. f = Def(f)
  <2>1. f \in [0..last -> S] /\ \A k \in 0..last : f[k] = IF k = 0 THEN base ELSE step[k][f[k - 1]]
    BY <1>7 DEF Iterates
  <2>2. \A k \in 0..last : k # 0 => k \in 1..last /\ k - 1 \in 0..last
    BY <1>1
  <2>3. \A k \in 0..last : f[k] = IF k = 0 THEN base ELSE Open(f[k - 1])
    BY <1>6, <2>1, <2>2
  <2>4. QED
    BY <2>1, <2>3
<1>9. opened = Def(opened)
  <2> HIDE DEF Def
  <2>1. QED
    BY <1>8
<1> HIDE DEF opened
<1>10. \A k \in 0..last : opened[k] = IF k = 0 THEN base ELSE Open(opened[k - 1])
  BY <1>9
<1>11. \A k \in Nat : k <= last => CoverOK(opened[k], max)
  <2> DEFINE T == {k \in Nat : k <= last => CoverOK(opened[k], max)}
  <2>1. 0 \in T
    BY <1>1, <1>2, <1>10
  <2>2. ASSUME NEW k \in Nat, k \in T PROVE k + 1 \in T
    <3>1. SUFFICES ASSUME k + 1 <= last PROVE CoverOK(opened[k + 1], max)
      OBVIOUS
    <3>2. k <= last /\ k + 1 \in 0..last /\ k + 1 # 0 /\ (k + 1) - 1 = k
      BY <1>1, <3>1
    <3>3. opened[k + 1] = Open(opened[k])
      BY <1>10, <3>2
    <3>4. QED
      BY <1>5, <2>2, <3>2, <3>3
  <2> HIDE DEF T
  <2>3. \A k \in Nat : k \in T
    BY <2>1, <2>2, InductiveSet
  <2>4. QED
    BY <2>3 DEF T
<1>12. CoverWithin(max) = opened[last]
  BY Zenon DEF CoverWithin, opened, Def, Open, base, last
<1>13. QED
  BY <1>1, <1>11, <1>12

(* What is left of max_bytes when it is clamped.                           *)
LEMMA ClampedType ==
    ASSUME NEW max \in Nat
    PROVE  /\ Clamped(max) \in Nat
           /\ Clamped(max) <= MaxReadPageBytes
           /\ Clamped(max) <= max \/ (max = 0 /\ Clamped(max) = 1)
BY BytesAreLengths DEF Clamped

LEMMA CoverIsOK ==
    ASSUME BlockInv, NEW max \in Budgets
    PROVE  CoverOK(Cover(max), Clamped(max))
BY CoverWithinIsOK, ClampedType, BytesAreLengths DEF Cover

(* wake never answers with more bytes than it was asked for, nor than a    *)
(* page may have, however often it trades a parent for its children; only  *)
(* who asks for none may get one.                                          *)
THEOREM WakeAlwaysFits == Spec => []WakeFitsBudget
<1>1. ASSUME BlockInv, NEW max \in Budgets
      PROVE  /\ Fits(Cover(max), MaxReadPageBytes)
             /\ Fits(Cover(max), max) \/ (max = 0 /\ Fits(Cover(max), 1))
  <2> DEFINE bytes == TotalBytes(Cover(max))
  <2>1. Cover(max) \in SUBSET Id /\ bytes <= Clamped(max)
    BY <1>1, CoverIsOK DEF CoverOK, Fits, Live
  <2>2. bytes \in Nat
    BY <2>1, TotalBytesType
  <2>3. max \in Nat /\ MaxReadPageBytes \in Nat
    BY BytesAreLengths
  <2> HIDE DEF bytes
  <2>4. /\ bytes <= MaxReadPageBytes
        /\ bytes <= max \/ (max = 0 /\ bytes <= 1)
    BY <2>1, <2>2, <2>3, ClampedType
  <2>5. QED
    BY <2>4 DEF Fits, bytes
<1>2. BlockInv => WakeFitsBudget
  BY <1>1 DEF WakeFitsBudget
<1>3. QED
  BY <1>2, BlocksAlways, PTL

(* wake answers with each position of the roots it chose, exactly once.    *)
THEOREM WakeAlwaysCoversOnce == Spec => []WakeCoversOnce
<1>1. BlockInv => WakeCoversOnce
  BY CoverIsOK DEF WakeCoversOnce, CoverOK, Apart
<1>2. QED
  BY <1>1, BlocksAlways, PTL

(* Where wake shows a part of a summary, what it shows of anything newer   *)
(* is leaves.                                                              *)
THEOREM WakeAlwaysOpensNewest == Spec => []WakeOpensNewestFirst
<1>1. BlockInv => WakeOpensNewestFirst
  BY CoverIsOK DEF WakeOpensNewestFirst, CoverOK, NewestInDetail
<1>2. QED
  BY <1>1, BlocksAlways, PTL

--------------------------------------------------------------------------------
(* Every node, stale ones included, cites something.                       *)
NodesCite == \A n \in Known : node[n].cites # {}

(* A step that inserts a node.                                             *)
LEMMA InsertCites ==
    ASSUME TypeInv, NodesCite, NEW n \in Id, NEW level, NEW first, NEW last, NEW cites,
           NEW children, Insert(n, level, first, last, cites, children)
    PROVE  NodesCite'
<1> DEFINE row == [state |-> "live", level |-> level, first |-> first, last |-> last,
                   cites |-> cites, children |-> children]
<1>1. node' = [node EXCEPT ![n] = row] /\ cites # {}
  BY DEF Insert
<1>2. node'[n] = row /\ \A m \in Id : m # n => node'[m] = node[m]
  BY <1>1 DEF TypeInv, TypeOK
<1>3. Known' \subseteq Known \cup {n} /\ Known' \subseteq Id
  BY <1>2 DEF Known, Live, Stale
<1>4. QED
  BY <1>1, <1>2, <1>3 DEF NodesCite

(* A step that inserts nothing.                                            *)
LEMMA CitesStay ==
    ASSUME TypeInv, NodesCite,
           node' = node \/ \E gone \in SUBSET Evidence : Invalidate(gone)
    PROVE  NodesCite'
<1>1. CASE node' = node
  BY <1>1 DEF NodesCite, Known, Live, Stale
<1>2. ASSUME NEW gone \in SUBSET Evidence, Invalidate(gone) PROVE NodesCite'
  <2>1. Affected(gone) \subseteq Live
    BY DEF Affected
  <2>2. \A n \in Id : n \notin Affected(gone) => node'[n] = node[n]
    BY <1>2 DEF Invalidate
  <2>3. \A n \in Id : node'[n].cites = node[n].cites
    <3>1. SUFFICES ASSUME NEW n \in Id PROVE node'[n].cites = node[n].cites
      OBVIOUS
    <3>2. node'[n] = node[n] \/ node'[n] = [node[n] EXCEPT !.state = "stale"]
      BY <1>2 DEF Invalidate
    <3>3. node[n] \in [state : State, level : Nat, first : Nat, last : Nat,
                       cites : SUBSET Evidence, children : SUBSET Id]
      BY DEF TypeInv, TypeOK
    <3>4. QED
      BY <3>2, <3>3
  <2>4. Known' \subseteq Known /\ Known \subseteq Id
    BY <2>1, <2>2 DEF Known, Live, Stale
  <2>5. QED
    BY <2>3, <2>4 DEF NodesCite
<1>3. QED
  BY <1>1, <1>2

(* So every operation keeps it.                                            *)
LEMMA CitesStep == BlockInv /\ NodesCite /\ [Next]_vars => NodesCite'
<1> SUFFICES ASSUME BlockInv, NodesCite, [Next]_vars PROVE NodesCite'
  OBVIOUS
<1>0. TypeInv
  BY DEF BlockInv
<1>1. ASSUME NEW n \in Id, NEW cited \in SUBSET Evidence, Nap(n, cited)
      PROVE  NodesCite'
  BY <1>0, <1>1, InsertCites DEF Nap
<1>2. ASSUME NEW n \in Id, NEW l \in Id, NEW r \in Id, Merge(n, l, r)
      PROVE  NodesCite'
  BY <1>0, <1>2, InsertCites DEF Merge
<1>3. ASSUME NEW n \in Id, NEW old \in Id, NEW cited \in SUBSET Evidence,
             RebuildLeaf(n, old, cited)
      PROVE  NodesCite'
  BY <1>0, <1>3, InsertCites DEF RebuildLeaf
<1>4. ASSUME NEW n \in Id, NEW old \in Id, RebuildParent(n, old)
      PROVE  NodesCite'
  BY <1>0, <1>4, InsertCites DEF RebuildParent
<1>5. ASSUME NEW e \in Evidence, Remember(e)
      PROVE  NodesCite'
  BY <1>0, <1>5, CitesStay DEF Remember
<1>6. ASSUME NEW e \in Evidence, DeleteSource(e)
      PROVE  NodesCite'
  <2>1. Invalidate({e}) /\ {e} \in SUBSET Evidence
    BY <1>6 DEF DeleteSource
  <2>2. QED
    BY <1>0, <2>1, CitesStay
<1>7. ASSUME NEW e \in Evidence, NEW support \in SUBSET Evidence, Correct(e, support)
      PROVE  NodesCite'
  BY <1>0, <1>7, CitesStay DEF Correct
<1>8. ASSUME UNCHANGED vars
      PROVE  NodesCite'
  BY <1>0, <1>8, CitesStay DEF vars
<1> QED
  BY <1>1, <1>2, <1>3, <1>4, <1>5, <1>6, <1>7, <1>8 DEF Next, Rebuild, Reported, Stale

(* The table with the row that Insert adds.                                *)
Inserted(n, level, first, last, cites, children) ==
    [node EXCEPT ![n] = [state |-> "live", level |-> level, first |-> first, last |-> last,
                         cites |-> cites, children |-> children]]

(* What insert_summary asks for is met.                                    *)
Insertable(n, level, first, last, cites, children) ==
    /\ node[n].state = "absent"
    /\ cites # {} /\ cites \subseteq LiveEvidence
    /\ children \subseteq Live
    /\ \A m \in Live : ~SameRange(m, level, first, last)

(* A rebuild of node old as node n that ends with the table t is allowed.  *)
RebuildAllowed(n, old, t) ==
    \/ /\ node[old].level = 0
       /\ \E cited \in SUBSET Evidence :
             /\ Insertable(n, 0, node[old].first, node[old].last, cited, {})
             /\ t = Inserted(n, 0, node[old].first, node[old].last, cited, {})
    \/ /\ node[old].level > 0
       /\ \A c \in node[old].children : \E m \in LiveChildren(old) : Counterparts(m, c)
       /\ Insertable(n, node[old].level, node[old].first, node[old].last,
                     UniqueEvidence(LiveChildren(old)), LiveChildren(old))
       /\ t = Inserted(n, node[old].level, node[old].first, node[old].last,
                       UniqueEvidence(LiveChildren(old)), LiveChildren(old))

(* What is allowed is a step of Rebuild.                                   *)
LEMMA AllowedIsRebuild ==
    ASSUME NEW n \in Id, NEW old \in Reported, RebuildAllowed(n, old, node'), UNCHANGED evidence
    PROVE  Rebuild
<1>1. old \in Stale
  BY DEF Reported
<1>2. CASE /\ node[old].level = 0
           /\ \E cited \in SUBSET Evidence :
                 /\ Insertable(n, 0, node[old].first, node[old].last, cited, {})
                 /\ node' = Inserted(n, 0, node[old].first, node[old].last, cited, {})
  <2>1. PICK cited \in SUBSET Evidence :
           Insert(n, 0, node[old].first, node[old].last, cited, {})
    BY <1>2 DEF Insert, Insertable, Inserted
  <2>2. RebuildLeaf(n, old, cited)
    BY <1>1, <1>2, <2>1 DEF RebuildLeaf
  <2>3. QED
    BY <2>2 DEF Rebuild
<1>3. CASE /\ node[old].level > 0
           /\ \A c \in node[old].children : \E m \in LiveChildren(old) : Counterparts(m, c)
           /\ Insertable(n, node[old].level, node[old].first, node[old].last,
                         UniqueEvidence(LiveChildren(old)), LiveChildren(old))
           /\ node' = Inserted(n, node[old].level, node[old].first, node[old].last,
                               UniqueEvidence(LiveChildren(old)), LiveChildren(old))
  <2>1. Insert(n, node[old].level, node[old].first, node[old].last,
               UniqueEvidence(LiveChildren(old)), LiveChildren(old))
    BY <1>3 DEF Insert, Insertable, Inserted
  <2>2. RebuildParent(n, old)
    BY <1>1, <1>3, <2>1 DEF RebuildParent
  <2>3. QED
    BY <2>2 DEF Rebuild
<1>4. QED
  BY <1>2, <1>3 DEF RebuildAllowed

(* Repair can go on, without ENABLED: a step of it is allowed.             *)
RepairCanGoOn ==
    Reported # {} /\ LiveEvidence # {} /\ Live \cup Stale # Id
       => \E n \in Id, old \in Reported, t \in [Id -> [state : State, level : Nat, first : Nat,
                                 last : Nat, cites : SUBSET Evidence, children : SUBSET Id]] :
             RebuildAllowed(n, old, t)

(* Of the nodes dream reports one of the lowest level can be rebuilt: what *)
(* stood below it is live, or has a live node in its place.                *)
LEMMA LowestCanBeRebuilt ==
    ASSUME BlockInv, NodesCite
    PROVE  RepairCanGoOn
<1> DEFINE Table == [Id -> [state : State, level : Nat, first : Nat,
                            last : Nat, cites : SUBSET Evidence, children : SUBSET Id]]
<1>1. SUFFICES ASSUME Reported # {}, LiveEvidence # {}, Live \cup Stale # Id
               PROVE  \E n \in Id, old \in Reported, t \in Table : RebuildAllowed(n, old, t)
  BY DEF RepairCanGoOn
<1>2. PICK n \in Id : node[n].state = "absent"
  <2>1. \A x \in Id : node[x].state \in State
    BY DEF BlockInv, TypeInv, TypeOK
  <2>2. PICK x \in Id : x \notin Live \cup Stale
    BY <1>1 DEF Live, Stale
  <2>3. QED
    BY <2>1, <2>2 DEF Live, Stale, State
<1>3. PICK old \in Reported : \A m \in Reported : node[old].level <= node[m].level
  <2> DEFINE Levels == {node[m].level : m \in Reported}
  <2>1. Levels \subseteq Nat /\ Levels # {}
    BY <1>1 DEF BlockInv, TypeInv, TypeOK, Reported, Stale
  <2>2. PICK b \in Levels : \A x \in Levels : b <= x
    <3> HIDE DEF Levels
    <3>1. QED
      BY <2>1, LeastNatural
  <2>3. QED
    BY <2>2
<1>4. /\ old \in Id /\ old \in Known /\ node[old].level \in Nat
      /\ node[old].first \in Nat /\ node[old].last \in Nat
      /\ \A m \in Live : ~SameRange(m, node[old].level, node[old].first, node[old].last)
  BY DEF BlockInv, TypeInv, TypeOK, Reported, Stale, Known, Counterparts
<1>5. ASSUME NEW cites \in SUBSET Evidence, NEW children \in SUBSET Id
      PROVE  Inserted(n, node[old].level, node[old].first, node[old].last, cites, children) \in Table
  BY <1>4 DEF Inserted, BlockInv, TypeInv, TypeOK, State
<1> HIDE DEF Table
<1>6. CASE node[old].level = 0
  <2>1. LiveEvidence \in SUBSET Evidence /\ {} \in SUBSET Id
    BY DEF LiveEvidence
  <2>2. Insertable(n, 0, node[old].first, node[old].last, LiveEvidence, {})
    BY <1>1, <1>2, <1>4, <1>6 DEF Insertable
  <2>3. Inserted(n, 0, node[old].first, node[old].last, LiveEvidence, {}) \in Table
    BY <1>5, <1>6, <2>1
  <2>4. RebuildAllowed(n, old, Inserted(n, 0, node[old].first, node[old].last, LiveEvidence, {}))
    BY <1>6, <2>1, <2>2 DEF RebuildAllowed
  <2>5. QED
    BY <2>3, <2>4
<1>7. CASE node[old].level # 0
  <2>1. node[old].level > 0
    BY <1>4, <1>7
  <2>2. PICK l \in Known, r \in Known : node[old].children = {l, r} /\ Halves(old, l, r)
    BY <1>4, <1>7 DEF BlockInv, TreeInv, NodesHaveShape
  <2>3. \A c \in {l, r} : \E m \in Live : Counterparts(m, c)
    <3>1. SUFFICES ASSUME NEW c \in {l, r} PROVE \E m \in Live : Counterparts(m, c)
      OBVIOUS
    <3>2. node[c].level \in Nat /\ node[c].level < node[old].level /\ c \in Known
      BY <2>2, <1>4 DEF Halves, BlockInv, TypeInv, TypeOK, Known, Live, Stale
    <3>3. CASE c \in Live
      BY <3>3 DEF Counterparts, SameRange
    <3>4. CASE c \in Stale
      <4>1. c \notin Reported
        BY <1>3, <1>4, <3>2
      <4>2. QED
        BY <3>4, <4>1 DEF Reported
    <3>5. QED
      BY <3>2, <3>3, <3>4 DEF Known
  <2> DEFINE halves == LiveChildren(old)
  <2>4. \A c \in node[old].children : \E m \in halves : Counterparts(m, c)
    BY <2>2, <2>3 DEF LiveChildren
  <2>5. halves \subseteq Live /\ halves \in SUBSET Id /\ halves # {}
    BY <2>2, <2>4 DEF LiveChildren, Live
  <2> HIDE DEF halves
  <2>6. /\ UniqueEvidence(halves) # {} /\ UniqueEvidence(halves) \subseteq LiveEvidence
        /\ UniqueEvidence(halves) \in SUBSET Evidence
    <3>1. \A m \in halves : node[m].cites # {} /\ node[m].cites \subseteq LiveEvidence
      BY <2>5 DEF NodesCite, Known, BlockInv, TreeInv, SummariesCiteLiveEvidence
    <3>2. LiveEvidence \subseteq Evidence
      BY DEF LiveEvidence
    <3>3. QED
      BY <2>5, <3>1, <3>2 DEF UniqueEvidence
  <2>7. Insertable(n, node[old].level, node[old].first, node[old].last,
                   UniqueEvidence(halves), halves)
    BY <1>2, <1>4, <2>5, <2>6 DEF Insertable
  <2>8. Inserted(n, node[old].level, node[old].first, node[old].last,
                 UniqueEvidence(halves), halves) \in Table
    BY <1>5, <2>5, <2>6
  <2>9. RebuildAllowed(n, old, Inserted(n, node[old].level, node[old].first, node[old].last,
                                        UniqueEvidence(halves), halves))
    BY <2>1, <2>4, <2>7 DEF RebuildAllowed, halves
  <2>10. QED
    BY <2>8, <2>9
<1>8. QED
  BY <1>6, <1>7

(* The tree never is in a state that repair cannot improve: while dream    *)
(* reports anything, and there is evidence to cite and an id to mint, a    *)
(* reported node can be rebuilt.                                           *)
THEOREM RepairAlwaysGoesOn == Spec => []RepairCanGoOn
<1>1. Init => NodesCite
  BY DEF Init, NodesCite, Known, Live, Stale, NoNode
<1>2. Spec => []NodesCite
  BY <1>1, BlocksAlways, CitesStep, PTL DEF Spec
<1>3. BlockInv /\ NodesCite => RepairCanGoOn
  BY LowestCanBeRebuilt
<1>4. QED
  BY <1>2, <1>3, BlocksAlways, PTL
================================================================================
