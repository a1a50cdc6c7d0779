-------------------------- MODULE ProjectGraphProofs --------------------------
(***************************************************************************)
(* Proofs about ProjectGraph.  What dream reports as unresolved does not   *)
(* depend on how the graph came about, so it needs no invariant.           *)
(***************************************************************************)
EXTENDS ProjectGraph, Recursion, TLAPS

(* The subject of a fact lists a category.                                 *)
LEMMA ListedCategories ==
    ASSUME NEW subject \in Subject
    PROVE  Listed(subject) \in (SUBSET Category) \ {{}}
<1>1. PICK list \in Lists : subject = <<"subject", list>>
  BY DEF Subject
<1>2. PICK n \in 1..MaxCategories : list \in [1..n -> Category]
  BY DEF Lists
<1>3. list[1] \in Category /\ 1 \in DOMAIN list
  BY <1>2, GraphAssumption
<1>4. Listed(subject) = {list[i] : i \in DOMAIN list}
  BY <1>1 DEF Listed
<1>5. QED
  BY <1>2, <1>3, <1>4

(* A corrected claim keeps its shape.                                      *)
LEMMA CorrectedRow ==
    ASSUME NEW row \in Row, NEW targets \in Targets, NEW added \in SUBSET Category
    PROVE  [row EXCEPT !.targets = targets,
                       !.categories = CategoriesOf(row.subject, added)] \in Row
<1>1. CASE row \in Fact
  <2>1. row.subject \in Subject
    BY <1>1 DEF Fact
  <2>2. CategoriesOf(row.subject, added) \in (SUBSET Category) \ {{}}
    BY <2>1, ListedCategories DEF CategoriesOf
  <2>3. QED
    BY <1>1, <2>2 DEF Fact, Row
<1>2. CASE row \in Other
  <2>1. row.subject \in Topic /\ row.subject \notin Subject
    BY <1>2 DEF Other, Topic, Subject
  <2>2. CategoriesOf(row.subject, added) = {}
    BY <2>1 DEF CategoriesOf
  <2>3. QED
    BY <1>2, <2>2 DEF Other, Row
<1>3. QED
  BY <1>1, <1>2 DEF Row

LEMMA TypeInit == Init => TypeOK
BY DEF Init, TypeOK

LEMMA TypeStep == TypeOK /\ [Next]_vars => TypeOK'
<1> SUFFICES ASSUME TypeOK, [Next]_vars PROVE TypeOK'
  OBVIOUS
<1>1. ASSUME NEW f \in Claim, NEW row \in Row, RememberRecord(f, row) PROVE TypeOK'
  BY <1>1 DEF RememberRecord, TypeOK
<1>2. ASSUME NEW old \in Claim, NEW f \in Claim, NEW targets \in Targets,
             NEW added \in SUBSET Category, CorrectRecord(old, f, targets, added)
      PROVE  TypeOK'
  <2>1. claim[old] \in Row
    BY <1>2 DEF CorrectRecord, Live, TypeOK
  <2>2. [claim[old] EXCEPT
           !.targets = targets,
           !.categories = CategoriesOf(claim[old].subject, added)] \in Row
    BY <2>1, CorrectedRow
  <2>3. QED
    BY <1>2, <2>2 DEF CorrectRecord, TypeOK
<1>3. ASSUME NEW f \in Claim, Forget(f) PROVE TypeOK'
  BY <1>3 DEF Forget, TypeOK
<1>4. CASE UNCHANGED vars
  BY <1>4 DEF vars, TypeOK
<1>5. QED
  BY <1>1, <1>2, <1>3, <1>4 DEF Next

(* remember, correct and delete_source leave every claim with a record that*)
(* validate_record accepts, or without one, and every fact with a category.*)
THEOREM GraphTypes == Spec => []TypeOK
BY TypeInit, TypeStep, PTL DEF Spec

--------------------------------------------------------------------------------
(* known_identifiers holds the strings that fact_matches_node finds a fact *)
(* by, those that name a claim outside the project, and no other.          *)
LEMMA KnownMatches ==
    ASSUME NEW t
    PROVE  t \in Known <=> Matching(t) # {} \/ \E f \in Live \ Candidates : t \in Names(f)
<1>1. ASSUME t \in Known, \A f \in Live \ Candidates : t \notin Names(f)
      PROVE  Matching(t) # {}
  <2>1. PICK f \in Candidates :
           \/ t \in Names(f)
           \/ t = <<"project", "project">>
           \/ t \in {<<"category", c>> : c \in claim[f].categories}
           \/ t \in {<<"subject", <<c>> >> : c \in claim[f].categories}
    BY <1>1 DEF Known
  <2>2. Matches(f, t)
    BY <2>1 DEF Matches
  <2>3. QED
    BY <2>2 DEF Matching
<1>2. ASSUME Matching(t) # {} PROVE t \in Known
  <2>1. PICK f \in Candidates : Matches(f, t)
    BY <1>2 DEF Matching
  <2>2. \/ t \in Names(f)
        \/ t = <<"project", "project">>
        \/ t \in {<<"category", c>> : c \in claim[f].categories}
        \/ t \in {<<"subject", <<c>> >> : c \in claim[f].categories}
    BY <2>1 DEF Matches
  <2>3. f \in Live
    BY DEF Candidates
  <2>4. QED
    BY <2>2, <2>3 DEF Known
<1>3. ASSUME NEW f \in Live \ Candidates, t \in Names(f) PROVE t \in Known
  BY <1>3 DEF Known
<1>4. QED
  BY <1>1, <1>2, <1>3

(* connected_to starts from no fact when it is asked for what dream reports*)
(* as unresolved; what it starts from no fact for, dream reports, unless a *)
(* claim outside the project has the name: for every graph, of any size.   *)
THEOREM UnresolvedIsUnknown == Spec => []UnresolvedNamesNothing
<1>1. UnresolvedNamesNothing
  BY KnownMatches DEF UnresolvedNamesNothing, Unresolved
<1>2. QED
  BY <1>1, PTL

--------------------------------------------------------------------------------
(* One more connection away, as Within takes it.                           *)
Nearer(nearer) == nearer \cup {g \in Candidates : \E f \in nearer : Joined(f, g)}

(* Within is what its recursive definition says it is.                     *)
LEMMA WithinDef ==
    ASSUME NEW seed
    PROVE  \A n \in 0..MaxHops :
              Within(seed)[n] = IF n = 0 THEN Matching(seed) ELSE Nearer(Within(seed)[n - 1])
<1> DEFINE S == SUBSET Candidates
           base == Matching(seed)
           Def(f) == [n \in 0..MaxHops |-> IF n = 0 THEN base ELSE Nearer(f[n - 1])]
           step == [n \in 1..MaxHops |-> [x \in S |-> Nearer(x)]]
           near == Within(seed)
<1>1. base \in S
  BY DEF Matching
<1>2. \A x \in S : Nearer(x) \in S
  BY DEF Nearer
<1>3. MaxHops \in Nat
  BY GraphAssumption
<1> HIDE DEF S, base
<1>4. step \in [1..MaxHops -> [S -> S]]
  BY <1>2
<1>5. \A i \in 1..MaxHops, x \in S : step[i][x] = Nearer(x)
  OBVIOUS
<1> HIDE DEF step
<1>6. PICK f : Iterates(f, S, base, MaxHops, step)
  BY <1>1, <1>3, <1>4, IterationExists, Zenon
<1>7. f = Def(f)
  BY <1>3, <1>5, <1>6 DEF Iterates
<1>8. near = CHOOSE g : g = Def(g)
  BY Zenon DEF Within, Nearer, base
<1>9. near = Def(near)
  <2> HIDE DEF Def, near
  <2>1. QED
    BY <1>7, <1>8, Zenon
<1>10. QED
  BY <1>9 DEF base

(* The strings a traversal from seed can come by.                          *)
Strings(seed) ==
    {seed} \cup TargetsOf(Candidates) \cup UNION {Names(f) : f \in Candidates}

(* One hop, as Activation takes it.                                        *)
Start(seed) ==
    [frontier |-> {seed} \cup UNION {Names(f) : f \in Matching(seed)}, activated |-> {}]

Hop(seed, before) ==
    [frontier |-> Extended(before.frontier, ActivatedBy(seed, before.frontier)),
     activated |-> before.activated \cup ActivatedBy(seed, before.frontier)]

(* A hop stays within the store's facts and their strings.                 *)
LEMMA HopType ==
    ASSUME NEW seed,
           NEW before \in [frontier : SUBSET Strings(seed), activated : SUBSET Candidates]
    PROVE  Hop(seed, before) \in [frontier : SUBSET Strings(seed), activated : SUBSET Candidates]
<1> DEFINE now == ActivatedBy(seed, before.frontier)
<1>1. now \subseteq Candidates
  BY DEF ActivatedBy
<1>2. TargetsOf(MatchingAny(before.frontier)) \subseteq Strings(seed)
  <2>1. MatchingAny(before.frontier) \subseteq Candidates
    BY DEF MatchingAny
  <2>2. TargetsOf(MatchingAny(before.frontier)) \subseteq TargetsOf(Candidates)
    BY <2>1 DEF TargetsOf
  <2>3. QED
    BY <2>2 DEF Strings
<1>3. UNION {Names(f) : f \in now} \subseteq Strings(seed)
  BY <1>1 DEF Strings
<1>4. Extended(before.frontier, now) \subseteq Strings(seed)
  BY <1>2, <1>3 DEF Extended
<1>5. QED
  BY <1>1, <1>4 DEF Hop

(* Activation is what its recursive definition says it is.                 *)
LEMMA ActivationDef ==
    ASSUME NEW seed
    PROVE  \A n \in 0..MaxHops :
              Activation(seed)[n] = IF n = 0 THEN Start(seed) ELSE Hop(seed, Activation(seed)[n - 1])
<1> DEFINE S == [frontier : SUBSET Strings(seed), activated : SUBSET Candidates]
           base == Start(seed)
           Def(f) == [n \in 0..MaxHops |-> IF n = 0 THEN base ELSE Hop(seed, f[n - 1])]
           step == [n \in 1..MaxHops |-> [x \in S |-> Hop(seed, x)]]
           found == Activation(seed)
<1>1. base \in S
  BY DEF Start, Strings, Matching
<1>2. \A x \in S : Hop(seed, x) \in S
  BY HopType
<1>3. MaxHops \in Nat
  BY GraphAssumption
<1> HIDE DEF S, base
<1>4. step \in [1..MaxHops -> [S -> S]]
  BY <1>2
<1>5. \A i \in 1..MaxHops, x \in S : step[i][x] = Hop(seed, x)
  OBVIOUS
<1> HIDE DEF step
<1>6. PICK f : Iterates(f, S, base, MaxHops, step)
  BY <1>1, <1>3, <1>4, IterationExists, Zenon
<1>7. f = Def(f)
  BY <1>3, <1>5, <1>6 DEF Iterates
<1>8. found = CHOOSE g : g = Def(g)
  BY Zenon DEF Activation, Hop, Start, base
<1>9. found = Def(found)
  <2> HIDE DEF Def, found
  <2>1. QED
    BY <1>7, <1>8, Zenon
<1>10. QED
  BY <1>9 DEF base

(* A hop from a frontier with the names of some facts activates every fact *)
(* one connection away that the seed does not name, and extends the        *)
(* frontier by its names.                                                  *)
LEMMA HopReaches ==
    ASSUME NEW seed, NEW frontier, NEW f \in Candidates, NEW g \in Candidates,
           Names(f) \subseteq frontier, Joined(f, g), g \notin Matching(seed)
    PROVE  g \in ActivatedBy(seed, frontier)
<1> DEFINE reached == MatchingAny(frontier)
<1>1. f \in reached
  BY DEF MatchingAny, Matches, Names
<1>2. CASE \E t \in claim[f].targets : Matches(g, t)
  BY <1>1, <1>2 DEF ActivatedBy, MatchingAny, TargetsOf
<1>3. CASE \E t \in claim[g].targets : Matches(f, t)
  BY <1>1, <1>3 DEF ActivatedBy, Matching
<1>4. QED
  BY <1>2, <1>3 DEF Joined

(* What the induction on hops needs: the facts near the seed are activated *)
(* or were named by it, and their names are in the frontier.               *)
Covered(seed, n) ==
    /\ Within(seed)[n] \subseteq Candidates
    /\ Within(seed)[n] \ Matching(seed) \subseteq Activation(seed)[n].activated
    /\ \A f \in Matching(seed) \cup Within(seed)[n] :
          Names(f) \subseteq Activation(seed)[n].frontier

LEMMA CoveredStart ==
    ASSUME NEW seed
    PROVE  Covered(seed, 0)
<1>1. Within(seed)[0] = Matching(seed) /\ Activation(seed)[0] = Start(seed)
  BY WithinDef, ActivationDef, GraphAssumption
<1>2. QED
  BY <1>1 DEF Covered, Start, Matching

LEMMA CoveredStep ==
    ASSUME NEW seed, NEW n \in Nat, n + 1 <= MaxHops, Covered(seed, n)
    PROVE  Covered(seed, n + 1)
<1> DEFINE near == Within(seed)[n]
           before == Activation(seed)[n]
           now == ActivatedBy(seed, before.frontier)
<1>1. Within(seed)[n + 1] = Nearer(near)
  BY WithinDef, GraphAssumption
<1>2. Activation(seed)[n + 1] = Hop(seed, before)
  BY ActivationDef, GraphAssumption
<1>3. \A g \in Nearer(near) \ near : g \in Matching(seed) \/ g \in now
  <2>1. SUFFICES ASSUME NEW g \in Nearer(near), g \notin near, g \notin Matching(seed)
                 PROVE  g \in now
    OBVIOUS
  <2>2. PICK f \in near : Joined(f, g)
    BY <2>1 DEF Nearer
  <2>3. f \in Candidates /\ g \in Candidates /\ Names(f) \subseteq before.frontier
    BY <2>1 DEF Nearer, Covered
  <2>4. QED
    BY <2>1, <2>2, <2>3, HopReaches
<1>4. Hop(seed, before).activated = before.activated \cup now
  BY DEF Hop
<1>5. /\ before.frontier \subseteq Hop(seed, before).frontier
      /\ \A g \in now : Names(g) \subseteq Hop(seed, before).frontier
  BY DEF Hop, Extended
<1>6. Nearer(near) \subseteq Candidates
  BY DEF Nearer, Covered
<1>7. QED
  BY <1>1, <1>2, <1>3, <1>4, <1>5, <1>6 DEF Covered

LEMMA AllCovered ==
    ASSUME NEW seed
    PROVE  \A n \in 0..MaxHops : Covered(seed, n)
<1> DEFINE T == {n \in Nat : n <= MaxHops => Covered(seed, n)}
<1>1. 0 \in T
  BY CoveredStart
<1>2. \A n \in Nat : n \in T => n + 1 \in T
  BY CoveredStep, GraphAssumption
<1>3. \A n \in Nat : n \in T
  <2> HIDE DEF T
  <2>1. QED
    BY <1>1, <1>2, InductiveSet
<1>4. QED
  BY <1>3, GraphAssumption

(* connected_to finds every fact within max_hops connections, in both      *)
(* directions and by any name: for every graph and every number of hops.   *)
THEOREM TraversalFindsAll == Spec => []TraversalIsComplete
<1>1. TraversalIsComplete
  BY AllCovered, GraphAssumption DEF TraversalIsComplete, Covered
<1>2. QED
  BY <1>1, PTL

--------------------------------------------------------------------------------
(* A claim id names the claim alone.                                       *)
LEMMA IdNamesOne ==
    ASSUME TypeOK, NEW f \in Candidates
    PROVE  Matching(Id(f)) = {f}
<1>1. \A g \in Candidates : claim[g].subject \in Subject \cup Topic
  BY DEF TypeOK, Candidates, Live, Row, Fact, Other
<1>2. \A x \in Subject \cup Topic : x # Id(f)
  BY DEF Subject, Topic, Id
<1>3. \A g \in Candidates : Matches(g, Id(f)) <=> f = g
  BY <1>1, <1>2 DEF Matches, Names, Id
<1>4. QED
  BY <1>3 DEF Matching

(* What points to a fact is joined to it.                                  *)
LEMMA PointingJoins ==
    ASSUME NEW f, NEW g, PointsTo(f, g)
    PROVE  Joined(f, g) /\ Joined(g, f)
BY DEF PointsTo, Joined, Matches

(* Facts that share a target find each other in two hops, by its string.   *)
LEMMA SharedTargetInTwoHops ==
    ASSUME TypeOK, NEW f \in Candidates, NEW g \in Candidates, f # g, SharesTarget(f, g)
    PROVE  g \in Activated(Id(f), 2)
<1> DEFINE seed == Id(f)
           first == Activation(seed)[1]
<1>1. PICK t : t \in claim[f].targets /\ t \in claim[g].targets
  BY DEF SharesTarget
<1>2. /\ Activation(seed)[0] = Start(seed)
      /\ first = Hop(seed, Start(seed))
      /\ Activation(seed)[2] = Hop(seed, first)
  BY ActivationDef, GraphAssumption
<1>3. f \in MatchingAny(Start(seed).frontier)
  BY DEF MatchingAny, Start, Matches, Names
<1>4. t \in first.frontier
  BY <1>1, <1>2, <1>3 DEF Hop, Extended, TargetsOf
<1>5. g \in Candidates \ Matching(seed)
  BY IdNamesOne
<1>6. g \in ActivatedBy(seed, first.frontier)
  BY <1>1, <1>4, <1>5 DEF ActivatedBy
<1>7. QED
  BY <1>2, <1>6 DEF Activated, Hop

(* Facts on both sides of a bridge find each other in two hops.            *)
LEMMA BridgedInTwoHops ==
    ASSUME TypeOK, NEW f \in Candidates, NEW g \in Candidates, f # g,
           Bridges(f, g) \cap Candidates # {}
    PROVE  g \in Activated(Id(f), 2)
<1>1. PICK b \in Candidates : Joined(f, b) /\ Joined(b, g)
  BY PointingJoins DEF Bridges
<1>2. f \in Within(Id(f))[0]
  BY WithinDef, IdNamesOne, GraphAssumption
<1>3. /\ Within(Id(f))[1] = Nearer(Within(Id(f))[0])
      /\ Within(Id(f))[2] = Nearer(Within(Id(f))[1])
  BY WithinDef, GraphAssumption
<1>4. g \in Within(Id(f))[2]
  BY <1>1, <1>2, <1>3 DEF Nearer
<1>5. g \notin Matching(Id(f))
  BY IdNamesOne
<1>6. Covered(Id(f), 2)
  BY AllCovered, GraphAssumption
<1>7. QED
  BY <1>4, <1>5, <1>6 DEF Covered, Activated

(* What dream proposes to link within the project, connected_to finds in   *)
(* two hops, unless a claim outside it is the only bridge: for every graph.*)
THEOREM AssociationsAreClose == Spec => []AssociationsAreTwoHopsApart
<1>1. TypeOK => AssociationsAreTwoHopsApart
  BY SharedTargetInTwoHops, BridgedInTwoHops
     DEF AssociationsAreTwoHopsApart, Associated, BridgedOutside
<1>2. QED
  BY <1>1, GraphTypes, PTL
================================================================================
