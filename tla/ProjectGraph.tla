----------------------------- MODULE ProjectGraph -----------------------------
(***************************************************************************)
(* The graph of one scope's project facts (src/store/projects.rs): the     *)
(* records remember_project_record stores as the values of claims, the     *)
(* traversal of project_memories (connected_to, max_hops), and the         *)
(* structural part of dream.                                               *)
(*                                                                         *)
(* A connection names its target by a string, and several strings name one *)
(* fact: its claim id, its predicate, its subject, its project, a category,*)
(* or a category within the project.  All facts here belong to one         *)
(* project, so a bare category and one within the project name the same    *)
(* facts.  The claims are those fetch_project_candidates and dream read:   *)
(* current, processed and supported by live evidence.  dream reads all of  *)
(* them, connected_to those of the project.  Vectors are left out.         *)
(***************************************************************************)
EXTENDS Naturals, FiniteSets

CONSTANTS
    Claim,           \* claim ids
    Predicate,
    Category,
    Elsewhere,       \* strings that are no name of a project fact
    MaxCategories,   \* bound on the categories of a subject, 32 in the code
    MaxTargets,      \* bound on the connections of a record
    MaxHops,         \* bound on max_hops, 4 in the code
    NoClaim          \* no current claim has the id

(* Bridges are two hops long.                                              *)
ASSUME GraphAssumption ==
    /\ MaxCategories \in Nat /\ MaxTargets \in Nat
    /\ MaxHops \in Nat /\ MaxHops >= 2
    /\ NoClaim \notin Claim

(* The subject of a fact lists the project and its categories, each once;  *)
(* that of any other claim is not read as a list.                          *)
Lists ==
    {list \in UNION {[1..n -> Category] : n \in 1..MaxCategories} :
        \A i, j \in DOMAIN list : list[i] = list[j] => i = j}
Subject == {<<"subject", list>> : list \in Lists}
Topic == {<<"other", x>> : x \in Elsewhere}

(* The strings a connection or connected_to may be.                        *)
Id(f) == <<"id", f>>
Ident ==
    {Id(f) : f \in Claim}
    \cup {<<"predicate", p>> : p \in Predicate}
    \cup Subject
    \cup {<<"category", c>> : c \in Category}
    \cup {<<"project", "project">>}
    \cup Topic

Targets == {targets \in SUBSET Ident : Cardinality(targets) <= MaxTargets}

(* A claim whose value is no record has no targets.                        *)
Fact == [subject : Subject, categories : (SUBSET Category) \ {{}}, predicate : Predicate,
         targets : Targets]
Other == [subject : Topic, categories : {{}}, predicate : Predicate, targets : Targets]
Row == Fact \cup Other

VARIABLE claim   \* claim[f]: the row of the current claim f, or NoClaim

vars == claim

TypeOK == claim \in [Claim -> Row \cup {NoClaim}]

(* The claims dream reads, and those fetch_project_candidates does: of the *)
(* ones whose subject parse_project_subject takes apart.                   *)
Live == {f \in Claim : claim[f] # NoClaim}
Candidates == {f \in Live : claim[f].categories # {}}

Init == claim = [f \in Claim |-> NoClaim]

--------------------------------------------------------------------------------
(* The categories of a claim: those its subject lists, and those the record*)
(* in its value adds.                                                      *)
Listed(subject) == {subject[2][i] : i \in DOMAIN subject[2]}
CategoriesOf(subject, added) == IF subject \in Subject THEN Listed(subject) \cup added ELSE {}

(* remember, remember_project and remember_project_record; only the last   *)
(* sees to it that the subject names all categories of the record.         *)
RememberRecord(f, row) ==
    /\ claim[f] = NoClaim
    /\ row.categories = CategoriesOf(row.subject, row.categories)
    /\ claim' = [claim EXCEPT ![f] = row]

(* correct: the subject and the predicate stay, the claim id is a new one. *)
(* The record, with its connections and the categories it adds to those of *)
(* the subject, is a new one too, or none if the new value does not parse. *)
CorrectRecord(old, f, targets, added) ==
    /\ old \in Live
    /\ claim[f] = NoClaim
    /\ claim' = [claim EXCEPT
                   ![old] = NoClaim,
                   ![f] = [claim[old] EXCEPT
                              !.targets = targets,
                              !.categories = CategoriesOf(claim[old].subject, added)]]

(* delete_source or archive.                                               *)
Forget(f) ==
    /\ f \in Live
    /\ claim' = [claim EXCEPT ![f] = NoClaim]

Next ==
    \E f \in Claim :
        \/ \E row \in Row : RememberRecord(f, row)
        \/ \E old \in Claim, targets \in Targets, added \in SUBSET Category :
              CorrectRecord(old, f, targets, added)
        \/ Forget(f)

Spec == Init /\ [][Next]_vars

--------------------------------------------------------------------------------
(* What identifies f alone, or with the claims that share its subject or   *)
(* its predicate.                                                          *)
Names(f) == {Id(f), <<"predicate", claim[f].predicate>>, claim[f].subject}

(* Seeded fault: a category is only found by its bare name.                *)
MatchesBareName(f, ident) ==
    \/ ident \in Names(f)
    \/ ident = <<"project", "project">>
    \/ \E c \in claim[f].categories : ident = <<"category", c>>

(* fact_matches_node.  The subject of a single category is also a name of  *)
(* every fact that has the category among others.                          *)
Matches(f, ident) ==
    \/ ident \in Names(f)
    \/ ident = <<"project", "project">>
    \/ \E c \in claim[f].categories : ident = <<"category", c>> \/ ident = <<"subject", <<c>> >>

Matching(ident) == {f \in Candidates : Matches(f, ident)}
MatchingAny(idents) == {f \in Candidates : \E ident \in idents : Matches(f, ident)}

(* The targets of the claims in S.                                         *)
TargetsOf(S) == UNION {claim[f].targets : f \in S}

(* Seeded fault: connections are only followed forwards.                   *)
ActivatedForwards(seed, frontier) ==
    MatchingAny(TargetsOf(MatchingAny(frontier))) \ Matching(seed)

(* One hop: the facts the frontier's facts point to, and those that point  *)
(* to a string of the frontier or to one of its facts.                     *)
ActivatedBy(seed, frontier) ==
    LET reached == MatchingAny(frontier)
        pointedTo == MatchingAny(TargetsOf(reached))
    IN  {f \in Candidates \ Matching(seed) :
            \/ f \in pointedTo
            \/ \E target \in claim[f].targets :
                  target \in frontier \/ Matching(target) \cap reached # {}}

(* The frontier after a hop that activated some facts: with their names and*)
(* with every string the frontier's facts point to.                        *)
Extended(frontier, activated) ==
    frontier \cup TargetsOf(MatchingAny(frontier)) \cup UNION {Names(f) : f \in activated}

(* compute_activated_project_ids after n hops.                             *)
Activation(seed) ==
    LET after[n \in 0..MaxHops] ==
            IF n = 0
            THEN [frontier |-> {seed} \cup UNION {Names(f) : f \in Matching(seed)},
                  activated |-> {}]
            ELSE LET before == after[n - 1]
                     now == ActivatedBy(seed, before.frontier)
                 IN  [frontier |-> Extended(before.frontier, now),
                      activated |-> before.activated \cup now]
    IN  after

Activated(seed, hops) == Activation(seed)[hops].activated

--------------------------------------------------------------------------------
(* dream.  claim_points_to knows fewer names than fact_matches_node.       *)
PointsTo(f, g) == claim[f].targets \cap Names(g) # {}

Explicit(f, g) == PointsTo(f, g) \/ PointsTo(g, f)

(* Two versions of one claim are never associated.                         *)
Twins(f, g) == Names(f) \ {Id(f)} = Names(g) \ {Id(g)}

SharesTarget(f, g) == claim[f].targets \cap claim[g].targets # {}

Bridges(f, g) ==
    {b \in Live \ {f, g} : \/ PointsTo(f, b) /\ PointsTo(b, g)
                           \/ PointsTo(g, b) /\ PointsTo(b, f)}

(* Seeded fault: the bridge may be any common neighbour of a neighbour.    *)
AnyAssociated(f, g) == f # g /\ ~Twins(f, g)

(* The pairs of the shared_target and triadic_closure passes.              *)
Associated(f, g) ==
    /\ f # g
    /\ ~Twins(f, g)
    /\ ~Explicit(f, g)
    /\ SharesTarget(f, g) \/ Bridges(f, g) # {}

(* known_identifiers.                                                      *)
Known ==
    LET OfProject(f) == {<<"project", "project">>}
                        \cup {<<"category", c>> : c \in claim[f].categories}
                        \cup {<<"subject", <<c>> >> : c \in claim[f].categories}
    IN  (UNION {Names(f) : f \in Live}) \cup (UNION {OfProject(f) : f \in Candidates})

(* unresolved_targets.                                                     *)
Unresolved == TargetsOf(Live) \ Known

--------------------------------------------------------------------------------
(* f and g are joined by a connection: one of them has a target that is a  *)
(* name of the other.                                                      *)
Joined(f, g) ==
    (\E t \in claim[f].targets : Matches(g, t)) \/ (\E t \in claim[g].targets : Matches(f, t))

(* The facts at most n connections from one that the seed names.           *)
Within(seed) ==
    LET near[n \in 0..MaxHops] ==
            IF n = 0 THEN Matching(seed)
            ELSE LET nearer == near[n - 1]
                 IN  nearer \cup {g \in Candidates : \E f \in nearer : Joined(f, g)}
    IN  near

(* connected_to finds, in both directions of every connection and whatever *)
(* name each one uses, every fact that lies within max_hops connections of *)
(* a fact the seed names.                                                  *)
TraversalIsComplete ==
    \A seed \in Ident :
        LET near == Within(seed)
            found == Activation(seed)
        IN  \A n \in 1..MaxHops : near[n] \ Matching(seed) \subseteq found[n].activated

(* Only a claim outside the project stands between f and g.                *)
BridgedOutside(f, g) ==
    /\ ~SharesTarget(f, g)
    /\ Bridges(f, g) # {}
    /\ Bridges(f, g) \cap Candidates = {}

(* The two algorithms agree on what is close: of the facts of the project, *)
(* dream only proposes to link those that connected_to finds from each     *)
(* other within two hops, unless they meet in a claim outside the project. *)
AssociationsAreTwoHopsApart ==
    \A f, g \in Candidates : Associated(f, g) =>
        (g \in Activated(Id(f), 2) \/ BridgedOutside(f, g))

(* What dream reports as unresolved, connected_to finds no fact by; and it *)
(* reports every such target, but for the names of claims outside the      *)
(* project, which connected_to never looks at.                             *)
UnresolvedNamesNothing ==
    \A t \in TargetsOf(Live) :
        /\ t \in Unresolved => Matching(t) = {}
        /\ Matching(t) = {} /\ t \notin Unresolved =>
              \E f \in Live \ Candidates : t \in Names(f)
================================================================================
