------------------------------ MODULE SummaryWake ------------------------------
(***************************************************************************)
(* What wake answers with (live_summaries in src/store/summaries.rs): a    *)
(* cover of the live summaries that fits a number of bytes.  wake writes   *)
(* nothing, so this is a function of the state of SummaryTree; of a text   *)
(* only its length matters.                                                *)
(***************************************************************************)
EXTENDS SummaryTree, Folds

CONSTANTS
    Bytes,             \* Bytes[n]: length of the text of summary n
    Budgets,           \* values of max_bytes that callers ask for
    MaxReadPageBytes   \* MAX_READ_PAGE_BYTES

ASSUME BytesAreLengths ==
    Bytes \in [Id -> Nat] /\ Budgets \subseteq Nat /\ MaxReadPageBytes \in Nat \ {0}

(* A cover is of finitely many summaries.                                  *)
ASSUME IdsAreFinite == IsFiniteSet(Id)

TotalBytes(nodes) == MapThenSumSet(LAMBDA n : Bytes[n], nodes)

(* max_bytes.clamp(1, MAX_READ_PAGE_BYTES).                                *)
Clamped(max) ==
    CASE max = 0 -> 1
      [] max > MaxReadPageBytes -> MaxReadPageBytes
      [] OTHER -> max

(* Live summaries that are no child of a live one.                         *)
Roots == {n \in Live : ~HasParent(n)}

Fits(nodes, max) == TotalBytes(nodes) <= max

Oldest(nodes) == CHOOSE n \in nodes : \A m \in nodes : node[n].first <= node[m].first

(* Roots from the newest on, each taken when it still fits.                *)
RootsWithin(max) ==
    LET Take(n, newer) == IF Fits(newer \cup {n}, max) THEN newer \cup {n} ELSE newer
    IN  MapThenFoldSet(Take, {}, LAMBDA n : n, Oldest, Roots)

(* Seeded fault: a parent stays beside its children.                       *)
AddChildren(nodes, p) == nodes \cup node[p].children

Opened(nodes, p) == (nodes \ {p}) \cup node[p].children

ParentsIn(nodes) == {n \in nodes : node[n].children # {}}

(* Seeded fault: the oldest parent is opened first.                        *)
OldestParent(nodes) == Oldest(ParentsIn(nodes))

NewestParent(nodes) ==
    CHOOSE p \in ParentsIn(nodes) : \A q \in ParentsIn(nodes) : node[q].first <= node[p].first

(* Seeded fault: only the children have to fit.                            *)
ChildrenFit(nodes, max) ==
    /\ ParentsIn(nodes) # {}
    /\ LET p == NewestParent(nodes)
       IN  node[p].children \subseteq Live /\ Fits(node[p].children, max)

CanOpen(nodes, max) ==
    /\ ParentsIn(nodes) # {}
    /\ LET p == NewestParent(nodes)
       IN  node[p].children \subseteq Live /\ Fits(Opened(nodes, p), max)

(* Parents are opened from the newest on, until one does not fit.          *)
CoverWithin(max) ==
    LET opened[k \in 0 .. Cardinality(Id)] ==
            IF k = 0 THEN RootsWithin(max)
            ELSE LET last == opened[k - 1]
                 IN  IF CanOpen(last, max) THEN Opened(last, NewestParent(last)) ELSE last
    IN  opened[Cardinality(Id)]

(* live_summaries.                                                         *)
Cover(max) == CoverWithin(Clamped(max))

--------------------------------------------------------------------------------
(* wake never answers with more bytes than it was asked for, nor than a    *)
(* page may have, however often it trades a parent for its children.  Who  *)
(* asks for no bytes may get one: clamp raises zero to one.                *)
WakeFitsBudget ==
    \A max \in Budgets :
        /\ Fits(Cover(max), MaxReadPageBytes)
        /\ Fits(Cover(max), max) \/ (max = 0 /\ Fits(Cover(max), 1))

(* Opening parents neither loses nor repeats anything: each position of    *)
(* the chosen roots is summarized exactly once.                            *)
WakeCoversOnce ==
    \A max \in Budgets :
        /\ UNION {Positions(n) : n \in Cover(max)}
              = UNION {Positions(n) : n \in RootsWithin(Clamped(max))}
        /\ \A n, m \in Cover(max) : n # m => Positions(n) \cap Positions(m) = {}

(* Newer detail comes first: where wake shows a part of a summary, what it *)
(* shows of anything newer is leaves.  (Newer roots that did not fit are   *)
(* not shown at all.)                                                      *)
WakeOpensNewestFirst ==
    \A max \in Budgets :
        \A p \in Live, n, m \in Cover(max) :
            n \in node[p].children /\ node[m].first > node[p].last => node[m].level = 0
================================================================================
