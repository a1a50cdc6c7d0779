SPECIFICATION Spec
CONSTANTS
    Evidence = {e1, e2}
    Id = {1, 2, 3, 4, 5, 6, 7}
    Bytes <- MCBytes
    Budgets = {0, 3, 5, 9}
    MaxReadPageBytes = 8
SYMMETRY EvidenceSymmetry
CONSTRAINT IdsInOrder
CONSTRAINT SmallOrPlain
CHECK_DEADLOCK FALSE
INVARIANT TypeOK
INVARIANT SummariesCiteLiveEvidence
INVARIANT ParentsMatchChildren
INVARIANT LiveRangesNest
INVARIANT RepairNeverStuck
INVARIANT WakeFitsBudget
INVARIANT WakeCoversOnce
INVARIANT WakeOpensNewestFirst
