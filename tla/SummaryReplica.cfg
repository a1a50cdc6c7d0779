SPECIFICATION ReplicaSpec
CONSTANTS
    Evidence = {e1, e2}
    Id = {1, 2, 3}
    Bytes <- MCBytes
    Budgets = {1}
    MaxReadPageBytes = 8
SYMMETRY EvidenceSymmetry
CONSTRAINT IdsInOrder
CHECK_DEADLOCK FALSE
INVARIANT SummariesCiteLiveEvidence
