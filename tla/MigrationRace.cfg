SPECIFICATION TracedSpec
CONSTANTS
    Source = {s1, s2}
    NoClaim = NoClaim
    Review = {}
    Key = {}
    NoKey = NoKey
    ValidTime = {1, 2}
    RecordTime = {1, 2}
    Open = 3
    ClaimInput <- MCFact
    MaxCommits = 3
    MaxBatch = 2
    PageLimit = {3}
    StartVersion = {0}
    OlderEntry <- MCOlderEntry
CHECK_DEADLOCK FALSE
INVARIANT RawReplaysAreUnchanged
