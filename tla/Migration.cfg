SPECIFICATION TracedSpec
CONSTANTS
    Source = {s1, s2, s3}
    NoClaim = NoClaim
    Review = {r1}
    Key = {k1}
    NoKey = NoKey
    ValidTime = {1, 2}
    RecordTime = {1, 2}
    Open = 3
    ClaimInput <- MCProfileFact
    MaxCommits = 4
    MaxBatch = 2
    PageLimit = {3}
    StartVersion = {0, 5, 7}
    OlderEntry <- MCOlderEntry
SYMMETRY SourceSymmetry
CONSTRAINT PlainOrShort
CHECK_DEADLOCK FALSE
PROPERTY FollowsTheStore
INVARIANT MirrorEqualsStore
INVARIANT FeedIsNeverRefused
INVARIANT ReplicaReexports
INVARIANT PagesTileTheFeed
INVARIANT EveryRowPublishedOnce
