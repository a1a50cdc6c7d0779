SPECIFICATION EchoSpec
CONSTANTS
    Source = {s1, s2}
    NoClaim = NoClaim
    Review = {}
    Key = {}
    NoKey = NoKey
    ValidTime = {1, 2}
    RecordTime = {1, 2}
    Open = 3
    ClaimInput <- MCFact
    MaxCommits = 2
    MaxBatch = 2
    PageLimit = {}
CHECK_DEADLOCK FALSE
PROPERTY CorrectionsAreFinal
