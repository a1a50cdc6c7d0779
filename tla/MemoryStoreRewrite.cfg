SPECIFICATION Spec
CONSTANTS
    Source = {s1, s2, s3}
    NoClaim = NoClaim
    Review = {}
    Key = {}
    NoKey = NoKey
    ValidTime = {1, 2, 3}
    RecordTime = {1, 2, 3}
    Open = 4
    ClaimInput <- MCFact
SYMMETRY SourceSymmetry
CONSTRAINT NoLinks
CHECK_DEADLOCK FALSE
PROPERTY CorrectionKeepsHistory
