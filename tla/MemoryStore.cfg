SPECIFICATION Spec
CONSTANTS
    Source = {s1, s2, s3}
    NoClaim = NoClaim
    Review = {r1}
    Key = {k1}
    NoKey = NoKey
    ValidTime = {1, 2, 3}
    RecordTime = {1, 2, 3}
    Open = 4
    ClaimInput <- MCProfileFact
SYMMETRY SourceSymmetry
CONSTRAINT OneSize
CHECK_DEADLOCK FALSE
INVARIANT TypeOK
INVARIANT AcceptedIffSupported
INVARIANT ProfilesAreBacked
INVARIANT ReviewsCiteLiveEvidence
INVARIANT TablesAgree
INVARIANT CurrentAnswersAreTheOpenHistory
INVARIANT OneAnswerPerLineage
PROPERTY ForwardOnly
PROPERTY ImplementsBelief
