SPECIFICATION RepairedSpec
CONSTANTS
    Source = {s1, s2}
    NoClaim = NoClaim
    Review = {}
    Key = {}
    NoKey = NoKey
    ValidTime = {1, 2}
    RecordTime = {1, 2}
    Open = 3
    ClaimInput <- MCFacts
    Embedder = {e1}
    NoTarget = NoTarget
    Lane = {1, 2}
    NoLane = NoLane
    BatchLimit = 1
CONSTRAINT RecordedWhenValid
CONSTRAINT LinksOrLanes
CHECK_DEADLOCK FALSE
INVARIANT LeftoversAreQueued
INVARIANT OneLane
PROPERTY UsefulProjectionsStay
PROPERTY LeftoversGo
