SPECIFICATION Spec
CONSTANTS
    Runtime = {r1, r2}
    Participant = {ann, bob}
    ann = ann
    bob = bob
    x = x
    y = y
    Event <- MCEvent
    Epoch = {1, 2, 3}
    Modulus = 8
    Rules <- MCRules
    Clock = {1, 2}
    Card = {c1}
    Content = {x, y}
    None = None
    MaxEvents = 3
    MaxFaults = 1
SYMMETRY PersonalitySymmetry
CONSTRAINT PlainOrShort
CHECK_DEADLOCK FALSE
INVARIANT TypeOK
INVARIANT ReturnedIsOnRecord
INVARIANT RouterKeepsItsLimits
INVARIANT OwnReplaysIgnoreTheClock
