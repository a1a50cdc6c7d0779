SPECIFICATION Spec
CONSTANTS
    p1 = p1
    p2 = p2
    alice = alice
    bob = bob
    Turn = {t1, t2}
    Provider <- MCProvider
    ProcessOf <- MCTwoProcesses
    ScopeOf <- MCSameScope
    NoTurn = NoTurn
    MaxAttempts = 2
    MaxFaults = 1
SYMMETRY TurnSymmetry
CHECK_DEADLOCK FALSE
INVARIANT TypeOK
INVARIANT NoTurnIsLost
INVARIANT StoredInOrder
PROPERTY KeepsTheLog
