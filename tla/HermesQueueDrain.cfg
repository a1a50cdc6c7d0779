SPECIFICATION Spec
CONSTANTS
    p1 = p1
    p2 = p2
    alice = alice
    bob = bob
    Turn = {t1, t2}
    Provider <- MCProvider
    ProcessOf <- MCOneProcess
    ScopeOf <- MCTwoScopes
    NoTurn = NoTurn
    MaxAttempts = 2
    MaxFaults = 1
CONSTRAINT OneTurnEach
CHECK_DEADLOCK FALSE
PROPERTY QueueDrains
