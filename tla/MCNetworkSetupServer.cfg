SPECIFICATION Spec
CONSTANTS
    Patience = 4
    JoinTime = 2
    MaxOutages = 4
    MaxBroken = 3
INVARIANTS ServerStarted
CHECK_DEADLOCK FALSE
