SPECIFICATION FairSpec
CONSTANTS
    Patience = 4
    JoinTime = 2
    MaxOutages = 4
    MaxBroken = 3
INVARIANTS TypeOK StartsWhenJoined
PROPERTIES SetupReturns
CHECK_DEADLOCK FALSE
