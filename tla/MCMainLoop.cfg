\* The unit of the clock is 50 ms.
SPECIFICATION FairSpec
CONSTANTS
    Modulus = 64
    OfflineInterval = 2
    ServerInterval = 10
    IdleDelay = 1
    MaxSetup = 14
    MaxOffline = 3
    MaxServer = 7
INVARIANTS TypeOK DetectorPunctual
PROPERTIES NoEarlyRun DetectorRuns ServerRuns
