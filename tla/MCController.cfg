SPECIFICATION FairSpec
CONSTANTS
    MAXSMOKE = 0
    MAXCARBON = 1
    HUSHTIME = 2
    SmokeReadings <- MCSmokeReadings
    CarbonReadings <- MCCarbonReadings
INVARIANTS TypeOK HushIsSilent SmokeDetectedInTime IInv
PROPERTIES InterpretsWarmSample ImplementsAlarm HushEnds CarbonDetected
