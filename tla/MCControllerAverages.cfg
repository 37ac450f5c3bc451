SPECIFICATION Spec
CONSTANTS
    MAXSMOKE = 0
    MAXCARBON = 1
    HUSHTIME = 2
    SmokeReadings <- MCSmokeReadings
    CarbonReadings <- MCCarbonReadings
INVARIANTS AveragesAreNumbers
