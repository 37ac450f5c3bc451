\* A second is 5 units, a conversion takes up to 9, the clock wraps every 32.
\* The clock runs down at its bound.
INIT MCInit
NEXT MCNext
CONSTANTS
    Modulus = 32
    Second = 5
    MaxGap = 27
    MaxElapsed = 100
    Delms = 9
    Bits = 4
    FamilyBits = 2
    Addresses <- MCAddresses
    MaxDevices = 3
    MaxChanges = 2
    MaxThreads = 4
    ThreadIds = {1, 2, 3, 4, 5}
    NoThread = 0
    MaxRemovals = 2
INVARIANTS ClockTypeOK ConversionTypeOK SearchTypeOK
           WaitIsBounded EnumeratesAll ListIsConsistent
PROPERTIES TellsTheTime WaitIsLongEnough NoneTwice NoMixedAddress NoneSkipped
