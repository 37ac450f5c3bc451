SPECIFICATION SpiFairSpec
CONSTANTS
    Calls <- MCCalls
    NoCall = NoCall
    TIMEOUT_CHAR = 2
    TIMEOUT_DATA_SENT = 3
    MaxLate = 3
INVARIANTS SpiTypeOK InStep PaddedToFour
PROPERTIES ImplementsRemoteCall CallReturns
