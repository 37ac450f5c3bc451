SPECIFICATION SpiSpec
CONSTANTS
    Calls <- MCPinCalls
    NoCall = NoCall
    TIMEOUT_CHAR = 2
    TIMEOUT_DATA_SENT = 3
    MaxLate = 3
INVARIANTS PaddedToFour
