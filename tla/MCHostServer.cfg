SPECIFICATION FairSpec
CONSTANTS
    a = a
    b = b
    Clients = {a, b}
    Slots <- MCSlots
    Requests <- MCRequests
    NoSlot = 255
    NoClient = NoClient
    Junk <- MCJunk
    MaxBroken = 1
INVARIANTS TypeOK ExactlyOnce NestingBounded
PROPERTIES EveryClientAnswered CallbackReturns
