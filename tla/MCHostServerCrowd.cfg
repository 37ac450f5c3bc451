SPECIFICATION Spec
CONSTANTS
    a = a
    b = b
    c = c
    Clients = {a, b, c}
    Slots <- MCSlots
    Requests <- MCShortRequests
    NoSlot = 255
    NoClient = NoClient
    Junk <- MCJunk
    MaxBroken = 0
SYMMETRY MCSymmetry
INVARIANTS NoStaleBytes
PROPERTIES NoPrematureHangup
