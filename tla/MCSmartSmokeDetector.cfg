SPECIFICATION SystemSpec
CONSTANTS
    a = a
    b = b
    Clients = {a, b}
    Slots <- MCSlots
    Requests <- MCRequests
    NoSlot = 255
    NoClient = NoClient
    Junk <- MCJunk
    MaxBroken = 0
    HUSHTIME = 1
SYMMETRY MCSymmetry
PROPERTIES PageShowsEffect
