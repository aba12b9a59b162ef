CONSTANTS
    a = a
    b = b
    c = c
    d = d
    Node = {a, b, c, d}
    Nbr <- Chain
    Free = Free
    Mobile = {a}
    myId <- Ids
    numSlots = 4
    reservedMobileSlots = 1
    Broadcast = Broadcast
    NoReceiver = NoReceiver
    Traffic <- Unicasts
    queueLength = 0
    MaxPackets = 1
SPECIFICATION DataSpec
INVARIANTS OneEntryPerNeighbour DataAsAnnounced
PROPERTIES SettledStays
