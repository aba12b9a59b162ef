CONSTANTS
    a = a
    b = b
    c = c
    d = d
    Node = {a, b, c, d}
    Nbr <- Kite
    L3BROADCAST = L3BROADCAST
    Flow <- FlowFlood
    MaxMsgs <- One
    MaxDelay = 1
    defaultTtl = 3
    plainFlooding = TRUE
    bcMaxEntries = 1
    bcDelTime = 3
SPECIFICATION Spec
INVARIANTS NoDuplicateUp FloodReaches
CHECK_DEADLOCK FALSE
