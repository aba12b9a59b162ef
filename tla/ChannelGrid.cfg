CONSTANTS
    n1 = n1
    n2 = n2
    n3 = n3
    Nowhere = Nowhere
    Nic = {n1, n2, n3}
    Place <- Field
    playgroundSizeX = 18
    playgroundSizeY = 8
    maxInterferenceDistance = 5
    ceilInterferenceDistance = 6
    useTorus = FALSE
    P2P = TRUE
SPECIFICATION GatesSpec
INVARIANTS MatrixFollowsHosts ConnectedIffInRange NoStrayGate GatesUnshared
SYMMETRY Symmetric
CHECK_DEADLOCK FALSE
