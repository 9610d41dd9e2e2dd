CONSTANTS
    Client = {k1, k2}
    NoClient = none
    MaxPackets = 1
    MaxThreads = 2
    EarlyData = FALSE
    MayEnd = TRUE
SPECIFICATION Spec
SYMMETRY Symmetry
INVARIANTS OneOwner NoBufferRace
CHECK_DEADLOCK FALSE
