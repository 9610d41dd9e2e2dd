CONSTANTS
    Client = {k1}
    NoClient = none
    MaxPackets = 2
    MaxThreads = 1
    EarlyData = FALSE
    MayEnd = FALSE
SPECIFICATION FairSpec
INVARIANTS AckedIsParsed
PROPERTIES ConnectionsServed
CHECK_DEADLOCK FALSE
