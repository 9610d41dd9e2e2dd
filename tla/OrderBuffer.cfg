CONSTANTS
    Producer = {p1, p2}
    NoProducer = none
    Capacity = 2
    UseMutex = TRUE
    MaxOrders = 3
SPECIFICATION FairSpec
INVARIANTS NoCellRace DeliveredInOrder
PROPERTIES ImplementsQueue OrdersServed
CHECK_DEADLOCK FALSE
