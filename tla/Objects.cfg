CONSTANTS
    Topic = {"operate", "houses", "sectors", "query"}
    Trader = {t1, t2}
    Bag = {b1, b2}
    Coin = {c1, c2}
    Field = {f1, f2}
    Nothing = none
    Hands = 1
    Capacity = 1
    MaxAmount = 2
    CarryStrength = 2
    MaxParts = 3
    House = {h1}
    Person = {p1, p2}
    p1 = p1
    p2 = p2
    Nobody = none
    Premium = {p2}
    Lists <- MCLists
    Rent = 1
    Price = 3
    Base = 2
    Purse <- MCPurse
    Furnished = {p1}
    Month = 2
    Week = 1
    MaxDays = 3
    Sectors = 2
    Slots = 3
    HashTableSize = 8
    LastFile = 2
    MaxObjects = 2
    MaxObjectID = 11
    MaxVisit = 2
    User = {u1, u2}
    NoUser = none
    NumberOfConnections = 2
    Asked = {"transferHouses", "loginGame", "setNotation"}
    Limit = 1
    MaxAttempts = 2
    MaxQueries = 1
SPECIFICATION ObjectsSpec
SYMMETRY Symmetry
INVARIANTS ObjectsKept ReferencesValid  MapKept OneUser QueryAnswered
CHECK_DEADLOCK FALSE
