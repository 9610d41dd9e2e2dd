CONSTANTS
    Comm = {k1, k2}
    Game = game
    Reader = reader
    Writer = writer
    NoThread = none
    Char = {c1, c2}
    NoChar = zero
    PoolSize = 1
    MaxLogins = 3
    MaxWrites = 1
    MaxSticky = 2
    Unreadable = {}
SPECIFICATION Spec
SYMMETRY Symmetry
INVARIANTS LockHeld MarksCounted NoLostUpdate
CHECK_DEADLOCK FALSE
