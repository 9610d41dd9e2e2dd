CONSTANTS
    Comm = {k1, k2}
    Game = game
    Reader = reader
    Writer = writer
    NoThread = none
    Char = {c1, c2}
    NoChar = zero
    PoolSize = 1
    MaxLogins = 3
    MaxWrites = 0
    MaxSticky = 2
    Unreadable = {c1, c2}
SPECIFICATION Spec
INVARIANT LockHeld
CHECK_DEADLOCK FALSE
