CONSTANTS
    Comm = {k1, k2}
    Game = game
    Reader = reader
    Writer = writer
    NoThread = none
    Char = {c1, c2}
    NoChar = zero
    PoolSize = 2
    MaxLogins = 2
    MaxWrites = 1
    MaxSticky = 2
    Unreadable = {c1, c2}
SPECIFICATION Spec
SYMMETRY Symmetry
INVARIANT OneSlotPerCharacter
CHECK_DEADLOCK FALSE
