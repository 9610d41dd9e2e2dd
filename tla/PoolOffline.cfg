CONSTANTS
    Comm = {k1, k2}
    Game = game
    Reader = reader
    Writer = writer
    NoThread = none
    Char = {c1}
    NoChar = zero
    PoolSize = 1
    MaxLogins = 2
    MaxWrites = 1
    MaxSticky = 2
    Unreadable = {}
SPECIFICATION FairSpec
INVARIANT MailNotForgotten
PROPERTIES PoolServes
CHECK_DEADLOCK FALSE
