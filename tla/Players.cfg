CONSTANTS
    Player = {p1, p2, p3}
    NoPlayer = none
    FormerRounds = 1
    MaxRound = 4
    Redskull = {p3}
    BlockRounds = 1
    Premium = {p1, p2}
    Trusted = {p1, p2}
    Friend = {p1, p2}
    MAX_CHANNELS = 4
    Topic = {"party", "fight", "friends", "channel", "request"}
SPECIFICATION PlayersSpec
SYMMETRY Symmetry
INVARIANTS MembersAgree MarksRight ChannelsRight
PROPERTIES ImplementsGroups
CHECK_DEADLOCK FALSE
