CONSTANTS
    Topic = {"semaphore", "replies", "bytes", "creature", "skills", "cron", "npc", "way"}
    Thread = {t1, t2, t3}
    NoThread = none
    Value = 1
    Calls = 2
    Capacity = 3
    Discards = TRUE
    MaxReplies = 8
    Size = 4
    Modulus = 8
    MaxLen = 3
    MaxBytes = 18
    Creature = {c1}
    NoCreature = none
    MaxSteps = 2
    StepBeats = 2
    Type = "MONSTER"
    MaxLevel = 4
    Delta = 2
    Penalty = 5
    AddLevel = 2
    MinHitPoints = 3
    MinSkill = 1
    LastSkill = 4
    Gains = {1, 3, 7}
    MaxExp = 8
    MaxCycle = 2
    Decaying = {1, 2, 3, 4}
    Buckets = 2
    Delays = {0, 1, 3}
    MaxRound = 3
    Visitor = {v1, v2, v3}
    Nobody = none
    Patience = 2
    MaxTalks = 4
    VisibleX = 2
    VisibleY = 1
    Slow = 3
    MaxUneven = 2
    Infinity = 1000
    Few = 1
SPECIFICATION QueuesSpec
INVARIANTS NoLostWakeup ProcessedInOrder ListsAreQueued SkillsAgree CronOrdered ConversationGoesOn ShortestWay
PROPERTIES Implements ImplementsQueue  QueueServed
CHECK_DEADLOCK FALSE
