CONSTANTS
    N_BALLS = 3
    MAX_PLAYERS = 2
    ARENA_SIZE = 12
    ACCEL = 4
    MAX_SPEED = 6
    BALL_RADIOUS = 2
    Viewer = 0
    Keys <- RightLeft
    LocalLag = 300
    MaxEvents = 2
    LastTick = 3
    OldCounts <- OldSet
SPECIFICATION Spec
INVARIANTS
    TypeOK
    EventsAreASet
    OnlyResetsDiverge
    PacketsIntact
CHECK_DEADLOCK FALSE
