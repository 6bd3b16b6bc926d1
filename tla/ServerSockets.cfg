CONSTANTS
    MaxClients = 2
    Packets <- FirstTwo
    PipeCapacity = 5
    Tails = {1}
    Closers = {0}
    SocketCapacity = 1
SPECIFICATION SFairSpec
INVARIANTS
    NoGap
    SocketsOK
PROPERTIES
    GoodbyeHeard
    HeardInTime
CHECK_DEADLOCK FALSE
