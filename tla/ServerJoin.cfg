CONSTANTS
    MaxClients = 3
    Packets <- FirstTwo
    PipeCapacity = 3
    Tails = {1, 2}
    Closers = {0}
SPECIFICATION Spec
INVARIANTS
    TypeOK
    SessionOrder
    RelayComplete
    NoLostWakeup
    PipeBounded
    NoCircularWait
CHECK_DEADLOCK FALSE
