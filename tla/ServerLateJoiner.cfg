CONSTANTS
    MaxClients = 3
    Packets <- FirstOne
    PipeCapacity = 8
    Tails = {}
    Closers = {0}
SPECIFICATION Spec
INVARIANTS
    Synchronised
CHECK_DEADLOCK FALSE
