CONSTANTS
    MaxClients = 2
    Packets <- FirstOne
    PipeCapacity = 8
    Tails = {2}
    Closers = {}
SPECIFICATION FairSpec
PROPERTIES
    CutInTime
CHECK_DEADLOCK FALSE
