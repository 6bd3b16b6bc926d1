CONSTANTS
    Packets = 4
    Bad = {2}
    Tails = {1}
SPECIFICATION FairSpec
INVARIANTS
    TypeOK
    NodesInUse
    OnlyBadLeaked
PROPERTIES
    IsFifo
    Received
    JoinReturns
CHECK_DEADLOCK FALSE
