CONSTANTS
    Frames = {1, 3, 5}
    TraceSize = 2
    Initial = 2
    MaxAddress = 4
    MaxEvents = 4
SPECIFICATION Spec
INVARIANTS
    TypeOK
    KeptWhileSmall
CHECK_DEADLOCK FALSE
