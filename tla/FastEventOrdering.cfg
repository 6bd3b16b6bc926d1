CONSTANTS
    N = 2
    lags <- Apart
    Key = {key}
    Connect = connect
    MaxKeys = 1
    LastFrame = 3
    Horizon = 5
SPECIFICATION Spec
INVARIANTS
    SameGameShifted
PROPERTIES
    RollbackOnlyWhenLate
CHECK_DEADLOCK FALSE
