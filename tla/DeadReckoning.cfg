CONSTANTS
    N = 2
    InputLags <- SourceInputLags
    LocalLags <- SourceLocalLags
    Key = {key}
    Connect = connect
    MaxKeys <- FirstKeys
    Quitters = {1}
    LastTick = 3
    LastFrame = 3
SPECIFICATION Spec
INVARIANTS
    TypeOK
    EachOnce
    LieExact
    Predicted
    Unnoticed
CHECK_DEADLOCK FALSE
