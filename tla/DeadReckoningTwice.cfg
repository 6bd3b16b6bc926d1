CONSTANTS
    N = 1
    InputLags <- SourceInputLags
    LocalLags <- SourceLocalLags
    Key = {key}
    Connect = connect
    MaxKeys <- FirstKeys
    Quitters = {}
    LastTick = 4
    LastFrame = 4
SPECIFICATION Spec
INVARIANTS
    NotTwice
CHECK_DEADLOCK FALSE
