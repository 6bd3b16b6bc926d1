CONSTANTS
    Client <- Pair
    Lags <- SourceLags
    Delay <- LocalLag
    Key = {key}
    Connect = connect
    MaxKeys = 1
    LastFrame = 3
    Horizon = 4
SPECIFICATION Spec
INVARIANTS
    TypeOK
    TraceCoherent
    NoneStranded
    Converged
PROPERTIES
    RollbackJustified
CHECK_DEADLOCK FALSE
