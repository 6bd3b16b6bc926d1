CONSTANTS
    N = 3
    MaxLag = 2
SPECIFICATION Spec
INVARIANTS
    TypeOK
    LastIsReference
    LagsCovered
    Perceptive
    Tight
    Computed
CHECK_DEADLOCK FALSE
