CONSTANTS
    Http3Requests = {r1, r2}
    Http3Keys = {k1}
    Mode <- AllPreferred
    StoreCapacity = 1
    MaxReusable = 2
    TargetActive = 1
SPECIFICATION Http3Spec
SYMMETRY Symmetry
CHECK_DEADLOCK FALSE
INVARIANTS DeadSessionEnds
