CONSTANTS
    Requests = {r1, r2}
    PoolKeys = {k1, k2}
    MaxConns = 2
    SenderPoolCapacity = 1
    MaxUnits = 2
    PeerFramings = {"None", "Fixed", "Chunked", "CloseDelimited"}
    SendsInterim = TRUE
    None = None
SPECIFICATION Http1Spec
SYMMETRY Symmetry
CHECK_DEADLOCK FALSE
INVARIANTS PooledAtBoundary
