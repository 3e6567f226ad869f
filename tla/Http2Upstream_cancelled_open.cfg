CONSTANTS
    Requests = {r1, r2}
    CancelAllowed = TRUE
SPECIFICATION FairSpec
CHECK_DEADLOCK FALSE
PROPERTIES OpenEnds
