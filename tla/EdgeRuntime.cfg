CONSTANTS
    r1 = r1
    r2 = r2
    None = None
    Requests <- MCRequests
    MatchSets <- MCMatchSets
    MaxSessions = 2
    MaxPrograms = 2
    MaxSlices = 2
    PoolMax = 1
    Target = 1
    Threading = FALSE
SPECIFICATION Spec
SYMMETRY MCSymmetry
CHECK_DEADLOCK FALSE
INVARIANTS
    OwnVm
    RemovedIsClosed
    RecordingsInOrder
    PausedOnThread
PROPERTIES
    DetachKeepsNewer
