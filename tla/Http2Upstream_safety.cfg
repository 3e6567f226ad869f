CONSTANTS
    Requests = {r1, r2, r3}
    CancelAllowed = TRUE
SPECIFICATION Spec
SYMMETRY Symmetry
CHECK_DEADLOCK FALSE
INVARIANT ExclusiveOpen
PROPERTIES AttachOnlyWhileOpen ErrorIsolation StaleClearIsHarmless
