SPECIFICATION Spec
CONSTANTS
    c1 = c1
    c2 = c2
    c3 = c3
    Calls = {c1, c2, c3}
    Effects = {"READ_ONLY", "IDEMPOTENT_WRITE", "NON_IDEMPOTENT_WRITE"}
    MaxAttempts = 2
SYMMETRY AnyOrder
INVARIANTS
    TypeOK
    OneExecutor
    CachedWasApplied
    AppliedAtMostOnce
PROPERTIES
    ErrorIsFinal
CHECK_DEADLOCK FALSE
