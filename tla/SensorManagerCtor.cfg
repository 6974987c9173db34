SPECIFICATION Spec
CHECK_DEADLOCK FALSE
CONSTANTS
    Callers = {c1}
    Operations = {"getSensorList", "createEventQueue"}
    MaxTries = 2
    MaxIncarnation = 2
    NULL = NULL
INVARIANTS
    LockNotNeededInConstructor
