SPECIFICATION FairSpec
CHECK_DEADLOCK FALSE
CONSTANTS
    Callers = {c1, c2}
    Operations = {"getSensorList", "createEventQueue"}
    MaxTries = 2
    MaxIncarnation = 2
    NULL = NULL
INVARIANTS
    ListIsOfCachedSensors
    NullProxyOnlyInConstructor
    AnswerIsFresh
PROPERTIES
    CallReturns
    DeathIsNoticed
