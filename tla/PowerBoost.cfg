SPECIFICATION FairSpec
CONSTANTS
    Callers = {c1, c2}
    NumNodes = 1
    WriteMayFail = {1}
    DEFAULT_INTERACTION_MS = 2
    MAX_BOOST_MS = 3
    UsPerMs = 2
    Durations <- MCDurations
    MaxTime = 5
INVARIANTS
    BoostKeepsPromise
    DeadlineBounded
    NoBoostInLowPower
PROPERTIES
    BoostEnds
