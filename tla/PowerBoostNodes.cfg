SPECIFICATION Spec
CONSTANTS
    Callers = {c1, c2}
    NumNodes = 2
    WriteMayFail = {}
    DEFAULT_INTERACTION_MS = 2
    MAX_BOOST_MS = 3
    UsPerMs = 2
    Durations <- MCDurations
    MaxTime = 4
INVARIANTS
    NodesRestored
