SPECIFICATION Spec
CONSTANTS
    NumSubs = 2
    Capacity = 2
    MaxReads = 2
    MaxEvents = 4
    EventKinds <- MCEventKinds
    full_to_global <- MCFullToGlobal
INVARIANTS
    NoCorruptEventUpstream
