SPECIFICATION MCSpec
CONSTANTS
    Threads = {t1, t2}
    NULL = NULL
    so_paths <- MCPaths
    SensorsOf <- MCSensorsOf
    LoadMayFail = {"a", "b"}
    OpenMayFail = {"b", "late"}
    MaxLayerId = 2
    Areas = {1, 2}
    NoTarget = NoTarget
INVARIANTS
    HandleIsListIndex
    RoutedToOwner
    PollSeesCompleteMaps
    CrashesOnlyUnopened
    OneOwnerPerLayer
    NoWrongFrame
    OneFrameLost
PROPERTIES
    PollEventuallyRuns
