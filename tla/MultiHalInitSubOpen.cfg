SPECIFICATION Spec
CONSTANTS
    Threads = {t1}
    NULL = NULL
    so_paths <- MCPaths
    SensorsOf <- MCSensorsOf
    LoadMayFail = {}
    OpenMayFail = {"b"}
INVARIANTS
    DevicesParallelToModules
