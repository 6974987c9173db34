SPECIFICATION OverlaySpec
CONSTANTS
    MaxLayerId = 1
    Areas = {1}
    NoTarget = NoTarget
INVARIANTS
    OverlayOffForProcess
