SPECIFICATION MCSpec
CHECK_DEADLOCK FALSE
CONSTANTS
    Version <- MCVersion
    GlobalToFull <- MCGlobalToFull
    Unlisted = {4}
    Periods = {1, 9}
    IntMax = 7
    FirstBytes = {0, 1, 4}
    RestBytes = {"zero"}
    MaxBoots = 2
    NoFile = NoFile
INVARIANTS
    LastPeriodWins
    NoSetDelayWhileInactive
    NoFailureHidden
    InstalledIsComplete
    ExitZeroMeansValid
PROPERTIES
    AddressStaysValid
