\* Three releases, the first one installed; two faults.
SPECIFICATION HugoSpec
CONSTANTS
    Versions = {1, 2, 3}
    Base = 1
    MinimumVersion = 1
    MaximumVersion = 3
    AllowDowngrade = FALSE
    Absent = Absent
    MaxUpgradeFaults = 2
PROPERTIES
    OnlyKnownBinaries
    RollbackUndoesAMove
CHECK_DEADLOCK FALSE
