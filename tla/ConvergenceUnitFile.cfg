SPECIFICATION Spec
CONSTANTS
    File <- MCFile
    Service <- MCService
    DependsOn <- FileAfterService
    ReloadOn <- MCReloadOn
    RestartOn <- MCRestartOn
    UnitFile <- TwoUnitFiles
    InitSystem = "systemd"
    Faults = {}
    MaxEvents = 1
    NoResource = NoResource
INVARIANT UnitFileTakesEffect
