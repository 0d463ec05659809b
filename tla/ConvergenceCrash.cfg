SPECIFICATION Spec
CONSTANTS
    File <- MCFile
    Service <- MCService
    DependsOn <- MCDependsOn
    ReloadOn <- MCReloadOn
    RestartOn <- MCRestartOn
    UnitFile <- NoUnitFile
    InitSystem = "systemd"
    Faults = {"crash"}
    MaxEvents = 2
    NoResource = NoResource
INVARIANT ReloadSurvives
