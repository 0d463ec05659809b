SPECIFICATION Spec
CONSTANTS
    File <- MCFile
    Service <- MCService
    DependsOn <- MCDependsOn
    ReloadOn <- MCReloadOn
    RestartOn <- MCRestartOn
    UnitFile <- OneUnitFile
    InitSystem = "systemd"
    Faults = {"failure", "unavailable", "crash", "reboot"}
    MaxEvents = 3
    NoResource = NoResource
VIEW StateView
INVARIANT NotifyKept
