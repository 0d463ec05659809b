SPECIFICATION FairSpec
CONSTANTS
    File <- ItsFiles
    Service <- OneService
    DependsOn <- ItsDependsOn
    ReloadOn <- ItsShared
    RestartOn <- ItsOwn
    UnitFile <- ItsNoUnitFile
    InitSystem = "systemd"
    Faults = {"failure", "unavailable", "crash", "reboot"}
    MaxEvents = 5
    NoResource = NoResource
PROPERTY Converges
