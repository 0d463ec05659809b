CONSTANTS
    NumUnits = 1
    Units <- MCUnits
    HealthChecked <- MCHealthChecked
    Actions = {"restart", "reload_or_restart", "reload"}
    MaxAttempts = 2
    Faults = {"crash", "io", "clear", "signal"}
    MaxFaults = 2
    NoKey = NoKey
SPECIFICATION FairSpec
PROPERTIES ImplementsQueue EntrySettles
