CONSTANTS
    NumUnits = 2
    Units <- MCUnits
    HealthChecked <- MCHealthChecked
    Actions = {"restart", "reload"}
    MaxAttempts = 2
    Faults = {"crash", "io", "clear", "clear_running", "signal"}
    MaxFaults = 2
    NoKey = NoKey
SPECIFICATION Spec
INVARIANTS AtLeastOnce NoSubsumedPair BoundedRetries
