SPECIFICATION Spec
CONSTANTS
    Proc = {p, q}
    Entry = {d, e}
    MaxRuns = 3
    Faults = {"kill", "io", "clear"}
    NoProc = NoProc
SYMMETRY Symmetry
INVARIANTS SnapshotFresh MetricHonest
PROPERTY DryRunReadOnly
CHECK_DEADLOCK FALSE
