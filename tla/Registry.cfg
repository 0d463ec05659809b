SPECIFICATION FairSpec
CONSTANTS
    Id = {a, b, c}
    Field = {"depends_on", "reload_on"}
    MaxLinks = 2
INVARIANTS OrderIsTopological CycleIsReal
CHECK_DEADLOCK FALSE
PROPERTY SortTerminates
