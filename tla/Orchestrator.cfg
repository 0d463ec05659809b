SPECIFICATION FairSpec
CONSTANTS
    Resource = {a, b, c}
    NoId = NoId
INVARIANTS DependenciesHold NotifyExact
PROPERTIES StopsAtFailure RunCompletes
CHECK_DEADLOCK FALSE
