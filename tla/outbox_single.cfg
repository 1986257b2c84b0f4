CONSTANTS
    Events <- TwoEvents
    Relays = {r1}
    Operators = {}
    BatchSize = 1
    MaxRetries = 3
    BackoffCap = 2
    Safe = TRUE
    MaxFaults = 2
SPECIFICATION FairSpec
INVARIANT SettledOneWay
PROPERTIES EveryFailureCounts EventuallySettled
CHECK_DEADLOCK FALSE
