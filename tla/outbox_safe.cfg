CONSTANTS
    Events <- OneEvent
    Relays = {r1}
    Operators = {}
    BatchSize = 1
    MaxRetries = 2
    BackoffCap = 4
    Safe = TRUE
    MaxFaults = 0
SPECIFICATION Spec
INVARIANT SafeCarriesOn
CHECK_DEADLOCK FALSE
