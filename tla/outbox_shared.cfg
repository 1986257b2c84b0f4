CONSTANTS
    Events <- TwoEvents
    Relays = {r1, r2}
    Operators = {op}
    BatchSize = 2
    MaxRetries = 2
    BackoffCap = 1
    Safe = FALSE
    MaxFaults = 1
SPECIFICATION Spec
SYMMETRY RelaySymmetry
INVARIANTS NoUnauditedWrite DeliveredBeforeAlerted BudgetRespected
PROPERTY ImplementsDelivery
CHECK_DEADLOCK FALSE
