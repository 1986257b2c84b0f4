CONSTANTS
    Requests = {r1, r2}
    alice = alice
    robot = robot
    x = x
    y = y
    doc = doc
    Subs = {alice, robot}
    Services = {robot}
    Tenants = {x, y}
    Roles = {"admin", "viewer"}
    Resources = {doc}
    TenantOf <- MCTenantOf
    Confers <- MCConfers
    Audiences = {"bsage", "bsnexus"}
    Tokens <- MCTokens
    Claims <- MCClaims
    Configs <- MCConfigs
    InitialTuples <- MCInitialTuples
    Asks <- MCAsks
    None = None
    MaxRequests = 2
    MaxChanges = 1
SPECIFICATION Spec
INVARIANTS HeaderVetted DecisionsBacked ServicesStayInTheirOwn RejectedForReason
PROPERTIES ProvisionsWhereKnown EveryoneAnswered
CHECK_DEADLOCK FALSE
