CONSTANTS
    Rules <- SmallRules
    AuditEvents <- SmallEvents
    EngineRelays = {r1}
    CentralRelays = {r3}
    Table <- SmallTable
    Credentials = {"slack"}
    NoTenant = NoTenant
    t1 = t1
    t2 = t2
    MaxSkew = 1
    MaxBatch = 2
    MaxEvents = 3
    MaxTime = 5
SYMMETRY Symmetry
SPECIFICATION AlertsSpec
INVARIANTS AlertsTypeOK NothingSwallowed PostedOnce NoMatchMissed
PROPERTY FiresOnBursts
CHECK_DEADLOCK FALSE
