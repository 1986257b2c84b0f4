CONSTANTS
    Tenants = {t1, p}
    ProdTenants = {p}
    Collectors = {g1, g2}
    TTL = 2
    MaxSetup = 2
    MaxStart = 1
    MaxTime = 8
SPECIFICATION FairSpec
PROPERTIES ProdNeverDeleted FullTermServed TokenOrphanedBriefly EveryDemoEnds
