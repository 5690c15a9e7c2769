SPECIFICATION MCSpec
CONSTANTS
    NFiles = 2
    Within = 2
    MaxUptime = 2
    MaxBoots = 2
    MaxExits = 2
    MaxFailures = 2
    k1 = k1
    k2 = k2
    a = a
    b = b
    Key = {k1, k2}
    Source = {a, b}
    LegacyBase <- Base
    MaxPublish = 2
    MaxStop = 2
    r1 = r1
    r2 = r2
    Root = {r1, r2}
    Rank <- MCRank
    Joint = FALSE
    MaxGeneration = 1
    MaxDocument = 1
    MaxInterrupt = 1
    MaxJournal = 7
    MaxHostFault = 2
    MaxOutage = 1
    p1 = p1
    p2 = p2
    p3 = p3
    v4 = v4
    v6 = v6
    h1 = h1
    h2 = h2
    Prefix = {p1, p2, p3}
    Family = {v4, v6}
    FamilyOf <- MCFamilyOf
    Relay = {h1, h2}
    MaxTransitFault = 2
INVARIANTS
    SettledExactly
    TransitCovered
    
    ReceiversAccounted
    NothingStaleRestored
PROPERTIES
    ForeignPreserved
    GuardSettles
    NeighborsSettle
    
    HostServes
    OfflineRecovers
    CleanupFinishes
CHECK_DEADLOCK FALSE
