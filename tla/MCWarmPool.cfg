\* One sandbox short of demand: every race over the last idle sandbox occurs.
CONSTANTS
    c1 = c1
    c2 = c2
    f1 = f1
    s1 = s1
    s2 = s2
    None = None
    Clients <- MCClients
    Fillers <- MCFillers
    Sandboxes <- MCSandboxes
    Target = 1
SPECIFICATION FairPoolSpec
INVARIANTS
    PoolTypeOK
    OnePlaceEach
    ExclusiveLease
    StatsCountOnce
PROPERTIES
    ImplementsLease
    CallsReturn
