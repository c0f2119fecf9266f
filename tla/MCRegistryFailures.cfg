CONSTANTS
    r1 = r1
    r2 = r2
    n1 = n1
    Requests <- MCRequests
    Serves <- FailingCalls
    Names = {n1}
    Unnamed = Unnamed
    Absent = Absent
    MaxSandboxes = 2
    MaxSnapshots = 1
    MaxAborts = 1
    MaxRestarts = 1
SPECIFICATION RegistrySpec
INVARIANTS
    MapIsPersisted
    AffinityIsOwn
    HydratedKnowsLive
    HydrationHasWorker
    AtRestAllAgree
PROPERTIES
    NameLostWithCause
