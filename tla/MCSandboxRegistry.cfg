CONSTANTS
    r1 = r1
    r2 = r2
    n1 = n1
    Requests <- MCRequests
    Serves <- AnyCalls
    Names = {n1}
    Unnamed = Unnamed
    Absent = Absent
    MaxSandboxes = 2
    MaxSnapshots = 1
    MaxAborts = 0
    MaxRestarts = 0
SPECIFICATION RegistrySpec
INVARIANTS
    RegistryTypeOK
PROPERTIES
    ImplementsDirectory
