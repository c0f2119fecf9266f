CONSTANTS
    r1 = r1
    r2 = r2
    p1 = p1
    p2 = p2
    Requests <- MCRequests
    Processes <- TwoProcesses
    Serves <- Starts
    Owners = {}
    MaxAborts = 0
SPECIFICATION ProcessSpec
INVARIANTS
    OneProcessPerSandbox
SYMMETRY SymmetricRequests
CHECK_DEADLOCK FALSE
