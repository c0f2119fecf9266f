CONSTANTS
    r1 = r1
    r2 = r2
    p1 = p1
    p2 = p2
    Requests <- MCRequests
    Processes <- TwoProcesses
    Serves <- Starts
    Owners = {p1}
    MaxAborts = 0
SPECIFICATION ProcessSpec
PROPERTIES
    CleanupSparesBusySandbox
SYMMETRY SymmetricRequests
CHECK_DEADLOCK FALSE
