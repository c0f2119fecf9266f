CONSTANTS
    r1 = r1
    r2 = r2
    p1 = p1
    p2 = p2
    Requests <- MCRequests
    Processes = {p1}
    Serves <- Cancels
    Owners = {}
    MaxAborts = 0
SPECIFICATION ProcessSpec
INVARIANTS
    CancelEndsTree
CHECK_DEADLOCK FALSE
