CONSTANTS
    r1 = r1
    r2 = r2
    p1 = p1
    p2 = p2
    Requests <- MCRequests
    Processes = {p1}
    Serves <- Reads
    Owners = {p1}
    MaxAborts = 1
SPECIFICATION FairProcessSpec
INVARIANTS
    NoLaunchOverSeen
PROPERTIES
    EndIsRecorded
CHECK_DEADLOCK FALSE
