CONSTANTS
    r1 = r1
    r2 = r2
    p1 = p1
    p2 = p2
    Requests <- MCRequests
    Processes = {p1}
    Serves <- Changes
    Owners = {}
    MaxAborts = 1
SPECIFICATION ProcessSpec
INVARIANTS
    ProcessTypeOK
    VerdictTruthful
    ExpiryIffTerminal
PROPERTIES
    RecordOutlivesProcess
CHECK_DEADLOCK FALSE
