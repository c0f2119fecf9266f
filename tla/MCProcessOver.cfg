CONSTANTS
    r1 = r1
    r2 = r2
    p1 = p1
    p2 = p2
    Requests <- MCRequests
    Processes = {p1}
    Serves <- StartsAndGets
    Owners = {}
    MaxAborts = 0
SPECIFICATION ProcessSpec
PROPERTIES
    TerminalOnce
SYMMETRY SymmetricRequests
CHECK_DEADLOCK FALSE
