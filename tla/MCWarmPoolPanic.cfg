\* The assertion of checkout, against a racing client.
CONSTANTS
    c1 = c1
    c2 = c2
    f1 = f1
    s1 = s1
    s2 = s2
    None = None
    Clients <- MCClients
    Fillers <- MCFillers
    Sandboxes <- MCSandboxes
    Target = 1
SPECIFICATION PoolSpec
INVARIANT RefillLeavesOne
