\* One gateway, two threads, crashes and restarts.
CONSTANTS
    gateway = gateway
    cli = cli
    g1 = g1
    g2 = g2
    c1 = c1
    NoThread = NoThread
    Procs <- OneProc
    Threads = {g1, g2}
    ProcOf <- GatewayOwners
    MaxMutations = 1
    LockTimeout = 2
    StaleAfter = 3
SPECIFICATION FairSpec
INVARIANT NeverStolen
PROPERTY MutateReturns
