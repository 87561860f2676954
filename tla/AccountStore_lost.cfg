\* The promise of store.rs without the proviso that locks are respected.
CONSTANTS
    gateway = gateway
    cli = cli
    g1 = g1
    g2 = g2
    c1 = c1
    NoThread = NoThread
    Procs <- TwoProcs
    Threads <- AllThreads
    ProcOf <- Owners
    MaxMutations = 1
    LockTimeout = 1
    StaleAfter = 3
SPECIFICATION Spec
INVARIANT NoLostUpdatesEver
