\* A gateway and an operator's command on one directory.
CONSTANTS
    gateway = gateway
    cli = cli
    g1 = g1
    g2 = g2
    c1 = c1
    NoThread = NoThread
    Procs <- TwoProcs
    Threads <- AllThreads
    ProcOf <- Owners
    MaxMutations = 1
    LockTimeout = 1
    StaleAfter = 1
SPECIFICATION Spec
CONSTRAINT LockRespected
INVARIANTS
    TypeOK
    MutualExclusion
    NoLostUpdates
    NoTornWrites
    ReadYourWrites
PROPERTY ImplementsAtomicStore
