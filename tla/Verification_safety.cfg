\* The monitor, an operator's check and a request on one account.
CONSTANTS
    monitor = monitor
    admin = admin
    r1 = r1
    r2 = r2
    k1 = k1
    k2 = k2
    NoCheck = NoCheck
    NoCred = NoCred
    Checkers = {monitor, admin}
    Monitor = monitor
    MonitorActive = TRUE
    Requests = {r1}
    Creds = {k1, k2}
    ProbeTimeout = 1
    LeaseSlack = 1
    RestartGap = 1
    MaxLag = 1
    ScanCap = 1
    HoldWindows = {1}
    RetryDelays = {1}
    Backoffs = {1}
    Cooldowns = {}
    MaxTime = 2
    MaxAttempts = 1
SPECIFICATION Spec
SYMMETRY CredSymmetry
INVARIANTS
    TypeOK
    AtMostOneProbe
PROPERTIES
    LateChecksAreMute
    HoldOutlivesOldAnswers
