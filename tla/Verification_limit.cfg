\* A success that was sent before a limit was recorded.
CONSTANTS
    monitor = monitor
    admin = admin
    r1 = r1
    r2 = r2
    k1 = k1
    k2 = k2
    NoCheck = NoCheck
    NoCred = NoCred
    Checkers = {monitor, admin}
    Monitor = monitor
    MonitorActive = TRUE
    Requests = {r1}
    Creds = {k1, k2}
    ProbeTimeout = 1
    LeaseSlack = 2
    RestartGap = 1
    MaxLag = 1
    ScanCap = 1
    HoldWindows = {1}
    RetryDelays = {1}
    Backoffs = {1}
    Cooldowns = {}
    MaxTime = 3
    MaxAttempts = 1
SPECIFICATION Spec
PROPERTY OnlyStaleLimitsAreCleared
