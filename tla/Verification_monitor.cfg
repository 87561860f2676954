\* The monitor alone keeps the hold moving; a request, the operator and crashes interfere.
CONSTANTS
    monitor = monitor
    admin = admin
    r1 = r1
    r2 = r2
    k1 = k1
    k2 = k2
    NoCheck = NoCheck
    NoCred = NoCred
    Checkers = {monitor}
    Monitor = monitor
    MonitorActive = TRUE
    Requests = {r1}
    Creds = {k1}
    ProbeTimeout = 1
    LeaseSlack = 2
    RestartGap = 1
    MaxLag = 1
    ScanCap = 1
    HoldWindows = {1, 3}
    RetryDelays = {1}
    Backoffs = {1}
    Cooldowns = {1}
    MaxTime = 3
    MaxAttempts = 2
SPECIFICATION FairSpec
PROPERTY HoldIsRechecked
