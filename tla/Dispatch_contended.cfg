\* Two requests and the verification checks compete for one account.
CONSTANTS
    a1 = a1
    a2 = a2
    a3 = a3
    r1 = r1
    r2 = r2
    AnyAccount = AnyAccount
    Requests = {r1, r2}
    Accounts = {a1}
    EndpointCount = 1
    MaxCapacityRetries = 0
    MaxAccountAttempts = 1
    MaxWait = 2
    MaxFailures = 0
    Cooldown = 1
    Backoffs = {1}
    MaxLimit = 1
    TokenMax = 1
    TokenParts = 1
SPECIFICATION FairSpec
PROPERTY EveryRequestEnds
