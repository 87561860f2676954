\* One request among changes to the pool, with every mixture of answers.
CONSTANTS
    a1 = a1
    a2 = a2
    a3 = a3
    r1 = r1
    r2 = r2
    AnyAccount = AnyAccount
    Requests = {r1}
    Accounts = {a1, a2}
    EndpointCount = 2
    MaxCapacityRetries = 1
    MaxAccountAttempts = 2
    MaxWait = 1
    MaxFailures = 0
    Cooldown = 1
    Backoffs = {1}
    MaxLimit = 1
    TokenMax = 1
    TokenParts = 1
SPECIFICATION Spec
SYMMETRY Alike
INVARIANTS
    TypeOK
    TriesEachAccountOnce
    BoundedAttempts
