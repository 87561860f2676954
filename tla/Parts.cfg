SPECIFICATION PartsSpec
CONSTANTS
    Tasks = {t1, t2}
    Owners = {o1, o2}
    ExpiresIn = {0, 1, 3}
    DefaultLife = 2
    Buffer = 1
    LastTime = 2
    MaxClears = 2
    Seekers = {s1, s2}
    Hosts = 2
    Polls = 1
    ProjectLife = 2
    LastMoment = 3
    NoProject = NoProject
    Writers = {w1, w2}
    Calls = {k1, k2}
    Conversations = {c1}
    Families = {f1}
    MaxEntries = 1
    SignatureLife = 1
    LastInstant = 2
    SessionKeys = {n1, n2}
    MaxSessions = 1
    SessionLife = 2
    LastWall = 3
    MaxRequests = 3
    Completions <- mcCompletions
    Listers = {l1, l2}
    Strangers <- mcStrangers
    ListLife = 1
    LastHour = 2
    Ports <- mcPorts
    LoopbackFamilies = {v4, v6}
    Operators = {x1}
    Secrets = {a1, a2}
    Emails = {"none", "e1"}
    ProjectIds = {"none", "p1"}
    PoolSize = 3
    TokenMax = 2
    MaxAttempts = 3
    LastTick = 1
    Answers <- mcAnswers
    MaxRefusals = 4
    MaxRecords = 3
    ToolCalls <- mcToolCalls
    JsonSchemas <- mcJsonSchemas
    ToolSchemas <- mcToolSchemas
    OutputLimit = 65536
    ThinkingBudgets <- mcThinkingBudgets
    OutputAsked = {0, 64, 100000}
    MaxMessages = 5
INVARIANTS
    OneRefresh
    ClearLeavesOneOldToken
    SignaturesComeBack
    RequestIdsGrow
    ListFailsOpen
    OneQuotaPerModel
    CallbackIsAwaited
    OneEntryPerCredential
    RotationIsFair
    QuotaHoldsClimb
    UpstreamTakesRequest
PROPERTIES
    GateIsPassedOn
    OnlyAnEarlierSearchCosts
    CommandHitsWhatWasSeen
    ClosingDrains
CHECK_DEADLOCK FALSE
