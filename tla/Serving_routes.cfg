SPECIFICATION Spec
CONSTANTS
    Bodies <- MCBodies
    MaxRetries = 1
    MaxPrelude = 2
INVARIANTS
    TypeOK
    WholeLinesInOrder
    ChatStreamSaysTheSame
    ResponsesProtocol
    ResponsesStreamSaysTheSame
    EmptyOnlyAfterEveryRetry
    AuditedOnce
PROPERTY EveryRequestIsAnswered
