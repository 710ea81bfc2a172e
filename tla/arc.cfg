SPECIFICATION FairSpec
CONSTANTS
    queue = queue
    pnp = pnp
    nobody = nobody
    Callers <- MCCallers
    QueueThread = queue
    NoCaller = nobody
    NumEntries = 2
    WordModulus = 16
    NumRoutes = 2
    MaxRounds = 2
    MaxMsgs = 3
INVARIANTS
    TypeOK
    OneExchange
    NoAccessWhileRestricted
    NoUnmappedAccess
    RouteAnswered
    RequestsInOrder
    RequestRingBounded
    AnswerOwnUntilTimeout
    AnswerWasAsked
PROPERTY EveryCallReturns
