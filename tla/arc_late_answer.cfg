SPECIFICATION Spec
CONSTANTS
    queue = queue
    pnp = pnp
    nobody = nobody
    Callers <- MCCallers
    QueueThread = queue
    NoCaller = nobody
    NumEntries = 2
    WordModulus = 16
    NumRoutes = 1
    MaxRounds = 1
    MaxMsgs = 3
INVARIANT AnswerIsOwn
