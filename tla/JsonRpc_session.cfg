SPECIFICATION FairSpec
CONSTANTS
    Clients = {c1, c2}
    MaxCalls = 2
    BodyReads = 1
    MaxConns = 2
    MaxStarts = 2
INVARIANT AnswersOwnRequest
PROPERTIES CallReturns StopReturns
CHECK_DEADLOCK FALSE
