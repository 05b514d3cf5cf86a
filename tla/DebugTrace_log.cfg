SPECIFICATION TraceFairSpec
CONSTANTS
    Writers = {w1}
    MaxClients = 2
    Timeout = 0
INVARIANT TraceOnOpenSocket
PROPERTY NobodyStalls
CHECK_DEADLOCK FALSE
