SPECIFICATION FairSpec
CONSTANTS
    c1 = c1
    c2 = c2
    w1 = w1
    r1 = r1
    r2 = r2
    NoReq = NoReq
    Clients <- TwoClients
    Workers <- OneWorker
    Reqs <- TwoReqs
    Outcomes = {"COMPLETED"}
    FreshFlag <- Garbage
INVARIANT CarefulClientsAreSafe
PROPERTY NobodyWaitsForever
CHECK_DEADLOCK FALSE
