SPECIFICATION FairSpec
CONSTANTS
    s1 = s1
    s2 = s2
    r1 = r1
    b1 = b1
    b2 = b2
    b3 = b3
    b4 = b4
    Owner = owner
    NoBody = NoBody
    Senders <- OneSender
    Receivers <- OneReceiver
    Bodies <- FourBodies
    MaxMsgs = 2
INVARIANT EveryBodyOwnedOnce
PROPERTIES ImplementsFifo SentIsConsumed
CHECK_DEADLOCK FALSE
