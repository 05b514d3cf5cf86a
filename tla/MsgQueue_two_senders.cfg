SPECIFICATION Spec
CONSTANTS
    s1 = s1
    s2 = s2
    r1 = r1
    b1 = b1
    b2 = b2
    b3 = b3
    b4 = b4
    Owner = owner
    NoBody = NoBody
    Senders <- TwoSenders
    Receivers <- OneReceiver
    Bodies <- ThreeBodies
    MaxMsgs = 2
INVARIANT ReceivedMessageFilled
CHECK_DEADLOCK FALSE
