SPECIFICATION Spec
CONSTANTS
    w1 = w1
    r1 = r1
    o1 = o1
    Writers <- OneWriter
    Readers <- OneReader
    Others <- OneOther
    MaxElements = 2
    Values = {0, 1}
    Blank = Blank
    MaxCrashes = 2
INVARIANT UsesReadySync
CHECK_DEADLOCK FALSE
