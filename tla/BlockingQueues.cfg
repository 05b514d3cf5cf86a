SPECIFICATION QueuesSpec
CONSTANTS
    reader = reader
    writer = writer
    Readers <- OneReader
    Writers <- OneWriter
    InitCapacity = 4
    MaxCapacity = 5
    MaxTransfer = 2
    Values = {0, 1}
    Junk = Junk
    t1 = t1
    t2 = t2
    t3 = t3
    d1 = d1
    d2 = d2
    d3 = d3
    Users <- ThreeThreads
    Data <- ThreeBlocks
INVARIANTS NoSleepOnReadyRing NoLostWakeup DataOwnedOnce
PROPERTIES ImplementsByteFifo FrontIsTaken
CHECK_DEADLOCK FALSE
