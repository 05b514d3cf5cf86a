SPECIFICATION LoopSpec
CONSTANTS
    m1 = m1
    m2 = m2
    Mods <- TwoBlocks
    NULL = NULL
    Types = {0, 1}
    MaxMsgs = 2
    MaxModules = 2
INVARIANTS IdsUnique DeliveredAsAddressed
PROPERTIES StopEndsLoop SendersServed
CHECK_DEADLOCK FALSE
