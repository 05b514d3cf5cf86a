SPECIFICATION Spec
CONSTANTS
    NULL = NULL
    Nodes = {n1, n2, n3, n4}
    Entries = {n1, n2, n3, n4}
    ListHead = hd
    MaxTime = 3
    MaxLines = 4
    MaxSize = 1
    Keep = 1
    MaxBytes = 6
    MaxOpens = 2
    MaxItems = 4
    Keys = {1}
INVARIANTS LogKeepsLines SerialDelivers TreesSound ConversionsExact
PROPERTY ListsAreSequences
CHECK_DEADLOCK FALSE
