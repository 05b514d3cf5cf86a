SPECIFICATION Spec
CONSTANTS
    Tasks = {t1, t2, t3}
    Queues = {q1, q2, q3}
    NoQueue = NoQueue
    TableSize = 2
    NoElements = 2
SYMMETRY Symmetry
INVARIANTS ElementsOwnedOnce SemaphoresCount TableConsistent
PROPERTY ImplementsMessagePool
