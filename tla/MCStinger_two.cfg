SPECIFICATION Spec
CONSTANTS
    Threads = {t1, t2}
    Dests = {0, 1, 2}
    Weights = {1, 2}
    BlockSize = 2
    MARKER = 99
    MaxOps = 4
INVARIANTS NoDuplicateNeighbors ReadyToTraverse
PROPERTIES EdgesStayPut ImplementsNeighborMap
SYMMETRY Symmetry
