SPECIFICATION Spec
CONSTANTS
    Threads = {t1, t2, t3}
    Dests = {0, 1, 2}
    Weights = {1}
    BlockSize = 1
    MARKER = 99
    MaxOps = 3
PROPERTY InsertionsComplete
