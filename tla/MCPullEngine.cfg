SPECIFICATION Spec
CONSTANTS
    NumNodes = 3
    Threads = {t1, t2}
    LocalSize = 1
    BatchSizes <- TwoThenOne
    Options <- DirectedCC
    Lengths = {1}
    Widths = {1}
    DistInf = 3
INVARIANTS Converged SameAsFromScratch QueuedOnce OneWriter
PROPERTIES OnlyImproves ComputeTerminates
