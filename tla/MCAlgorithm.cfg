SPECIFICATION PerformSpec
CONSTANTS
    NumNodes = 3
    Threads = {t1, t2}
    LocalSize = 2
    BatchSizes <- TwoThenOne
    Options <- EveryOption
    Lengths = {1, 3}
    Widths = {1, 2}
    DistInf = 9
SYMMETRY Symmetry
INVARIANT ResultFromScratch
