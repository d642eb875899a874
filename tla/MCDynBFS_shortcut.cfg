SPECIFICATION Spec
CONSTANTS
    NumNodes = 4
    Threads = {t1, t2}
    Teams <- AllTeams
    Inputs <- ShortcutInputs
    source = 0
    FloatMax = 99
INVARIANT DepthsAreShortest
