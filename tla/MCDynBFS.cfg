SPECIFICATION Spec
CONSTANTS
    NumNodes = 4
    Threads = {t1, t2}
    Teams <- AllTeams
    Inputs <- AllInputs
    source = 0
    FloatMax = 99
INVARIANTS ReachableReached NeverTooShallow QueuedOnce DepthsAreShortestAlone
PROPERTY ComputeTerminates
