SPECIFICATION Spec
CONSTANTS
    NumNodes = 3
    Weights = {1, 2}
    Setups <- MCSetups
    MaxEdges = 2
INVARIANTS WithinChunk NothingStranded
PROPERTIES ImplementsAdList UpdateReturns
