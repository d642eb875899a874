SPECIFICATION Spec
CONSTANTS
    NumNodes = 3
    Weights = {1, 2}
    Directions = {TRUE, FALSE}
    MaxEdges = 4
INVARIANTS RowPerVertex NoDuplicateNeighbors
PROPERTY ImplementsEdgeStore
