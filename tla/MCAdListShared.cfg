SPECIFICATION Spec
CONSTANTS
    NumNodes = 2
    Weights = {1, 2}
    Directions = {TRUE, FALSE}
    BatchSize = 3
    MaxEdges = 3
INVARIANTS NoDuplicateNeighbors MetaDataExact NoEdgeLost
