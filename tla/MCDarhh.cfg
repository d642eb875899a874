SPECIFICATION DarhhSpec
CONSTANTS
    NumNodes = 4
    w1 = w1
    w2 = w2
    Weights = {w1, w2}
    Setups <- MCSetups
    LdCapacity = 4
    EcCapacity = 4
    LoadPercent = 75
    MaxSubmitted = 3
SYMMETRY WeightSymmetry
INVARIANTS ProbeOrder RoomLeft DegreeExact
PROPERTY DarhhImplementsEdgeStore
