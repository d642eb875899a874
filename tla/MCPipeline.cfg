SPECIFICATION Spec
CONSTANTS
    Names = {"a", "b", "c"}
    BatchSize = 2
    MaxLines = 3
INVARIANTS FileOrderKept NodesCounted PrintedWhenComplete
PROPERTY Terminates
