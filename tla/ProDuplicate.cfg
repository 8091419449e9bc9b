SPECIFICATION FaultFreeSpec
CONSTANTS
    Jvm = {j1, j2}
    NoOne = NoOne
    Period = 3
    LowWater = 2
    MaxNode = 15
    MaxExpiries = 0
SYMMETRY Symmetry
INVARIANT UniqueIds
