SPECIFICATION Spec
CONSTANTS
    Jvm = {j1}
    NoOne = NoOne
    Period = 4
    LowWater = 2
    MaxNode = 16
    MaxExpiries = 1
INVARIANT IncreasingIds
PROPERTY RefinesDistributedIds
