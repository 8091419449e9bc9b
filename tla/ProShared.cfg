SPECIFICATION LiveSpec
CONSTANTS
    Jvm = {j1, j2}
    NoOne = NoOne
    Period = 3
    LowWater = 2
    MaxNode = 9
    MaxExpiries = 0
INVARIANTS SegmentsExclusive IInv
PROPERTIES NeverBack LockServesWaiters
