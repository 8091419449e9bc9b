SPECIFICATION OrderNoSpec
CONSTANTS
    Jvm = {j1, j2}
    Thread = {t1, t2}
    NoThread = NoThread
    Caller = {c1, c2}
    Period = 3
    Reserve = 2
    MaxCounter = 7
SYMMETRY Symmetry
INVARIANTS
    IncreasingIds
    OrderNoIInv
    SharedIdStartsSegment
PROPERTIES
    RefinesDistributedIds
    PlainRefines
