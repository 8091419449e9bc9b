SPECIFICATION Spec
CONSTANTS
    Object = {o1, o2}
    Thread = {t1, t2}
    MaxValue = 3
    MaxCounter = 5
    MaxCalls = 5
SYMMETRY Symmetry
INVARIANTS
    IInv
    ObjectsDistinct
    AloneCorrect
