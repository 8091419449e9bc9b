SPECIFICATION Spec
CONSTANTS
    Thread = {t1, t2}
    Orphan = Orphan
    MaxCalls = 1
    MaxFaults = 0
INVARIANT Exclusion
