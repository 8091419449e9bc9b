SPECIFICATION AutoSpec
CONSTANTS
    Jvm = {j1, j2}
    Machines = 3
    Valid = 3
    FirstRenewal = 1
    MaxLate = 0
    MaxFailures = 0
    MaxNow = 3
    DatacenterBit = 1
    MachineBit = 1
    SequenceBit = 1
    MaxCrashes = 1
    MaxIds = 2
SYMMETRY Symmetry
INVARIANT IdsUnique
\* The instance ends: its clock stops at MaxNow.
CHECK_DEADLOCK FALSE
