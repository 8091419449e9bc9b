SPECIFICATION AutoSpec
CONSTANTS
    Jvm = {j1, j2, j3}
    Machines = 3
    Valid = 3
    FirstRenewal = 1
    MaxLate = 2
    MaxFailures = 1
    MaxNow = 4
    DatacenterBit = 1
    MachineBit = 1
    SequenceBit = 1
    MaxCrashes = 1
    MaxIds = 3
SYMMETRY Symmetry
CONSTRAINT IdsWhileTimely
INVARIANTS
    AutoIInv
    SharedOnlyAfterLapse
    DistinctWhileTimely
    RegisteredWhileTimely
    PartsUnique
    IdsUniqueWhenFitting
\* The instance ends: its clock stops at MaxNow.
CHECK_DEADLOCK FALSE
