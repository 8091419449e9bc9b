SPECIFICATION LiveSpec
CONSTANTS
    j1 = j1
    j2 = j2
    Jvm <- MCJvm
    Datacenter <- MCDatacenter
    Machine <- MCMachine
    DatacenterSize = 2
    MachineSize = 2
    SequenceSize = 2
    MaxTime = 2
    MaxSetBacks = 1
    MaxRestarts = 1
ACTION_CONSTRAINT OneFaultStep
INVARIANTS IInv IncreasingIds
PROPERTIES RefinesDistributedIds SpinEnds
