SPECIFICATION FairLockSpec
CONSTANTS
    Thread = {t1, t2}
    NoOne = NoOne
    Dead = Dead
    Orphan = Orphan
    Lease = {1, 2}
    Watchdog = 2
    MaxCalls = 2
    MaxFaults = 1
INVARIANTS
    IInv
    ZkIInv
    ZkLocalAgrees
PROPERTIES
    RefinesDistributedLock
    ZkRefines
    CallsEnd
