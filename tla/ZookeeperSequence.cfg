SPECIFICATION Spec
CONSTANTS
    j1 = j1
    j2 = j2
    c1 = c1
    c2 = c2
    c3 = c3
    Jvm <- MCJvm
    Caller <- MCCaller
    Home <- MCHome
    MaxNumber = 3
    MaxFaults = 1
INVARIANTS IInv CleanUndisturbed DeletedWereOlder
PROPERTY RefinesDistributedIds
