SPECIFICATION AccountsSpec
CONSTANTS
    a = a
    Account = {a, b}
    FirstRows <- TwoRows
    Gone = Gone
    PageSizes = {1, 2}
    MaxCalls = 3
    MaxFeignCalls = 1
INVARIANTS
    IInv
    ListSettles
    ListFresh
    SuccessKept
CHECK_DEADLOCK FALSE
