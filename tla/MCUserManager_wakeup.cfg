CONSTANTS
    orig = orig
    cross = cross
    Users = {u1, u2}
    Managers = {orig, cross}
    Threads = {orig, cross, u1, u2}
    Quota <- MCQuota1
    Capacity = 2
    WaitCapacity = 2
    MayFailLookup = FALSE
SPECIFICATION FairSpec

PROPERTY GetReturns
CHECK_DEADLOCK FALSE
