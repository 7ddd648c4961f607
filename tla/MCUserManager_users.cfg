CONSTANTS
    orig = orig
    cross = cross
    Users = {u1, u2, u3, u4}
    Managers = {orig, cross}
    Threads = {orig, cross, u1, u2, u3, u4}
    Quota <- MCQuota
    Capacity = 4
    WaitCapacity = 2
    MayFailLookup = TRUE
SPECIFICATION Spec
VIEW View
SYMMETRY UserSymmetry
INVARIANT NeverFull
PROPERTIES ImplementsPool NeverEmptyOnceCreated
CHECK_DEADLOCK FALSE
