SPECIFICATION Spec
CONSTANTS
    Procs = {p1, p2}
    Names = {n1, n2, n3, n4}
    Groups = {g1}
    g1 = g1
    g2 = g2
    u1 = u1
    u2 = u2
    Users = {u1, u2}
    MaxProcessNum = 2
    ReleaseTarget = 1
    EventBound = 1
    SignalBound = 1
    ReplyBound = 0
    Contract <- MCContract
    UserQueue <- MCUserQueue2
    Load <- MCLoad21
    MaxFaults = 1
    LaunchErrors = {"notExist", "execError", "other"}
    MayCrash = TRUE
    MayFailInit = TRUE
    MayOutrun = TRUE
VIEW View
INVARIANTS
    PoolInv
    WithinLimit
    UsersExclusive
    UserAvailable
    NoOrphanSandbox
CHECK_DEADLOCK FALSE
