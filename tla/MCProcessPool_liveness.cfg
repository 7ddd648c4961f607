SPECIFICATION FairSpec
CONSTANTS
    Procs = {p1}
    Names = {n1, n2, n3, n4}
    Groups = {g1, g2}
    g1 = g1
    g2 = g2
    u1 = u1
    u2 = u2
    Users = {u1}
    MaxProcessNum = 1
    ReleaseTarget = 0
    EventBound = 1
    SignalBound = 1
    ReplyBound = 0
    Contract <- MCContract
    UserQueue <- MCUserQueue1
    Load <- MCLoad11
    MaxFaults = 0
    LaunchErrors = {}
    MayCrash = FALSE
    MayFailInit = FALSE
    MayOutrun = FALSE
PROPERTIES
    LockReleased
    
CHECK_DEADLOCK FALSE
