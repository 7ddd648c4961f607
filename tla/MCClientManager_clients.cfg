CONSTANTS
    Chains = {c1}
    Total = 2
    EventCap = 2
    TxCap = 2
    MaxTxs = 2
    MaxFaults = 1
SPECIFICATION FairSpec
INVARIANTS ConnectionsKept 
PROPERTIES  StartVMReturns
CHECK_DEADLOCK FALSE
