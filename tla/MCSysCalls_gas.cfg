SPECIFICATION Spec
CONSTANTS
    GasLimit = 2730
    DefaultGas = 100
    InvokePrice = 1
    Nodes = {1, 2, 3}
    Versions = {"2300", "2310", "2312"}
    StartGases = {0, 2710}
    MaxDepth = 3
    MaxCalls = 2
CHECK_DEADLOCK FALSE
PROPERTY GasKept
