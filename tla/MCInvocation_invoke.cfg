SPECIFICATION Spec
CONSTANTS
    t1 = t1  t2 = t2  s1 = s1  s2 = s2  c1 = c1
    Txs = {t1, t2}
    Streams = {s1, s2}
    Clients = {c1}
    MaxCalls = 1
    MaxFaults = 1
    TxCap = 1
    ByteCodeCap = 1
    MaxEngineMsgs = 1
    OldBlock = TRUE
SYMMETRY StreamSymmetry
CHECK_DEADLOCK FALSE
INVARIANTS TablesMatch RequestIsOwn RespondsToAsker StreamNeverWaits ResponseHasRoom
