CONSTANTS
    a = a
    b = b
    t1 = t1
    t2 = t2
    t3 = t3
    t4 = t4
    Groups = {a, b}
    Txs = {t1, t2, t3, t4}
    TxGroup <- MCTxGroup
    TxKind <- MCTxKind
    DeepTxs = {t4}
    Procs = {p1}
    Conns = {c1}
    EventCap = 2
    Settings <- MCSettings
SPECIFICATION Spec
INVARIANTS  BufferedIsTimed  DiskMatchesCache
CHECK_DEADLOCK FALSE
