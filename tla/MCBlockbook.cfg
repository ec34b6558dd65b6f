SPECIFICATION Spec
CONSTANTS
    a1 = a1
    a2 = a2
    a3 = a3
    c1 = c1
    c2 = c2
    c3 = c3
    k1 = k1
    k2 = k2
    t1 = t1
    t2 = t2
    Addrs = {a1, a2, a3}
    Conns = {c1, c2}
    Calls = {k1, k2}
    Txs = {t1, t2}
    TxOf <- MCTxOf
    MaxAddresses = 2
    MaxDrops = 1
    Scanned = {a1}
SYMMETRY MCSymmetry
INVARIANTS
    TypeOK
    HubAgrees
    SentIsSettled
    OwedIsWatched
    BlockFeedReturns
CHECK_DEADLOCK FALSE
