SPECIFICATION Spec
CONSTANTS
    o1 = o1
    o2 = o2
    i1 = i1
    l1 = l1
    l2 = l2
    d1 = d1
    d2 = d2
    d3 = d3
    q1 = q1
    q2 = q2
    q3 = q3
    t1 = t1
    t2 = t2
    t3 = t3
    NoReq = NoReq
    NoView = NoView
    Tx = {t1, t2, t3}
    SO = {o1, o2}
    Item = {i1}
    Line = {l1, l2}
    Dispatch = {d1, d2}
    QcEntry = {q1}
    Row = {o1, o2, i1, l1, l2, d1, d2, q1}
    SoOf <- MCSoOf
    ItemOf <- MCItemOf
    Ordered <- MCOrdered
    Produced <- MCFirstOnly
    LineOf <- MCLineOf
    BatchOf <- MCBatchOf
    QcQty <- MCQcQty
    Legacy = {q1}
    LegacyStock <- MCLegacyTwo
    Qty = {1}
    Targets = {"APPROVED", "COMPLETED"}
    Ops = {"post", "reverse", "qcReverse", "status", "cancel"}
SYMMETRY Symmetry
INVARIANT LockedByRank
INVARIANT NoWaitCycle
