SPECIFICATION Spec
CONSTANTS
    o1 = o1
    o2 = o2
    i1 = i1
    l1 = l1
    l2 = l2
    d1 = d1
    d2 = d2
    d3 = d3
    q1 = q1
    q2 = q2
    q3 = q3
    t1 = t1
    t2 = t2
    NoReq = NoReq
    NoView = NoView
    Tx = {t1, t2}
    SO = {o1}
    Item = {i1}
    Line = {l1}
    Dispatch = {d1, d2}
    QcEntry = {q1, q2}
    Row = {o1, i1, l1, d1, d2, q1, q2}
    SoOf <- MCSoOf
    ItemOf <- MCItemOf
    Ordered <- MCOrdered
    Produced <- MCSurplus
    LineOf <- MCLineOf
    BatchOf <- MCBatchOf
    QcQty <- MCQcQty
    Legacy = {q1}
    LegacyStock <- MCLegacyTwo
    Qty = {1, 2}
    Targets = {"COMPLETED"}
    Ops = {"post", "lock", "finalize", "delete", "qcPost", "qcReverse", "status"}
SYMMETRY Symmetry
INVARIANT BooksBalance
INVARIANT QInv
INVARIANT CInv
PROPERTY NothingMovesOnceCompleted
