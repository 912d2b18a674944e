SPECIFICATION Spec
CONSTANTS
    o1 = o1
    o2 = o2
    i1 = i1
    l1 = l1
    l2 = l2
    d1 = d1
    d2 = d2
    d3 = d3
    q1 = q1
    q2 = q2
    q3 = q3
    t1 = t1
    t2 = t2
    NoReq = NoReq
    NoView = NoView
    Tx = {t1, t2}
    SO = {o1}
    Item = {i1}
    Line = {l1}
    Dispatch = {d1, d2}
    QcEntry = {q1}
    Row = {o1, i1, l1, d1, d2, q1}
    SoOf <- MCSoOf
    ItemOf <- MCItemOf
    Ordered <- MCOrdered
    Produced <- MCExact
    LineOf <- MCLineOf
    BatchOf <- MCBatchOf
    QcQty <- MCQcQty
    Legacy = {q1}
    LegacyStock <- MCLegacyTwo
    Qty = {1, 2}
    Targets = {"APPROVED", "COMPLETED"}
    Ops = {"post", "lock", "finalize", "delete", "reverse"}
SYMMETRY Symmetry
INVARIANT IInv
INVARIANT TypeOK
INVARIANT PostedOnce
INVARIANT NetWithinOrdered
INVARIANT StampMeansFullyReversed
PROPERTY FrozenOnceLocked
