\* A planner who also closes and reopens the order, and the store that ships its cycles.
SPECIFICATION Spec
CONSTANTS
    p1 = p1
    t1 = t1
    t2 = t2
    Tx = {t1, t2}
    Period = {p1}
    MaxCycle = 2
    MaxSheet = 2
    MaxClose = 1
    MaxQty = 1
    Row <- MCRow
    NoReq = NoReq
    NoView = NoView
    OpsOf <- MCOfficeAndStore
VIEW MCView
INVARIANT TypeOK
INVARIANT IInv
PROPERTY ImplementsSequence
