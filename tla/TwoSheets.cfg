\* A planner who creates two drafts of one cycle and period and locks both.
SPECIFICATION Spec
CONSTANTS
    p1 = p1
    t1 = t1
    t2 = t2
    Tx = {t1, t2}
    Period = {p1}
    MaxCycle = 2
    MaxSheet = 2
    MaxClose = 0
    MaxQty = 1
    Row <- MCRow
    NoReq = NoReq
    NoView = NoView
    OpsOf <- MCSheetsOnly
VIEW MCView
INVARIANT OneTerminalSheet
