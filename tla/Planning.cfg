\* A planner on the sheets of a NO_QTY order, beside the office that repairs its cycles.
SPECIFICATION Spec
CONSTANTS
    p1 = p1
    t1 = t1
    t2 = t2
    Tx = {t1, t2}
    Period = {p1}
    MaxCycle = 3
    MaxSheet = 2
    MaxClose = 0
    MaxQty = 1
    Row <- MCRow
    NoReq = NoReq
    NoView = NoView
    OpsOf <- MCPlannerAndOffice
VIEW MCView
INVARIANT CyclesInOrder
 
 
 
