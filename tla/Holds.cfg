\* A QC desk and a supervisor on a legacy lot and the lots split off it.
SPECIFICATION Spec
CONSTANTS
    d0 = d0
    d1 = d1
    d2 = d2
    h2 = h2
    s2 = s2
    e0 = e0
    e1 = e1
    e2 = e2
    a1 = a1
    c1 = c1
    c2 = c2
    x1 = x1
    f1 = f1
    t1 = t1
    t2 = t2
    Tx = {t1, t2}
    Lot = {d1, d2}
    Entry = {e1}
    Return = {}
    Shipment = {}
    Adjustment = {}
    Opening = {}
    FirstLot = {d1}
    LooseEntry = {}
    Good = Good
    Row = {d1, d2, e1, Good}
    NoLot = NoLot
    NoReq = NoReq
    NoView = NoView
    EntryOf <- MCEntryOf
    PartLot <- MCPartLot
    ShipmentOf <- MCShipmentOf
    Shipped <- MCShipped
    OldQty = 2
    OpeningQty = 1
    Qty = {1, 2}
    ReturnQty = {1}
    Shift = {"lots"}
    OpsOf <- MCLotDesks
VIEW MCView
INVARIANT TypeOK
INVARIANT ReworkOnce
INVARIANT LInv
INVARIANT ClosedOwnsNothing
INVARIANT ReadyHasRework
 
PROPERTY ImplementsGoods
