\* Old rejects, opening stock, adjustments and returns, each beside what posts the same stock.
SPECIFICATION Spec
CONSTANTS
    d0 = d0
    d1 = d1
    d2 = d2
    h2 = h2
    s2 = s2
    e0 = e0
    e1 = e1
    e2 = e2
    a1 = a1
    c1 = c1
    c2 = c2
    x1 = x1
    f1 = f1
    t1 = t1
    t2 = t2
    Tx = {t1, t2}
    Lot = {d0, h2}
    Entry = {e0, e2}
    Return = {c1, c2}
    Shipment = {x1}
    Adjustment = {a1}
    Opening = {f1}
    FirstLot = {}
    LooseEntry = {e0}
    Good = Good
    Row = {d0, h2, e0, e2, a1, f1, c1, c2, x1, Good}
    NoLot = NoLot
    NoReq = NoReq
    NoView = NoView
    EntryOf <- MCEntryOf
    PartLot <- MCPartLot
    ShipmentOf <- MCShipmentOf
    Shipped <- MCShipped
    OldQty = 1
    OpeningQty = 1
    Qty = {1}
    ReturnQty = {1, 2}
    Shift = {"rejects", "corrections", "returns"}
    OpsOf <- MCStoreDesks
VIEW MCView
SYMMETRY MCSymmetry
 
INVARIANT ReversedLeavesNoLot
INVARIANT AdjustmentReversedOnce
INVARIANT StockExplained
INVARIANT ReturnedWithinShipped
INVARIANT ReturnMovesOnce
INVARIANT ScrapWithinReturn
 
INVARIANT SInv
