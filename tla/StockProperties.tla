--------------------------- MODULE StockProperties ---------------------------
(***************************************************************************)
(* What the finished-goods buckets promise.                                *)
(***************************************************************************)
EXTENDS StockFlow

\* Types: rows of every table, and requests, views and locks of every connection.
TypeOK ==
    /\ db \in Tables
    /\ held \in [Tx -> [Row -> LockMode]]
    /\ req \in [Tx -> Request \cup {NoReq}]
    /\ at \in [Tx -> 0 .. 5]
    /\ \A t \in Tx : IF Idle(t) THEN req[t] = NoReq
                     ELSE req[t] # NoReq /\ at[t] <= Len(Plan(req[t]))
    /\ snap \in [Tx -> Tables \cup {NoView}]
    /\ answer \in [Tx -> Answer]
    /\ shift \in Shift

(***************************************************************************)
(* Lots.                                                                   *)
(***************************************************************************)

\* The rework stock of a lot is taken out once, whoever repeats the final QC
\* and whatever decisions run against it ("Prevent duplicate/parallel rechecks").
ReworkOnce ==
    \A d \in Lot : Owned(db, d, "REWORK") >= 0 /\ Owned(db, d, "QC_PENDING") >= 0

\* What is left on a held lot is what it owns in QC_HOLD, wherever it lies.
HeldIsOwned ==
    \A d \in Lot :
      Live(db, d) /\ db.lot[d].state = "HOLD" =>
        db.lot[d].rem = db.own[d]["read"]["QC_HOLD"] + db.own[d]["fg"]["QC_HOLD"]

\* A lot that is closed or scrapped owns nothing that still waits for a decision.
ClosedOwnsNothing ==
    \A d \in Lot :
      Live(db, d) /\ db.lot[d].state \in {"CLOSED", "SCRAP"} =>
        \A b \in {"QC_HOLD", "REWORK", "QC_PENDING"} : Owned(db, d, b) = 0

\* A lot that waits for final QC has the stock to check.
ReadyHasRework ==
    \A d \in Lot :
      Live(db, d) /\ db.lot[d].state = "REWORK_READY_FOR_QC" =>
        Owned(db, d, "REWORK") + Owned(db, d, "QC_PENDING") = db.lot[d].rem

\* A closed lot stays closed.
ClosedStays ==
    [][\A d \in Lot : db.lot[d].state \in {"CLOSED", "SCRAP"} =>
                        db'.lot[d].state = db.lot[d].state]_vars

\* Lots as RejectedGoods sees them: their stage, and the stock they own that waits.
StageOf(row) ==
    CASE row.state = "absent"                       -> "none"
      [] row.state # "absent" /\ row.void           -> "void"
      [] row.state \in {"SCRAP", "CLOSED"} /\ ~row.void -> "done"
      [] OTHER                                      -> "open"

WaitingOf(row, own) ==
    IF row.void THEN 0
    ELSE own["read"]["QC_HOLD"] + own["fg"]["QC_HOLD"]
         + own["read"]["REWORK"] + own["read"]["QC_PENDING"]

LotStage == [d \in Lot |-> StageOf(db.lot[d])]
LotWaiting == [d \in Lot |-> WaitingOf(db.lot[d], db.own[d])]

LotGoods == INSTANCE RejectedGoods WITH stage <- LotStage, waiting <- LotWaiting

\* Whatever handlers run at once, rejected goods are decided on as RejectedGoods says.
ImplementsGoods == LotGoods!Spec

\* A reversed QC entry leaves no lot behind, also not one that a classification
\* draws while the reversal is under way.
ReversedLeavesNoLot ==
    \A d \in Lot : db.entry[EntryOf[d]].state = "reversed" => ~Live(db, d)

(***************************************************************************)
(* Returns.                                                                *)
(***************************************************************************)

\* The returns of a dispatch never exceed what was dispatched.
ReturnedWithinShipped == \A x \in Shipment : Returned(db, x) <= Shipped[x]

\* The goods of a return are where its row says, once: repeated and parallel
\* decisions on it neither move them twice nor lose them.
NetOfReturn(row) ==
    CASE row.state = "IN_QC_HOLD"        -> [Nothing EXCEPT !["QC_HOLD"] = row.qty]
      [] row.state = "IN_REWORK"         -> [Nothing EXCEPT !["REWORK"] = row.qty]
      [] row.state = "APPROVED_TO_STOCK" -> [Nothing EXCEPT !["USABLE"] = row.qty]
      [] OTHER                           -> Nothing

ReturnMovesOnce ==
    \A c \in Return : db.ret[c].state # "SCRAPPED" => db.ret[c].net = NetOfReturn(db.ret[c])

\* A scrapped return took out no more than it had brought in.
ScrapWithinReturn ==
    \A c \in Return : \A b \in Bucket : db.ret[c].net[b] >= 0

\* Goods are replaced only when they are back in stock, and only once.
ReplacementCovered ==
    \A c \in Return : db.ret[c].replaced > 0 =>
      /\ db.ret[c].state = "APPROVED_TO_STOCK"
      /\ db.ret[c].replaced = db.ret[c].net["USABLE"]

(***************************************************************************)
(* Corrections.                                                            *)
(***************************************************************************)

\* An adjustment is reversed at most once, and only a reversed one has reversal rows.
AdjustmentReversedOnce ==
    \A a \in Adjustment : db.adj[a].reversals = (IF db.adj[a].state = "reversed" THEN 1 ELSE 0)

(***************************************************************************)
(* Goods.                                                                  *)
(***************************************************************************)

Rows(v, p) == {q \in Entry : v.entry[q].state = "active" /\ v.entry[q].scope = p}
Inspected(v) == [q \in Entry |-> v.entry[q].acc + v.entry[q].rej]
NetReturned(v) == [c \in Return |-> SumFunction(v.ret[c].net)]
NetAdjusted(v) == [a \in Adjustment |-> v.adj[a].delta * (1 - v.adj[a].reversals)]
NetOpened(v) == [e \in Opening |-> OpeningQty * (v.opening[e].posted - v.opening[e].reversed)]

\* What QC entries, returns, adjustments and opening stock put into scope p.
Explained(v, p) ==
    SumFunctionOnSet(Inspected(v), Rows(v, p)) +
    IF p = "read" THEN SumFunction(NetReturned(v))
    ELSE SumFunction(NetAdjusted(v)) + SumFunction(NetOpened(v))

\* Lots, transfers and final QC move goods between buckets and never between
\* locations: what lies in each scope is what was put there, whatever was decided on
\* stale views.
StockExplained == \A p \in Scope : SumFunction(db.pool[p]) = Explained(db, p)
==============================================================================
