------------------------------ MODULE QcPosting ------------------------------
(***************************************************************************)
(* QC acceptance of a production batch (POST /qc-entries, everything       *)
(* accepted) and its reversal (POST /qc-reverse) for a regular order.      *)
(***************************************************************************)
EXTENDS SalesOrders

\* q of a "qcPost" is the identifier of the entry it creates.
QcRequest == [op : {"qcPost", "qcReverse"}, q : QcEntry]

BatchItem(q) == ItemOf[BatchOf[q]]
BatchSo(q) == SoOf[BatchOf[q]]

(***************************************************************************)
(* POST /qc-entries: checkedQty within the pending quantity of the batch.  *)
(***************************************************************************)

QcPostReadable(r, v) == QcQty[r.q] <= QcPending(v, BatchOf[r.q])

\* The accepted quantity enters the ledger at the FG Store.
AcceptBatch(r, w) ==
    [w EXCEPT !.qc[r.q] = "active", !.fg[BatchItem(r.q)] = @ + QcQty[r.q]]

QcPostWrite(r, v, w) ==
    AutoClose(AcceptBatch(r, v), AcceptBatch(r, w), BatchSo(r.q))

\* The handler has an order to close when it reaches its end.
QcPostCloses(r, v) == CloseDue(AcceptBatch(r, v), BatchSo(r.q))

(***************************************************************************)
(* POST /qc-reverse                                                        *)
(***************************************************************************)

QcExists(v, q) == v.qc[q] # "absent"

QcReverseAllowed(r, v) ==
    LET l == BatchOf[r.q]
    IN  /\ v.qc[r.q] = "active"
        /\ OperationalNet(v, l) <= Accepted(v, l) - QcQty[r.q]
        /\ QcQty[r.q] <= v.seen[ItemOf[l]]

\* Mutant: QcReversal without its unique index.
QcReversalAlwaysInsertable(r, w) == TRUE

\* QcReversal.qcEntryId is unique: a second reversal of an entry cannot be inserted.
QcReversalInsertable(r, w) == w.qc[r.q] # "reversed"

\* The stock leaves the location it was received at.
QcReverseWrite(r, v, w) ==
    LET i == BatchItem(r.q)
    IN  IF r.q \in Legacy
        THEN [w EXCEPT !.qc[r.q] = "reversed", !.seen[i] = @ - QcQty[r.q]]
        ELSE [w EXCEPT !.qc[r.q] = "reversed", !.fg[i] = @ - QcQty[r.q]]
==============================================================================
