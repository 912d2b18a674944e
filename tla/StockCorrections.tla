-------------------------- MODULE StockCorrections ---------------------------
(***************************************************************************)
(* Corrections of finished-goods stock by hand: transfers between buckets, *)
(* QC of stock reworked outside a lot, adjustments, their reversal and QC  *)
(* (routes/stock.js, routes/production.js), and opening stock              *)
(* (routes/openingStock.js).                                               *)
(***************************************************************************)
EXTENDS RejectedLots

TransferRequest ==
    {r \in [op : {"transfer"}, from : Bucket, to : Bucket, qty : Qty] : r.from # r.to}

ReworkQcRequest ==
    {r \in [op : {"completeRework"}, checked : Qty, rejected : Qty \cup {0},
            to : Bucket \ {"QC_PENDING"}] :
       r.rejected <= r.checked}

AdjustRequest == [op : {"adjust"}, a : Adjustment, delta : Qty \cup {-n : n \in Qty}]
ReverseAdjustRequest == [op : {"reverseAdjust"}, a : Adjustment]
AdjustQcRequest == [op : {"qcAdjust"}, a : Adjustment, qty : Qty]
OpeningRequest == [op : {"openApprove", "openReverse"}, e : Opening]

\* bucket-transfer, move-hold and process-rework: pooled stock, no row lock.
TransferAllowed(r, v) == OnHand(v, r.from) >= r.qty
TransferWrite(r, w) == Transfer(w, r.from, r.to, r.qty)

(***************************************************************************)
(* complete-rework-qc.  Lots that wait for their own final QC come first,  *)
(* which is checked before the transaction starts.                         *)
(***************************************************************************)
ReworkQcChecked(v) ==
    \A d \in Lot : Live(v, d) /\ v.lot[d].state = "REWORK_READY_FOR_QC" => ~InRework(v, d)

ReworkQcAllowed(r, v) ==
    /\ OnHand(v, "QC_PENDING") >= r.checked
    /\ OnHand(v, "USABLE") + r.checked - r.rejected >= 0
    /\ r.rejected > 0 => OnHand(v, r.to) + r.rejected >= 0

\* Mutant: what was rejected is accepted, too.
ReworkQcWriteAllAccepted(r, w) ==
    Post(Post(Post(w, "read", "QC_PENDING", -r.checked), "read", "USABLE", r.checked),
         "read", r.to, r.rejected)

ReworkQcWrite(r, w) ==
    Post(Post(Post(w, "read", "QC_PENDING", -r.checked),
              "read", "USABLE", r.checked - r.rejected),
         "read", r.to, r.rejected)

(***************************************************************************)
(* Adjustments post at the FG Store and check the balance of the default   *)
(* read.  A reversal locks the stock row it reverses, QC of it does not.   *)
(***************************************************************************)
AdjustAllowed(r, v) == OnHand(v, "USABLE") + r.delta >= 0

AdjustWrite(r, w) ==
    [Post(w, "fg", "USABLE", r.delta) EXCEPT
       !.adj[r.a] = [state |-> "posted", delta |-> r.delta, reversals |-> 0, inspected |-> 0]]

ReverseAdjustReadable(r, v) == v.adj[r.a].state = "posted"
ReverseAdjustAllowed(r, v) == OnHand(v, "USABLE") - v.adj[r.a].delta >= 0

ReversedAdjustment(row) == [row EXCEPT !.state = "reversed", !.reversals = @ + 1]

ReverseAdjustWrite(r, v, w) ==
    [Post(w, "fg", "USABLE", -v.adj[r.a].delta) EXCEPT !.adj[r.a] = ReversedAdjustment(@)]

AdjustQcReadable(r, v) ==
    /\ v.adj[r.a].state = "posted" /\ v.adj[r.a].delta > 0
    /\ r.qty <= v.adj[r.a].delta - v.adj[r.a].inspected

AdjustQcWrite(r, w) == [w EXCEPT !.adj[r.a].inspected = @ + r.qty]

(***************************************************************************)
(* Opening stock: one approved entry at a time.                            *)
(***************************************************************************)
OpenApproveReadable(r, v) ==
    /\ v.opening[r.e].state = "DRAFT"
    /\ \A e \in Opening : v.opening[e].posted > 0 => v.opening[e].reversed > 0

ApprovedOpening(row) == [row EXCEPT !.state = "APPROVED", !.posted = @ + 1]

OpenApproveWrite(r, w) ==
    [Post(w, "fg", "USABLE", OpeningQty) EXCEPT !.opening[r.e] = ApprovedOpening(@)]

OpenReverseReadable(r, v) ==
    /\ v.opening[r.e].state = "APPROVED"
    /\ v.opening[r.e].reversed = 0
    /\ OnHand(v, "USABLE") >= OpeningQty

ReversedOpening(row) == [row EXCEPT !.reversed = @ + 1]

OpenReverseWrite(r, w) ==
    [Post(w, "fg", "USABLE", -OpeningQty) EXCEPT !.opening[r.e] = ReversedOpening(@)]
==============================================================================
