--------------------------- MODULE CustomerReturns ---------------------------
(***************************************************************************)
(* Customer returns against a confirmed dispatch and the replacement order *)
(* of an approved return (routes/customerReturns.js).  All their stock     *)
(* rows are without a location, in the scope that every read sees.         *)
(***************************************************************************)
EXTENDS StockTables

Disposition == {"TO_STOCK", "QC_HOLD", "REWORK", "SCRAP"}

ReturnRequest == [op : {"return"}, c : Return, qty : ReturnQty, disposition : Disposition]
ReturnQcRequest == [op : {"approve", "reworked", "approveRework", "replace"}, c : Return]
ReturnScrapRequest == [op : {"scrapReturn"}, c : Return, qty : ReturnQty]

(***************************************************************************)
(* Creation.                                                               *)
(***************************************************************************)
ReturnsOf(v, x) == {c \in Return : v.ret[c].state # "absent" /\ ShipmentOf[c] = x}
Quantities(v) == [c \in Return |-> v.ret[c].qty]
Returned(v, x) == SumFunctionOnSet(Quantities(v), ReturnsOf(v, x))

ReturnAllowed(r, v) ==
    LET x == ShipmentOf[r.c] IN
    /\ r.qty <= Max({0, Shipped[x] - Returned(v, x)})
    /\ r.disposition = "SCRAP" => OnHand(v, "QC_HOLD") + r.qty >= 0

ReturnBucket(r) ==
    CASE r.disposition = "TO_STOCK" -> "USABLE"
      [] r.disposition = "REWORK"   -> "REWORK"
      [] OTHER                      -> "QC_HOLD"

FirstState(r) ==
    CASE r.disposition = "TO_STOCK" -> "APPROVED_TO_STOCK"
      [] r.disposition = "REWORK"   -> "IN_REWORK"
      [] r.disposition = "QC_HOLD"  -> "IN_QC_HOLD"
      [] r.disposition = "SCRAP"    -> "SCRAPPED"

\* A stock row of return c.
PostedReturn(row, b, n) == [row EXCEPT !.net[b] = @ + n]
PostReturn(w, c, b, n) == [Post(w, "read", b, n) EXCEPT !.ret[c] = PostedReturn(@, b, n)]

\* SCRAP books the return into QC_HOLD as QC_HOLD does, books it in again and once out.
ReturnWrite(r, w) ==
    LET row == [w EXCEPT !.ret[r.c] = [state |-> FirstState(r), qty |-> r.qty,
                                       bucket |-> ReturnBucket(r),
                                       net |-> Nothing, replaced |-> 0]]
        in == PostReturn(row, r.c, ReturnBucket(r), r.qty)
    IN IF r.disposition # "SCRAP" THEN in
       ELSE PostReturn(PostReturn(in, r.c, "QC_HOLD", r.qty), r.c, "QC_HOLD", -r.qty)

(***************************************************************************)
(* Final QC: approve moves QC_HOLD to USABLE, reworked REWORK to QC_HOLD,  *)
(* approveRework does both.  A check looks at the stock of all returns.    *)
(***************************************************************************)
Source(op) == IF op = "approve" THEN "QC_HOLD" ELSE "REWORK"
Target(op) == IF op = "reworked" THEN "QC_HOLD" ELSE "USABLE"
Awaiting(op) == IF op = "approve" THEN "IN_QC_HOLD" ELSE "IN_REWORK"
Reached(op) == IF op = "reworked" THEN "IN_QC_HOLD" ELSE "APPROVED_TO_STOCK"

ReturnQcReadable(r, v) ==
    /\ v.ret[r.c].state = Awaiting(r.op)
    /\ v.ret[r.c].bucket = Source(r.op)

ReturnQcAllowed(r, v) ==
    /\ OnHand(v, Source(r.op)) >= v.ret[r.c].qty
    /\ r.op = "approveRework" => OnHand(v, "QC_HOLD") >= 0

ReturnInspected(row, op) == [row EXCEPT !.bucket = Target(op), !.state = Reached(op)]

ReturnQcWrite(r, v, w) ==
    LET n == v.ret[r.c].qty
        moved == PostReturn(PostReturn(w, r.c, Source(r.op), -n), r.c, Target(r.op), n)
    IN [moved EXCEPT !.ret[r.c] = ReturnInspected(@, r.op)]

(***************************************************************************)
(* Scrapping: of a part, too, and the return is closed.                    *)
(***************************************************************************)
\* Mutant: a closed return may be scrapped again.
ScrapReadableAgain(r, v) ==
    /\ v.ret[r.c].bucket \in {"QC_HOLD", "REWORK"}
    /\ r.qty <= v.ret[r.c].qty

ScrapReadable(r, v) ==
    /\ v.ret[r.c].state \in {"IN_QC_HOLD", "IN_REWORK"}
    /\ v.ret[r.c].bucket \in {"QC_HOLD", "REWORK"}
    /\ r.qty <= v.ret[r.c].qty

ScrapAllowed(r, v) == OnHand(v, v.ret[r.c].bucket) >= r.qty

ScrapWrite(r, v, w) ==
    [PostReturn(w, r.c, v.ret[r.c].bucket, -r.qty) EXCEPT !.ret[r.c].state = "SCRAPPED"]

(***************************************************************************)
(* The replacement order.  While it is a draft it covers the whole return, *)
(* so nothing is available to a second request.                            *)
(***************************************************************************)
\* Mutant: goods that are not back in stock are replaced.
ReplaceReadableAnyState(r, v) == v.ret[r.c].qty > v.ret[r.c].replaced

ReplaceReadable(r, v) ==
    /\ v.ret[r.c].state = "APPROVED_TO_STOCK"
    /\ v.ret[r.c].qty > v.ret[r.c].replaced

ReplaceWrite(r, v, w) ==
    [w EXCEPT !.ret[r.c].replaced = v.ret[r.c].qty - v.ret[r.c].replaced]
==============================================================================
