---------------------------- MODULE RejectedLots -----------------------------
(***************************************************************************)
(* What happens to a lot of rejected goods: the decision of the supervisor *)
(* on rework, the promotion of lots that older versions left behind, the   *)
(* decisions on held goods, the final QC of reworked goods                 *)
(* (routes/qcRejectedDispositions.js).                                     *)
(***************************************************************************)
EXTENDS StockTables

DecideRequest == [op : {"decide"}, d : Lot, decision : {"APPROVE", "HOLD", "SCRAP"}]
MarkRequest == [op : {"mark"}, d : Lot]
QueueRequest == [op : {"queue"}]
RecheckRequest == [op : {"recheck"}, d : Lot, rejected : Qty \cup {0}]

\* hold-action and hold-save-combined; new is the lot that rework splits off.
HoldRequest ==
    {r \in [op : {"hold"}, d : Lot, new : Lot \cup {NoLot}, rework : Qty \cup {0},
            scrap : Qty \cup {0}, usable : Qty \cup {0}] :
       /\ r.rework + r.scrap + r.usable > 0
       /\ r.rework > 0 <=> r.new # NoLot
       /\ r.new # NoLot => EntryOf[r.new] = EntryOf[r.d] /\ r.new \notin DrawnByEntries}

Live(v, d) == v.lot[d].state # "absent" /\ ~v.lot[d].void
InRework(v, d) == Owned(v, d, "REWORK") > 0 \/ Owned(v, d, "QC_PENDING") > 0

SetState(w, d, s) == [w EXCEPT !.lot[d].state = s]

\* The row of a lot of which n is left in state s.
Left(row, s, n) == [row EXCEPT !.state = s, !.rem = n]

(***************************************************************************)
(* Lots whose stock is in rework already are not waiting for a supervisor. *)
(***************************************************************************)
Stale(v) ==
    {d \in Lot : /\ Live(v, d)
                 /\ v.lot[d].state = "REWORK_PENDING_SUPERVISOR"
                 /\ Owned(v, d, "QC_HOLD") <= 0
                 /\ InRework(v, d)}

Promote(w, ds) ==
    [w EXCEPT !.lot = [d \in Lot |-> IF d \in ds THEN [w.lot[d] EXCEPT !.state = "REWORK_READY_FOR_QC"]
                                     ELSE w.lot[d]]]

(***************************************************************************)
(* The decision of the supervisor.  Its reads follow the promotion.        *)
(***************************************************************************)
DecideReadable(r, v) == Live(v, r.d)

Movable(v, d) == Min({v.lot[d].rem, Owned(v, d, "QC_HOLD")})

\* Approving a lot that is in rework changes nothing.
AlreadyReady(r, v) == r.decision = "APPROVE" /\ v.lot[r.d].state = "REWORK_READY_FOR_QC"

DecideAllowed(r, v) ==
    LET p == Promote(v, Stale(v)) IN
    \/ AlreadyReady(r, p)
    \/ /\ p.lot[r.d].state = "REWORK_PENDING_SUPERVISOR"
       /\ p.lot[r.d].rem > 0
       /\ r.decision # "HOLD" => Movable(v, r.d) > 0

Decided(r, v, w) ==
    CASE r.decision = "APPROVE" ->
           SetState(TransferOwned(w, r.d, r.d, "QC_HOLD", "REWORK", Movable(v, r.d)),
                    r.d, "REWORK_READY_FOR_QC")
      [] r.decision = "HOLD" -> SetState(w, r.d, "HOLD")
      [] r.decision = "SCRAP" ->
           [TransferOwned(w, r.d, r.d, "QC_HOLD", "SCRAP", Movable(v, r.d)) EXCEPT
              !.lot[r.d] = Left(@, "SCRAP", 0)]

DecideWrite(r, v, w) ==
    LET p == Promote(w, Stale(v)) IN
    IF AlreadyReady(r, Promote(v, Stale(v))) THEN p ELSE Decided(r, v, p)

QueueWrite(r, v, w) == Promote(w, Stale(v))

(***************************************************************************)
(* mark-rework-executed.                                                   *)
(***************************************************************************)
MarkReadable(r, v) ==
    /\ Live(v, r.d)
    /\ \/ v.lot[r.d].state = "REWORK_READY_FOR_QC"
       \/ /\ v.lot[r.d].state = "REWORK_APPROVED_PENDING_EXECUTION"
          /\ v.lot[r.d].rem > 0

MarkAllowed(r, v) == v.lot[r.d].state = "REWORK_READY_FOR_QC" \/ InRework(v, r.d)

MarkWrite(r, v, w) == SetState(w, r.d, "REWORK_READY_FOR_QC")

(***************************************************************************)
(* Held goods.  Rework, scrap and usable parts are posted in this order,   *)
(* each updating the row; the last one leaves the state.                   *)
(***************************************************************************)
\* Mutant: the usable part is not counted.
PartsWithoutUsable(r) == r.rework + r.scrap

Parts(r) == r.rework + r.scrap + r.usable

HoldReadable(r, v) == Live(v, r.d) /\ v.lot[r.d].state = "HOLD"

HoldAllowed(r, v) ==
    /\ Parts(r) <= v.lot[r.d].rem
    /\ Owned(v, r.d, "QC_HOLD") > 0
    /\ Parts(r) <= Owned(v, r.d, "QC_HOLD")

\* Mutant: the scrapped part sets the state although some is left.
HeldStateScrapFirst(r, rem) ==
    IF r.scrap > 0 THEN "SCRAP" ELSE IF rem > 0 THEN "HOLD" ELSE "CLOSED"

HeldState(r, rem) ==
    IF rem > 0 THEN "HOLD" ELSE IF r.usable = 0 /\ r.scrap > 0 THEN "SCRAP" ELSE "CLOSED"

\* Mutants: the stock keeps its owner; a bucket is written as the state.
SplitOffSameOwner(r, w) ==
    IF r.rework = 0 THEN w
    ELSE [TransferOwned(w, r.d, r.d, "QC_HOLD", "REWORK", r.rework) EXCEPT
            !.lot[r.new] = NewLotRow("REWORK_READY_FOR_QC", r.rework)]
SplitOffBucketAsState(r, w) ==
    IF r.rework = 0 THEN w
    ELSE [TransferOwned(w, r.d, r.new, "QC_HOLD", "REWORK", r.rework) EXCEPT
            !.lot[r.new] = NewLotRow("REWORK", r.rework)]

SplitOff(r, w) ==
    IF r.rework = 0 THEN w
    ELSE [TransferOwned(w, r.d, r.new, "QC_HOLD", "REWORK", r.rework) EXCEPT
            !.lot[r.new] = NewLotRow("REWORK_READY_FOR_QC", r.rework)]

HoldWrite(r, v, w) ==
    LET rem == v.lot[r.d].rem - Parts(r)
        split == SplitOff(r, w)
        scrapped == TransferOwned(split, r.d, r.d, "QC_HOLD", "SCRAP", r.scrap)
        released == TransferOwned(scrapped, r.d, r.d, "QC_HOLD", "USABLE", r.usable)
    IN [released EXCEPT !.lot[r.d] = Left(@, HeldState(r, rem), Max({0, rem}))]

(***************************************************************************)
(* The final QC of a reworked lot takes all its rework stock.              *)
(***************************************************************************)
RecheckReadable(r, v) == Live(v, r.d) /\ v.lot[r.d].state = "REWORK_READY_FOR_QC"

Positive(n) == Max({0, n})
Pending(v, d) == Positive(Owned(v, d, "REWORK")) + Positive(Owned(v, d, "QC_PENDING"))

RecheckAllowed(r, v) ==
    /\ InRework(v, r.d)
    /\ r.rejected <= Owned(v, r.d, "REWORK") + Owned(v, r.d, "QC_PENDING")

RecheckWrite(r, v, w) ==
    LET checked == Owned(v, r.d, "REWORK") + Owned(v, r.d, "QC_PENDING")
        out == PostOwned(PostOwned(w, r.d, "read", "REWORK", -Positive(Owned(v, r.d, "REWORK"))),
                         r.d, "read", "QC_PENDING", -Positive(Owned(v, r.d, "QC_PENDING")))
        accepted == PostOwned(out, r.d, "read", "USABLE", checked - r.rejected)
        rejected == PostOwned(accepted, r.d, "read", "SCRAP", r.rejected)
    IN [rejected EXCEPT !.lot[r.d] = Left(@, "CLOSED", 0)]
==============================================================================
