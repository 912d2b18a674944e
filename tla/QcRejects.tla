------------------------------ MODULE QcRejects ------------------------------
(***************************************************************************)
(* How rejected goods come about and go away again: QC posting with its    *)
(* rejected part, its reversal, and the classification of rejects that     *)
(* older versions left unsorted (routes/production.js,                     *)
(* routes/qcLegacyRejectedClassifications.js).  What these handlers check  *)
(* of the batch and of dispatches is in QcPosting.                         *)
(***************************************************************************)
EXTENDS RejectedLots

\* A rejected quantity without a split goes to one part, or to USABLE.
QcPostRequest ==
    {r \in [op : {"qcPost"}, q : Entry, acc : Qty \cup {0}, usable : Qty \cup {0},
            part : [Part -> Qty \cup {0}]] :
       /\ \E k \in Part : r.part[k] > 0 \/ r.acc + r.usable > 0
       /\ r.usable > 0 => \A k \in Part : r.part[k] = 0
       /\ \A k \in Part : r.part[k] > 0 => PartLot[r.q][k] # NoLot}

QcReverseRequest == [op : {"qcReverse"}, q : Entry]

ClassifyRequest ==
    {r \in [op : {"classify"}, q : Entry, to : {"USABLE", "QC_HOLD", "SCRAP"}] :
       r.to = "QC_HOLD" => PartLot[r.q]["classified"] # NoLot}

(***************************************************************************)
(* QC posting.  Reworked and held parts get a lot that owns their stock,   *)
(* the scrapped part a closed lot without stock.  createFgQcStockLocation- *)
(* Resolver names the FG Store and the scrap location.                     *)
(***************************************************************************)
QcScope == "fg"

PartBucket(k) == CASE k = "rework" -> "REWORK" [] k = "hold" -> "QC_HOLD" [] k = "scrap" -> "SCRAP"

Rejected(r) == r.part["rework"] + r.part["hold"] + r.part["scrap"] + r.usable

\* The one bucket that the entry remembers.
RejectedBucket(r) ==
    IF r.part["hold"] > 0 THEN "QC_HOLD"
    ELSE IF r.part["rework"] > 0 THEN "REWORK"
    ELSE IF r.part["scrap"] > 0 THEN "SCRAP"
    ELSE IF r.usable > 0 THEN "USABLE" ELSE "none"

PostLot(w, q, k, state, n) ==
    IF n = 0 THEN w
    ELSE [PostOwned(w, PartLot[q][k], QcScope, PartBucket(k), n) EXCEPT
            !.lot[PartLot[q][k]] = NewLotRow(state, n)]

PostScrap(w, q, n) ==
    IF n = 0 THEN w
    ELSE [Post(w, QcScope, "SCRAP", n) EXCEPT
            !.lot[PartLot[q]["scrap"]] = [NewLotRow("SCRAP", n) EXCEPT !.rem = 0]]

QcPosted(r, w) ==
    LET rework == PostLot(w, r.q, "rework", "REWORK_READY_FOR_QC", r.part["rework"])
        hold == PostLot(rework, r.q, "hold", "HOLD", r.part["hold"])
        scrap == PostScrap(hold, r.q, r.part["scrap"])
        usable == Post(scrap, QcScope, "USABLE", r.acc + r.usable)
    IN [usable EXCEPT !.entry[r.q] =
          [state |-> "active", scope |-> QcScope, acc |-> r.acc, rej |-> Rejected(r),
           bucket |-> RejectedBucket(r), sorted |-> FALSE]]

\* No bucket may end below zero, and rework must show up where it is read back.
QcPostAllowed(r, v) ==
    /\ OnHand(v, "USABLE") + r.acc >= 0
    /\ r.usable > 0 => OnHand(v, "USABLE") + r.usable >= 0
    /\ \A k \in Part : r.part[k] > 0 => OnHand(v, PartBucket(k)) + r.part[k] >= 0
    /\ r.part["rework"] > 0 =>
         OnHand(QcPosted(r, v), "REWORK") = OnHand(v, "REWORK") + r.part["rework"]

(***************************************************************************)
(* The reversal of a QC entry takes the whole rejected quantity out of the *)
(* remembered bucket, at the location of the posting, and voids its lots.  *)
(***************************************************************************)
LotsOf(q) == {d \in Lot : EntryOf[d] = q}

QcReverseReadable(r, v) == v.entry[r.q].state # "absent"

Untouched(v, d) ==
    /\ v.lot[d].state # "REWORK_READY_FOR_QC"
    /\ v.lot[d].state # "SCRAP" => v.lot[d].rem >= v.lot[d].qty

QcReverseAllowed(r, v) ==
    LET e == v.entry[r.q] IN
    /\ e.state = "active"
    /\ \A d \in LotsOf(r.q) : Live(v, d) => Untouched(v, d)
    /\ e.acc > 0 => OnHand(v, "USABLE") >= e.acc
    /\ e.rej > 0 /\ e.bucket # "none" => OnHand(v, e.bucket) >= e.rej

QcReverseWrite(r, w) ==
    LET e == w.entry[r.q]
        out == Post(w, e.scope, "USABLE", -e.acc)
        back == IF e.bucket = "none" THEN out ELSE Post(out, e.scope, e.bucket, -e.rej)
    IN [back EXCEPT !.entry[r.q].state = "reversed",
                    !.lot = [d \in Lot |-> [w.lot[d] EXCEPT
                               !.void = @ \/ (EntryOf[d] = r.q /\ w.lot[d].state # "absent")]]]

(***************************************************************************)
(* Classification.  MOVE_TO_HOLD makes a lot and hands it the stock.       *)
(***************************************************************************)
ClassifyReadable(r, v) ==
    LET e == v.entry[r.q] IN e.state = "active" /\ e.rej > 0 /\ ~e.sorted

FromBucket(e) == IF e.bucket = "none" THEN "QC_HOLD" ELSE e.bucket

Moved(r, v, w) ==
    LET e == v.entry[r.q] IN
    IF FromBucket(e) = r.to THEN w ELSE Transfer(w, FromBucket(e), r.to, e.rej)

ClassifyAllowed(r, v) ==
    LET e == v.entry[r.q] IN
    /\ FromBucket(e) # r.to => OnHand(v, FromBucket(e)) >= e.rej
    /\ r.to = "QC_HOLD" => OnHand(Moved(r, v, v), "QC_HOLD") >= e.rej

\* Mutant: the stock moved to hold gets no owner.
ClassifyWriteNoOwner(r, v, w) ==
    LET d == PartLot[r.q]["classified"]
        held == [Moved(r, v, w) EXCEPT !.lot[d] = NewLotRow("HOLD", v.entry[r.q].rej)]
    IN [(IF r.to = "QC_HOLD" THEN held ELSE Moved(r, v, w)) EXCEPT !.entry[r.q].sorted = TRUE]

ClassifyWrite(r, v, w) ==
    LET d == PartLot[r.q]["classified"]
        n == v.entry[r.q].rej
        moved == Moved(r, v, w)
        held == [PostOwned(Post(moved, "read", "QC_HOLD", -n), d, "read", "QC_HOLD", n) EXCEPT
                   !.lot[d] = NewLotRow("HOLD", n)]
    IN [(IF r.to = "QC_HOLD" THEN held ELSE moved) EXCEPT !.entry[r.q].sorted = TRUE]
==============================================================================
