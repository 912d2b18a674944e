------------------------------ MODULE MCStock --------------------------------
(***************************************************************************)
(* Small instances.  Lot d1 is of the first kind, from entry e1; d2 is the *)
(* lot that rework splits off it.  Entry e2 draws h2 when it holds, s2     *)
(* when it scraps.  Entry e0 is older than lots; it draws d0 when it is    *)
(* classified.  Returns c1 and c2 are of dispatch x1.                      *)
(***************************************************************************)
EXTENDS StockInvariant, TLC

CONSTANTS d0, d1, d2, h2, s2, e0, e1, e2, a1, c1, c2, x1, f1, t1, t2

MCEntryOf == [d \in Lot |-> IF d = d0 THEN e0 ELSE IF d \in {d1, d2} THEN e1 ELSE e2]

IfModelled(d) == IF d \in Lot THEN d ELSE NoLot

MCPartLot ==
    [q \in Entry |-> [k \in LotKind |->
       CASE q = e0 /\ k = "classified" -> IfModelled(d0)
         [] q = e2 /\ k = "hold"       -> IfModelled(h2)
         [] q = e2 /\ k = "scrap"      -> IfModelled(s2)
         [] OTHER                      -> NoLot]]

MCShipmentOf == [c \in Return |-> CHOOSE x \in Shipment : TRUE]
MCShipped == [x \in Shipment |-> 2]

\* No property looks at the answers.
MCView == <<db, held, req, at, snap, shift>>

\* The returns of the one dispatch are interchangeable.
MCSymmetry == Permutations(Return)

\* The QC desk and the supervisor.
MCLotDesks ==
    [s \in Shift |-> [t \in Tx |-> IF t = t1 THEN {"hold", "recheck", "qcReverse"}
                                   ELSE {"decide", "mark", "recheck", "queue"}]]

\* A store clerk and the QC desk; the QC desk and a clerk who corrects stock; two
\* clerks who take goods back.
RejectDesks == [t \in Tx |-> IF t = t1 THEN {"classify", "transfer", "completeRework", "openApprove"}
                             ELSE {"qcReverse", "hold", "openReverse"}]
CorrectionDesks ==
    [t \in Tx |-> IF t = t1 THEN {"reverseAdjust", "qcAdjust", "classify", "qcReverse"}
                  ELSE {"adjust", "reverseAdjust", "qcPost"}]
ReturnDesks ==
    [t \in Tx |-> {"return", "approve", "reworked", "approveRework", "scrapReturn", "replace"}]
MCStoreDesks ==
    [s \in Shift |-> CASE s = "rejects"     -> RejectDesks
                       [] s = "corrections" -> CorrectionDesks
                       [] s = "returns"     -> ReturnDesks]

\* In every shift one user decides on held goods and reverses QC, one decides on rework.
ASSUME DesksApart == OneDesk /\ OneQcDesk
==============================================================================
