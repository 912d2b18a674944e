----------------------------- MODULE SalesOrders -----------------------------
(***************************************************************************)
(* The status of a regular sales order: the guards and the writes of       *)
(* PUT /:id/status and POST /:id/cancel-approval, the automatic close at   *)
(* the end of dispatch and QC handlers, and the reopening after a reversal.*)
(***************************************************************************)
EXTENDS OrderTables

StatusRequest == [op : {"status"}, so : SO, to : Targets]
CancelRequest == [op : {"cancel"}, so : SO]

SetStatus(w, o, s) == [w EXCEPT !.status[o] = s]

\* Mutant: drafts counted as shipped.
OperationalDispatchComplete(v, o) ==
    \A l \in LinesOf(o) : OperationalNet(v, l) >= Ordered[l]

\* Confirmed dispatch covers what every line ordered.
ConfirmedDispatchComplete(v, o) ==
    \A l \in LinesOf(o) : ConfirmedNet(v, l) >= Ordered[l]

(***************************************************************************)
(* Guards and writes of the two routes.                                    *)
(***************************************************************************)

\* A request for the status the order already has is answered unchanged.
StatusUnchanged(r, v) == r.to = v.status[r.so]

StatusReadable(r, v) == r.to # "DRAFT"

StatusAllowed(r, v) ==
    r.to = "COMPLETED" => ConfirmedDispatchComplete(v, r.so)

StatusWrite(r, v, w) == SetStatus(w, r.so, r.to)

\* A work order exists for every line that has approved production.
HasWorkOrder(o) == \E l \in LinesOf(o) : Produced[l] > 0

CancelReadable(r, v) ==
    /\ v.status[r.so] = "APPROVED"
    /\ ~HasWorkOrder(r.so)
    /\ \A l \in LinesOf(r.so) : Rows(v, l) = {}

CancelWrite(r, v, w) == SetStatus(w, r.so, "DRAFT")

(***************************************************************************)
(* What other handlers do to the status at their end.  v is the view of    *)
(* the transaction with its own writes in it, w the tables it writes.      *)
(***************************************************************************)

\* Mutant: drafts counted as shipped and not looked for.
CloseDueOnDrafts(v, o) ==
    /\ v.status[o] \in {"APPROVED", "IN_PROCESS"}
    /\ \A l \in LinesOf(o) : OperationalNet(v, l) >= Ordered[l]

CloseDue(v, o) ==
    /\ v.status[o] \in {"APPROVED", "IN_PROCESS"}
    /\ \A l \in LinesOf(o) :
         /\ QcPending(v, l) <= 0
         /\ Drafts(v, l) = {}
         /\ ConfirmedNet(v, l) >= Ordered[l]

AutoClose(v, w, o) == IF CloseDue(v, o) THEN SetStatus(w, o, "COMPLETED") ELSE w

Reopen(v, w, o) ==
    IF v.status[o] = "COMPLETED" /\ ~ConfirmedDispatchComplete(v, o)
    THEN SetStatus(w, o, "IN_PROCESS")
    ELSE w
==============================================================================
