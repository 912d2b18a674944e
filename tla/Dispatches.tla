----------------------------- MODULE Dispatches ------------------------------
(***************************************************************************)
(* The dispatch routes for a regular order: prepare a draft, confirm it    *)
(* (/:id/lock and /:id/finalize-draft), delete it, reverse a confirmed     *)
(* one.  For each: the checks made where the handler first reads, the      *)
(* rules it validates under its locks, both on its read view v, and the    *)
(* tables it writes.                                                       *)
(***************************************************************************)
EXTENDS SalesOrders

\* d of a "post" is the identifier the row will have if one is created.
PostRequest == [op : {"post"}, d : Dispatch, qty : Qty]
DraftRequest == [op : {"lock", "finalize", "delete"}, d : Dispatch]
ReverseRequest == [op : {"reverse"}, d : Dispatch, qty : Qty]

\* Only a row that was created and not deleted can be found.
RowExists(v, d) == v.disp[d].state \in {"UNLOCKED", "LOCKED"}
IsDraft(v, d) == v.disp[d].state = "UNLOCKED"

(***************************************************************************)
(* POST /dispatches                                                        *)
(***************************************************************************)

\* Mutant: the rows that exist already are not counted.
PostAllowedOnOrdered(r, v) ==
    /\ v.status[SoOfDispatch(r.d)] \notin {"DRAFT", "COMPLETED"}
    /\ r.qty <= Ordered[LineOf[r.d]]

PostAllowed(r, v) ==
    LET l == LineOf[r.d]
    IN  /\ v.status[SoOf[l]] \notin {"DRAFT", "COMPLETED"}
        /\ r.qty <= Ordered[l] - OperationalNet(v, l)

\* The existing draft of the same order and item, to be updated in place.
DraftOf(v, l) == CHOOSE d \in Drafts(v, l) : TRUE

NewDraft(qty) == [NoDispatch EXCEPT !.state = "UNLOCKED", !.qty = qty]

RequantifiedRow(x, qty) == [x EXCEPT !.qty = qty]

PrepareDraft(r, v, w) ==
    LET l == LineOf[r.d]
    IN  IF Drafts(v, l) = {}
        THEN [w EXCEPT !.disp[r.d] = NewDraft(r.qty)]
        ELSE [w EXCEPT !.disp[DraftOf(v, l)] = RequantifiedRow(@, r.qty)]

PostWrite(r, v, w) ==
    AutoClose(PrepareDraft(r, v, v), PrepareDraft(r, v, w), SoOfDispatch(r.d))

(***************************************************************************)
(* POST /dispatches/:id/lock and /dispatches/:id/finalize-draft            *)
(***************************************************************************)

\* Room on the line next to the other rows; the draft itself is left out.
NetOfOthers(v, d) == OperationalNet(v, LineOf[d]) - Net(v, d)

\* Mutant: no limit by what QC accepted for the order.
ShipCapOnLine(v, d) == Ordered[LineOf[d]]

ShipCap(v, d) == Accepted(v, LineOf[d]) - NetOfOthers(v, d)

ConfirmAllowed(r, v) ==
    LET qty == v.disp[r.d].qty
        l == LineOf[r.d]
    IN  /\ v.status[SoOf[l]] # "COMPLETED"
        /\ qty <= Ordered[l] - NetOfOthers(v, r.d)
        /\ qty <= ShipCap(v, r.d)
        /\ qty <= v.seen[ItemOf[l]]

\* One DISPATCH row out of the FG Store, then workflowStatus LOCKED.
ConfirmedRow(x) == [x EXCEPT !.state = "LOCKED", !.posted = @ + 1]

Confirm(r, v, w) ==
    [w EXCEPT !.disp[r.d] = ConfirmedRow(@),
              !.fg[ItemOfDispatch(r.d)] = @ - v.disp[r.d].qty]

LockWrite(r, v, w) == Confirm(r, v, w)

FinalizeWrite(r, v, w) ==
    AutoClose(Confirm(r, v, v), Confirm(r, v, w), SoOfDispatch(r.d))

(***************************************************************************)
(* DELETE /dispatches/:id                                                  *)
(***************************************************************************)

DeleteAllowed(r, v) == v.status[SoOfDispatch(r.d)] # "COMPLETED"

DeletedRow(x) == [x EXCEPT !.state = "deleted"]

DeleteWrite(r, v, w) == [w EXCEPT !.disp[r.d] = DeletedRow(@)]

(***************************************************************************)
(* POST /dispatch/reverse                                                  *)
(***************************************************************************)

ReverseAllowed(r, v) ==
    /\ v.disp[r.d].state = "LOCKED"
    /\ r.qty <= Net(v, r.d)
    /\ v.disp[r.d].posted > 0

\* Mutants: any reversal stamps the forward row; the negative quantity of
\* the reversal row is added as it is.
ReversedRowStamped(x, qty, covered) ==
    [x EXCEPT !.reversed = @ + qty, !.stamped = TRUE]
ReversedRowNegative(x, qty, covered) == [x EXCEPT !.reversed = @ - qty]

\* A reversal row back into the FG Store; the forward row is stamped once covered.
ReversedRow(x, qty, covered) ==
    [x EXCEPT !.reversed = @ + qty, !.stamped = @ \/ covered]

Covers(r, v) == v.disp[r.d].reversed + r.qty >= v.disp[r.d].qty

PostReversal(r, v, w) ==
    [w EXCEPT !.disp[r.d] = ReversedRow(@, r.qty, Covers(r, v)),
              !.fg[ItemOfDispatch(r.d)] = @ + r.qty]

ReverseWrite(r, v, w) ==
    Reopen(PostReversal(r, v, v), PostReversal(r, v, w), SoOfDispatch(r.d))
==============================================================================
