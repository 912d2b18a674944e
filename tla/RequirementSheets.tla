-------------------------- MODULE RequirementSheets ---------------------------
(***************************************************************************)
(* The requirement sheets of a NO_QTY order, the work orders placed from   *)
(* them and the dispatches of its cycles.  v is the view of the request,   *)
(* w the committed tables when it writes.                                  *)
(***************************************************************************)
EXTENDS NoQtyCycles

\* What a transaction that sees u after its writes, and saw v before, leaves in w.
Merged(v, u, w) ==
    [w EXCEPT !.cur = IF u.cur # v.cur THEN u.cur ELSE @,
              !.cycle = [c \in Cycle |-> IF u.cycle[c] # v.cycle[c] THEN u.cycle[c] ELSE @[c]]]

\* The unique key (salesOrderId, cycleNo).
NumbersFree(v, u, w) ==
    \A c \in Known(u) \ Known(v) : w.cycle[c] = "absent"

ActiveOf(u) == Newest(Actives(u))

\* POST /sales-orders/:id/requirement-sheets
ForNewSheet(v) == Resolved(Advanced(v))

CreateAllowed(r, v) ==
    LET u == ForNewSheet(v)
    IN  /\ ~Closed(v)
        /\ u.cur <= MaxCycle
        /\ \A s \in SameDemand(u, ActiveOf(u), r.p) :
              u.sheet[s].state \notin {"LOCKED", "CANCELLED"}

CreateInsertable(r, v, w) ==
    LET u == ForNewSheet(v)
    IN  /\ NumbersFree(v, u, w)
        /\ KeyFree(w, r.s, ActiveOf(u), r.p, NextVersion(u, ActiveOf(u), r.p))

CreateWrite(r, v, w) ==
    LET u == ForNewSheet(v)
    IN  [Merged(v, u, w) EXCEPT !.sheet[r.s] =
           [state |-> "DRAFT", cycle |-> ActiveOf(u), period |-> r.p, qty |-> 0, plan |-> 0,
            version |-> NextVersion(u, ActiveOf(u), r.p)]]

\* A sheet moves to the ACTIVE cycle whenever it is edited or locked.
Repoints(r, v, from) == from # ActiveOf(Resolved(v))

RepointInsertable(r, v, w, from) ==
    /\ NumbersFree(v, Resolved(v), w)
    /\ Repoints(r, v, from) =>
         /\ Exists(w, r.s)
         /\ KeyFree(w, r.s, ActiveOf(Resolved(v)), w.sheet[r.s].period, w.sheet[r.s].version)

Repointed(r, v, w, from) ==
    [Merged(v, Resolved(v), w) EXCEPT
       !.sheet[r.s].cycle = IF Repoints(r, v, from) THEN ActiveOf(Resolved(v)) ELSE @]

\* PUT /requirement-sheets/:id/lines; updateMany finds no line of a deleted sheet.
\* Mutant: edit a sheet in any state.
LinesAllowedAnyState(r, v) == Resolved(v).cur <= MaxCycle

LinesAllowed(r, v) == v.sheet[r.s].state = "DRAFT" /\ Resolved(v).cur <= MaxCycle

LinesWrite(r, v, w) ==
    LET x == Repointed(r, v, w, v.sheet[r.s].cycle)
    IN  IF Exists(w, r.s) THEN [x EXCEPT !.sheet[r.s].qty = r.q] ELSE x

\* POST /requirement-sheets/:id/recalculate: state and cycle (r.from) are read
\* before the transaction.
RecalculateInsertable(r, v, w) == Exists(w, r.s) /\ RepointInsertable(r, v, w, r.from)

RecalculateWrite(r, v, w) == [Repointed(r, v, w, r.from) EXCEPT !.sheet[r.s].qty = r.q]

\* POST /requirement-sheets/:id/lock
LockAllowed(r, v) ==
    /\ v.sheet[r.s].state = "DRAFT"
    /\ Resolved(v).cur <= MaxCycle
    /\ v.sheet[r.s].qty > 0

LockInsertable(r, v, w) == Exists(w, r.s) /\ RepointInsertable(r, v, w, v.sheet[r.s].cycle)

LockWrite(r, v, w) ==
    LET n == v.sheet[r.s].qty
    IN  [Repointed(r, v, w, v.sheet[r.s].cycle) EXCEPT
           !.status = "IN_PROCESS", !.cur = ActiveOf(Resolved(v)),
           !.sheet[r.s] = [@ EXCEPT !.state = "LOCKED", !.qty = n, !.plan = n]]

\* DELETE /requirement-sheets/:id
DeleteDraftAllowed(r, v) ==
    v.sheet[r.s].state = "DRAFT" /\ ~Closed(v) /\ PlacedFor(v, r.s) = 0

Deleted(S, w) ==
    [w EXCEPT !.sheet = [s \in Sheet |-> IF s \in S THEN NoSheet("deleted") ELSE @[s]]]

\* DELETE /requirement-sheets/by-sales-order/:salesOrderId
SheetsThere(v) == {s \in Sheet : Exists(v, s)}

DeleteAllAllowed(v) ==
    \A s \in SheetsThere(v) :
      LET c == v.sheet[s].cycle
      IN  PlacedFor(v, s) = 0 /\ v.shipped[c] + v.prepared[c] = 0

\* cancelLockedRequirementSheet
CancelAllowed(r, v) ==
    LET row == v.sheet[r.s]
    IN  /\ row.state = "LOCKED"
        /\ PlacedFor(v, r.s) = 0
        /\ v.shipped[row.cycle] + v.prepared[row.cycle] = 0
        /\ row.period \notin v.released

CancelWrite(r, w) == [w EXCEPT !.sheet[r.s].state = "CANCELLED"]

\* POST /requirement-sheets/:id/void, which deletes a locked sheet.
\* Mutant: do not look for work orders.
VoidAllowedDespiteWork(r, v) == v.sheet[r.s].state = "LOCKED"

VoidAllowed(r, v) == v.sheet[r.s].state = "LOCKED" /\ PlacedFor(v, r.s) = 0

\* POST /requirement-sheets/:id/create-wo
Balance(r, v) == v.sheet[r.s].qty - PlacedFor(v, r.s)

CreateWoAllowed(r, v) ==
    LET row == v.sheet[r.s]
    IN  /\ row.state = "LOCKED"
        /\ \A u \in SameDemand(v, row.cycle, row.period) : v.sheet[u].version <= row.version
        /\ row.period \in v.released
        /\ r.q <= Balance(r, v)

\* Work orders of the sheet that are linked to another cycle follow the sheet.
CreateWoWrite(r, v, w) ==
    LET here == v.sheet[r.s].cycle
    IN  [w EXCEPT !.placed[r.s] =
           [c \in Cycle |-> IF c = here THEN @[c] + r.q + PlacedFor(v, r.s) - v.placed[r.s][c]
                                        ELSE @[c] - v.placed[r.s][c]]]

(***************************************************************************)
(* Dispatch of a cycle.                                                    *)
(***************************************************************************)

\* The earliest cycle with goods to prepare has to go first.
Ready(v) == {c \in Known(v) : v.prepared[c] = 0 /\ v.made[c] > v.shipped[c]}

\* POST /dispatches: creates the draft of the cycle or sets its quantity.
PrepareAllowed(r, v) ==
    /\ ~Closed(v)
    /\ v.cycle[r.c] # "absent"
    /\ Ready(v) # {} => r.c = Min(Ready(v))
    /\ v.shipped[r.c] + r.q <= v.made[r.c]

PrepareWrite(r, v, w) ==
    LET u == AutoClosed(v, r.c)
    IN  [Merged(v, u, w) EXCEPT !.prepared[r.c] = r.q]

\* POST /dispatches/:id/finalize-draft
FinalizeAllowed(r, v) ==
    /\ v.prepared[r.c] > 0
    /\ ~Closed(v)
    /\ v.shipped[r.c] + v.prepared[r.c] <= v.made[r.c]

Shipped(v, c) ==
    [v EXCEPT !.shipped[c] = @ + v.prepared[c], !.prepared[c] = 0]

FinalizeWrite(r, v, w) ==
    LET u == AutoClosed(Shipped(v, r.c), r.c)
    IN  [Merged(v, u, w) EXCEPT !.shipped[r.c] = @ + v.prepared[r.c], !.prepared[r.c] = 0]
==============================================================================
