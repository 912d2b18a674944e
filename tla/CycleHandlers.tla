---------------------------- MODULE CycleHandlers -----------------------------
(***************************************************************************)
(* The handlers of a NO_QTY order seen alike: their requests, the order in *)
(* which they lock and read, what they check and what they write.  Making  *)
(* goods and releasing a monthly plan are other parts of the system.       *)
(***************************************************************************)
EXTENDS RequirementSheets, Sequences

CONSTANT OpsOf  \* OpsOf[t]: the operations the user behind connection t may send

AnyRequest ==
    [op : {"create"}, s : Sheet, p : Period] \cup
    [op : {"lines"}, s : Sheet, q : 0..MaxQty] \cup
    [op : {"createWo"}, s : Sheet, q : Qty] \cup
    [op : {"recalc"}, s : Sheet, q : Qty, from : Cycle] \cup
    [op : {"lock", "deleteDraft", "cancel", "void"}, s : Sheet] \cup
    [op : {"deleteAll", "prepareNext", "repair", "autoClose", "closeEmpty",
           "closeOrder", "reopen"}] \cup
    [op : {"release"}, p : Period] \cup
    [op : {"make", "finalize"}, c : Cycle] \cup
    [op : {"prepare"}, c : Cycle, q : Qty]

Request == {r \in AnyRequest : \E t \in DOMAIN OpsOf : r.op \in OpsOf[t]}

MaySend(t, r) == r.op \in OpsOf[t]

OnSheet == {"lines", "recalc", "lock", "createWo", "deleteDraft", "cancel", "void"}

\* The new sheet a request draws.
Draws(r) == IF r.op = "create" THEN {r.s} ELSE {}

\* What the user sees when the request is sent; recalculate reads its sheet here.
Fresh(r, v) ==
    /\ r.op \in OnSheet => v.sheet[r.s].state \in {"DRAFT", "LOCKED"}
    /\ r.op = "recalc" => v.sheet[r.s].state = "DRAFT" /\ r.from = v.sheet[r.s].cycle
    /\ r.op \in {"make", "prepare", "finalize"} => v.cycle[r.c] # "absent"

(***************************************************************************)
(* The steps of a handler in program order: "read" is its first plain      *)
(* SELECT, "write" everything from its last validation to COMMIT, "begin"  *)
(* what recalculate reads before its transaction; the rest lock a row.     *)
(***************************************************************************)
FinalizePlan    == <<"draft", "read", "order", "write">>
PreparePlan     == <<"order", "read", "write">>
RecalculatePlan == <<"begin", "read", "write">>
OrdinaryPlan    == <<"read", "write">>
ElsewherePlan   == <<"write">>

Plan(r) ==
    CASE r.op = "finalize"            -> FinalizePlan
      [] r.op = "prepare"             -> PreparePlan
      [] r.op = "recalc"              -> RecalculatePlan
      [] r.op \in {"make", "release"} -> ElsewherePlan
      [] OTHER                        -> OrdinaryPlan

OrderRow == <<"order", 0>>
DraftRow(c) == <<"draft", c>>

\* The rows a handler locks while it still has to read or to validate.
CycleRows == {OrderRow} \cup {DraftRow(c) : c \in Cycle}

\* The order and its cycles as the transaction sees them after its writes.
After(r, v) ==
    CASE r.op = "create"                      -> ForNewSheet(v)
      [] r.op \in {"lines", "recalc", "lock"} -> Resolved(v)
      [] r.op = "prepareNext"                 -> Advanced(v)
      [] r.op = "repair"                      -> Repaired(v)
      [] r.op = "autoClose"                   -> AutoClosed(v, v.cur)
      [] r.op = "closeEmpty"                  -> IF EmptyCloseAllowed(v) THEN EmptyClosed(v) ELSE v
      [] r.op = "prepare"                     -> AutoClosed(v, r.c)
      [] r.op = "finalize"                    -> AutoClosed(Shipped(v, r.c), r.c)
      [] OTHER                                -> v

OrderWritten(r, v) ==
    \/ After(r, v).cur # v.cur
    \/ r.op \in {"lock", "closeOrder", "reopen", "prepare", "finalize"}

\* New sheets, work orders and cycles refer to the order.
OrderReferred(r, v) == r.op \in {"create", "createWo"} \/ Known(After(r, v)) # Known(v)

Exclusive(r, v) ==
    (IF OrderWritten(r, v) THEN {OrderRow} ELSE {}) \cup
    (IF r.op = "prepare" THEN {DraftRow(r.c)} ELSE {})

\* Foreign keys share the row they refer to.
Shared(r, v) == IF OrderReferred(r, v) THEN {OrderRow} ELSE {}

Wants(step, r, v) ==
    CASE step = "order"           -> {<<OrderRow, "X">>}
      [] step = "draft"           -> {<<DraftRow(r.c), "X">>}
      [] Plan(r) = ElsewherePlan  -> {}
      [] OTHER                    ->
           (Exclusive(r, v) \X {"X"}) \cup ((Shared(r, v) \ Exclusive(r, v)) \X {"S"})

(***************************************************************************)
(* Its last validation, on the view v it read, and what the database       *)
(* refuses given its committed tables w.                                   *)
(***************************************************************************)
Allowed(r, v) ==
    CASE r.op = "create"      -> CreateAllowed(r, v)
      [] r.op = "lines"       -> LinesAllowed(r, v)
      [] r.op = "recalc"      -> Resolved(v).cur <= MaxCycle
      [] r.op = "lock"        -> LockAllowed(r, v)
      [] r.op = "createWo"    -> CreateWoAllowed(r, v)
      [] r.op = "deleteDraft" -> DeleteDraftAllowed(r, v)
      [] r.op = "cancel"      -> CancelAllowed(r, v)
      [] r.op = "void"        -> VoidAllowed(r, v)
      [] r.op = "deleteAll"   -> DeleteAllAllowed(v)
      [] r.op = "prepareNext" -> Advanced(v).cur <= MaxCycle
      [] r.op = "closeEmpty"  -> EmptyCloseAllowed(v)
      [] r.op = "closeOrder"  -> Closed(v) \/ (CloseEligible(v) /\ NextClose(v) <= MaxClose)
      [] r.op = "reopen"      -> ReopenAllowed(v)
      [] r.op = "prepare"     -> PrepareAllowed(r, v)
      [] r.op = "finalize"    -> FinalizeAllowed(r, v)
      [] OTHER                -> TRUE

Insertable(r, v, w) ==
    CASE r.op = "create"      -> CreateInsertable(r, v, w)
      [] r.op = "lines"       -> RepointInsertable(r, v, w, v.sheet[r.s].cycle)
      [] r.op = "recalc"      -> RecalculateInsertable(r, v, w)
      [] r.op = "lock"        -> LockInsertable(r, v, w)
      [] r.op = "prepareNext" -> NumbersFree(v, Advanced(v), w)
      [] r.op \in OnSheet \ {"lines", "recalc", "lock"} -> Exists(w, r.s)
      [] r.op = "closeOrder"  -> Closed(v) \/ (NextClose(v) <= MaxClose /\ w.close[NextClose(v)] = "absent")
      [] r.op = "make"        -> w.made[r.c] < PlacedOn(w, r.c)
      [] OTHER                -> TRUE

Written(r, v, w) ==
    CASE r.op = "create"      -> CreateWrite(r, v, w)
      [] r.op = "lines"       -> LinesWrite(r, v, w)
      [] r.op = "recalc"      -> RecalculateWrite(r, v, w)
      [] r.op = "lock"        -> LockWrite(r, v, w)
      [] r.op = "createWo"    -> CreateWoWrite(r, v, w)
      [] r.op \in {"deleteDraft", "void"} -> Deleted({r.s}, w)
      [] r.op = "deleteAll"   -> Deleted(SheetsThere(v), w)
      [] r.op = "cancel"      -> CancelWrite(r, w)
      [] r.op = "closeOrder"  -> IF Closed(v) THEN w ELSE ManuallyClosed(v, w)
      [] r.op = "reopen"      -> Reopened(v, w)
      [] r.op = "prepare"     -> PrepareWrite(r, v, w)
      [] r.op = "finalize"    -> FinalizeWrite(r, v, w)
      [] r.op = "release"     -> [w EXCEPT !.released = @ \cup {r.p}]
      [] r.op = "make"        -> [w EXCEPT !.made[r.c] = @ + 1]
      [] OTHER                -> Merged(v, After(r, v), w)
==============================================================================
