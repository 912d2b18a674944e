------------------------------ MODULE Handlers -------------------------------
(***************************************************************************)
(* Every write handler of the order-to-dispatch flow seen alike: its       *)
(* requests, the order in which it locks and reads, the checks after its   *)
(* first read, the rules it validates before writing, what it writes.      *)
(***************************************************************************)
EXTENDS Dispatches, QcPosting, Sequences

CONSTANT Ops    \* the operations clients use

Request == {r \in StatusRequest \cup CancelRequest \cup PostRequest \cup
                  DraftRequest \cup ReverseRequest \cup QcRequest : r.op \in Ops}

\* Mutants: read before locking; items before orders.
PostPlanReadFirst    == <<"read", "so", "item", "draft", "write">>
ConfirmPlanReadFirst == <<"read", "dispatch", "so", "item", "write">>
ReversePlanItemFirst == <<"read", "item", "so", "dispatch", "write">>

(***************************************************************************)
(* The steps of a handler in program order.  "read" is its first plain     *)
(* SELECT, "write" everything from its last validation to COMMIT, the rest *)
(* are row locks: "draft" that of the draft a POST updates, "entry" the    *)
(* shared lock on Item that the foreign key of a stock row takes, "close"  *)
(* that of the order update by which QC posting closes an order.           *)
(***************************************************************************)
PostPlan      == <<"so", "item", "read", "draft", "write">>
ConfirmPlan   == <<"dispatch", "read", "so", "item", "write">>
DeletePlan    == <<"dispatch", "read", "so", "write">>
ReversePlan   == <<"read", "so", "item", "dispatch", "write">>
StatusPlan    == <<"read", "so", "write">>
QcPostPlan    == <<"batch", "read", "entry", "close", "write">>
QcReversePlan == <<"read", "so", "item", "qc", "write">>

Plan(op) ==
    CASE op = "post"                  -> PostPlan
      [] op \in {"lock", "finalize"}  -> ConfirmPlan
      [] op = "delete"                -> DeletePlan
      [] op = "reverse"               -> ReversePlan
      [] op \in {"status", "cancel"}  -> StatusPlan
      [] op = "qcPost"                -> QcPostPlan
      [] op = "qcReverse"             -> QcReversePlan

\* The line a request is about; status and cancel are about an order.
LineOfRequest(r) == IF r.op \in {"qcPost", "qcReverse"} THEN BatchOf[r.q] ELSE LineOf[r.d]
SoOfRequest(r) == IF r.op \in {"status", "cancel"} THEN r.so ELSE SoOf[LineOfRequest(r)]

\* The rows a step locks and in which mode: at most one.
Wants(step, r, v) ==
    CASE step = "so"       -> {<<SoOfRequest(r), "X">>}
      [] step = "item"     -> {<<ItemOf[LineOfRequest(r)], "X">>}
      [] step = "dispatch" -> {<<r.d, "X">>}
      [] step = "qc"       -> {<<r.q, "X">>}
      [] step = "batch"    -> {<<BatchOf[r.q], "X">>}
      [] step = "entry"    -> {<<BatchItem(r.q), "S">>}
      [] step = "draft"    -> IF Drafts(v, LineOf[r.d]) = {} THEN {}
                              ELSE {<<DraftOf(v, LineOf[r.d]), "X">>}
      [] step = "close"    -> IF QcPostCloses(r, v) THEN {<<BatchSo(r.q), "X">>} ELSE {}
      [] OTHER             -> {}

\* What the handler checks as soon as it has read.
Readable(r, v) ==
    CASE r.op = "post"      -> TRUE
      [] r.op = "lock"      -> IsDraft(v, r.d)
      [] r.op = "finalize"  -> IsDraft(v, r.d)
      [] r.op = "delete"    -> IsDraft(v, r.d)
      [] r.op = "reverse"   -> RowExists(v, r.d)
      [] r.op = "status"    -> StatusReadable(r, v)
      [] r.op = "cancel"    -> CancelReadable(r, v)
      [] r.op = "qcPost"    -> QcPostReadable(r, v)
      [] r.op = "qcReverse" -> QcExists(v, r.q)

\* What it validates when it holds all its locks.
Allowed(r, v) ==
    CASE r.op = "post"      -> PostAllowed(r, v)
      [] r.op = "lock"      -> ConfirmAllowed(r, v)
      [] r.op = "finalize"  -> ConfirmAllowed(r, v)
      [] r.op = "delete"    -> DeleteAllowed(r, v)
      [] r.op = "reverse"   -> ReverseAllowed(r, v)
      [] r.op = "status"    -> StatusAllowed(r, v)
      [] r.op = "cancel"    -> TRUE
      [] r.op = "qcPost"    -> TRUE
      [] r.op = "qcReverse" -> QcReverseAllowed(r, v)

\* What the database itself demands of the rows the handler inserts.
Insertable(r, w) == r.op = "qcReverse" => QcReversalInsertable(r, w)

\* The tables after its writes, computed from view v and applied to w.
Written(r, v, w) ==
    CASE r.op = "post"      -> PostWrite(r, v, w)
      [] r.op = "lock"      -> LockWrite(r, v, w)
      [] r.op = "finalize"  -> FinalizeWrite(r, v, w)
      [] r.op = "delete"    -> DeleteWrite(r, v, w)
      [] r.op = "reverse"   -> ReverseWrite(r, v, w)
      [] r.op = "status"    -> StatusWrite(r, v, w)
      [] r.op = "cancel"    -> CancelWrite(r, v, w)
      [] r.op = "qcPost"    -> QcPostWrite(r, v, w)
      [] r.op = "qcReverse" -> QcReverseWrite(r, v, w)

\* Identifiers drawn by a request are new.
Fresh(r, v) ==
    /\ r.op = "post" => v.disp[r.d].state = "absent"
    /\ r.op = "qcPost" => v.qc[r.q] = "absent"

\* Orders with a work order have been approved.
FirstStatus == {s \in [SO -> {"DRAFT", "APPROVED"}] :
                  \A o \in SO : HasWorkOrder(o) => s[o] = "APPROVED"}
==============================================================================
