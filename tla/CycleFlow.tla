------------------------------ MODULE CycleFlow -------------------------------
(***************************************************************************)
(* One NO_QTY order in use: planners, the store and the office as          *)
(* concurrent requests on CycleTables.                                     *)
(***************************************************************************)
EXTENDS RowTx, CycleHandlers

ASSUME FlowAssumption ==
    /\ Row = CycleRows
    /\ NoReq \notin Request
    /\ NoView \notin Tables

Init == EngineInit /\ db = TablesInit

(***************************************************************************)
(* The steps of a handler.                                                 *)
(***************************************************************************)

Step(t) == IF Idle(t) THEN "idle" ELSE Plan(req[t])[at[t]]

\* Nobody else holds the rows a step locks.
Available(t) == \A k \in Wants(Step(t), req[t], snap[t]) : Blockers(t, k[1], k[2]) = {}

\* The sheet ids that no sheet has and no open request has drawn.
Undrawn ==
    {s \in Sheet : db.sheet[s].state = "absent"} \ UNION {Draws(req[t]) : t \in {t \in Tx : ~Idle(t)}}

\* A request has neither seen nor barred anything before its first statement.  One
\* whose first statement shows that it will be refused is left out: it only reads.
Arrive(t, r) ==
    /\ MaySend(t, r)
    /\ Fresh(r, db)
    /\ \A s \in Draws(r) : s \in Undrawn /\ \A u \in Undrawn : s <= u
    /\ IF Plan(r)[1] = "read" THEN Allowed(r, db) /\ BeginReading(t, r) ELSE Begin(t, r)

Lock(t) ==
    /\ Step(t) \in {"order", "draft"}
    /\ \E k \in Wants(Step(t), req[t], snap[t]) : Take(t, k[1], k[2])

\* BEGIN, after what the handler reads outside its transaction.
Open(t) == Step(t) = "begin" /\ Pass(t)

Read(t) == Step(t) = "read" /\ ReadView(t)

Reject(t) ==
    /\ Step(t) = "write"
    /\ ~(Allowed(req[t], snap[t]) /\ Insertable(req[t], snap[t], db))
    /\ Refuse(t)

\* The rows a handler updates stay locked from there to COMMIT.  Until then no
\* table shows the update, so the model asks for them at COMMIT, and only for those
\* that another handler may still hold: the order and the drafts.
Write(t, op) ==
    /\ ~Idle(t) /\ req[t].op = op
    /\ Step(t) = "write"
    /\ Available(t)
    /\ Allowed(req[t], snap[t])
    /\ Insertable(req[t], snap[t], db)
    /\ Commit(t, Written(req[t], snap[t], db))

\* InnoDB rolls back a member of a cycle of waits, Prisma a transaction that
\* outlives its time limit; or the process dies.
Abort(t) == ~Idle(t) /\ Rollback(t, "failed")

\* The handlers, each from its last validation to its COMMIT.
CreateSheet(t)        == Write(t, "create")
SaveLines(t)          == Write(t, "lines")
Recalculate(t)        == Write(t, "recalc")
LockSheet(t)          == Write(t, "lock")
DeleteDraft(t)        == Write(t, "deleteDraft")
DeleteAllSheets(t)    == Write(t, "deleteAll")
CancelSheet(t)        == Write(t, "cancel")
VoidSheet(t)          == Write(t, "void")
CreateWorkOrder(t)    == Write(t, "createWo")
PrepareNextSheet(t)   == Write(t, "prepareNext")
RepairCycles(t)       == Write(t, "repair")
AutoCloseCycle(t)     == Write(t, "autoClose")
CloseEmptyCycle(t)    == Write(t, "closeEmpty")
CloseOrder(t)         == Write(t, "closeOrder")
ReopenOrder(t)        == Write(t, "reopen")
PrepareDispatch(t)    == Write(t, "prepare")
FinalizeDispatch(t)   == Write(t, "finalize")
ReleasePlan(t)        == Write(t, "release")
MakeGoods(t)          == Write(t, "make")

SheetSteps(t) ==
    \/ CreateSheet(t) \/ SaveLines(t) \/ Recalculate(t) \/ LockSheet(t) \/ DeleteDraft(t)
    \/ DeleteAllSheets(t) \/ CancelSheet(t) \/ VoidSheet(t) \/ CreateWorkOrder(t)

OrderSteps(t) ==
    \/ PrepareNextSheet(t) \/ RepairCycles(t) \/ AutoCloseCycle(t) \/ CloseEmptyCycle(t)
    \/ CloseOrder(t) \/ ReopenOrder(t) \/ PrepareDispatch(t) \/ FinalizeDispatch(t)

Next ==
    \E t \in Tx :
      \/ \E r \in Request : Arrive(t, r)
      \/ Lock(t) \/ Open(t) \/ Read(t) \/ Reject(t)
      \/ SheetSteps(t) \/ OrderSteps(t) \/ ReleasePlan(t) \/ MakeGoods(t)
      \/ Abort(t)

Spec == Init /\ [][Next]_vars
==============================================================================
