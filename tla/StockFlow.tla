------------------------------ MODULE StockFlow ------------------------------
(***************************************************************************)
(* The buckets of a finished good: rejected lots, customer returns and     *)
(* corrections by hand, as concurrent requests on StockTables.             *)
(***************************************************************************)
EXTENDS RowTx, StockHandlers

VARIABLE shift  \* who is at work; users do not change in a behaviour

ASSUME FlowAssumption ==
    /\ Row = Lot \cup Entry \cup Return \cup Shipment \cup Adjustment \cup Opening \cup {Good}
    /\ \A s \in Shift : DOMAIN OpsOf[s] = Tx
    /\ NoReq \notin Request
    /\ NoView \notin Tables

Init ==
    /\ EngineInit
    /\ shift \in Shift
    /\ \E place \in [FirstLot -> FirstPlace] : db = TablesInit(place)

(***************************************************************************)
(* The steps of a handler.                                                 *)
(***************************************************************************)

Step(t) == IF Idle(t) THEN "idle" ELSE Plan(req[t])[at[t]]

\* The locks a step still has to take.
Lacking(t) ==
    {k \in Wants(Step(t), req[t], snap[t]) : held[t][k[1]] \notin {"X", k[2]}}

\* No other open request has drawn the same new identifiers.  A request has neither
\* seen nor barred anything before its first statement, and one whose first statement
\* shows that it will be refused is left out: it only reads.
Arrive(t, r) ==
    /\ Idle(t)
    /\ Fresh(r, db)
    /\ \A u \in {u \in Tx : ~Idle(u)} : Draws(req[u]) \cap Draws(r) = {}
    /\ IF Plan(r)[1] = "read"
       THEN Readable(r, db) /\ Allowed(r, db) /\ BeginReading(t, r)
       ELSE Begin(t, r)

Check(t) ==
    /\ Step(t) = "check"
    /\ Checked(req[t], db)
    /\ Pass(t)

\* Rows are locked one by one; with the last of them the step is done.
Lock(t) ==
    \E k \in Lacking(t) :
      IF Lacking(t) = {k} THEN Take(t, k[1], k[2]) ELSE Grab(t, k[1], k[2])

LockNothing(t) ==
    /\ Step(t) \notin {"idle", "check", "read", "write"}
    /\ Lacking(t) = {}
    /\ Pass(t)

Read(t) ==
    /\ Step(t) = "read"
    /\ Readable(req[t], db)
    /\ ReadView(t)

Reject(t) ==
    /\ \/ Step(t) = "check" /\ ~Checked(req[t], db)
       \/ Step(t) = "read" /\ ~Readable(req[t], db)
       \/ Step(t) = "write" /\ ~(Allowed(req[t], snap[t]) /\ Insertable(req[t], db))
    /\ Refuse(t)

Write(t, op) ==
    /\ ~Idle(t) /\ req[t].op = op
    /\ Step(t) = "write"
    /\ Allowed(req[t], snap[t])
    /\ Insertable(req[t], db)
    /\ Commit(t, Written(req[t], snap[t], db))

\* InnoDB rolls back a member of a cycle of waits, Prisma a transaction that
\* outlives its time limit; or the process dies.
Abort(t) == ~Idle(t) /\ Rollback(t, "failed")

\* The handlers, each from its last validation to its COMMIT.
SupervisorDecision(t) == Write(t, "decide")
MarkReworkExecuted(t) == Write(t, "mark")
ReconcileQueues(t)    == Write(t, "queue")
HoldAction(t)         == Write(t, "hold")
Recheck(t)            == Write(t, "recheck")
PostQc(t)             == Write(t, "qcPost")
ReverseQc(t)          == Write(t, "qcReverse")
Classify(t)           == Write(t, "classify")
CreateReturn(t)       == Write(t, "return")
ApproveReturn(t)      == Write(t, "approve")
ReworkCompleted(t)    == Write(t, "reworked")
ApproveRework(t)      == Write(t, "approveRework")
ScrapReturn(t)        == Write(t, "scrapReturn")
CreateReplacement(t)  == Write(t, "replace")
BucketTransfer(t)     == Write(t, "transfer")
CompleteReworkQc(t)   == Write(t, "completeRework")
Adjust(t)             == Write(t, "adjust")
ReverseAdjustment(t)  == Write(t, "reverseAdjust")
QcOfAdjustment(t)     == Write(t, "qcAdjust")
ApproveOpening(t)     == Write(t, "openApprove")
ReverseOpening(t)     == Write(t, "openReverse")

LotSteps(t) ==
    \/ SupervisorDecision(t) \/ MarkReworkExecuted(t) \/ ReconcileQueues(t)
    \/ HoldAction(t) \/ Recheck(t) \/ PostQc(t) \/ ReverseQc(t) \/ Classify(t)

ReturnSteps(t) ==
    \/ CreateReturn(t) \/ ApproveReturn(t) \/ ReworkCompleted(t)
    \/ ApproveRework(t) \/ ScrapReturn(t) \/ CreateReplacement(t)

CorrectionSteps(t) ==
    \/ BucketTransfer(t) \/ CompleteReworkQc(t) \/ Adjust(t) \/ ReverseAdjustment(t)
    \/ QcOfAdjustment(t) \/ ApproveOpening(t) \/ ReverseOpening(t)

Next ==
    /\ UNCHANGED shift
    /\ \E t \in Tx :
         \/ \E r \in RequestsOf[shift][t] : Arrive(t, r)
         \/ Check(t) \/ Lock(t) \/ LockNothing(t) \/ Read(t) \/ Reject(t)
         \/ LotSteps(t) \/ ReturnSteps(t) \/ CorrectionSteps(t)
         \/ Abort(t)

Spec == Init /\ [][Next]_<<vars, shift>>
==============================================================================
