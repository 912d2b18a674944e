----------------------------- MODULE Fulfilment ------------------------------
(***************************************************************************)
(* The order-to-dispatch handlers running concurrently, each in its own    *)
(* transaction, step by step: row locks, first read, validation and write. *)
(* Validation uses the read view of the transaction (snap), which may be   *)
(* older than the locks it holds; writes go to the committed tables.       *)
(***************************************************************************)
EXTENDS RowTx, Handlers

ASSUME RowAssumption ==
    /\ Row = SO \cup Item \cup Line \cup Dispatch \cup QcEntry
    /\ SO \cap (Item \cup Line \cup Dispatch \cup QcEntry) = {}
    /\ Item \cap (Line \cup Dispatch \cup QcEntry) = {}
    /\ Line \cap (Dispatch \cup QcEntry) = {}
    /\ Dispatch \cap QcEntry = {}

ASSUME NullAssumption == NoReq \notin Request /\ NoView \notin Tables

Init ==
    /\ \E first \in FirstStatus : db = TablesInit(first)
    /\ EngineInit

(***************************************************************************)
(* Steps.                                                                  *)
(***************************************************************************)

Step(t) == IF Idle(t) THEN "idle" ELSE Plan(req[t].op)[at[t]]
LockSteps == {"so", "item", "dispatch", "qc", "batch", "entry", "draft", "close"}

Wanted(t) == Wants(Step(t), req[t], snap[t])

\* A dispatch row may be gone by the time its lock is granted.
Missing(r) == r \in Dispatch /\ ~RowExists(db, r)

\* New identifiers: no other open request has drawn the same one.
Drawn(r) ==
    \E u \in Tx : /\ ~Idle(u)
                  /\ \/ r.op = "post" /\ req[u].op = "post" /\ req[u].d = r.d
                     \/ r.op = "qcPost" /\ req[u].op = "qcPost" /\ req[u].q = r.q

Arrive(t, r) == Fresh(r, db) /\ ~Drawn(r) /\ Begin(t, r)

Lock(t) ==
    \E k \in Wanted(t) : ~Missing(k[1]) /\ Take(t, k[1], k[2])

LockNothing(t) ==
    /\ Step(t) \in LockSteps
    /\ Wanted(t) = {}
    /\ Pass(t)

NotFound(t) ==
    /\ \E k \in Wanted(t) : Missing(k[1]) /\ Blockers(t, k[1], k[2]) = {}
    /\ Refuse(t)

Read(t) ==
    /\ Step(t) = "read"
    /\ Readable(req[t], db)
    /\ req[t].op = "status" => ~StatusUnchanged(req[t], db)
    /\ ReadView(t)

RefuseAtRead(t) ==
    /\ Step(t) = "read"
    /\ ~Readable(req[t], db)
    /\ req[t].op = "status" => ~StatusUnchanged(req[t], db)
    /\ Refuse(t)

KeepStatus(t) ==
    /\ Step(t) = "read"
    /\ req[t].op = "status" /\ StatusUnchanged(req[t], db)
    /\ Commit(t, db)

RefuseAtWrite(t) ==
    /\ Step(t) = "write"
    /\ ~(Allowed(req[t], snap[t]) /\ Insertable(req[t], db))
    /\ Refuse(t)

Write(t, op) ==
    /\ Step(t) = "write"
    /\ req[t].op = op
    /\ Allowed(req[t], snap[t])
    /\ Insertable(req[t], db)
    /\ Commit(t, Written(req[t], snap[t], db))

PostDispatch(t)    == Write(t, "post")
LockDispatch(t)    == Write(t, "lock")
FinalizeDraft(t)   == Write(t, "finalize")
DeleteDispatch(t)  == Write(t, "delete")
ReverseDispatch(t) == Write(t, "reverse")
PutStatus(t)       == Write(t, "status")
CancelApproval(t)  == Write(t, "cancel")
PostQc(t)          == Write(t, "qcPost")
ReverseQc(t)       == Write(t, "qcReverse")

Writes(t) ==
    \/ PostDispatch(t)   \/ LockDispatch(t) \/ FinalizeDraft(t)
    \/ DeleteDispatch(t) \/ ReverseDispatch(t)
    \/ PutStatus(t)      \/ CancelApproval(t)
    \/ PostQc(t)         \/ ReverseQc(t)

(***************************************************************************)
(* Rollbacks.                                                              *)
(***************************************************************************)

WaitsFor(t) == UNION {Blockers(t, k[1], k[2]) : k \in Wanted(t)}

\* Every member of S waits for another one.
Stuck(S) == S # {} /\ \A t \in S : WaitsFor(t) \cap S # {}

\* A cycle of lock waits: a stuck set that contains no smaller one.
Cycle(S) == Stuck(S) /\ \A T \in SUBSET S : Stuck(T) => T = S

\* Mutant: cycles are not looked for.
NoDeadlockVictim(t) == FALSE

(***************************************************************************)
(* InnoDB rolls a victim back and its statement fails.  In QC posting the  *)
(* statement that closes the order is inside a catch that logs and goes    *)
(* on, so the handler commits what is left, nothing, and answers 201.      *)
(***************************************************************************)
DeadlockVictim(t) ==
    /\ \E S \in SUBSET Tx : t \in S /\ Cycle(S)
    /\ Rollback(t, IF Step(t) = "close" THEN "done" ELSE "failed")

\* Prisma's time limit, or the process dies: at any point before COMMIT.
Expire(t) == ~Idle(t) /\ Rollback(t, "failed")

(***************************************************************************)
(* The specification.                                                      *)
(***************************************************************************)

Run(t) ==
    \/ LockNothing(t) \/ NotFound(t) \/ Read(t) \/ RefuseAtRead(t) \/ KeepStatus(t)
    \/ RefuseAtWrite(t) \/ Writes(t)

Next ==
    \E t \in Tx : \/ \E r \in Request : Arrive(t, r)
                  \/ Lock(t)
                  \/ Run(t)
                  \/ DeadlockVictim(t)
                  \/ Expire(t)

Spec == Init /\ [][Next]_vars

(***************************************************************************)
(* The event loop and the database run a handler that can run (Run); lock  *)
(* requests queue, so one that is granted again and again to others comes  *)
(* to its turn (Lock); InnoDB looks for cycles on every wait.              *)
(***************************************************************************)
Fairness ==
    \A t \in Tx : WF_vars(Run(t)) /\ SF_vars(Lock(t)) /\ WF_vars(DeadlockVictim(t))

FairSpec == Spec /\ Fairness
==============================================================================
