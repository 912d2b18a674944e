---------------------------- MODULE StockProofs ------------------------------
(***************************************************************************)
(* Theorems about StockFlow for every value of its constants, in           *)
(* particular for any number of connections, lots, QC entries and returns  *)
(* and whoever sends which request.  Argument: a handler that decides on a *)
(* row locks it before it reads it, so it knows the row (SInv); each write *)
(* touches only rows that are its own, apart from the pooled balances, and *)
(* moves those by what the rows it writes explain.                         *)
(***************************************************************************)
EXTENDS StockEffects

(***************************************************************************)
(* The plans of the handlers.                                              *)
(***************************************************************************)

\* Every plan is a sequence of at most five steps.
LEMMA PlanLength ==
    ASSUME NEW r, r.op \in Operation
    PROVE  Len(Plan(r)) \in 3 .. 5
BY DEF Operation, LotOps, ReturnOps, Plan, DecidePlan, MarkPlan, QueuePlan, HoldPlan,
       RecheckPlan, QcPostPlan, QcReversePlan, ClassifyPlan, ReturnPlan, ReturnQcPlan,
       CorrectionPlan, ReworkQcPlan, ReverseAdjustPlan, AdjustQcPlan, OpeningPlan

\* What stands at position i of the plan of a handler: where it reads and writes, which
\* lock comes first.
LEMMA Positions ==
    ASSUME NEW r \in Request, NEW i \in 1 .. Len(Plan(r))
    PROVE  /\ Len(Plan(r)) \in 3 .. 5
           /\ ReadAt(r.op) \in 1 .. 3 /\ ReadAt(r.op) < Len(Plan(r))
           /\ Plan(r)[i] = "write" <=> i = Len(Plan(r))
           /\ Plan(r)[i] = "read" <=> i = ReadAt(r.op)
           /\ Plan(r)[i] = "check" => r.op = "completeRework"
           /\ Plan(r)[i] # "idle"
           /\ r.op \in {"decide", "mark", "recheck"} /\ i = 1 => Plan(r)[i] = "lot"
           /\ r.op \in ReturnOps /\ i = 1 => Plan(r)[i] = "return"
           /\ r.op = "return" /\ i = 1 => Plan(r)[i] = "shipment"
           /\ r.op = "classify" /\ i = 1 => Plan(r)[i] = "entry"
           /\ r.op = "reverseAdjust" /\ i = 1 => Plan(r)[i] = "row"
           /\ r.op = "hold" => Len(Plan(r)) = 4 /\ (i = 3 => Plan(r)[i] = "lot")
           /\ r.op \in LockFirstOps => Len(Plan(r)) \in 4 .. 5
<1> USE DEF ReadAt, LockFirstOps, ReturnOps
<1>0. r.op \in Operation
  BY RequestForms
<1>1. CASE r.op = "decide"
  BY <1>1 DEF Plan, DecidePlan
<1>2. CASE r.op = "mark"
  BY <1>2 DEF Plan, MarkPlan
<1>3. CASE r.op = "queue"
  BY <1>3 DEF Plan, QueuePlan
<1>4. CASE r.op = "hold"
  BY <1>4 DEF Plan, HoldPlan
<1>5. CASE r.op = "recheck"
  BY <1>5 DEF Plan, RecheckPlan
<1>6. CASE r.op = "qcPost"
  BY <1>6 DEF Plan, QcPostPlan
<1>7. CASE r.op = "qcReverse"
  BY <1>7 DEF Plan, QcReversePlan
<1>8. CASE r.op = "classify"
  BY <1>8 DEF Plan, ClassifyPlan
<1>9. CASE r.op = "return"
  BY <1>9 DEF Plan, ReturnPlan
<1>10. CASE r.op \in ReturnOps
  BY <1>10 DEF Plan, ReturnQcPlan
<1>11. CASE r.op \in {"transfer", "adjust"}
  BY <1>11 DEF Plan, CorrectionPlan
<1>12. CASE r.op = "completeRework"
  BY <1>12 DEF Plan, ReworkQcPlan
<1>13. CASE r.op = "reverseAdjust"
  BY <1>13 DEF Plan, ReverseAdjustPlan
<1>14. CASE r.op = "qcAdjust"
  BY <1>14 DEF Plan, AdjustQcPlan
<1>15. CASE r.op \in {"openApprove", "openReverse"}
  BY <1>15 DEF Plan, OpeningPlan
<1> QED BY <1>0, <1>1, <1>2, <1>3, <1>4, <1>5, <1>6, <1>7, <1>8, <1>9, <1>10, <1>11, <1>12,
           <1>13, <1>14, <1>15 DEF Operation, LotOps

\* Which handler takes which kind of row lock.
LEMMA StepKinds ==
    ASSUME NEW r \in Request, NEW i \in 1 .. Len(Plan(r))
    PROVE  /\ Plan(r)[i] = "lot" => r.op \in LotOps
           /\ Plan(r)[i] = "return" => r.op \in ReturnOps
           /\ Plan(r)[i] = "shipment" => r.op = "return"
           /\ Plan(r)[i] = "entry" => r.op \in {"classify", "qcReverse"}
           /\ Plan(r)[i] = "row" => r.op = "reverseAdjust"
<1> USE DEF LotOps, ReturnOps
<1>0. r.op \in Operation
  BY RequestForms
<1>1. CASE r.op = "decide"
  BY <1>1 DEF Plan, DecidePlan, LotOps
<1>2. CASE r.op \in {"mark", "recheck"}
  BY <1>2 DEF Plan, MarkPlan, RecheckPlan, LotOps
<1>3. CASE r.op \in {"queue", "qcPost"}
  BY <1>3 DEF Plan, QueuePlan, QcPostPlan
<1>4. CASE r.op = "hold"
  BY <1>4 DEF Plan, HoldPlan, LotOps
<1>5. CASE r.op \in {"qcReverse", "classify"}
  BY <1>5 DEF Plan, QcReversePlan, ClassifyPlan
<1>6. CASE r.op = "return"
  BY <1>6 DEF Plan, ReturnPlan
<1>7. CASE r.op \in ReturnOps
  BY <1>7 DEF Plan, ReturnQcPlan, ReturnOps
<1>8. CASE r.op \in {"transfer", "adjust", "qcAdjust"}
  BY <1>8 DEF Plan, CorrectionPlan, AdjustQcPlan, ReturnOps
<1>9. CASE r.op = "completeRework"
  BY <1>9 DEF Plan, ReworkQcPlan, ReturnOps
<1>10. CASE r.op = "reverseAdjust"
  BY <1>10 DEF Plan, ReverseAdjustPlan, ReturnOps
<1>11. CASE r.op \in {"openApprove", "openReverse"}
  BY <1>11 DEF Plan, OpeningPlan, ReturnOps
<1> QED BY <1>0, <1>1, <1>2, <1>3, <1>4, <1>5, <1>6, <1>7, <1>8, <1>9, <1>10, <1>11
        DEF Operation, LotOps

(***************************************************************************)
(* The invariant, sorted by what it looks at.                              *)
(***************************************************************************)

\* The part that only looks at the tables.
RowsOK ==
    /\ ReturnRowsAgree /\ BucketsAgree /\ AbsentAdjustments
    /\ ReworkOnce /\ ReturnMovesOnce /\ ScrapWithinReturn /\ AdjustmentReversedOnce

\* The part about one transaction.
TxOK(t) ==
    /\ IF Idle(t) THEN req[t] = NoReq ELSE req[t] # NoReq /\ at[t] <= Len(Plan(req[t]))
    /\ Viewed(t) => snap[t] \in Tables /\ Readable(req[t], snap[t])
    /\ Doing(t, LockFirstOps, 1) => held[t][FirstRow(req[t])] = "X"
    /\ Doing(t, {"hold"}, 3) => \A d \in {req[t].d} \cup Draws(req[t]) : held[t][d] = "X"
    /\ Doing(t, {"recheck"}, 2) =>
         \A b \in {"REWORK", "QC_PENDING"} :
           Owned(snap[t], req[t].d, b) = Owned(db, req[t].d, b)
    /\ Doing(t, ReturnOps, 2) => snap[t].ret[req[t].c] = db.ret[req[t].c]
    /\ Doing(t, {"return"}, 2) =>
         \A c \in Return : ShipmentOf[c] = ShipmentOf[req[t].c] =>
           Listed(snap[t], c) = Listed(db, c)
    /\ Doing(t, {"reverseAdjust"}, 2) =>
         /\ db.adj[req[t].a].state = "posted"
         /\ snap[t].adj[req[t].a].delta = db.adj[req[t].a].delta
    /\ Viewed(t) => \A q \in Entry : snap[t].entry[q].state # "absent" =>
                                       db.entry[q].state # "absent"
    /\ Doing(t, {"return"}, 0) => db.ret[req[t].c].state = "absent"
    /\ Doing(t, {"adjust"}, 0) => db.adj[req[t].a].state = "absent"
    /\ Doing(t, {"qcPost"}, 0) => db.entry[req[t].q].state = "absent"

\* The types, apart from where a transaction stands in its plan.
Typed ==
    /\ db \in Tables
    /\ held \in [Tx -> [Row -> LockMode]]
    /\ req \in [Tx -> Request \cup {NoReq}]
    /\ at \in [Tx -> 0 .. 5]
    /\ snap \in [Tx -> Tables \cup {NoView}]
    /\ answer \in [Tx -> Answer]
    /\ shift \in Shift

\* SInv is these parts.
LEMMA InvariantParts ==
    /\ SInv <=> /\ Typed /\ LocksExclusive /\ RowsOK /\ DistinctDraws
                /\ \A t \in Tx : TxOK(t)
    /\ Typed' /\ LocksExclusive' /\ RowsOK' /\ DistinctDraws' /\ (\A t \in Tx : TxOK(t)')
         => SInv'
BY DEF SInv, TypeOK, Typed, TxOK, RowsOK, ViewRead, HoldsRow, LotKnown, ReturnKnown,
       ShipmentKnown, AdjustmentKnown, EntriesOlder, FreshRows

\* Where a busy transaction stands.
LEMMA Standing ==
    ASSUME SInv, NEW t \in Tx, ~Idle(t)
    PROVE  /\ req[t] \in Request
           /\ at[t] \in 1 .. 5 /\ at[t] \in 1 .. Len(Plan(req[t]))
           /\ Len(Plan(req[t])) \in 3 .. 5
           /\ ReadAt(req[t].op) \in 1 .. 3 /\ ReadAt(req[t].op) < Len(Plan(req[t]))
           /\ Step(t) = Plan(req[t])[at[t]] /\ Step(t) # "idle"
           /\ Step(t) = "write" <=> at[t] = Len(Plan(req[t]))
           /\ Step(t) = "read" <=> at[t] = ReadAt(req[t].op)
           /\ Step(t) # "write" => at[t] + 1 \in 1 .. Len(Plan(req[t]))
           /\ Step(t) = "write" =>
                /\ Viewed(t)
                /\ Doing(t, LockFirstOps \cup {"hold"}, 0) => at[t] > 3
<1>1. /\ req[t] \in Request \cup {NoReq} /\ req[t] # NoReq
      /\ at[t] \in 0 .. 5 /\ at[t] # 0 /\ at[t] <= Len(Plan(req[t]))
  BY InvariantParts DEF Typed, TxOK, Idle
<1> DEFINE r == req[t]
           i == at[t]
           n == Len(Plan(r))
           k == ReadAt(r.op)
<1>2. r \in Request /\ i \in 1 .. 5 /\ Step(t) = Plan(r)[i]
  BY <1>1 DEF Step
<1>3. n \in Nat
  <2>1. r.op \in Operation /\ (r.op \in Operation => Len(Plan(r)) \in Nat)
    BY <1>2, RequestForms, PlanLength
  <2> QED BY <2>1
<1>4. i \in 1 .. n
  <2> HIDE DEF i, n
  <2> QED BY <1>1, <1>2, <1>3 DEF i, n
<1>5. /\ n \in 3 .. 5 /\ k \in 1 .. 3 /\ k < n
      /\ Step(t) # "idle"
      /\ Step(t) = "write" <=> i = n
      /\ Step(t) = "read" <=> i = k
      /\ r.op = "hold" => n = 4
      /\ r.op \in LockFirstOps => n \in 4 .. 5
  BY <1>2, <1>4, Positions
<1>6. /\ Step(t) # "write" => i + 1 \in 1 .. n
      /\ Step(t) = "write" => i > k /\ (r.op \in LockFirstOps \cup {"hold"} => i > 3)
  <2> HIDE DEF i, n, k, r
  <2> QED BY <1>4, <1>5
<1> QED BY <1>2, <1>4, <1>5, <1>6 DEF Viewed, Doing

\* A transaction that takes no part in a step that leaves the tables alone.
LEMMA Bystander ==
    ASSUME NEW u \in Tx, TxOK(u), UNCHANGED <<db, held[u], req[u], at[u], snap[u]>>
    PROVE  TxOK(u)'
BY DEF TxOK, Idle, Viewed, Doing

\* A step that writes nothing keeps the rows in order.
LEMMA SameRows ==
    ASSUME RowsOK, db' = db
    PROVE  RowsOK'
BY DEF RowsOK, ReturnRowsAgree, BucketsAgree, AbsentAdjustments, ReworkOnce,
       ReturnMovesOnce, ScrapWithinReturn, AdjustmentReversedOnce

\* COMMIT and ROLLBACK keep what concerns the transaction that ends.
LEMMA FinishKeeps ==
    ASSUME SInv, NEW t \in Tx, NEW a \in Answer, Finish(t, a), db' \in Tables, shift' = shift
    PROVE  Typed' /\ LocksExclusive' /\ DistinctDraws' /\ TxOK(t)'
<1>0. Typed /\ LocksExclusive /\ DistinctDraws
  BY InvariantParts
<1>1. /\ at'[t] = 0 /\ req'[t] = NoReq /\ held'[t] = Unlocked
      /\ \A u \in Tx \ {t} : UNCHANGED <<held[u], req[u], at[u], snap[u]>>
  BY <1>0 DEF Finish, Typed
<1>2. Typed'
  BY <1>0 DEF Finish, Typed, Unlocked, LockMode
<1>3. LocksExclusive'
  BY <1>0, <1>1 DEF LocksExclusive, Unlocked
<1>4. DistinctDraws'
  BY <1>0, <1>1 DEF DistinctDraws, Idle
<1>5. TxOK(t)'
  BY <1>1 DEF TxOK, Idle, Viewed, Doing
<1> QED BY <1>2, <1>3, <1>4, <1>5

\* A handler that ends without a write keeps the invariant.
LEMMA EndKeeps ==
    ASSUME SInv, NEW t \in Tx, NEW a \in Answer, Finish(t, a), db' = db, shift' = shift
    PROVE  SInv'
<1>0. Typed /\ RowsOK /\ \A u \in Tx : TxOK(u)
  BY InvariantParts
<1>1. \A u \in Tx \ {t} : UNCHANGED <<db, held[u], req[u], at[u], snap[u]>>
  BY <1>0 DEF Finish, Typed
<1>2. \A u \in Tx \ {t} : TxOK(u)'
  BY <1>0, <1>1, Bystander
<1>3. Typed' /\ LocksExclusive' /\ DistinctDraws' /\ TxOK(t)'
  BY <1>0, FinishKeeps DEF Typed
<1>4. RowsOK'
  BY <1>0, SameRows
<1> QED BY <1>2, <1>3, <1>4, InvariantParts

\* A request that enters its handler keeps the invariant.
LEMMA ArriveKeeps ==
    ASSUME SInv, NEW t \in Tx, NEW r \in RequestsOf[shift][t], Arrive(t, r), shift' = shift
    PROVE  SInv' /\ db' = db
<1>0. Typed /\ LocksExclusive /\ RowsOK /\ DistinctDraws /\ \A u \in Tx : TxOK(u)
  BY InvariantParts
<1>a. r \in Request
  <2>1. shift \in Shift /\ t \in DOMAIN OpsOf[shift]
    BY <1>0, FlowAssumption DEF Typed
  <2>2. r \in AnyRequest /\ r.op \in OpsOf[shift][t]
    BY <2>1 DEF RequestsOf
  <2> QED BY <2>1, <2>2 DEF Request
<1>1. /\ db' = db /\ held' = held
      /\ at[t] = 0 /\ req'[t] = r
      /\ IF Plan(r)[1] = "read"
         THEN at'[t] = 2 /\ snap'[t] = db /\ Readable(r, db)
         ELSE at'[t] = 1 /\ snap'[t] = snap[t]
      /\ \A u \in Tx \ {t} : UNCHANGED <<db, held[u], req[u], at[u], snap[u]>>
  BY <1>0 DEF Arrive, Begin, BeginReading, Idle, Typed
<1>2. Typed'
  <2>1. CASE Begin(t, r)
    BY <1>0, <1>a, <2>1 DEF Begin, Typed, Answer
  <2>2. CASE BeginReading(t, r)
    BY <1>0, <1>a, <2>2 DEF BeginReading, Typed, Answer
  <2> QED BY <2>1, <2>2 DEF Arrive
<1>3. LocksExclusive' /\ RowsOK'
  BY <1>0, <1>1, SameRows DEF LocksExclusive
<1>4. DistinctDraws'
  <2>1. \A u \in Tx \ {t} : ~Idle(u) => Draws(req[u]) \cap Draws(r) = {}
    BY DEF Arrive
  <2> QED BY <1>0, <1>1, <2>1 DEF DistinctDraws, Idle
<1>5. \A u \in Tx \ {t} : TxOK(u)'
  BY <1>0, <1>1, Bystander
<1>6. TxOK(t)'
  <2>1. /\ 1 \in 1 .. Len(Plan(r)) /\ 2 <= Len(Plan(r)) /\ 1 <= Len(Plan(r))
        /\ ReadAt(r.op) \in 1 .. 3
        /\ Plan(r)[1] = "read" <=> ReadAt(r.op) = 1
    <3>1. Len(Plan(r)) \in 3 .. 5
      BY <1>a, RequestForms, PlanLength
    <3>2. 1 \in 1 .. Len(Plan(r)) /\ 2 <= Len(Plan(r)) /\ 1 <= Len(Plan(r))
      BY <3>1
    <3> QED BY <1>a, <3>2, Positions
  <2>2. /\ r.op = "return" => db.ret[r.c].state = "absent"
        /\ r.op = "adjust" => db.adj[r.a].state = "absent"
        /\ r.op = "qcPost" => db.entry[r.q].state = "absent"
    BY DEF Arrive, Fresh
  <2>3. /\ at'[t] \in {1, 2} /\ r # NoReq
        /\ at'[t] = 2 => ReadAt(r.op) = 1 /\ snap'[t] = db /\ Readable(r, db)
    BY <1>a, <1>1, <2>1, FlowAssumption
  <2>4. ~Idle(t)' /\ (r.op \in LockFirstOps => ReadAt(r.op) = 2)
    BY <2>3 DEF Idle, ReadAt
  <2>5. Viewed(t)' => snap'[t] = db /\ Readable(r, db)
    BY <1>1, <2>1, <2>3 DEF Viewed
  <2>6. \A n \in {2, 3} : \A ops : ~Doing(t, ops, n)'
    BY <2>3 DEF Doing
  <2>7. ~Doing(t, LockFirstOps, 1)'
    BY <1>1, <2>3, <2>4 DEF Doing
  <2>8. /\ Doing(t, {"return"}, 0)' => db'.ret[r.c].state = "absent"
        /\ Doing(t, {"adjust"}, 0)' => db'.adj[r.a].state = "absent"
        /\ Doing(t, {"qcPost"}, 0)' => db'.entry[r.q].state = "absent"
    BY <1>1, <2>2 DEF Doing
  <2> QED BY <1>0, <1>1, <2>1, <2>3, <2>4, <2>5, <2>6, <2>7, <2>8 DEF TxOK, Typed
<1> QED BY <1>1, <1>2, <1>3, <1>4, <1>5, <1>6, InvariantParts

(***************************************************************************)
(* Steps before the last.                                                  *)
(***************************************************************************)

RowSteps == {"lot", "return", "shipment", "entry", "row"}

\* The rows that a lock step asks for.
LEMMA WantedForms ==
    ASSUME SInv, NEW t \in Tx, ~Idle(t), NEW k \in Wants(Step(t), req[t], snap[t])
    PROVE  /\ Step(t) \notin {"check", "read", "write"}
           /\ k[2] \in {"S", "X"}
           /\ Step(t) \in RowSteps => k[2] = "X"
BY DEF Wants, RowSteps

\* The first lock of a handler that locks before it reads is on the row it decides on,
\* the last of a decision on held goods on its lots.
LEMMA FirstLock ==
    ASSUME SInv, NEW t \in Tx, ~Idle(t)
    PROVE  /\ at[t] = 1 /\ req[t].op \in LockFirstOps =>
                /\ Step(t) \in RowSteps
                /\ <<FirstRow(req[t]), "X">> \in Wants(Step(t), req[t], snap[t])
           /\ at[t] = 3 /\ req[t].op = "hold" =>
                /\ Step(t) \in RowSteps
                /\ \A d \in {req[t].d} \cup Draws(req[t]) :
                     <<d, "X">> \in Wants(Step(t), req[t], snap[t])
<1> DEFINE r == req[t]
<1>1. /\ r.op \in {"decide", "mark", "recheck"} /\ at[t] = 1 => Step(t) = "lot"
      /\ r.op \in ReturnOps /\ at[t] = 1 => Step(t) = "return"
      /\ r.op = "return" /\ at[t] = 1 => Step(t) = "shipment"
      /\ r.op = "classify" /\ at[t] = 1 => Step(t) = "entry"
      /\ r.op = "reverseAdjust" /\ at[t] = 1 => Step(t) = "row"
      /\ r.op = "hold" /\ at[t] = 3 => Step(t) = "lot"
  BY Standing, Positions
<1> HIDE DEF r
<1>2. CASE r.op \in {"decide", "mark", "recheck"}
  BY <1>1, <1>2 DEF Wants, FirstRow, LotOps, RowSteps, r
<1>3. CASE r.op \in ReturnOps
  BY <1>1, <1>3 DEF Wants, FirstRow, LotOps, ReturnOps, RowSteps, r
<1>4. CASE r.op = "return"
  BY <1>1, <1>4 DEF Wants, FirstRow, LotOps, ReturnOps, RowSteps, r
<1>5. CASE r.op \in {"classify", "reverseAdjust"}
  BY <1>1, <1>5 DEF Wants, FirstRow, LotOps, ReturnOps, RowSteps, r
<1>6. CASE r.op = "hold"
  BY <1>1, <1>6 DEF Wants, LockFirstOps, ReturnOps, RowSteps, r
<1> QED BY <1>2, <1>3, <1>4, <1>5, <1>6 DEF LockFirstOps, r

\* What a step before the last has to establish for the transaction itself.
LEMMA AdvanceKeeps ==
    ASSUME SInv, NEW t \in Tx, ~Idle(t), Step(t) # "write",
           db' = db, req' = req, answer' = answer, shift' = shift,
           at' = [at EXCEPT ![t] = @ + 1],
           held' \in [Tx -> [Row -> LockMode]], LocksExclusive',
           snap' \in [Tx -> Tables \cup {NoView}],
           \A u \in Tx \ {t} : held'[u] = held[u] /\ snap'[u] = snap[u],
           \A x : held[t][x] = "X" => held'[t][x] = "X",
           Step(t) \in RowSteps =>
             \A k \in Wants(Step(t), req[t], snap[t]) : held'[t][k[1]] = "X",
           Step(t) # "read" => snap'[t] = snap[t],
           Step(t) = "read" => snap'[t] = db /\ Readable(req[t], db)
    PROVE  SInv'
<1> DEFINE r == req[t]
           i == at[t]
           n == Len(Plan(r))
           k == ReadAt(r.op)
<1>0. Typed /\ LocksExclusive /\ RowsOK /\ DistinctDraws /\ \A u \in Tx : TxOK(u)
  BY InvariantParts
<1>1. /\ at'[t] = i + 1 /\ req'[t] = r
      /\ \A u \in Tx \ {t} : UNCHANGED <<db, held[u], req[u], at[u], snap[u]>>
  BY <1>0 DEF Typed
<1>2. /\ r \in Request /\ i \in 1 .. 5 /\ n \in 3 .. 5 /\ k \in 1 .. 3
      /\ i + 1 \in 1 .. n
      /\ Step(t) = "read" <=> i = k
  BY Standing
<1>3. i + 1 \in 0 .. 5 /\ i + 1 # 0 /\ i + 1 <= n /\ i > 0
  <2> HIDE DEF i, n, k, r
  <2> QED BY <1>2
<1>4. Typed'
  <2>1. at' \in [Tx -> 0 .. 5]
    BY <1>0, <1>3 DEF Typed
  <2> QED BY <1>0, <2>1 DEF Typed
<1>5. RowsOK' /\ DistinctDraws'
  <2>1. \A u \in Tx : Idle(u)' <=> Idle(u)
    BY <1>1, <1>3 DEF Idle
  <2> QED BY <1>0, <2>1, SameRows DEF DistinctDraws
<1>6. \A u \in Tx \ {t} : TxOK(u)'
  BY <1>0, <1>1, Bystander
<1>7. TxOK(t)'
  <2>1. TxOK(t) /\ ~Idle(t)' /\ r # NoReq
    BY <1>0, <1>1, <1>2, <1>3, FlowAssumption DEF Idle
  <2>2. \A m \in 0 .. 3 : i + 1 > m <=> i > m \/ i = m
    <3> HIDE DEF i
    <3> QED BY <1>2
  <2>3. i + 1 > k <=> i > k \/ i = k
    <3> HIDE DEF i, k
    <3> QED BY <1>2
  <2>4. Viewed(t)' <=> Viewed(t) \/ Step(t) = "read"
    BY <1>1, <1>2, <2>1, <2>3 DEF Viewed
  <2>5. \A ops : \A m \in 0 .. 3 : Doing(t, ops, m)' <=> r.op \in ops /\ (Doing(t, ops, m) \/ i = m)
    BY <1>1, <2>1, <2>2 DEF Doing
  <2>6. /\ Doing(t, LockFirstOps, 1)' => held'[t][FirstRow(r)] = "X"
        /\ Doing(t, {"hold"}, 3)' => \A d \in {r.d} \cup Draws(r) : held'[t][d] = "X"
    <3>1. ASSUME r.op \in LockFirstOps, i = 1 PROVE held'[t][FirstRow(r)] = "X"
      <4>1. /\ Step(t) \in RowSteps
            /\ <<FirstRow(r), "X">> \in Wants(Step(t), r, snap[t])
        BY <3>1, FirstLock
      <4> QED BY <4>1
    <3>2. ASSUME r.op = "hold", i = 3, NEW d \in {r.d} \cup Draws(r) PROVE held'[t][d] = "X"
      <4>1. Step(t) \in RowSteps /\ <<d, "X">> \in Wants(Step(t), r, snap[t])
        BY <3>2, FirstLock
      <4> QED BY <4>1
    <3>3. /\ Doing(t, LockFirstOps, 1) => held[t][FirstRow(r)] = "X"
          /\ Doing(t, {"hold"}, 3) => \A d \in {r.d} \cup Draws(r) : held[t][d] = "X"
      BY <2>1 DEF TxOK
    <3> QED BY <2>5, <3>1, <3>2, <3>3
  <2>7. CASE Step(t) = "read"
    <3>1. snap'[t] = db /\ db' = db /\ Readable(r, db) /\ db \in Tables
      BY <1>0, <2>7 DEF Typed
    <3>2. Doing(t, {"reverseAdjust"}, 2)' => db.adj[r.a].state = "posted"
      BY <2>5, <3>1 DEF Readable, ReverseAdjustReadable, ReturnOps
    <3>3. /\ Doing(t, {"return"}, 0)' => db.ret[r.c].state = "absent"
          /\ Doing(t, {"adjust"}, 0)' => db.adj[r.a].state = "absent"
          /\ Doing(t, {"qcPost"}, 0)' => db.entry[r.q].state = "absent"
      BY <1>3, <2>1 DEF TxOK, Doing
    <3> QED BY <1>1, <1>3, <2>1, <2>6, <3>1, <3>2, <3>3 DEF TxOK
  <2>8. CASE Step(t) # "read"
    <3>1. snap'[t] = snap[t] /\ db' = db /\ i # k
      BY <1>2, <2>8
    <3>2. Doing(t, ReturnOps \cup {"recheck", "return", "reverseAdjust"}, 2)' =>
            Doing(t, ReturnOps \cup {"recheck", "return", "reverseAdjust"}, 2)
      <4>1. r.op \in ReturnOps \cup {"recheck", "return", "reverseAdjust"} => k = 2
        BY DEF ReadAt, LockFirstOps, ReturnOps
      <4> QED BY <2>5, <3>1, <4>1
    <3>3. \A ops \in {ReturnOps, {"recheck"}, {"return"}, {"reverseAdjust"}} :
            Doing(t, ops, 2)' => Doing(t, ops, 2)
      BY <1>1, <3>2 DEF Doing
    <3>4. \A ops : Doing(t, ops, 0)' => Doing(t, ops, 0)
      BY <1>1, <1>3, <2>1 DEF Doing, Idle
    <3> QED BY <1>1, <1>3, <2>1, <2>4, <2>6, <2>8, <3>1, <3>3, <3>4 DEF TxOK
  <2> QED BY <2>7, <2>8
<1> QED BY <1>4, <1>5, <1>6, <1>7, InvariantParts

\* The rows that a handler decides on are rows.
LEMMA WantedRows ==
    ASSUME SInv, NEW t \in Tx, ~Idle(t), Step(t) \in RowSteps,
           NEW k \in Wants(Step(t), req[t], snap[t])
    PROVE  k[1] \in Row
<1> DEFINE r == req[t]
<1>1. r \in Request
  BY Standing
<1>2. \/ Step(t) = "lot" /\ r.op \in LotOps
      \/ Step(t) = "return" /\ r.op \in ReturnOps
      \/ Step(t) = "shipment" /\ r.op = "return"
      \/ Step(t) = "entry" /\ r.op \in {"classify", "qcReverse"}
      \/ Step(t) = "row" /\ r.op = "reverseAdjust"
  BY Standing, StepKinds DEF RowSteps
<1>3. CASE Step(t) = "lot" /\ r.op \in LotOps
  <2>1. r.d \in Lot
    BY <1>1, <1>3, RequestFields
  <2>2. Draws(r) \subseteq Lot
    BY <1>1, <1>3, RequestFields DEF Draws, LotOps
  <2> QED BY <1>3, <2>1, <2>2, FlowAssumption DEF Wants
<1>4. CASE Step(t) = "return" /\ r.op \in ReturnOps
  BY <1>1, <1>4, RequestFields, FlowAssumption DEF Wants
<1>5. CASE Step(t) = "shipment" /\ r.op = "return"
  BY <1>1, <1>5, RequestFields, FlowAssumption, StockAssumption DEF Wants
<1>6. CASE Step(t) = "entry" /\ r.op \in {"classify", "qcReverse"}
  BY <1>1, <1>6, RequestFields, FlowAssumption DEF Wants
<1>7. CASE Step(t) = "row" /\ r.op = "reverseAdjust"
  BY <1>1, <1>7, RequestFields, FlowAssumption DEF Wants
<1> QED BY <1>2, <1>3, <1>4, <1>5, <1>6, <1>7

\* A granted lock excludes the others.
LEMMA GrantExcludes ==
    ASSUME SInv, NEW t \in Tx, NEW y, NEW m, m \in {"S", "X"},
           held[t][y] # "X", held[t][y] # m,
           Blockers(t, y, m) = {}, held' = [held EXCEPT ![t][y] = m]
    PROVE  /\ held' \in [Tx -> [Row -> LockMode]]
           /\ LocksExclusive'
           /\ \A x : held[t][x] = "X" => held'[t][x] = "X"
           /\ y \in Row => held'[t][y] = m
           /\ \A x \in Row : x # y => held'[t][x] = held[t][x]
           /\ \A u \in Tx \ {t} : held'[u] = held[u]
<1>0. Typed /\ LocksExclusive
  BY InvariantParts
<1>1. held' \in [Tx -> [Row -> LockMode]]
  BY <1>0 DEF Typed, LockMode
<1>2. /\ \A r \in Row : held'[t][r] = IF r = y THEN m ELSE held[t][r]
      /\ \A u \in Tx \ {t} : held'[u] = held[u]
  BY <1>0 DEF Typed
<1>3. \A x : held[t][x] = "X" => held'[t][x] = "X"
  <2> SUFFICES ASSUME NEW x, held[t][x] = "X" PROVE held'[t][x] = "X"
    OBVIOUS
  <2>1. x # y
    OBVIOUS
  <2>2. held[t] \in [Row -> LockMode] /\ held'[t] = [held[t] EXCEPT ![y] = m]
    BY <1>0 DEF Typed
  <2> QED BY <2>1, <2>2
<1>4. LocksExclusive'
  <2>1. \A u \in Tx \ {t} : ~Conflict(held[u][y], m)
    BY DEF Blockers
  <2>2. \A u \in Tx : \A r \in Row : held[u][r] \in LockMode
    BY <1>0 DEF Typed
  <2>3. \A u \in Tx \ {t} : y \in Row =>
            /\ held[u][y] # "X"
            /\ m = "X" => held[u][y] = "-"
    BY <2>1, <2>2 DEF Conflict, LockMode
  <2> QED BY <1>0, <1>2, <2>3 DEF LocksExclusive
<1> QED BY <1>1, <1>2, <1>3, <1>4

\* A granted SELECT ... FOR UPDATE keeps the invariant, the last of a step as well as
\* the others.
LEMMA LockKeeps ==
    ASSUME SInv, NEW t \in Tx, Lock(t), shift' = shift
    PROVE  SInv' /\ db' = db
<1>0. Typed /\ LocksExclusive /\ RowsOK /\ DistinctDraws /\ \A u \in Tx : TxOK(u)
  BY InvariantParts
<1>1. PICK k \in Lacking(t) : IF Lacking(t) = {k} THEN Take(t, k[1], k[2]) ELSE Grab(t, k[1], k[2])
  BY DEF Lock
<1>2. ~Idle(t)
  BY DEF Lock, Lacking, Wants, Step
<1>3. /\ k \in Wants(Step(t), req[t], snap[t]) /\ held[t][k[1]] \notin {"X", k[2]}
      /\ Step(t) \notin {"check", "read", "write"} /\ k[2] \in {"S", "X"}
      /\ Step(t) \in RowSteps => k[2] = "X"
  BY <1>2, WantedForms DEF Lacking
<1>4. /\ Blockers(t, k[1], k[2]) = {} /\ held' = [held EXCEPT ![t][k[1]] = k[2]]
      /\ db' = db /\ req' = req /\ snap' = snap /\ answer' = answer
  BY <1>1 DEF Take, Grab
<1>5. /\ held' \in [Tx -> [Row -> LockMode]] /\ LocksExclusive'
      /\ \A x : held[t][x] = "X" => held'[t][x] = "X"
      /\ k[1] \in Row => held'[t][k[1]] = k[2]
      /\ \A x \in Row : x # k[1] => held'[t][x] = held[t][x]
      /\ \A u \in Tx \ {t} : held'[u] = held[u]
  <2> DEFINE y == k[1]
             m == k[2]
  <2>1. m \in {"S", "X"} /\ held[t][y] # "X" /\ held[t][y] # m
    BY <1>3
  <2>2. Blockers(t, y, m) = {} /\ held' = [held EXCEPT ![t][y] = m]
    BY <1>4
  <2> HIDE DEF y, m
  <2>3. /\ held' \in [Tx -> [Row -> LockMode]] /\ LocksExclusive'
        /\ \A x : held[t][x] = "X" => held'[t][x] = "X"
        /\ y \in Row => held'[t][y] = m
        /\ \A x \in Row : x # y => held'[t][x] = held[t][x]
        /\ \A u \in Tx \ {t} : held'[u] = held[u]
    BY <2>1, <2>2, GrantExcludes
  <2> QED BY <2>3 DEF y, m
<1>6. CASE Lacking(t) = {k}
  <2>1. at' = [at EXCEPT ![t] = @ + 1]
    BY <1>1, <1>6 DEF Take
  <2>2. ASSUME Step(t) \in RowSteps, NEW j \in Wants(Step(t), req[t], snap[t])
        PROVE  held'[t][j[1]] = "X"
    <3>1. CASE j = k
      BY <1>2, <1>3, <1>5, <2>2, <3>1, WantedRows
    <3>2. CASE j # k
      <4>1. j[2] = "X" /\ held[t][j[1]] = "X"
        BY <1>2, <1>6, <2>2, <3>2, WantedForms DEF Lacking
      <4> QED BY <1>5, <4>1
    <3> QED BY <3>1, <3>2
  <2>3. snap' \in [Tx -> Tables \cup {NoView}]
    BY <1>0, <1>4 DEF Typed
  <2> QED BY <1>2, <1>3, <1>4, <1>5, <2>1, <2>2, <2>3, AdvanceKeeps
<1>7. CASE Lacking(t) # {k}
  <2>1. at' = at
    BY <1>1, <1>7 DEF Grab
  <2>2. Typed' /\ DistinctDraws' /\ RowsOK'
    BY <1>0, <1>4, <1>5, <2>1, SameRows DEF Typed, DistinctDraws, Idle
  <2>3. \A u \in Tx \ {t} : TxOK(u)'
    BY <1>0, <1>4, <1>5, <2>1, Bystander
  <2>4. TxOK(t)'
    <3>1. TxOK(t)
      BY <1>0
    <3> QED BY <1>4, <1>5, <2>1, <3>1 DEF TxOK, Idle, Viewed, Doing
  <2> QED BY <1>4, <1>5, <2>2, <2>3, <2>4, InvariantParts
<1> QED BY <1>6, <1>7

\* So does a lock step with nothing left to lock,
LEMMA PassKeeps ==
    ASSUME SInv, NEW t \in Tx, LockNothing(t) \/ Check(t), shift' = shift
    PROVE  SInv' /\ db' = db
<1>0. Typed /\ LocksExclusive
  BY InvariantParts
<1>1. Step(t) \notin {"idle", "read", "write"} /\ Pass(t)
  BY DEF LockNothing, Check
<1>2. ~Idle(t)
  BY <1>1 DEF Step
<1>3. ASSUME Step(t) \in RowSteps, NEW k \in Wants(Step(t), req[t], snap[t])
      PROVE  held[t][k[1]] = "X"
  <2>1. Lacking(t) = {}
    BY <1>3 DEF RowSteps, LockNothing, Check
  <2> QED BY <1>2, <1>3, <2>1, WantedForms DEF Lacking
<1>4. /\ db' = db /\ req' = req /\ snap' = snap /\ answer' = answer /\ held' = held
      /\ at' = [at EXCEPT ![t] = @ + 1]
  BY <1>1 DEF Pass
<1>5. /\ held' \in [Tx -> [Row -> LockMode]] /\ snap' \in [Tx -> Tables \cup {NoView}]
      /\ LocksExclusive'
  BY <1>0, <1>4 DEF Typed, LocksExclusive
<1> QED BY <1>1, <1>2, <1>3, <1>4, <1>5, AdvanceKeeps

\* and the first plain SELECT with its checks.
LEMMA ReadKeeps ==
    ASSUME SInv, NEW t \in Tx, Read(t), shift' = shift
    PROVE  SInv' /\ db' = db
<1>0. Typed /\ LocksExclusive
  BY InvariantParts
<1>1. ~Idle(t) /\ Step(t) = "read" /\ Readable(req[t], db)
  BY DEF Read, Step
<1>2. /\ snap' \in [Tx -> Tables \cup {NoView}]
      /\ snap'[t] = db /\ \A u \in Tx \ {t} : snap'[u] = snap[u]
  BY <1>0 DEF Read, ReadView, Typed
<1>3. /\ db' = db /\ req' = req /\ answer' = answer /\ held' = held
      /\ at' = [at EXCEPT ![t] = @ + 1]
  BY DEF Read, ReadView
<1>4. held' \in [Tx -> [Row -> LockMode]] /\ LocksExclusive'
  BY <1>0, <1>3 DEF Typed, LocksExclusive
<1>5. Step(t) \notin RowSteps
  BY <1>1 DEF RowSteps
<1> QED BY <1>1, <1>2, <1>3, <1>4, <1>5, AdvanceKeeps

(***************************************************************************)
(* The last step of a handler.                                             *)
(***************************************************************************)

\* What a transaction knows when it comes to write.
LEMMA Writer ==
    ASSUME SInv, NEW t \in Tx, NEW op, Write(t, op)
    PROVE  LET r == req[t]
               v == snap[t]
           IN  /\ ~Idle(t) /\ r \in Request /\ r.op = op /\ v \in Tables /\ db \in Tables
               /\ Readable(r, v) /\ Allowed(r, v) /\ Insertable(r, db)
               /\ Finish(t, "done") /\ db' = Written(r, v, db)
               /\ r.op \in LockFirstOps => held[t][FirstRow(r)] = "X"
               /\ r.op = "hold" => \A d \in {r.d} \cup Draws(r) : held[t][d] = "X"
               /\ r.op = "recheck" => \A b \in Waiting : Owned(v, r.d, b) = Owned(db, r.d, b)
               /\ r.op \in ReturnOps => v.ret[r.c] = db.ret[r.c]
               /\ r.op = "return" => /\ db.ret[r.c].state = "absent"
                                     /\ \A c \in Return : ShipmentOf[c] = ShipmentOf[r.c] =>
                                          Listed(v, c) = Listed(db, c)
               /\ r.op = "reverseAdjust" => /\ db.adj[r.a].state = "posted"
                                            /\ v.adj[r.a].delta = db.adj[r.a].delta
               /\ r.op = "adjust" => db.adj[r.a].state = "absent"
               /\ r.op = "qcPost" => db.entry[r.q].state = "absent"
               /\ \A q \in Entry : v.entry[q].state # "absent" => db.entry[q].state # "absent"
<1> DEFINE r == req[t]
           v == snap[t]
<1>1. /\ ~Idle(t) /\ Step(t) = "write" /\ r.op = op
      /\ Allowed(r, v) /\ Insertable(r, db) /\ Finish(t, "done") /\ db' = Written(r, v, db)
  BY DEF Write, Commit
<1>2. /\ r \in Request /\ Viewed(t)
      /\ Doing(t, LockFirstOps \cup {"hold"}, 0) => at[t] > 3
      /\ at[t] \in 1 .. 5
  BY <1>1, Standing
<1>3. TxOK(t) /\ db \in Tables
  BY InvariantParts DEF Typed
<1>4. /\ at[t] > 0
      /\ r.op \in LockFirstOps \cup {"hold"} => at[t] > 1 /\ at[t] > 2 /\ at[t] > 3
  BY <1>1, <1>2 DEF Doing
<1>5. /\ r.op \in LockFirstOps => Doing(t, LockFirstOps, 1)
      /\ r.op = "hold" => Doing(t, {"hold"}, 3)
      /\ r.op = "recheck" => Doing(t, {"recheck"}, 2)
      /\ r.op \in ReturnOps => Doing(t, ReturnOps, 2)
      /\ r.op = "return" => Doing(t, {"return"}, 2) /\ Doing(t, {"return"}, 0)
      /\ r.op = "reverseAdjust" => Doing(t, {"reverseAdjust"}, 2)
      /\ r.op = "adjust" => Doing(t, {"adjust"}, 0)
      /\ r.op = "qcPost" => Doing(t, {"qcPost"}, 0)
  BY <1>1, <1>4 DEF Doing, LockFirstOps
<1> QED BY <1>1, <1>2, <1>3, <1>5 DEF TxOK, Waiting

\* The row of an adjustment agrees with itself.
AdjustmentRowOK(row) ==
    /\ row.state = "absent" => row.delta = 0
    /\ row.reversals = IF row.state = "reversed" THEN 1 ELSE 0

\* The lots that a transaction has locked.
Mine(t) == {d \in Lot : held[t][d] = "X"}

\* What a write does to the tables, by the kind of its handler.
LotChange(t, w, x) ==
    /\ req[t].op \in LotOps \cup {"queue", "transfer", "completeRework"}
    /\ LotWrite(w, x, Mine(t))

EntryChange(t, w, x) ==
    LET q == req[t].q IN
    /\ req[t].op \in {"qcPost", "qcReverse", "classify"}
    /\ q \in Entry /\ EntryPosts(w, x, q)
    /\ w.entry[q].state # "absent" => x.entry[q].state # "absent"
    /\ w.entry[q].state = "absent" =>
         req[t].op = "qcPost" \/ x.entry[q].state = "absent"
    /\ x.entry[q].bucket = "none" => x.entry[q].rej = 0

ReturnChange(t, w, x) ==
    LET c == req[t].c IN
    /\ req[t].op \in ReturnOps \cup {"return"}
    /\ c \in Return /\ ReturnPosts(w, x, c) /\ ReturnRowOK(x.ret[c])
    /\ x.ret[c].state # "absent"
    /\ req[t].op \in ReturnOps =>
         w.ret[c].state # "absent" /\ x.ret[c].qty = w.ret[c].qty
    /\ req[t].op = "return" =>
         /\ w.ret[c].state = "absent"
         /\ Returned(w, ShipmentOf[c]) + x.ret[c].qty <= Shipped[ShipmentOf[c]]

\* What an adjustment explains.
Adjusted(row) == row.delta * (1 - row.reversals)

AdjustmentChange(t, w, x) ==
    LET a == req[t].a IN
    /\ req[t].op \in {"adjust", "reverseAdjust", "qcAdjust"}
    /\ a \in Adjustment /\ OnlyAdjustment(w, x, a) /\ AdjustmentRowOK(x.adj[a])
    /\ req[t].op = "reverseAdjust" => w.adj[a].state # "absent"
    /\ req[t].op = "qcAdjust" =>
         x.adj[a].state = w.adj[a].state /\ x.adj[a].delta = w.adj[a].delta
    /\ Goods(x, "read") = Goods(w, "read")
    /\ Goods(x, "fg") - Adjusted(x.adj[a]) = Goods(w, "fg") - Adjusted(w.adj[a])

\* What an opening entry explains.
Opened(row) == OpeningQty * (row.posted - row.reversed)

OpeningChange(t, w, x) ==
    LET e == req[t].e IN
    /\ req[t].op \in {"openApprove", "openReverse"}
    /\ e \in Opening /\ OnlyOpening(w, x, e)
    /\ Goods(x, "read") = Goods(w, "read")
    /\ Goods(x, "fg") - Opened(x.opening[e]) = Goods(w, "fg") - Opened(w.opening[e])

\* The rows in order, row by row.
RowsIn(v) ==
    /\ \A c \in Return : ReturnRowOK(v.ret[c])
    /\ \A q \in Entry : v.entry[q].bucket = "none" => v.entry[q].rej = 0
    /\ \A a \in Adjustment : AdjustmentRowOK(v.adj[a])
    /\ \A d \in Lot : \A b \in Waiting : Owned(v, d, b) >= 0

LEMMA RowForms ==
    /\ RowsOK <=> RowsIn(db)
    /\ RowsOK' <=> RowsIn(db')
BY DEF RowsOK, RowsIn, ReturnRowsAgree, BucketsAgree, AbsentAdjustments, ReworkOnce,
       ReturnMovesOnce, ScrapWithinReturn, AdjustmentReversedOnce, ReturnRowOK,
       AdjustmentRowOK, Waiting

\* More lots may differ.
LEMMA LotWriteWider ==
    ASSUME NEW w, NEW x, NEW ds, NEW es, LotWrite(w, x, ds), ds \subseteq es
    PROVE  LotWrite(w, x, es)
BY DEF LotWrite, OwnedSame

\* The handlers of lots, queues, and pooled stock.
LEMMA LotHandlers ==
    ASSUME SInv, NEW t \in Tx, NEW op, Write(t, op),
           op \in LotOps \cup {"queue", "transfer", "completeRework"}
    PROVE  LotChange(t, db, db')
<1> DEFINE r == req[t]
           v == snap[t]
<1>1. /\ r \in Request /\ r.op = op /\ v \in Tables /\ db \in Tables
      /\ Allowed(r, v) /\ db' = Written(r, v, db)
      /\ r.op \in LockFirstOps => held[t][FirstRow(r)] = "X"
      /\ r.op = "hold" => \A d \in {r.d} \cup Draws(r) : held[t][d] = "X"
      /\ r.op = "recheck" => \A b \in Waiting : Owned(v, r.d, b) = Owned(db, r.d, b)
  BY Writer
<1>2. /\ r.op \in LotOps => r.d \in Lot
      /\ r.op = "hold" => Draws(r) \subseteq Lot
      /\ r.op = "transfer" => r.qty \in Nat /\ r.from \in Bucket /\ r.to \in Bucket
  <2>1. r.op \in LotOps => r.d \in Lot
    BY <1>1, RequestFields
  <2>2. r.op = "hold" => Draws(r) \subseteq Lot
    BY <1>1, RequestFields DEF Draws
  <2>3. r.op = "transfer" => r \in TransferRequest /\ r.qty \in Nat
    BY <1>1, RequestForms, RequestFields
  <2> QED BY <2>1, <2>2, <2>3 DEF TransferRequest
<1> HIDE DEF r, v
<1>3. ASSUME r.op \in {"decide", "mark", "recheck"} PROVE r.d \in Lot /\ {r.d} \subseteq Mine(t)
  <2>1. r.op \in LotOps /\ r.op \in LockFirstOps
    BY <1>3 DEF LotOps, LockFirstOps
  <2>2. FirstRow(r) = r.d
    BY <1>3 DEF FirstRow, LotOps, ReturnOps
  <2> QED BY <1>1, <1>2, <2>1, <2>2 DEF Mine
<1>4. SUFFICES LotWrite(db, db', Mine(t))
  BY <1>1 DEF LotChange, r
<1>5. CASE op = "decide"
  <2>1. DecideAllowed(r, v) /\ db' = DecideWrite(r, v, db)
    BY <1>1, <1>5 DEF Allowed, Written
  <2>2. LotWrite(db, db', {r.d})
    BY <1>1, <1>5, <2>1, DecideWrites
  <2> QED BY <1>1, <1>3, <1>5, <2>2, LotWriteWider
<1>6. CASE op = "mark"
  <2>1. LotWrite(db, db', {})
    BY <1>1, <1>6, MarkWrites DEF Written
  <2> QED BY <2>1, LotWriteWider
<1>7. CASE op = "queue"
  <2>1. LotWrite(db, db', {})
    BY <1>1, <1>7, QueueWrites DEF Written
  <2> QED BY <2>1, LotWriteWider
<1>8. CASE op = "hold"
  <2>1. LotWrite(db, db', {r.d} \cup Draws(r))
    BY <1>1, <1>8, HoldWrites DEF Written
  <2>2. {r.d} \cup Draws(r) \subseteq Mine(t)
    BY <1>1, <1>2, <1>8 DEF Mine, LotOps
  <2> QED BY <2>1, <2>2, LotWriteWider
<1>9. CASE op = "recheck"
  <2>1. \A b \in Waiting : Owned(db, r.d, b) >= 0
    BY <1>3, <1>1, <1>9 DEF SInv, ReworkOnce, Waiting
  <2>2. LotWrite(db, RecheckWrite(r, v, db), {r.d})
    <3>1. \A b \in Waiting : Owned(v, r.d, b) = Owned(db, r.d, b) /\ Owned(db, r.d, b) >= 0
      BY <1>1, <1>9, <2>1
    <3> QED BY <1>1, <1>9, <3>1, RecheckWrites
  <2>3. db' = RecheckWrite(r, v, db)
    BY <1>1, <1>9 DEF Written
  <2> QED BY <1>1, <1>3, <1>9, <2>2, <2>3, LotWriteWider
<1>10. ASSUME OnlyPool(db, db'), \A q \in Scope : Goods(db', q) = Goods(db, q)
       PROVE  LotWrite(db, db', Mine(t))
  BY <1>10, RowsAlone DEF OnlyPool, LotMove
<1>11. CASE op = "transfer"
  <2>1. db' = Transfer(db, r.from, r.to, r.qty)
    BY <1>1, <1>11 DEF Written, TransferWrite, ReturnOps
  <2>2. r.qty \in Int
    BY <1>1, <1>2, <1>11
  <2> QED BY <1>1, <1>2, <1>10, <1>11, <2>1, <2>2, TransferChange
<1>12. CASE op = "completeRework"
  <2>1. db' = ReworkQcWrite(r, db)
    BY <1>1, <1>12 DEF Written
  <2> QED BY <1>1, <1>10, <1>12, <2>1, ReworkQcChange
<1> QED BY <1>5, <1>6, <1>7, <1>8, <1>9, <1>11, <1>12 DEF LotOps

\* The handlers of QC entries.
LEMMA EntryHandlers ==
    ASSUME SInv, NEW t \in Tx, NEW op, Write(t, op), op \in {"qcPost", "qcReverse", "classify"}
    PROVE  EntryChange(t, db, db')
<1> DEFINE r == req[t]
           v == snap[t]
<1>1. /\ r \in Request /\ r.op = op /\ v \in Tables /\ db \in Tables
      /\ Allowed(r, v) /\ Insertable(r, db) /\ db' = Written(r, v, db)
      /\ r.op = "qcPost" => db.entry[r.q].state = "absent"
      /\ \A q \in Entry : v.entry[q].state # "absent" => db.entry[q].state # "absent"
  BY Writer
<1>2. r.q \in Entry
  BY <1>1, RequestFields
<1>3. db.entry[r.q].bucket = "none" => db.entry[r.q].rej = 0
  BY <1>2 DEF SInv, BucketsAgree
<1> HIDE DEF r, v
<1>4. CASE op = "qcPost"
  <2>1. db' = QcPosted(r, db) /\ db.entry[r.q].state = "absent"
    BY <1>1, <1>4 DEF Written
  <2>2. /\ EntryPosts(db, db', r.q)
        /\ db'.entry[r.q].state # "absent"
        /\ db'.entry[r.q].bucket = "none" => db'.entry[r.q].rej = 0
    BY <1>1, <1>4, <2>1, QcPostWrites
  <2> QED BY <1>1, <1>2, <1>4, <2>1, <2>2 DEF EntryChange, r
<1>5. CASE op = "qcReverse"
  <2>1. /\ db' = QcReverseWrite(r, db) /\ v.entry[r.q].state = "active"
        /\ db.entry[r.q].state # "reversed"
    BY <1>1, <1>5 DEF Written, Allowed, Insertable, QcReverseAllowed
  <2>2. db.entry[r.q].state = "active"
    <3>1. db.entry[r.q].state # "absent"
      BY <1>1, <1>2, <2>1
    <3>2. db.entry[r.q].state \in {"absent", "active", "reversed"}
      BY <1>1, <1>2 DEF Tables, EntryRow
    <3> QED BY <2>1, <3>1, <3>2
  <2>3. /\ EntryPosts(db, db', r.q)
        /\ db'.entry[r.q].state # "absent"
        /\ db'.entry[r.q].bucket = "none" => db'.entry[r.q].rej = 0
    BY <1>1, <1>3, <1>5, <2>1, <2>2, QcReverseWrites
  <2> QED BY <1>1, <1>2, <1>5, <2>2, <2>3 DEF EntryChange, r
<1>6. CASE op = "classify"
  <2>1. db' = ClassifyWrite(r, v, db)
    BY <1>1, <1>6 DEF Written
  <2>2. /\ EntryPosts(db, db', r.q)
        /\ db'.entry[r.q].state = db.entry[r.q].state
        /\ db'.entry[r.q].bucket = db.entry[r.q].bucket
        /\ db'.entry[r.q].rej = db.entry[r.q].rej
    BY <1>1, <1>6, <2>1, ClassifyWrites
  <2> QED BY <1>1, <1>2, <1>3, <1>6, <2>2 DEF EntryChange, r
<1> QED BY <1>4, <1>5, <1>6

\* What the returns of dispatch x brought back.
ListedAt(v, x) == [c \in Return |-> IF ShipmentOf[c] = x THEN Listed(v, c) ELSE 0]

LEMMA ReturnedSum ==
    ASSUME NEW v \in Tables, NEW x
    PROVE  /\ ListedAt(v, x) \in [Return -> Int]
           /\ Returned(v, x) = SumFunction(ListedAt(v, x)) /\ Returned(v, x) \in Int
<1>1. \A c \in Return : v.ret[c].qty \in Int
  <2> SUFFICES ASSUME NEW c \in Return PROVE v.ret[c].qty \in Int
    OBVIOUS
  <2>1. v.ret[c].qty \in Nat
    BY DEF Tables, ReturnRow
  <2> QED BY <2>1
<1>2. ListedAt(v, x) \in [Return -> Int]
  BY <1>1 DEF ListedAt, Listed
<1>3. ReturnsOf(v, x) \in SUBSET Return /\ \A c \in ReturnsOf(v, x) : Quantities(v)[c] \in Int
  BY <1>1 DEF ReturnsOf, Quantities
<1>4. SumFunctionOnSet(Quantities(v), ReturnsOf(v, x)) =
        SumFunctionOnSet([c \in Return |-> IF c \in ReturnsOf(v, x) THEN Quantities(v)[c] ELSE 0],
                         Return)
  <2> DEFINE f == Quantities(v)
             T == ReturnsOf(v, x)
  <2> HIDE DEF f, T
  <2> QED BY <1>3, SumPart, StockAssumption DEF f, T
<1>5. [c \in Return |-> IF c \in ReturnsOf(v, x) THEN Quantities(v)[c] ELSE 0] = ListedAt(v, x)
  BY DEF ReturnsOf, Quantities, ListedAt, Listed
<1>6. DOMAIN ListedAt(v, x) = Return /\ \A c \in Return : ListedAt(v, x)[c] \in Int
  BY <1>2
<1>7. SumFunctionOnSet(ListedAt(v, x), Return) \in Int
  <2> DEFINE f == ListedAt(v, x)
  <2>1. \A c \in Return : f[c] \in Int
    BY <1>6
  <2> HIDE DEF f
  <2>2. SumFunctionOnSet(f, Return) \in Int
    BY <2>1, SumType, StockAssumption
  <2> QED BY <2>2 DEF f
<1> QED BY <1>2, <1>4, <1>5, <1>6, <1>7 DEF Returned, SumFunction

\* The handlers of returns.
LEMMA ReturnHandlers ==
    ASSUME SInv, NEW t \in Tx, NEW op, Write(t, op), op \in ReturnOps \cup {"return"}
    PROVE  ReturnChange(t, db, db')
<1> DEFINE r == req[t]
           v == snap[t]
<1>1. /\ r \in Request /\ r.op = op /\ v \in Tables /\ db \in Tables
      /\ Readable(r, v) /\ db' = Written(r, v, db)
      /\ r.op \in ReturnOps => v.ret[r.c] = db.ret[r.c]
      /\ r.op = "return" =>
           /\ db.ret[r.c].state = "absent" /\ Allowed(r, v)
           /\ \A c \in Return : ShipmentOf[c] = ShipmentOf[r.c] => Listed(v, c) = Listed(db, c)
  BY Writer
<1>2. r.c \in Return
  BY <1>1, RequestFields
<1>3. ReturnRowOK(db.ret[r.c])
  <2>1. RowsOK
    BY InvariantParts
  <2> QED BY <1>2, <2>1, RowForms DEF RowsIn
<1> HIDE DEF r, v
<1>4. CASE op = "return"
  <2>1. db' = ReturnWrite(r, db)
    BY <1>1, <1>4 DEF Written
  <2>2. /\ ReturnPosts(db, db', r.c) /\ ReturnRowOK(db'.ret[r.c]) /\ db'.ret[r.c].state # "absent"
        /\ db'.ret[r.c].qty = r.qty
    BY <1>1, <1>3, <1>4, <2>1, ReturnWrites
  <2> DEFINE x == ShipmentOf[r.c]
  <2>3. Returned(v, x) = Returned(db, x) /\ Returned(db, x) \in Int
    <3>1. ListedAt(v, x) = ListedAt(db, x)
      BY <1>1, <1>4 DEF ListedAt
    <3> QED BY <1>1, <3>1, ReturnedSum
  <2>4. r.qty <= Max({0, Shipped[x] - Returned(v, x)}) /\ r.qty \in Nat \ {0}
    BY <1>1, <1>4, RequestFields DEF Allowed, ReturnAllowed
  <2>5. Shipped[x] \in Nat
    BY <1>2, StockAssumption
  <2> HIDE DEF x
  <2>6. Max({0, Shipped[x] - Returned(db, x)}) =
          IF 0 <= Shipped[x] - Returned(db, x) THEN Shipped[x] - Returned(db, x) ELSE 0
    <3> DEFINE n == Shipped[x] - Returned(db, x)
    <3>1. n \in Int /\ 0 \in Int
      BY <2>3, <2>5
    <3> HIDE DEF n
    <3>2. Max({0, n}) = IF 0 <= n THEN n ELSE 0
      BY <3>1, Extremes
    <3> QED BY <3>2 DEF n
  <2>7. Returned(db, x) + r.qty <= Shipped[x]
    BY <2>3, <2>4, <2>5, <2>6
  <2> QED BY <1>1, <1>2, <1>4, <2>2, <2>7 DEF ReturnChange, ReturnOps, r, x
<1>5. ASSUME op \in ReturnOps,
             /\ ReturnPosts(db, db', r.c) /\ ReturnRowOK(db'.ret[r.c])
             /\ db'.ret[r.c].qty = db.ret[r.c].qty
             /\ db'.ret[r.c].state # "absent" /\ db.ret[r.c].state # "absent"
      PROVE  ReturnChange(t, db, db')
  BY <1>1, <1>2, <1>5 DEF ReturnChange, ReturnOps, r
<1>6. CASE op \in {"approve", "reworked", "approveRework"}
  <2>1. db' = ReturnQcWrite(r, v, db) /\ ReturnQcReadable(r, v) /\ op \in ReturnOps
    BY <1>1, <1>6 DEF Written, Readable, ReturnOps
  <2>2. /\ ReturnPosts(db, db', r.c) /\ ReturnRowOK(db'.ret[r.c])
        /\ db'.ret[r.c].qty = db.ret[r.c].qty
        /\ db'.ret[r.c].state # "absent" /\ db.ret[r.c].state # "absent"
    BY <1>1, <1>3, <1>6, <2>1, ReturnQcWrites
  <2> QED BY <1>5, <2>1, <2>2
<1>7. CASE op = "scrapReturn"
  <2>1. db' = ScrapWrite(r, v, db) /\ ScrapReadable(r, v) /\ op \in ReturnOps
    BY <1>1, <1>7 DEF Written, Readable, ReturnOps
  <2>2. /\ ReturnPosts(db, db', r.c) /\ ReturnRowOK(db'.ret[r.c])
        /\ db'.ret[r.c].qty = db.ret[r.c].qty
        /\ db'.ret[r.c].state # "absent" /\ db.ret[r.c].state # "absent"
    BY <1>1, <1>3, <1>7, <2>1, ScrapWrites
  <2> QED BY <1>5, <2>1, <2>2
<1>8. CASE op = "replace"
  <2>1. db' = ReplaceWrite(r, v, db) /\ ReplaceReadable(r, v) /\ op \in ReturnOps
    BY <1>1, <1>8 DEF Written, Readable, ReturnOps
  <2>2. /\ ReturnPosts(db, db', r.c) /\ ReturnRowOK(db'.ret[r.c])
        /\ db'.ret[r.c].qty = db.ret[r.c].qty
        /\ db'.ret[r.c].state # "absent" /\ db.ret[r.c].state # "absent"
    BY <1>1, <1>3, <1>8, <2>1, ReplaceWrites
  <2> QED BY <1>5, <2>1, <2>2
<1> QED BY <1>4, <1>6, <1>7, <1>8 DEF ReturnOps

\* The handlers of adjustments.
LEMMA AdjustmentHandlers ==
    ASSUME SInv, NEW t \in Tx, NEW op, Write(t, op), op \in {"adjust", "reverseAdjust", "qcAdjust"}
    PROVE  AdjustmentChange(t, db, db')
<1> DEFINE r == req[t]
           v == snap[t]
           old == db.adj[r.a]
           new == db'.adj[r.a]
<1>1. /\ r \in Request /\ r.op = op /\ v \in Tables /\ db \in Tables
      /\ db' = Written(r, v, db)
      /\ r.op = "reverseAdjust" => old.state = "posted" /\ v.adj[r.a].delta = old.delta
      /\ r.op = "adjust" => old.state = "absent"
  BY Writer
<1>2. r.a \in Adjustment /\ old \in AdjustmentRow
  BY <1>1, RequestFields DEF Tables
<1>3. AdjustmentRowOK(old)
  <2>1. RowsOK
    BY InvariantParts
  <2> QED BY <1>2, <2>1, RowForms DEF RowsIn
<1>4. old.delta \in Int /\ Goods(db, "fg") \in Int
  BY <1>1, <1>2, GoodsType DEF AdjustmentRow, Scope
<1>5. "fg" \in Scope /\ "read" \in Scope /\ "fg" # "read"
  BY DEF Scope
<1> HIDE DEF r, v
<1>6. CASE op = "adjust"
  <2>1. db' = AdjustWrite(r, db) /\ r.delta \in Int
    BY <1>1, <1>6, RequestFields DEF Written, ReturnOps
  <2>2. /\ OnlyAdjustment(db, db', r.a)
        /\ new = [state |-> "posted", delta |-> r.delta, reversals |-> 0, inspected |-> 0]
        /\ \A q \in Scope : Goods(db', q) = IF q = "fg" THEN Goods(db, q) + r.delta ELSE Goods(db, q)
    BY <1>1, <1>6, <2>1, AdjustWrites
  <2>3. Goods(db', "read") = Goods(db, "read") /\ Goods(db', "fg") = Goods(db, "fg") + r.delta
    BY <1>5, <2>2
  <2>4. Adjusted(old) = 0 /\ Adjusted(new) = r.delta
    <3>1. old.delta = 0 /\ old.reversals = 0 /\ new.delta = r.delta /\ new.reversals = 0
      BY <1>1, <1>3, <1>6, <2>2 DEF AdjustmentRowOK
    <3> QED BY <2>1, <3>1 DEF Adjusted
  <2>5. AdjustmentRowOK(new)
    BY <2>2 DEF AdjustmentRowOK
  <2>6. Goods(db', "fg") - Adjusted(new) = Goods(db, "fg") - Adjusted(old)
    <3> HIDE DEF old, new
    <3> QED BY <1>4, <2>1, <2>3, <2>4
  <2> QED BY <1>1, <1>2, <1>6, <2>2, <2>3, <2>5, <2>6 DEF AdjustmentChange, r
<1>7. CASE op = "reverseAdjust"
  <2>1. db' = ReverseAdjustWrite(r, v, db)
    BY <1>1, <1>7 DEF Written, ReturnOps
  <2>2. /\ OnlyAdjustment(db, db', r.a)
        /\ new.state = "reversed" /\ new.delta = old.delta /\ new.reversals = old.reversals + 1
        /\ \A q \in Scope : Goods(db', q) =
             IF q = "fg" THEN Goods(db, q) + -v.adj[r.a].delta ELSE Goods(db, q)
    BY <1>1, <1>7, <2>1, ReverseAdjustWrites
  <2>3. Goods(db', "read") = Goods(db, "read") /\ Goods(db', "fg") = Goods(db, "fg") + -old.delta
    BY <1>1, <1>5, <1>7, <2>2
  <2>4. old.reversals = 0 /\ new.reversals = 1
    BY <1>1, <1>3, <1>7, <2>2 DEF AdjustmentRowOK
  <2>5. Adjusted(old) = old.delta /\ Adjusted(new) = 0
    BY <1>4, <2>2, <2>4 DEF Adjusted
  <2>6. AdjustmentRowOK(new)
    BY <2>2, <2>4 DEF AdjustmentRowOK
  <2>7. Goods(db', "fg") - Adjusted(new) = Goods(db, "fg") - Adjusted(old)
    <3> DEFINE n == old.delta
    <3> HIDE DEF n
    <3> QED BY <1>4, <2>3, <2>5 DEF n
  <2> QED BY <1>1, <1>2, <1>7, <2>2, <2>3, <2>6, <2>7 DEF AdjustmentChange, r
<1>8. CASE op = "qcAdjust"
  <2>1. db' = AdjustQcWrite(r, db)
    BY <1>1, <1>8 DEF Written, ReturnOps
  <2>2. /\ OnlyAdjustment(db, db', r.a) /\ db'.pool = db.pool
        /\ new.state = old.state /\ new.delta = old.delta /\ new.reversals = old.reversals
    BY <1>1, <1>8, <2>1, AdjustQcWrites
  <2>3. \A q \in Scope : Goods(db', q) = Goods(db, q)
    BY <2>2 DEF Goods
  <2>4. AdjustmentRowOK(new) /\ Adjusted(new) = Adjusted(old)
    BY <1>3, <2>2 DEF AdjustmentRowOK, Adjusted
  <2> QED BY <1>1, <1>2, <1>5, <1>8, <2>2, <2>3, <2>4 DEF AdjustmentChange, r
<1> QED BY <1>6, <1>7, <1>8

\* The handlers of opening stock.
LEMMA OpeningHandlers ==
    ASSUME SInv, NEW t \in Tx, NEW op, Write(t, op), op \in {"openApprove", "openReverse"}
    PROVE  OpeningChange(t, db, db')
<1> DEFINE r == req[t]
           v == snap[t]
           n == IF r.op = "openApprove" THEN OpeningQty ELSE -OpeningQty
<1>1. r \in Request /\ r.op = op /\ db \in Tables /\ db' = Written(r, v, db)
  BY Writer
<1>2. r.e \in Opening
  BY <1>1, RequestFields
<1>3. db' = IF r.op = "openApprove" THEN OpenApproveWrite(r, db) ELSE OpenReverseWrite(r, db)
  BY <1>1 DEF Written, ReturnOps
<1>4. /\ OnlyOpening(db, db', r.e)
      /\ Opened(db'.opening[r.e]) = Opened(db.opening[r.e]) + n
      /\ \A q \in Scope : Goods(db', q) = IF q = "fg" THEN Goods(db, q) + n ELSE Goods(db, q)
  BY <1>1, <1>3, OpeningWrites DEF Opened
<1>5. Goods(db, "fg") \in Int /\ Opened(db.opening[r.e]) \in Int /\ n \in Int
  <2>1. /\ db.opening[r.e].posted \in Nat /\ db.opening[r.e].reversed \in Nat
        /\ OpeningQty \in Nat
    BY <1>1, <1>2, StockAssumption DEF Tables, OpeningRow
  <2> QED BY <1>1, <2>1, GoodsType DEF Opened, Scope
<1>6. Goods(db', "read") = Goods(db, "read") /\ Goods(db', "fg") = Goods(db, "fg") + n
  BY <1>4 DEF Scope
<1>7. Goods(db', "fg") - Opened(db'.opening[r.e]) = Goods(db, "fg") - Opened(db.opening[r.e])
  <2> DEFINE m == Opened(db.opening[r.e])
  <2> HIDE DEF n, m
  <2> QED BY <1>4, <1>5, <1>6 DEF m
<1> QED BY <1>1, <1>2, <1>4, <1>6, <1>7 DEF OpeningChange

Change(t, w, x) ==
    \/ LotChange(t, w, x) \/ EntryChange(t, w, x) \/ ReturnChange(t, w, x)
    \/ AdjustmentChange(t, w, x) \/ OpeningChange(t, w, x)

\* Every write is one of these changes.
LEMMA WriteChanges ==
    ASSUME SInv, NEW t \in Tx, NEW op, Write(t, op)
    PROVE  Change(t, db, db')
<1>1. op \in Operation
  <2>1. req[t] \in Request /\ req[t].op = op
    BY Writer
  <2> QED BY <2>1, RequestForms
<1>2. CASE op \in LotOps \cup {"queue", "transfer", "completeRework"}
  BY <1>2, LotHandlers DEF Change
<1>3. CASE op \in {"qcPost", "qcReverse", "classify"}
  BY <1>3, EntryHandlers DEF Change
<1>4. CASE op \in ReturnOps \cup {"return"}
  BY <1>4, ReturnHandlers DEF Change
<1>5. CASE op \in {"adjust", "reverseAdjust", "qcAdjust"}
  BY <1>5, AdjustmentHandlers DEF Change
<1>6. CASE op \in {"openApprove", "openReverse"}
  BY <1>6, OpeningHandlers DEF Change
<1> QED BY <1>1, <1>2, <1>3, <1>4, <1>5, <1>6 DEF Operation

\* A change leaves tables with rows in order.
LEMMA ChangeKeepsRows ==
    ASSUME NEW t, NEW w, NEW x, Change(t, w, x), RowsIn(w)
    PROVE  x \in Tables /\ RowsIn(x)
<1>1. CASE LotChange(t, w, x)
  BY <1>1 DEF LotChange, LotWrite, LotMove, RowsIn
<1>2. CASE EntryChange(t, w, x)
  <2> DEFINE q == req[t].q
  <2>1. /\ q \in Entry /\ EntryPosts(w, x, q)
        /\ x.entry[q].bucket = "none" => x.entry[q].rej = 0
    BY <1>2 DEF EntryChange
  <2> HIDE DEF q
  <2>2. \A e \in Entry : e # q => x.entry[e] = w.entry[e]
    BY <2>1 DEF EntryPosts
  <2> QED BY <2>1, <2>2 DEF EntryPosts, OwnedSame, RowsIn
<1>3. CASE ReturnChange(t, w, x)
  <2> DEFINE c == req[t].c
  <2>1. c \in Return /\ ReturnPosts(w, x, c) /\ ReturnRowOK(x.ret[c])
    BY <1>3 DEF ReturnChange
  <2> HIDE DEF c
  <2>2. \A d \in Return : d # c => x.ret[d] = w.ret[d]
    BY <2>1 DEF ReturnPosts, OnlyReturn
  <2>3. \A d \in Return : ReturnRowOK(x.ret[d])
    BY <2>1, <2>2 DEF RowsIn
  <2> QED BY <2>1, <2>3 DEF ReturnPosts, OnlyReturn, RowsIn, Owned
<1>4. CASE AdjustmentChange(t, w, x)
  <2> DEFINE a == req[t].a
  <2>1. a \in Adjustment /\ OnlyAdjustment(w, x, a) /\ AdjustmentRowOK(x.adj[a])
    BY <1>4 DEF AdjustmentChange
  <2> HIDE DEF a
  <2>2. \A b \in Adjustment : b # a => x.adj[b] = w.adj[b]
    BY <2>1 DEF OnlyAdjustment
  <2>3. \A b \in Adjustment : AdjustmentRowOK(x.adj[b])
    BY <2>1, <2>2 DEF RowsIn
  <2> QED BY <2>1, <2>3 DEF OnlyAdjustment, RowsIn, Owned
<1>5. CASE OpeningChange(t, w, x)
  BY <1>5 DEF OpeningChange, OnlyOpening, RowsIn, Owned
<1> QED BY <1>1, <1>2, <1>3, <1>4, <1>5 DEF Change

(***************************************************************************)
(* The others.                                                             *)
(***************************************************************************)

\* What transaction u knows of the tables stays true.
Undisturbed(u, w, x) ==
    /\ Doing(u, {"recheck"}, 2) =>
         \A b \in Waiting : Owned(x, req[u].d, b) = Owned(w, req[u].d, b)
    /\ Doing(u, ReturnOps, 2) => x.ret[req[u].c] = w.ret[req[u].c]
    /\ Doing(u, {"return"}, 2) =>
         \A c \in Return : ShipmentOf[c] = ShipmentOf[req[u].c] => Listed(x, c) = Listed(w, c)
    /\ Doing(u, {"reverseAdjust"}, 2) =>
         /\ x.adj[req[u].a].state = w.adj[req[u].a].state
         /\ x.adj[req[u].a].delta = w.adj[req[u].a].delta
    /\ \A q \in Entry : w.entry[q].state # "absent" => x.entry[q].state # "absent"
    /\ Doing(u, {"return"}, 0) => x.ret[req[u].c].state = "absent"
    /\ Doing(u, {"adjust"}, 0) => x.adj[req[u].a].state = "absent"
    /\ Doing(u, {"qcPost"}, 0) => x.entry[req[u].q].state = "absent"

LEMMA UndisturbedKeeps ==
    ASSUME NEW u \in Tx, TxOK(u), UNCHANGED <<held[u], req[u], at[u], snap[u]>>,
           Undisturbed(u, db, db')
    PROVE  TxOK(u)'
<1>1. /\ Idle(u)' <=> Idle(u)
      /\ Viewed(u)' <=> Viewed(u)
      /\ \A ops, n : Doing(u, ops, n)' <=> Doing(u, ops, n)
  BY DEF Idle, Viewed, Doing
<1>2. Viewed(u)' => \A q \in Entry : snap'[u].entry[q].state # "absent" =>
                                       db'.entry[q].state # "absent"
  BY <1>1 DEF TxOK, Undisturbed
<1> QED BY <1>1, <1>2 DEF TxOK, Undisturbed, Waiting

\* Two transactions do not both have a row.
LEMMA NotBoth ==
    ASSUME SInv, NEW t \in Tx, NEW u \in Tx, t # u, NEW y \in Row,
           held[t][y] = "X", held[u][y] = "X"
    PROVE  FALSE
BY DEF SInv, LocksExclusive

\* What a transaction that has read has locked and knows.
LEMMA Reader ==
    ASSUME SInv, NEW u \in Tx, ~Idle(u)
    PROVE  LET r == req[u]
           IN  /\ r \in Request
               /\ Doing(u, LockFirstOps, 2) => held[u][FirstRow(r)] = "X"
               /\ Doing(u, ReturnOps, 2) =>
                    db.ret[r.c].state # "absent" /\ r.c \in Return /\ FirstRow(r) = r.c
               /\ Doing(u, {"reverseAdjust"}, 2) =>
                    db.adj[r.a].state = "posted" /\ r.a \in Adjustment /\ FirstRow(r) = r.a
               /\ Doing(u, {"return"}, 2) => r.c \in Return /\ FirstRow(r) = ShipmentOf[r.c]
               /\ Doing(u, {"recheck"}, 2) => r.d \in Lot /\ FirstRow(r) = r.d
               /\ Doing(u, {"return"}, 0) => db.ret[r.c].state = "absent"
               /\ Doing(u, {"adjust"}, 0) => db.adj[r.a].state = "absent"
               /\ Doing(u, {"qcPost"}, 0) => db.entry[r.q].state = "absent"
<1> DEFINE r == req[u]
<1>1. r \in Request /\ at[u] \in 1 .. 5 /\ TxOK(u)
  BY Standing, InvariantParts
<1>2. at[u] > 2 => at[u] > 1
  BY <1>1
<1>3. Doing(u, LockFirstOps, 2) => held[u][FirstRow(r)] = "X"
  BY <1>1, <1>2 DEF TxOK, Doing
<1>4. Doing(u, ReturnOps, 2) =>
        db.ret[r.c].state # "absent" /\ r.c \in Return /\ FirstRow(r) = r.c
  <2> SUFFICES ASSUME Doing(u, ReturnOps, 2)
               PROVE  db.ret[r.c].state # "absent" /\ r.c \in Return /\ FirstRow(r) = r.c
    OBVIOUS
  <2>1. r.op \in ReturnOps /\ at[u] > 2
    BY DEF Doing
  <2>2. Viewed(u)
    BY <2>1 DEF Viewed, ReadAt, LockFirstOps
  <2>3. Readable(r, snap[u]) /\ snap[u].ret[r.c] = db.ret[r.c]
    BY <1>1, <2>2 DEF TxOK
  <2>4. snap[u].ret[r.c].state # "absent"
    BY <2>1, <2>3 DEF Readable, ReturnOps, ReturnQcReadable, Awaiting, ScrapReadable,
                      ReplaceReadable
  <2>5. FirstRow(r) = r.c
    BY <2>1 DEF FirstRow, ReturnOps, LotOps
  <2> QED BY <1>1, <2>1, <2>3, <2>4, <2>5, RequestFields
<1>5. /\ Doing(u, {"reverseAdjust"}, 2) =>
           db.adj[r.a].state = "posted" /\ r.a \in Adjustment /\ FirstRow(r) = r.a
      /\ Doing(u, {"return"}, 2) => r.c \in Return /\ FirstRow(r) = ShipmentOf[r.c]
      /\ Doing(u, {"recheck"}, 2) => r.d \in Lot /\ FirstRow(r) = r.d
  <2>1. /\ r.op = "reverseAdjust" => r.a \in Adjustment
        /\ r.op = "return" => r.c \in Return
        /\ r.op = "recheck" => r.d \in Lot
    BY <1>1, RequestFields DEF LotOps
  <2>2. /\ r.op = "reverseAdjust" => FirstRow(r) = r.a
        /\ r.op = "return" => FirstRow(r) = ShipmentOf[r.c]
        /\ r.op = "recheck" => FirstRow(r) = r.d
    BY DEF FirstRow, ReturnOps, LotOps
  <2> QED BY <1>1, <2>1, <2>2 DEF TxOK, Doing
<1> QED BY <1>1, <1>3, <1>4, <1>5 DEF TxOK

\* The rows that transactions share: none that either of them decides on.
LEMMA RowsApart ==
    ASSUME SInv, NEW t \in Tx, NEW op, Write(t, op), NEW u \in Tx \ {t}, ~Idle(u)
    PROVE  /\ Draws(req[t]) \cap Draws(req[u]) = {}
           /\ req[t].op \in LockFirstOps /\ Doing(u, LockFirstOps, 2)
                /\ FirstRow(req[u]) \in Row => FirstRow(req[t]) # FirstRow(req[u])
           /\ Doing(u, LockFirstOps, 2) /\ FirstRow(req[u]) \in Lot =>
                FirstRow(req[u]) \notin Mine(t)
<1>1. ~Idle(t) /\ (req[t].op \in LockFirstOps => held[t][FirstRow(req[t])] = "X")
  BY Writer
<1>2. Doing(u, LockFirstOps, 2) => held[u][FirstRow(req[u])] = "X"
  BY Reader
<1>3. Draws(req[t]) \cap Draws(req[u]) = {}
  BY <1>1 DEF SInv, DistinctDraws
<1>4. \A y \in Row : ~(held[t][y] = "X" /\ held[u][y] = "X")
  BY NotBoth
<1>5. Lot \subseteq Row
  BY FlowAssumption
<1> QED BY <1>1, <1>2, <1>3, <1>4, <1>5 DEF Mine

\* A write to lots or pooled stock does not disturb the others,
LEMMA LotsUndisturbed ==
    ASSUME SInv, NEW t \in Tx, NEW op, Write(t, op), NEW u \in Tx \ {t}, ~Idle(u),
           LotChange(t, db, db')
    PROVE  Undisturbed(u, db, db')
<1>1. /\ db'.entry = db.entry /\ db'.ret = db.ret /\ db'.adj = db.adj
      /\ OwnedSame(db, db', Mine(t))
  BY DEF LotChange, LotWrite, LotMove
<1>2. Doing(u, {"recheck"}, 2) => req[u].d \in Lot \ Mine(t)
  <2>1. Doing(u, {"recheck"}, 2) =>
          Doing(u, LockFirstOps, 2) /\ req[u].d \in Lot /\ FirstRow(req[u]) = req[u].d
    BY Reader DEF Doing, LockFirstOps
  <2> QED BY <2>1, RowsApart
<1>3. Doing(u, {"recheck"}, 2) =>
        \A b \in Waiting : Owned(db', req[u].d, b) = Owned(db, req[u].d, b)
  BY <1>1, <1>2 DEF OwnedSame
<1> QED BY <1>1, <1>3, Reader DEF Undisturbed, Listed

\* nor does one to a QC entry,
LEMMA EntriesUndisturbed ==
    ASSUME SInv, NEW t \in Tx, NEW op, Write(t, op), NEW u \in Tx \ {t}, ~Idle(u),
           EntryChange(t, db, db')
    PROVE  Undisturbed(u, db, db')
<1> DEFINE q == req[t].q
<1>1. /\ db'.ret = db.ret /\ db'.adj = db.adj
      /\ OwnedSame(db, db', {})
      /\ \A e \in Entry : e # q => db'.entry[e] = db.entry[e]
      /\ q \in Entry
      /\ db.entry[q].state # "absent" => db'.entry[q].state # "absent"
      /\ db.entry[q].state = "absent" => req[t].op = "qcPost" \/ db'.entry[q].state = "absent"
  BY DEF EntryChange, EntryPosts
<1>2. Doing(u, {"recheck"}, 2) =>
        \A b \in Waiting : Owned(db', req[u].d, b) = Owned(db, req[u].d, b)
  BY <1>1, Reader DEF OwnedSame
<1>3. Doing(u, {"qcPost"}, 0) => db'.entry[req[u].q].state = "absent"
  <2> SUFFICES ASSUME Doing(u, {"qcPost"}, 0) PROVE db'.entry[req[u].q].state = "absent"
    OBVIOUS
  <2>1. /\ req[u].op = "qcPost" /\ req[u].q \in Entry
        /\ db.entry[req[u].q].state = "absent"
    BY Reader, RequestFields DEF Doing
  <2>2. req[t].op = "qcPost" => req[u].q # q
    BY <2>1, RowsApart DEF Draws
  <2> QED BY <1>1, <2>1, <2>2
<1>4. \A e \in Entry : db.entry[e].state # "absent" => db'.entry[e].state # "absent"
  BY <1>1
<1> QED BY <1>1, <1>2, <1>3, <1>4, Reader DEF Undisturbed, Listed

\* to a return,
LEMMA ReturnsUndisturbed ==
    ASSUME SInv, NEW t \in Tx, NEW op, Write(t, op), NEW u \in Tx \ {t}, ~Idle(u),
           ReturnChange(t, db, db')
    PROVE  Undisturbed(u, db, db')
<1> DEFINE c == req[t].c
<1>1. /\ db'.entry = db.entry /\ db'.own = db.own /\ db'.adj = db.adj
      /\ \A d \in Return : d # c => db'.ret[d] = db.ret[d]
      /\ c \in Return /\ req[t].op \in ReturnOps \cup {"return"}
      /\ req[t].op \in ReturnOps => /\ db.ret[c].state # "absent" /\ db'.ret[c].state # "absent"
                                    /\ db'.ret[c].qty = db.ret[c].qty
  BY DEF ReturnChange, ReturnPosts, OnlyReturn
<1>2. req[t].op = "return" => db.ret[c].state = "absent"
  BY Writer
<1>3. /\ req[t].op \in LockFirstOps
      /\ req[t].op \in ReturnOps => FirstRow(req[t]) = c
      /\ req[t].op = "return" => FirstRow(req[t]) = ShipmentOf[c]
  <2>1. req[t].op \in LockFirstOps
    BY <1>1 DEF LockFirstOps
  <2>2. req[t].op \in ReturnOps => FirstRow(req[t]) = c
    BY DEF FirstRow, ReturnOps, LotOps
  <2>3. req[t].op = "return" => FirstRow(req[t]) = ShipmentOf[c]
    BY DEF FirstRow, ReturnOps, LotOps
  <2> QED BY <2>1, <2>2, <2>3
<1>4. Return \subseteq Row /\ \A d \in Return : ShipmentOf[d] \in Row
  BY FlowAssumption, StockAssumption
<1>5. Doing(u, ReturnOps, 2) => req[u].c \in Return /\ req[u].c # c
  <2> SUFFICES ASSUME Doing(u, ReturnOps, 2) PROVE req[u].c \in Return /\ req[u].c # c
    OBVIOUS
  <2>1. /\ Doing(u, LockFirstOps, 2)
        /\ db.ret[req[u].c].state # "absent" /\ req[u].c \in Return
        /\ FirstRow(req[u]) = req[u].c
    BY Reader DEF Doing, LockFirstOps
  <2> QED BY <1>1, <1>2, <1>3, <1>4, <2>1, RowsApart
<1>6. ASSUME Doing(u, {"return"}, 2), NEW d \in Return, ShipmentOf[d] = ShipmentOf[req[u].c]
      PROVE  Listed(db', d) = Listed(db, d)
  <2>1. CASE d # c
    BY <1>1, <2>1 DEF Listed
  <2>2. CASE d = c /\ req[t].op \in ReturnOps
    BY <1>1, <2>2 DEF Listed
  <2>3. CASE d = c /\ req[t].op = "return"
    <3>1. /\ Doing(u, LockFirstOps, 2) /\ req[u].c \in Return
          /\ FirstRow(req[u]) = ShipmentOf[req[u].c]
      BY <1>6, Reader DEF Doing, LockFirstOps
    <3> QED BY <1>3, <1>4, <1>6, <2>3, <3>1, RowsApart
  <2> QED BY <1>1, <2>1, <2>2, <2>3
<1>7. Doing(u, {"return"}, 0) => db'.ret[req[u].c].state = "absent"
  <2> SUFFICES ASSUME Doing(u, {"return"}, 0) PROVE db'.ret[req[u].c].state = "absent"
    OBVIOUS
  <2>1. /\ req[u].op = "return" /\ req[u].c \in Return
        /\ db.ret[req[u].c].state = "absent"
    BY Reader, RequestFields DEF Doing
  <2>2. req[t].op = "return" => req[u].c # c
    <3>1. req[t].op = "return" => c \in Draws(req[t])
      BY DEF Draws
    <3>2. req[u].c \in Draws(req[u])
      BY <2>1 DEF Draws
    <3> QED BY <3>1, <3>2, RowsApart
  <2> QED BY <1>1, <2>1, <2>2
<1> QED BY <1>1, <1>5, <1>6, <1>7, Reader DEF Undisturbed, Owned

\* to an adjustment,
LEMMA AdjustmentsUndisturbed ==
    ASSUME SInv, NEW t \in Tx, NEW op, Write(t, op), NEW u \in Tx \ {t}, ~Idle(u),
           AdjustmentChange(t, db, db')
    PROVE  Undisturbed(u, db, db')
<1> DEFINE a == req[t].a
<1>1. /\ db'.entry = db.entry /\ db'.own = db.own /\ db'.ret = db.ret
      /\ \A b \in Adjustment : b # a => db'.adj[b] = db.adj[b]
      /\ a \in Adjustment /\ req[t].op \in {"adjust", "reverseAdjust", "qcAdjust"}
      /\ req[t].op = "reverseAdjust" => db.adj[a].state # "absent"
      /\ req[t].op = "qcAdjust" => /\ db'.adj[a].state = db.adj[a].state
                                   /\ db'.adj[a].delta = db.adj[a].delta
  BY DEF AdjustmentChange, OnlyAdjustment
<1>2. req[t].op = "adjust" => db.adj[a].state = "absent"
  BY Writer
<1>3. req[t].op = "reverseAdjust" => req[t].op \in LockFirstOps /\ FirstRow(req[t]) = a
  BY DEF LockFirstOps, FirstRow, ReturnOps, LotOps
<1>4. Adjustment \subseteq Row
  BY FlowAssumption
<1>5. Doing(u, {"reverseAdjust"}, 2) =>
        /\ req[u].a \in Adjustment
        /\ req[u].a # a \/ req[t].op = "qcAdjust"
  <2> SUFFICES ASSUME Doing(u, {"reverseAdjust"}, 2), req[t].op # "qcAdjust"
               PROVE  req[u].a # a
    BY Reader
  <2>1. /\ Doing(u, LockFirstOps, 2)
        /\ db.adj[req[u].a].state = "posted" /\ req[u].a \in Adjustment
        /\ FirstRow(req[u]) = req[u].a
    BY Reader DEF Doing, LockFirstOps
  <2> QED BY <1>1, <1>2, <1>3, <1>4, <2>1, RowsApart
<1>6. Doing(u, {"adjust"}, 0) => db'.adj[req[u].a].state = "absent"
  <2> SUFFICES ASSUME Doing(u, {"adjust"}, 0) PROVE db'.adj[req[u].a].state = "absent"
    OBVIOUS
  <2>1. /\ req[u].op = "adjust" /\ req[u].a \in Adjustment
        /\ db.adj[req[u].a].state = "absent"
    BY Reader, RequestFields DEF Doing
  <2>2. req[t].op = "adjust" => req[u].a # a
    <3>1. req[t].op = "adjust" => a \in Draws(req[t])
      BY DEF Draws
    <3>2. req[u].a \in Draws(req[u])
      BY <2>1 DEF Draws
    <3> QED BY <3>1, <3>2, RowsApart
  <2> QED BY <1>1, <2>1, <2>2
<1> QED BY <1>1, <1>5, <1>6, Reader DEF Undisturbed, Owned, Listed

\* or to opening stock.
LEMMA OpeningsUndisturbed ==
    ASSUME SInv, NEW t \in Tx, NEW u \in Tx, ~Idle(u), OpeningChange(t, db, db')
    PROVE  Undisturbed(u, db, db')
<1>1. db'.entry = db.entry /\ db'.own = db.own /\ db'.ret = db.ret /\ db'.adj = db.adj
  BY DEF OpeningChange, OnlyOpening
<1> QED BY <1>1, Reader DEF Undisturbed, Owned, Listed

\* A write keeps the invariant.
LEMMA WriteKeeps ==
    ASSUME SInv, NEW t \in Tx, NEW op, Write(t, op), shift' = shift
    PROVE  SInv' /\ Change(t, db, db')
<1>1. Change(t, db, db') /\ Finish(t, "done")
  BY WriteChanges, Writer
<1>2. Typed /\ RowsOK /\ \A u \in Tx : TxOK(u)
  BY InvariantParts
<1>3. db' \in Tables /\ RowsOK'
  BY <1>1, <1>2, RowForms, ChangeKeepsRows
<1>4. Typed' /\ LocksExclusive' /\ DistinctDraws' /\ TxOK(t)'
  BY <1>1, <1>3, FinishKeeps DEF Answer
<1>5. ASSUME NEW u \in Tx \ {t} PROVE TxOK(u)'
  <2>1. UNCHANGED <<held[u], req[u], at[u], snap[u]>>
    BY <1>1, <1>2 DEF Finish, Typed
  <2>2. CASE Idle(u)
    BY <1>2, <2>1, <2>2 DEF TxOK, Idle, Viewed, Doing
  <2>3. CASE ~Idle(u)
    <3>1. Undisturbed(u, db, db')
      BY <1>1, <2>3, LotsUndisturbed, EntriesUndisturbed, ReturnsUndisturbed,
         AdjustmentsUndisturbed, OpeningsUndisturbed DEF Change
    <3> QED BY <1>2, <2>1, <3>1, UndisturbedKeeps
  <2> QED BY <2>2, <2>3
<1> QED BY <1>1, <1>3, <1>4, <1>5, InvariantParts

(***************************************************************************)
(* The first tables.                                                       *)
(***************************************************************************)

\* Every first lot lies in one bucket and is in one state.
LEMMA Placed ==
    ASSUME NEW place \in [FirstLot -> FirstPlace], NEW d \in FirstLot
    PROVE  place[d][1] \in LotState /\ place[d][2] \in Bucket
<1>1. place[d] \in FirstPlace
  OBVIOUS
<1>2. \A p \in FirstPlace : p[1] \in LotState /\ p[2] \in Bucket
  BY DEF FirstPlace, LotState, Bucket
<1> QED BY <1>1, <1>2

\* The first balance of the pool.
LEMMA FirstBalance ==
    ASSUME NEW place \in [FirstLot -> FirstPlace]
    PROVE  FirstPool(place) \in Balance
<1> DEFINE S(b) == {d \in FirstLot : place[d][2] = b}
           n(b) == OldQty * (Cardinality(S(b)) +
                             IF b = "QC_HOLD" THEN Cardinality(LooseEntry) ELSE 0)
<1>1. \A b : Cardinality(S(b)) \in Nat
  <2>1. \A b : S(b) \subseteq FirstLot
    OBVIOUS
  <2>2. \A b : IsFiniteSet(S(b))
    <3> HIDE DEF S
    <3> QED BY <2>1, FS_Subset, StockAssumption
  <2> HIDE DEF S
  <2> QED BY <2>2, FS_CardinalityType
<1>2. Cardinality(LooseEntry) \in Nat /\ OldQty \in Nat
  <2>1. IsFiniteSet(LooseEntry)
    BY FS_Subset, StockAssumption
  <2> QED BY <2>1, FS_CardinalityType, StockAssumption
<1>3. \A b : n(b) \in Int
  <2> SUFFICES ASSUME NEW b PROVE n(b) \in Int
    OBVIOUS
  <2> DEFINE k == Cardinality(S(b))
             m == Cardinality(LooseEntry)
  <2>1. k \in Nat /\ m \in Nat
    BY <1>1, <1>2
  <2> HIDE DEF k, m, S
  <2>2. k + (IF b = "QC_HOLD" THEN m ELSE 0) \in Nat
    BY <2>1
  <2> QED BY <1>2, <2>2 DEF k, m
<1>4. FirstPool(place) = [Empty EXCEPT !["read"] = [b \in Bucket |-> n(b)]]
  BY DEF FirstPool
<1> HIDE DEF n
<1>5. [b \in Bucket |-> n(b)] \in [Bucket -> Int]
  BY <1>3
<1> QED BY <1>4, <1>5 DEF Empty, Nothing, Balance, Scope

\* The first tables are tables with rows in order.
LEMMA FirstTables ==
    ASSUME NEW place \in [FirstLot -> FirstPlace]
    PROVE  TablesInit(place) \in Tables /\ RowsIn(TablesInit(place))
<1> DEFINE x == TablesInit(place)
<1>0. OldQty \in Nat /\ FirstLot \subseteq Lot
  BY StockAssumption
<1>1. /\ Nothing \in [Bucket -> Int] /\ Empty \in Balance
      /\ \A b \in Bucket : InBucket(b, OldQty) \in Balance
  BY <1>0 DEF Nothing, Empty, InBucket, Balance, Bucket, Scope
<1>2. x.pool \in Balance
  BY FirstBalance DEF TablesInit
<1>3. x.own \in [Lot -> Balance]
  <2>1. \A d \in FirstLot : InBucket(place[d][2], OldQty) \in Balance
    BY <1>1, Placed
  <2> QED BY <1>1, <2>1 DEF TablesInit
<1>4. x.lot \in [Lot -> LotRow]
  <2>1. \A s \in LotState : NewLotRow(s, OldQty) \in LotRow
    BY <1>0 DEF NewLotRow, NoLotRow, LotRow
  <2>2. NoLotRow \in LotRow
    BY DEF NoLotRow, LotRow, LotState
  <2> QED BY <2>1, <2>2, Placed DEF TablesInit
<1>5. x.entry \in [Entry -> EntryRow]
  BY <1>0 DEF TablesInit, OldEntry, NoEntry, EntryRow, Scope, Bucket
<1>6. x.ret \in [Return -> ReturnRow]
  BY <1>1 DEF TablesInit, NoReturn, ReturnRow, ReturnState, Bucket
<1>7. x.adj \in [Adjustment -> AdjustmentRow]
  BY DEF TablesInit, AdjustmentRow
<1>8. x.opening \in [Opening -> OpeningRow]
  BY DEF TablesInit, OpeningRow
<1>9. x \in Tables
  <2>1. x = [pool |-> x.pool, own |-> x.own, lot |-> x.lot, entry |-> x.entry,
             ret |-> x.ret, adj |-> x.adj, opening |-> x.opening]
    BY DEF TablesInit
  <2> HIDE DEF x
  <2> QED BY <1>2, <1>3, <1>4, <1>5, <1>6, <1>7, <1>8, <2>1 DEF Tables
<1>10. \A d \in Lot : \A b \in Waiting : Owned(x, d, b) >= 0
  <2> SUFFICES ASSUME NEW d \in Lot, NEW b \in Waiting PROVE x.own[d]["read"][b] >= 0
    BY DEF Owned
  <2>1. b \in Bucket /\ "read" \in Scope
    BY DEF Waiting, Bucket, Scope
  <2>2. CASE d \in FirstLot
    <3>1. x.own[d] = InBucket(place[d][2], OldQty) /\ place[d][2] \in Bucket
      BY <2>2, Placed DEF TablesInit
    <3>2. \A c \in Bucket : InBucket(c, OldQty)["read"][b] \in {0, OldQty}
      BY <2>1 DEF InBucket, Empty, Nothing
    <3>3. InBucket(place[d][2], OldQty)["read"][b] \in {0, OldQty}
      BY <3>1, <3>2
    <3> HIDE DEF x
    <3> QED BY <1>0, <3>1, <3>3
  <2>3. CASE d \notin FirstLot
    BY <2>1, <2>3 DEF TablesInit, Empty, Nothing
  <2> QED BY <2>2, <2>3
<1>11. \A c \in Return : ReturnRowOK(x.ret[c])
  BY DEF TablesInit, NoReturn, ReturnRowOK, NetOfReturn, Nothing
<1>12. \A a \in Adjustment : AdjustmentRowOK(x.adj[a])
  BY DEF TablesInit, AdjustmentRowOK
<1>13. \A q \in Entry : x.entry[q].bucket = "none" => x.entry[q].rej = 0
  BY DEF TablesInit, OldEntry, NoEntry
<1> QED BY <1>9, <1>10, <1>11, <1>12, <1>13 DEF RowsIn

\* The invariant holds first,
LEMMA InitHolds == Init => SInv
<1> SUFFICES ASSUME Init PROVE SInv
  OBVIOUS
<1>1. PICK place \in [FirstLot -> FirstPlace] : db = TablesInit(place)
  BY DEF Init
<1>2. db \in Tables /\ RowsOK
  BY <1>1, FirstTables, RowForms
<1>3. EngineInit /\ shift \in Shift
  BY DEF Init
<1>4. ASSUME NEW t \in Tx PROVE Idle(t) /\ req[t] = NoReq
  BY <1>3 DEF EngineInit, Idle
<1>5. Typed
  BY <1>2, <1>3 DEF Typed, EngineInit, Unlocked, LockMode, Answer
<1>6. LocksExclusive
  BY <1>3 DEF EngineInit, LocksExclusive, Unlocked
<1>7. DistinctDraws
  BY <1>4 DEF DistinctDraws
<1>8. ASSUME NEW t \in Tx PROVE TxOK(t)
  BY <1>4 DEF TxOK, Viewed, Doing
<1> QED BY <1>2, <1>5, <1>6, <1>7, <1>8, InvariantParts

\* and every step keeps it, and changes the tables in one of the five ways or not at all.
LEMMA StepKeeps ==
    ASSUME SInv, [Next]_<<vars, shift>>
    PROVE  SInv' /\ (db' = db \/ \E t \in Tx : Change(t, db, db'))
<1>1. CASE UNCHANGED <<vars, shift>>
  <2>1. /\ UNCHANGED <<db, held, req, at, snap, answer, shift>>
        /\ \A u \in Tx : UNCHANGED <<db, held[u], req[u], at[u], snap[u]>>
    BY <1>1 DEF vars
  <2>2. Typed /\ LocksExclusive /\ RowsOK /\ DistinctDraws /\ \A u \in Tx : TxOK(u)
    BY InvariantParts
  <2>3. Typed' /\ LocksExclusive' /\ DistinctDraws' /\ RowsOK'
    BY <2>1, <2>2, SameRows DEF Typed, LocksExclusive, DistinctDraws, Idle
  <2>4. \A u \in Tx : TxOK(u)'
    BY <2>1, <2>2, Bystander
  <2> QED BY <2>1, <2>3, <2>4, InvariantParts
<1>2. CASE Next
  <2>1. /\ shift' = shift
        /\ \E t \in Tx :
             \/ \E r \in RequestsOf[shift][t] : Arrive(t, r)
             \/ Check(t) \/ Lock(t) \/ LockNothing(t) \/ Read(t) \/ Reject(t)
             \/ \E op : Write(t, op)
             \/ Abort(t)
    BY <1>2 DEF Next, LotSteps, ReturnSteps, CorrectionSteps, SupervisorDecision,
                MarkReworkExecuted, ReconcileQueues, HoldAction, Recheck, PostQc, ReverseQc,
                Classify, CreateReturn, ApproveReturn, ReworkCompleted, ApproveRework,
                ScrapReturn, CreateReplacement, BucketTransfer, CompleteReworkQc, Adjust,
                ReverseAdjustment, QcOfAdjustment, ApproveOpening, ReverseOpening
  <2>2. PICK t \in Tx :
             \/ \E r \in RequestsOf[shift][t] : Arrive(t, r)
             \/ Check(t) \/ Lock(t) \/ LockNothing(t) \/ Read(t) \/ Reject(t)
             \/ \E op : Write(t, op)
             \/ Abort(t)
    BY <2>1
  <2>3. ASSUME NEW r \in RequestsOf[shift][t], Arrive(t, r) PROVE SInv' /\ db' = db
    BY <2>1, <2>3, ArriveKeeps
  <2>4. CASE Check(t) \/ LockNothing(t)
    BY <2>1, <2>4, PassKeeps
  <2>5. CASE Lock(t)
    BY <2>1, <2>5, LockKeeps
  <2>6. CASE Read(t)
    BY <2>1, <2>6, ReadKeeps
  <2>7. CASE Reject(t)
    <3>1. Finish(t, "refused") /\ db' = db
      BY <2>7 DEF Reject, Refuse
    <3> QED BY <2>1, <3>1, EndKeeps DEF Answer
  <2>8. CASE Abort(t)
    <3>1. Finish(t, "failed") /\ db' = db
      BY <2>8 DEF Abort, Rollback
    <3> QED BY <2>1, <3>1, EndKeeps DEF Answer
  <2>9. ASSUME NEW op, Write(t, op) PROVE SInv' /\ Change(t, db, db')
    BY <2>1, <2>9, WriteKeeps
  <2> QED BY <2>2, <2>3, <2>4, <2>5, <2>6, <2>7, <2>8, <2>9
<1> QED BY <1>1, <1>2

(***************************************************************************)
(* What lies in a scope is what the rows explain.                          *)
(***************************************************************************)

\* What every QC entry explains in scope p, counted or not.
Counts(v, p) == [q \in Entry |-> Counted(v.entry[q], p)]

\* The entries counted are the ones that count.
LEMMA CountedRows ==
    ASSUME NEW v \in Tables, NEW p \in Scope
    PROVE  /\ Counts(v, p) \in [Entry -> Int]
           /\ SumFunctionOnSet(Inspected(v), Rows(v, p)) = SumFunction(Counts(v, p))
<1>1. \A q \in Entry : v.entry[q].acc + v.entry[q].rej \in Int
  <2> SUFFICES ASSUME NEW q \in Entry PROVE v.entry[q].acc + v.entry[q].rej \in Int
    OBVIOUS
  <2>1. v.entry[q].acc \in Nat /\ v.entry[q].rej \in Nat
    BY DEF Tables, EntryRow
  <2> QED BY <2>1
<1>2. Counts(v, p) \in [Entry -> Int]
  BY <1>1 DEF Counts, Counted
<1>3. Rows(v, p) \in SUBSET Entry /\ \A q \in Rows(v, p) : Inspected(v)[q] \in Int
  BY <1>1 DEF Rows, Inspected
<1>4. SumFunctionOnSet(Inspected(v), Rows(v, p)) =
        SumFunctionOnSet([q \in Entry |-> IF q \in Rows(v, p) THEN Inspected(v)[q] ELSE 0], Entry)
  <2> DEFINE f == Inspected(v)
             T == Rows(v, p)
  <2> HIDE DEF f, T
  <2> QED BY <1>3, SumPart, StockAssumption DEF f, T
<1>5. [q \in Entry |-> IF q \in Rows(v, p) THEN Inspected(v)[q] ELSE 0] = Counts(v, p)
  BY DEF Rows, Inspected, Counts, Counted
<1>6. DOMAIN Counts(v, p) = Entry
  BY DEF Counts
<1> QED BY <1>2, <1>4, <1>5, <1>6 DEF SumFunction

\* What each kind of row explains in a scope.
Elsewhere(v, p) ==
    IF p = "read" THEN SumFunction(NetReturned(v))
    ELSE SumFunction(NetAdjusted(v)) + SumFunction(NetOpened(v))

\* These are numbers.
LEMMA NetTypes ==
    ASSUME NEW v \in Tables, RowsIn(v)
    PROVE  /\ NetReturned(v) \in [Return -> Int] /\ SumFunction(NetReturned(v)) \in Int
           /\ NetAdjusted(v) \in [Adjustment -> Int] /\ SumFunction(NetAdjusted(v)) \in Int
           /\ NetOpened(v) \in [Opening -> Int] /\ SumFunction(NetOpened(v)) \in Int
           /\ \A a \in Adjustment : NetAdjusted(v)[a] = Adjusted(v.adj[a])
           /\ \A e \in Opening : NetOpened(v)[e] = Opened(v.opening[e])
           /\ \A p \in Scope : /\ SumFunction(Counts(v, p)) \in Int
                               /\ Explained(v, p) = SumFunction(Counts(v, p)) + Elsewhere(v, p)
<1>0. ASSUME NEW S, IsFiniteSet(S), NEW f \in [S -> Int] PROVE SumFunction(f) \in Int
  <2>1. SumFunctionOnSet(f, S) \in Int
    BY <1>0, SumType
  <2> QED BY <2>1 DEF SumFunction
<1>1. NetReturned(v) \in [Return -> Int]
  <2>1. \A c \in Return : SumFunction(v.ret[c].net) \in Int
    BY NetType DEF Tables, ReturnRow
  <2> QED BY <2>1 DEF NetReturned
<1>2. NetAdjusted(v) \in [Adjustment -> Int]
  <2>1. ASSUME NEW a \in Adjustment PROVE v.adj[a].delta * (1 - v.adj[a].reversals) \in Int
    <3>1. v.adj[a].delta \in Int /\ 1 - v.adj[a].reversals \in {0, 1}
      BY DEF Tables, AdjustmentRow, RowsIn, AdjustmentRowOK
    <3> QED BY <3>1
  <2> QED BY <2>1 DEF NetAdjusted
<1>3. NetOpened(v) \in [Opening -> Int]
  <2>1. ASSUME NEW e \in Opening
        PROVE  OpeningQty * (v.opening[e].posted - v.opening[e].reversed) \in Int
    <3>1. /\ v.opening[e].posted \in Nat /\ v.opening[e].reversed \in Nat
          /\ OpeningQty \in Nat
      BY StockAssumption DEF Tables, OpeningRow
    <3> QED BY <3>1
  <2> QED BY <2>1 DEF NetOpened
<1>4. /\ SumFunction(NetReturned(v)) \in Int /\ SumFunction(NetAdjusted(v)) \in Int
      /\ SumFunction(NetOpened(v)) \in Int
  BY <1>0, <1>1, <1>2, <1>3, StockAssumption
<1>5. \A p \in Scope : SumFunction(Counts(v, p)) \in Int
  BY <1>0, CountedRows, StockAssumption
<1>6. \A p \in Scope : Explained(v, p) = SumFunction(Counts(v, p)) + Elsewhere(v, p)
  BY CountedRows DEF Explained, Elsewhere
<1> QED BY <1>1, <1>2, <1>3, <1>4, <1>5, <1>6 DEF NetAdjusted, NetOpened, Adjusted, Opened

\* Whatever a change does to the goods in a scope, the rows explain.
Balanced(w, x) ==
    \A p \in Scope : Goods(x, p) - Explained(x, p) = Goods(w, p) - Explained(w, p)

\* Lots and transfers explain nothing and move nothing,
LEMMA LotsBalanced ==
    ASSUME NEW t, NEW w, NEW x, LotChange(t, w, x)
    PROVE  Balanced(w, x)
<1>1. /\ x.entry = w.entry /\ x.ret = w.ret /\ x.adj = w.adj /\ x.opening = w.opening
      /\ \A p \in Scope : Goods(x, p) = Goods(w, p)
  BY DEF LotChange, LotWrite, LotMove
<1>2. \A p \in Scope : Explained(x, p) = Explained(w, p)
  BY <1>1 DEF Explained, Inspected, Rows, NetReturned, NetAdjusted, NetOpened
<1> QED BY <1>1, <1>2 DEF Balanced

\* QC entries explain what they count,
LEMMA EntriesBalanced ==
    ASSUME NEW t, NEW w \in Tables, NEW x \in Tables, RowsIn(w), RowsIn(x), EntryChange(t, w, x)
    PROVE  Balanced(w, x)
<1> SUFFICES ASSUME NEW p \in Scope
             PROVE  Goods(x, p) - Explained(x, p) = Goods(w, p) - Explained(w, p)
  BY DEF Balanced
<1> DEFINE q == req[t].q
           f == Counts(w, p)
           g == Counts(x, p)
<1>1. /\ q \in Entry /\ x.ret = w.ret /\ x.adj = w.adj /\ x.opening = w.opening
      /\ \A e \in Entry \ {q} : x.entry[e] = w.entry[e]
      /\ Goods(x, p) - g[q] = Goods(w, p) - f[q]
  BY DEF EntryChange, EntryPosts, Counts
<1>2. f \in [Entry -> Int] /\ g \in [Entry -> Int] /\ \A e \in Entry \ {q} : g[e] = f[e]
  <2>1. f \in [Entry -> Int] /\ g \in [Entry -> Int]
    BY CountedRows
  <2> QED BY <1>1, <2>1 DEF Counts
<1>3. Goods(w, p) \in Int /\ Goods(x, p) \in Int
  BY GoodsType
<1>4. /\ Explained(w, p) = SumFunction(f) + Elsewhere(w, p)
      /\ Explained(x, p) = SumFunction(g) + Elsewhere(x, p)
      /\ SumFunction(f) \in Int
  BY NetTypes
<1>5. Elsewhere(x, p) = Elsewhere(w, p) /\ Elsewhere(w, p) \in Int
  <2>1. Elsewhere(x, p) = Elsewhere(w, p)
    BY <1>1 DEF Elsewhere, NetReturned, NetAdjusted, NetOpened
  <2> QED BY <2>1, NetTypes DEF Elsewhere
<1> HIDE DEF f, g, q
<1>6. g[q] - f[q] \in Int /\ g[q] = f[q] + (g[q] - f[q])
  BY <1>1, <1>2
<1>7. SumFunction(g) = SumFunction(f) + (g[q] - f[q])
  <2> DEFINE m == g[q] - f[q]
  <2>1. m \in Int /\ g[q] = f[q] + m
    BY <1>6
  <2>2. IsFiniteSet(Entry) /\ q \in Entry
    BY <1>1, StockAssumption DEF StockAssumption
  <2> HIDE DEF m
  <2>3. SumFunction(g) = SumFunction(f) + m
    BY <1>2, <2>1, <2>2, SumPlus
  <2> QED BY <2>3 DEF m
<1>8. f[q] \in Int /\ g[q] \in Int
  BY <1>1, <1>2
<1> QED BY <1>1, <1>3, <1>4, <1>5, <1>7, <1>8

\* a return the balance of its stock rows,
LEMMA ReturnsBalanced ==
    ASSUME NEW t, NEW w \in Tables, NEW x \in Tables, RowsIn(w), RowsIn(x), ReturnChange(t, w, x)
    PROVE  Balanced(w, x)
<1> DEFINE c == req[t].c
           f == NetReturned(w)
           g == NetReturned(x)
<1>1. /\ c \in Return /\ x.entry = w.entry /\ x.adj = w.adj /\ x.opening = w.opening
      /\ \A d \in Return \ {c} : x.ret[d] = w.ret[d]
      /\ Goods(x, "fg") = Goods(w, "fg")
      /\ Goods(x, "read") - g[c] = Goods(w, "read") - f[c]
  BY DEF ReturnChange, ReturnPosts, OnlyReturn, NetReturned
<1>2. f \in [Return -> Int] /\ g \in [Return -> Int] /\ \A d \in Return \ {c} : g[d] = f[d]
  <2>1. f \in [Return -> Int] /\ g \in [Return -> Int]
    BY NetTypes
  <2> QED BY <1>1, <2>1 DEF NetReturned
<1>3. \A p \in Scope : Goods(w, p) \in Int /\ Goods(x, p) \in Int
  BY GoodsType
<1>4. /\ \A p \in Scope : /\ Explained(w, p) = SumFunction(Counts(w, p)) + Elsewhere(w, p)
                          /\ Explained(x, p) = SumFunction(Counts(w, p)) + Elsewhere(x, p)
                          /\ SumFunction(Counts(w, p)) \in Int
      /\ Elsewhere(x, "fg") = Elsewhere(w, "fg") /\ Elsewhere(w, "fg") \in Int
      /\ Elsewhere(w, "read") = SumFunction(f) /\ Elsewhere(x, "read") = SumFunction(g)
      /\ SumFunction(f) \in Int
  <2>1. \A p \in Scope : Counts(x, p) = Counts(w, p)
    BY <1>1 DEF Counts
  <2>2. Elsewhere(x, "fg") = Elsewhere(w, "fg") /\ Elsewhere(w, "fg") \in Int
    BY <1>1, NetTypes DEF Elsewhere, NetAdjusted, NetOpened
  <2>3. Elsewhere(w, "read") = SumFunction(f) /\ Elsewhere(x, "read") = SumFunction(g)
    BY DEF Elsewhere
  <2>4. \A p \in Scope : /\ Explained(w, p) = SumFunction(Counts(w, p)) + Elsewhere(w, p)
                         /\ Explained(x, p) = SumFunction(Counts(x, p)) + Elsewhere(x, p)
                         /\ SumFunction(Counts(w, p)) \in Int
    BY NetTypes
  <2> QED BY <2>1, <2>2, <2>3, <2>4, NetTypes
<1> HIDE DEF f, g, c
<1>5. f[c] \in Int /\ g[c] \in Int /\ g[c] - f[c] \in Int /\ g[c] = f[c] + (g[c] - f[c])
  BY <1>1, <1>2
<1>6. SumFunction(g) = SumFunction(f) + (g[c] - f[c])
  <2> DEFINE m == g[c] - f[c]
  <2>1. m \in Int /\ g[c] = f[c] + m
    BY <1>5
  <2>2. IsFiniteSet(Return) /\ c \in Return
    BY <1>1, StockAssumption DEF StockAssumption
  <2> HIDE DEF m
  <2>3. SumFunction(g) = SumFunction(f) + m
    BY <1>2, <2>1, <2>2, SumPlus
  <2> QED BY <2>3 DEF m
<1>7. Goods(x, "fg") - Explained(x, "fg") = Goods(w, "fg") - Explained(w, "fg")
  BY <1>1, <1>4 DEF Scope
<1>8. Goods(x, "read") - Explained(x, "read") = Goods(w, "read") - Explained(w, "read")
  <2> DEFINE k == SumFunction(Counts(w, "read"))
  <2>1. /\ Explained(w, "read") = k + SumFunction(f) /\ Explained(x, "read") = k + SumFunction(g)
        /\ k \in Int /\ Goods(w, "read") \in Int /\ Goods(x, "read") \in Int
    BY <1>3, <1>4 DEF Scope
  <2> DEFINE n == g[c] - f[c]
  <2>2. Goods(x, "read") = Goods(w, "read") + n
    <3> DEFINE i == Goods(w, "read")
               j == Goods(x, "read")
               l == f[c]
               m == g[c]
    <3>1. i \in Int /\ j \in Int /\ l \in Int /\ m \in Int
      BY <1>5, <2>1
    <3>2. j - m = i - l
      BY <1>1
    <3> HIDE DEF i, j, l, m
    <3>3. j = i + (m - l)
      BY <3>1, <3>2
    <3> QED BY <3>3 DEF i, j, l, m
  <2>3. SumFunction(g) = SumFunction(f) + n /\ SumFunction(f) \in Int /\ n \in Int
    BY <1>4, <1>5, <1>6
  <2> HIDE DEF k, n
  <2>4. Explained(x, "read") = Explained(w, "read") + n /\ Explained(w, "read") \in Int
    BY <2>1, <2>3
  <2> QED BY <2>1, <2>2, <2>3, <2>4
<1> QED BY <1>7, <1>8 DEF Balanced, Scope

\* adjustments and opening stock their quantity as long as they are not reversed.
LEMMA CorrectionsBalanced ==
    ASSUME NEW t, NEW w \in Tables, NEW x \in Tables, RowsIn(w), RowsIn(x),
           AdjustmentChange(t, w, x) \/ OpeningChange(t, w, x)
    PROVE  Balanced(w, x)
<1> DEFINE f == NetAdjusted(w)
           g == NetAdjusted(x)
           h == NetOpened(w)
           k == NetOpened(x)
<1>1. /\ x.entry = w.entry /\ x.ret = w.ret /\ Goods(x, "read") = Goods(w, "read")
  BY DEF AdjustmentChange, OpeningChange, OnlyAdjustment, OnlyOpening
<1>2. /\ f \in [Adjustment -> Int] /\ g \in [Adjustment -> Int]
      /\ h \in [Opening -> Int] /\ k \in [Opening -> Int]
      /\ SumFunction(f) \in Int /\ SumFunction(h) \in Int
  BY NetTypes
<1>3. /\ \A p \in Scope : Goods(w, p) \in Int /\ Goods(x, p) \in Int
      /\ \A p \in Scope : /\ Explained(w, p) = SumFunction(Counts(w, p)) + Elsewhere(w, p)
                          /\ Explained(x, p) = SumFunction(Counts(w, p)) + Elsewhere(x, p)
                          /\ SumFunction(Counts(w, p)) \in Int
      /\ Elsewhere(x, "read") = Elsewhere(w, "read") /\ Elsewhere(w, "read") \in Int
      /\ Elsewhere(w, "fg") = SumFunction(f) + SumFunction(h)
      /\ Elsewhere(x, "fg") = SumFunction(g) + SumFunction(k)
  <2>1. \A p \in Scope : Counts(x, p) = Counts(w, p)
    BY <1>1 DEF Counts
  <2>2. Elsewhere(x, "read") = Elsewhere(w, "read") /\ Elsewhere(w, "read") \in Int
    BY <1>1, NetTypes DEF Elsewhere, NetReturned
  <2>3. /\ Elsewhere(w, "fg") = SumFunction(f) + SumFunction(h)
        /\ Elsewhere(x, "fg") = SumFunction(g) + SumFunction(k)
    BY DEF Elsewhere
  <2>4. \A p \in Scope : /\ Explained(w, p) = SumFunction(Counts(w, p)) + Elsewhere(w, p)
                         /\ Explained(x, p) = SumFunction(Counts(x, p)) + Elsewhere(x, p)
                         /\ SumFunction(Counts(w, p)) \in Int
    BY NetTypes
  <2> QED BY <2>1, <2>2, <2>3, <2>4, GoodsType
<1>4. Goods(x, "read") - Explained(x, "read") = Goods(w, "read") - Explained(w, "read")
  BY <1>1, <1>3 DEF Scope
<1>5. SUFFICES SumFunction(g) + SumFunction(k) - Goods(x, "fg") =
                 SumFunction(f) + SumFunction(h) - Goods(w, "fg")
               /\ SumFunction(g) \in Int /\ SumFunction(k) \in Int
  <2> DEFINE j == SumFunction(Counts(w, "fg"))
  <2>1. /\ Explained(w, "fg") = j + (SumFunction(f) + SumFunction(h))
        /\ Explained(x, "fg") = j + (SumFunction(g) + SumFunction(k))
        /\ j \in Int /\ Goods(w, "fg") \in Int /\ Goods(x, "fg") \in Int
    BY <1>3 DEF Scope
  <2> HIDE DEF f, g, h, k, j
  <2>2. Goods(x, "fg") - Explained(x, "fg") = Goods(w, "fg") - Explained(w, "fg")
    BY <1>2, <1>5, <2>1
  <2> QED BY <1>4, <2>2 DEF Balanced, Scope
<1>6. SumFunction(g) \in Int /\ SumFunction(k) \in Int
  BY NetTypes
<1>7. Goods(w, "fg") \in Int /\ Goods(x, "fg") \in Int
  BY <1>3 DEF Scope
<1>8. CASE AdjustmentChange(t, w, x)
  <2> DEFINE a == req[t].a
  <2>1. /\ a \in Adjustment /\ x.opening = w.opening
        /\ \A b \in Adjustment \ {a} : x.adj[b] = w.adj[b]
        /\ Goods(x, "fg") - g[a] = Goods(w, "fg") - f[a]
    BY <1>8, NetTypes DEF AdjustmentChange, OnlyAdjustment
  <2>2. k = h /\ \A b \in Adjustment \ {a} : g[b] = f[b]
    BY <2>1 DEF NetOpened, NetAdjusted
  <2> HIDE DEF f, g, h, k, a
  <2>3. f[a] \in Int /\ g[a] \in Int /\ g[a] - f[a] \in Int /\ g[a] = f[a] + (g[a] - f[a])
    BY <1>2, <2>1
  <2>4. SumFunction(g) = SumFunction(f) + (g[a] - f[a])
    <3>1. IsFiniteSet(Adjustment)
      BY StockAssumption
    <3> QED BY <1>2, <2>1, <2>2, <2>3, <3>1, SumPlus
  <2> QED BY <1>2, <1>6, <1>7, <2>1, <2>2, <2>3, <2>4
<1>9. CASE OpeningChange(t, w, x)
  <2> DEFINE e == req[t].e
  <2>1. /\ e \in Opening /\ x.adj = w.adj
        /\ \A b \in Opening \ {e} : x.opening[b] = w.opening[b]
        /\ Goods(x, "fg") - k[e] = Goods(w, "fg") - h[e]
    BY <1>9, NetTypes DEF OpeningChange, OnlyOpening
  <2>2. g = f /\ \A b \in Opening \ {e} : k[b] = h[b]
    BY <2>1 DEF NetOpened, NetAdjusted
  <2> HIDE DEF f, g, h, k, e
  <2>3. h[e] \in Int /\ k[e] \in Int /\ k[e] - h[e] \in Int /\ k[e] = h[e] + (k[e] - h[e])
    BY <1>2, <2>1
  <2>4. SumFunction(k) = SumFunction(h) + (k[e] - h[e])
    <3>1. IsFiniteSet(Opening)
      BY StockAssumption
    <3> QED BY <1>2, <2>1, <2>2, <2>3, <3>1, SumPlus
  <2> QED BY <1>2, <1>6, <1>7, <2>1, <2>2, <2>3, <2>4
<1> QED BY <1>6, <1>8, <1>9

\* As many entries rejected at first as there are lots and entries without one.
LEMMA FirstEntriesCount ==
    /\ IsFiniteSet(FirstEntries) /\ FirstEntries \subseteq Entry
    /\ Cardinality(FirstLot) \in Nat /\ Cardinality(LooseEntry) \in Nat
    /\ Cardinality(FirstEntries) = Cardinality(FirstLot) + Cardinality(LooseEntry)
<1> DEFINE T == {EntryOf[d] : d \in FirstLot}
           e == [d \in FirstLot |-> EntryOf[d]]
<1>1. IsFiniteSet(FirstLot) /\ IsFiniteSet(LooseEntry)
  BY FS_Subset, StockAssumption
<1>2. T \subseteq Entry /\ LooseEntry \subseteq Entry /\ LooseEntry \cap T = {}
  BY StockAssumption
<1>3. e \in Bijection(FirstLot, T)
  <2>1. e \in [FirstLot -> T]
    OBVIOUS
  <2>2. \A d, f \in FirstLot : e[d] = e[f] => d = f
    BY StockAssumption
  <2>3. \A q \in T : \E d \in FirstLot : e[d] = q
    OBVIOUS
  <2> QED BY <2>1, <2>2, <2>3 DEF Bijection, Injection, Surjection, IsInjective
<1> HIDE DEF T, e
<1>4. IsFiniteSet(T) /\ Cardinality(T) = Cardinality(FirstLot)
  <2>1. ExistsBijection(FirstLot, T)
    BY <1>3 DEF ExistsBijection
  <2> QED BY <1>1, <2>1, FS_Bijection
<1>5. Cardinality(LooseEntry \cap T) = 0
  BY <1>2, FS_EmptySet
<1>6. /\ IsFiniteSet(LooseEntry \cup T)
      /\ Cardinality(LooseEntry \cup T) =
           Cardinality(LooseEntry) + Cardinality(T) - Cardinality(LooseEntry \cap T)
  BY <1>1, <1>4, FS_Union
<1>7. Cardinality(FirstLot) \in Nat /\ Cardinality(LooseEntry) \in Nat
  BY <1>1, FS_CardinalityType
<1>8. FirstEntries = LooseEntry \cup T
  BY DEF FirstEntries, T
<1> QED BY <1>2, <1>4, <1>5, <1>6, <1>7, <1>8

\* The first stock is what the first entries rejected, wherever it lies.
LEMMA FirstGoods ==
    ASSUME NEW place \in [FirstLot -> FirstPlace]
    PROVE  SumFunction(FirstPool(place)["read"]) = OldQty * Cardinality(FirstEntries)
<1> DEFINE h == [d \in FirstLot |-> place[d][2]]
           f == [b \in Bucket |-> OldQty * Count(FirstLot, h, b)]
           g == FirstPool(place)["read"]
           k == OldQty * Cardinality(LooseEntry)
           n == Cardinality(FirstLot)
           m == Cardinality(LooseEntry)
<1>0. OldQty \in Nat /\ n \in Nat /\ m \in Nat /\ IsFiniteSet(FirstLot)
  BY FirstEntriesCount, StockAssumption
<1>1. h \in [FirstLot -> Bucket]
  BY Placed
<1>2. SumFunction(f) = OldQty * n
  <2> HIDE DEF h
  <2> QED BY <1>0, <1>1, SumCounts, BucketsFinite
<1>3. \A b \in Bucket : Count(FirstLot, h, b) \in Nat
  <2>1. \A b : {d \in FirstLot : h[d] = b} \in SUBSET FirstLot
    OBVIOUS
  <2> QED BY <1>0, <2>1, FS_Subset, FS_CardinalityType DEF Count
<1>4. \A b \in Bucket : g[b] = OldQty * (Count(FirstLot, h, b) + IF b = "QC_HOLD" THEN m ELSE 0)
  <2>1. \A b : {d \in FirstLot : place[d][2] = b} = {d \in FirstLot : h[d] = b}
    OBVIOUS
  <2>2. \A b \in Bucket : g[b] = OldQty * (Cardinality({d \in FirstLot : place[d][2] = b}) +
                                           IF b = "QC_HOLD" THEN m ELSE 0)
    BY DEF FirstPool, Empty, Scope
  <2> QED BY <2>1, <2>2 DEF Count
<1>5. "QC_HOLD" \in Bucket
  BY DEF Bucket
<1>6. \A i, j \in Nat : /\ OldQty * (i + j) = OldQty * i + OldQty * j
                        /\ OldQty * i \in Int /\ OldQty * (i + 0) = OldQty * i
  BY <1>0
<1>7. /\ f \in [Bucket -> Int] /\ k \in Int
      /\ g["QC_HOLD"] = f["QC_HOLD"] + k
      /\ \A b \in Bucket \ {"QC_HOLD"} : g[b] = f[b]
  <2>1. f \in [Bucket -> Int] /\ k \in Int
    BY <1>0, <1>3, <1>6
  <2>2. g["QC_HOLD"] = f["QC_HOLD"] + k
    <3>1. g["QC_HOLD"] = OldQty * (Count(FirstLot, h, "QC_HOLD") + m)
      BY <1>4, <1>5
    <3>2. f["QC_HOLD"] = OldQty * Count(FirstLot, h, "QC_HOLD")
      BY <1>5
    <3> HIDE DEF f, g, h
    <3> QED BY <1>0, <1>3, <1>5, <1>6, <3>1, <3>2
  <2>3. \A b \in Bucket \ {"QC_HOLD"} : g[b] = f[b]
    BY <1>3, <1>4, <1>6
  <2> QED BY <2>1, <2>2, <2>3
<1>8. g \in [Bucket -> Int]
  BY FirstBalance DEF Balance, Scope
<1> HIDE DEF f, g, h
<1>9. SumFunction(g) = SumFunction(f) + k
  <2> HIDE DEF k
  <2> QED BY <1>5, <1>7, <1>8, SumPlus, BucketsFinite
<1>10. SumFunction(g) = OldQty * (n + m)
  <2> HIDE DEF n, m
  <2> QED BY <1>0, <1>2, <1>6, <1>9 DEF m
<1>11. Cardinality(FirstEntries) = n + m
  BY FirstEntriesCount
<1> QED BY <1>10, <1>11 DEF g

\* At first the rows explain what lies there.
LEMMA FirstExplained ==
    ASSUME NEW place \in [FirstLot -> FirstPlace], NEW p \in Scope
    PROVE  LET v == TablesInit(place) IN Goods(v, p) = Explained(v, p)
<1> DEFINE v == TablesInit(place)
<1>1. v \in Tables /\ RowsIn(v)
  BY FirstTables
<1>2. Explained(v, p) = SumFunction(Counts(v, p)) + Elsewhere(v, p)
  <2> HIDE DEF v
  <2> QED BY <1>1, NetTypes
<1>3. /\ SumFunction(NetReturned(v)) = 0 /\ SumFunction(NetAdjusted(v)) = 0
      /\ SumFunction(NetOpened(v)) = 0
  <2>1. SumFunction(Nothing) = 0
    BY SumZero, BucketsFinite DEF SumFunction, Nothing
  <2>2. NetReturned(v) = [c \in Return |-> 0]
    BY <2>1 DEF NetReturned, TablesInit, NoReturn
  <2>3. NetAdjusted(v) = [a \in Adjustment |-> 0]
    BY DEF NetAdjusted, TablesInit
  <2>4. NetOpened(v) = [e \in Opening |-> 0]
    <3>1. OpeningQty * (0 - 0) = 0
      BY StockAssumption
    <3> QED BY <3>1 DEF NetOpened, TablesInit
  <2>5. \A S : IsFiniteSet(S) => SumFunction([x \in S |-> 0]) = 0
    BY SumZero DEF SumFunction
  <2> QED BY <2>2, <2>3, <2>4, <2>5, StockAssumption
<1>4. Elsewhere(v, p) = 0
  BY <1>3 DEF Elsewhere
<1>5. CASE p = "read"
  <2> DEFINE f == [q \in Entry |-> OldQty]
             g == [q \in Entry |-> IF q \in FirstEntries THEN f[q] ELSE 0]
  <2>1. Counts(v, p) = g
    <3>1. \A q \in Entry : v.entry[q] = IF q \in FirstEntries THEN OldEntry ELSE NoEntry
      BY DEF TablesInit
    <3>2. Counted(OldEntry, p) = OldQty /\ Counted(NoEntry, p) = 0
      BY <1>5, StockAssumption DEF Counted, OldEntry, NoEntry
    <3> QED BY <3>1, <3>2 DEF Counts
  <2>2. OldQty \in Int /\ \A q \in FirstEntries : f[q] = OldQty
    BY FirstEntriesCount, StockAssumption
  <2>3. SumFunctionOnSet(f, FirstEntries) = OldQty * Cardinality(FirstEntries)
    <3> HIDE DEF f
    <3> QED BY <2>2, SumConstant, FirstEntriesCount
  <2>4. SumFunctionOnSet(f, FirstEntries) = SumFunctionOnSet(g, Entry)
    <3>1. FirstEntries \in SUBSET Entry /\ \A q \in FirstEntries : f[q] \in Int
      BY <2>2, FirstEntriesCount
    <3> HIDE DEF f
    <3> QED BY <3>1, SumPart, StockAssumption
  <2>5. SumFunction(g) = SumFunctionOnSet(g, Entry)
    BY DEF SumFunction
  <2>6. Goods(v, p) = OldQty * Cardinality(FirstEntries)
    BY <1>5, FirstGoods DEF Goods, TablesInit
  <2>7. Goods(v, p) \in Int
    BY <1>1, GoodsType
  <2> HIDE DEF f, g, v
  <2>8. Goods(v, p) = Explained(v, p)
    BY <1>2, <1>4, <2>1, <2>3, <2>4, <2>5, <2>6, <2>7
  <2> QED BY <2>8 DEF v
<1>6. CASE p = "fg"
  <2>1. Counts(v, p) = [q \in Entry |-> 0]
    BY <1>6 DEF Counts, TablesInit, Counted, OldEntry, NoEntry
  <2>2. SumFunction(Counts(v, p)) = 0
    BY <2>1, SumZero, StockAssumption DEF SumFunction
  <2>3. v.pool[p] = Nothing
    BY <1>6 DEF TablesInit, FirstPool, Empty, Scope
  <2>4. Goods(v, p) = 0
    BY <2>3, SumZero, BucketsFinite DEF Goods, SumFunction, Nothing
  <2> QED BY <1>2, <1>4, <2>2, <2>4
<1> QED BY <1>5, <1>6 DEF Scope

\* A step keeps what lies in a scope explained.
LEMMA StepBalanced ==
    ASSUME SInv, StockExplained, [Next]_<<vars, shift>>
    PROVE  StockExplained'
<1>1. SInv' /\ (db' = db \/ \E t \in Tx : Change(t, db, db'))
  BY StepKeeps
<1>2. CASE db' = db
  BY <1>2 DEF StockExplained
<1>3. ASSUME NEW t \in Tx, Change(t, db, db') PROVE StockExplained'
  <2>1. db \in Tables /\ RowsIn(db) /\ db' \in Tables /\ RowsIn(db')
    <3>1. Typed /\ RowsOK /\ Typed' /\ RowsOK'
      BY <1>1, InvariantParts DEF SInv, Typed, RowsOK, TypeOK
    <3> QED BY <3>1, RowForms DEF Typed
  <2>2. Balanced(db, db')
    BY <1>3, <2>1, LotsBalanced, EntriesBalanced, ReturnsBalanced, CorrectionsBalanced DEF Change
  <2>3. ASSUME NEW p \in Scope PROVE Goods(db', p) = Explained(db', p)
    <3> DEFINE i == Goods(db, p)
               j == Goods(db', p)
               k == Explained(db', p)
    <3>1. i \in Int /\ j \in Int
      BY <2>1, GoodsType
    <3>2. k \in Int
      <4>1. /\ k = SumFunction(Counts(db', p)) + Elsewhere(db', p)
            /\ SumFunction(Counts(db', p)) \in Int
            /\ SumFunction(NetReturned(db')) \in Int /\ SumFunction(NetAdjusted(db')) \in Int
            /\ SumFunction(NetOpened(db')) \in Int
        BY <2>1, NetTypes
      <4>2. Elsewhere(db', p) \in Int
        BY <4>1 DEF Elsewhere
      <4> QED BY <4>1, <4>2
    <3>3. i = Explained(db, p)
      BY DEF StockExplained, Goods
    <3>4. j - k = i - i
      BY <2>2, <3>3 DEF Balanced
    <3> HIDE DEF i, j, k
    <3>5. j = k
      BY <3>1, <3>2, <3>4
    <3> QED BY <3>5 DEF j, k
  <2> QED BY <2>3 DEF StockExplained, Goods
<1> QED BY <1>1, <1>2, <1>3

\* No change takes back more of a dispatch than was dispatched.
LEMMA ChangeWithinShipped ==
    ASSUME NEW t, NEW w \in Tables, NEW x \in Tables, Change(t, w, x),
           \A y \in Shipment : Returned(w, y) <= Shipped[y]
    PROVE  \A y \in Shipment : Returned(x, y) <= Shipped[y]
<1>0. ASSUME NEW y \in Shipment, \A c \in Return : ShipmentOf[c] = y => Listed(x, c) = Listed(w, c)
      PROVE  Returned(x, y) <= Shipped[y]
  <2>1. ListedAt(x, y) = ListedAt(w, y)
    BY <1>0 DEF ListedAt
  <2> QED BY <2>1, ReturnedSum
<1>1. CASE x.ret = w.ret
  BY <1>0, <1>1 DEF Listed
<1>2. CASE ReturnChange(t, w, x)
  <2> DEFINE c == req[t].c
             z == ShipmentOf[c]
  <2>1. /\ c \in Return /\ \A d \in Return \ {c} : x.ret[d] = w.ret[d]
        /\ req[t].op \in ReturnOps \cup {"return"} /\ x.ret[c].state # "absent"
        /\ req[t].op \in ReturnOps => w.ret[c].state # "absent" /\ x.ret[c].qty = w.ret[c].qty
        /\ req[t].op = "return" => /\ w.ret[c].state = "absent"
                                   /\ Returned(w, z) + x.ret[c].qty <= Shipped[z]
    BY <1>2 DEF ReturnChange, ReturnPosts, OnlyReturn
  <2>2. \A d \in Return \ {c} : Listed(x, d) = Listed(w, d)
    BY <2>1 DEF Listed
  <2>3. CASE req[t].op \in ReturnOps
    <3>1. Listed(x, c) = Listed(w, c)
      BY <2>1, <2>3 DEF Listed
    <3> QED BY <1>0, <2>2, <3>1
  <2>4. CASE req[t].op = "return"
    <3> DEFINE f == ListedAt(w, z)
               g == ListedAt(x, z)
               n == x.ret[c].qty
    <3>1. f \in [Return -> Int] /\ g \in [Return -> Int] /\ n \in Int
      <4>1. x.ret[c].qty \in Nat
        BY <2>1 DEF Tables, ReturnRow
      <4> QED BY <4>1, ReturnedSum
    <3>2. g[c] = n /\ f[c] = 0 /\ \A d \in Return \ {c} : g[d] = f[d]
      BY <2>1, <2>2, <2>4 DEF ListedAt, Listed
    <3>3. Returned(w, z) = SumFunction(f) /\ Returned(x, z) = SumFunction(g)
      BY ReturnedSum
    <3>4. Returned(w, z) + n <= Shipped[z]
      BY <2>1, <2>4
    <3> HIDE DEF f, g, n, c, z
    <3>5. g[c] = f[c] + n
      BY <3>1, <3>2
    <3>6. Returned(x, z) = Returned(w, z) + n
      <4>1. IsFiniteSet(Return)
        BY StockAssumption
      <4> QED BY <2>1, <3>1, <3>2, <3>3, <3>5, <4>1, SumPlus
    <3>7. \A y \in Shipment : y # z => Returned(x, y) <= Shipped[y]
      BY <1>0, <2>2 DEF z
    <3> QED BY <3>4, <3>6, <3>7
  <2> QED BY <2>1, <2>3, <2>4
<1>3. x.ret = w.ret \/ ReturnChange(t, w, x)
  BY DEF Change, LotChange, LotWrite, LotMove, EntryChange, EntryPosts, AdjustmentChange,
         OnlyAdjustment, OpeningChange, OnlyOpening
<1> QED BY <1>1, <1>2, <1>3

(***************************************************************************)
(* Theorems.                                                               *)
(***************************************************************************)

\* A transaction that has come so far in its handler holds and knows what SInv says,
\* whatever the others do meanwhile, and the columns of each row belong together.
THEOREM StockInvariance == Spec => []SInv
<1>1. Init => SInv
  BY InitHolds
<1>2. SInv /\ [Next]_<<vars, shift>> => SInv'
  BY StepKeeps
<1> QED BY <1>1, <1>2, PTL DEF Spec

\* The types of the tables and of every connection.
THEOREM StockTypes == Spec => []TypeOK
<1>1. SInv => TypeOK
  BY DEF SInv
<1> QED BY <1>1, StockInvariance, PTL

\* The final QC of a lot takes its rework stock out once.
THEOREM ReworkTakenOnce == Spec => []ReworkOnce
<1>1. SInv => ReworkOnce
  BY DEF SInv
<1> QED BY <1>1, StockInvariance, PTL

\* The goods of a return are where its row says, and a scrapped one took out no more
\* than it had brought in.
THEOREM ReturnsMoveOnce == Spec => [](ReturnMovesOnce /\ ScrapWithinReturn)
<1>1. SInv => ReturnMovesOnce /\ ScrapWithinReturn
  BY DEF SInv
<1> QED BY <1>1, StockInvariance, PTL

\* Scrapping part of a return, or scrapping it again, takes no more goods of it out of a
\* bucket than it had put there.
THEOREM ScrapsWithinReturn == Spec => []ScrapWithinReturn
<1>1. SInv => ScrapWithinReturn
  BY DEF SInv
<1> QED BY <1>1, StockInvariance, PTL

\* An adjustment is reversed at most once.
THEOREM AdjustmentsReversedOnce == Spec => []AdjustmentReversedOnce
<1>1. SInv => AdjustmentReversedOnce
  BY DEF SInv
<1> QED BY <1>1, StockInvariance, PTL

\* A replacement order covers goods that are back in stock, and all of them.
THEOREM ReplacementsCovered == Spec => []ReplacementCovered
<1>1. SInv => ReplacementCovered
  <2> SUFFICES ASSUME SInv, NEW c \in Return, db.ret[c].replaced > 0
               PROVE  /\ db.ret[c].state = "APPROVED_TO_STOCK"
                      /\ db.ret[c].replaced = db.ret[c].net["USABLE"]
    BY DEF ReplacementCovered
  <2> DEFINE row == db.ret[c]
  <2>1. row \in ReturnRow
    BY DEF SInv, TypeOK, Tables
  <2>2. /\ row.state = "APPROVED_TO_STOCK" /\ row.replaced \in {0, row.qty}
        /\ row.net = NetOfReturn(row)
    BY DEF SInv, ReturnRowsAgree, ReturnMovesOnce
  <2> HIDE DEF row
  <2>3. row.net["USABLE"] = NetAt(row, "USABLE") /\ row.replaced = row.qty
    <3>1. row.replaced > 0
      BY DEF row
    <3>2. row.net["USABLE"] = NetAt(row, "USABLE")
      BY <2>1, <2>2, NetOf DEF Bucket
    <3> QED BY <2>2, <3>1, <3>2
  <2>4. NetAt(row, "USABLE") = row.qty
    BY <2>2 DEF NetAt, Places
  <2> QED BY <2>2, <2>3, <2>4 DEF row
<1> QED BY <1>1, StockInvariance, PTL

\* Lots, transfers and final QC move goods between buckets and never between locations:
\* what lies in each scope is what entries, returns, adjustments and opening stock put there.
THEOREM GoodsExplained == Spec => []StockExplained
<1>1. Init => StockExplained
  <2> SUFFICES ASSUME Init PROVE StockExplained
    OBVIOUS
  <2>1. PICK place \in [FirstLot -> FirstPlace] : db = TablesInit(place)
    BY DEF Init
  <2>2. \A p \in Scope : Goods(db, p) = Explained(db, p)
    BY <2>1, FirstExplained
  <2> QED BY <2>2 DEF StockExplained, Goods
<1>2. SInv /\ StockExplained /\ [Next]_<<vars, shift>> => StockExplained'
  BY StepBalanced
<1> QED BY <1>1, <1>2, StockInvariance, PTL DEF Spec

\* The returns of a dispatch never exceed what was dispatched, also when two clerks take
\* goods of it back at the same time.
THEOREM ReturnsWithinDispatch == Spec => []ReturnedWithinShipped
<1>1. Init => ReturnedWithinShipped
  <2> SUFFICES ASSUME Init, NEW x \in Shipment PROVE Returned(db, x) <= Shipped[x]
    BY DEF ReturnedWithinShipped
  <2>1. PICK place \in [FirstLot -> FirstPlace] : db = TablesInit(place)
    BY DEF Init
  <2>2. ReturnsOf(db, x) = {}
    BY <2>1 DEF ReturnsOf, TablesInit, NoReturn
  <2>3. Returned(db, x) = 0
    BY <2>2, SumUnfold, FS_EmptySet DEF Returned
  <2>4. Shipped[x] \in Nat
    BY StockAssumption
  <2> QED BY <2>3, <2>4
<1>2. SInv /\ ReturnedWithinShipped /\ [Next]_<<vars, shift>> => ReturnedWithinShipped'
  <2> SUFFICES ASSUME SInv, ReturnedWithinShipped, [Next]_<<vars, shift>>
               PROVE  ReturnedWithinShipped'
    OBVIOUS
  <2>1. SInv' /\ (db' = db \/ \E t \in Tx : Change(t, db, db'))
    BY StepKeeps
  <2>2. db \in Tables /\ db' \in Tables
    BY <2>1 DEF SInv, TypeOK
  <2> QED BY <2>1, <2>2, ChangeWithinShipped DEF ReturnedWithinShipped
<1> QED BY <1>1, <1>2, StockInvariance, PTL DEF Spec
==============================================================================
