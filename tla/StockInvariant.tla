--------------------------- MODULE StockInvariant ----------------------------
(***************************************************************************)
(* The inductive invariants behind the theorems of StockProofs and         *)
(* LotProofs: what a transaction that has come so far in its handler holds *)
(* and knows, and how the columns of a row belong together.                *)
(***************************************************************************)
EXTENDS StockProperties

\* The handlers whose first statement locks the row that they decide on.
LockFirstOps ==
    {"decide", "mark", "recheck", "return", "classify", "reverseAdjust"} \cup ReturnOps

FirstRow(r) ==
    CASE r.op \in LotOps          -> r.d
      [] r.op \in ReturnOps       -> r.c
      [] r.op = "return"          -> ShipmentOf[r.c]
      [] r.op = "classify"        -> r.q
      [] r.op = "reverseAdjust"   -> r.a

\* The place of the first plain SELECT in a handler.
ReadAt(op) ==
    IF op \in LockFirstOps THEN 2 ELSE IF op = "completeRework" THEN 3 ELSE 1

Doing(t, ops, n) == ~Idle(t) /\ req[t].op \in ops /\ at[t] > n
Viewed(t) == ~Idle(t) /\ at[t] > ReadAt(req[t].op)

\* A view that was read has passed the checks that follow the first SELECT.
ViewRead ==
    \A t \in Tx : Viewed(t) => snap[t] \in Tables /\ Readable(req[t], snap[t])

LocksExclusive ==
    \A t, u \in Tx : \A r \in Row : t # u /\ held[t][r] = "X" => held[u][r] = "-"

\* The row a handler decides on is its own.
HoldsRow ==
    \A t \in Tx :
      /\ Doing(t, LockFirstOps, 1) => held[t][FirstRow(req[t])] = "X"
      /\ Doing(t, {"hold"}, 3) => \A d \in {req[t].d} \cup Draws(req[t]) : held[t][d] = "X"

\* Having locked the lot before reading it, its final QC knows what stock waits for it.
LotKnown ==
    \A t \in Tx :
      Doing(t, {"recheck"}, 2) =>
        \A b \in {"REWORK", "QC_PENDING"} :
          Owned(snap[t], req[t].d, b) = Owned(db, req[t].d, b)

\* Likewise the decisions on a return,
ReturnKnown ==
    \A t \in Tx : Doing(t, ReturnOps, 2) => snap[t].ret[req[t].c] = db.ret[req[t].c]

\* the creation of one, which knows the others of the dispatch,
Listed(v, c) == IF v.ret[c].state = "absent" THEN 0 ELSE v.ret[c].qty

ShipmentKnown ==
    \A t \in Tx :
      Doing(t, {"return"}, 2) =>
        \A c \in Return : ShipmentOf[c] = ShipmentOf[req[t].c] =>
          Listed(snap[t], c) = Listed(db, c)

\* and the reversal of an adjustment.
AdjustmentKnown ==
    \A t \in Tx :
      Doing(t, {"reverseAdjust"}, 2) =>
        /\ db.adj[req[t].a].state = "posted"
        /\ snap[t].adj[req[t].a].delta = db.adj[req[t].a].delta

\* QC entries are never removed.
EntriesOlder ==
    \A t \in Tx :
      Viewed(t) => \A q \in Entry : snap[t].entry[q].state # "absent" =>
                                      db.entry[q].state # "absent"

\* Identifiers that are drawn are new.
FreshRows ==
    \A t \in Tx :
      /\ Doing(t, {"return"}, 0) => db.ret[req[t].c].state = "absent"
      /\ Doing(t, {"adjust"}, 0) => db.adj[req[t].a].state = "absent"
      /\ Doing(t, {"qcPost"}, 0) => db.entry[req[t].q].state = "absent"

DistinctDraws ==
    \A t, u \in Tx :
      t # u /\ ~Idle(t) /\ ~Idle(u) => Draws(req[t]) \cap Draws(req[u]) = {}

(***************************************************************************)
(* How the columns of a row belong together.                               *)
(***************************************************************************)

\* The bucket of a return is that of its state, and its order replaces all of it.
ReturnRowsAgree ==
    \A c \in Return :
      /\ db.ret[c].state = "IN_QC_HOLD" => db.ret[c].bucket = "QC_HOLD"
      /\ db.ret[c].state = "IN_REWORK" => db.ret[c].bucket = "REWORK"
      /\ db.ret[c].replaced > 0 => db.ret[c].state = "APPROVED_TO_STOCK"
      /\ db.ret[c].replaced \in {0, db.ret[c].qty}

\* An entry without a bucket has rejected nothing.
BucketsAgree ==
    \A q \in Entry : db.entry[q].bucket = "none" => db.entry[q].rej = 0

\* An adjustment that does not exist changes nothing.
AbsentAdjustments ==
    \A a \in Adjustment : db.adj[a].state = "absent" => db.adj[a].delta = 0

SInv ==
    /\ TypeOK /\ ViewRead /\ LocksExclusive /\ HoldsRow
    /\ LotKnown /\ ReturnKnown /\ ShipmentKnown /\ AdjustmentKnown
    /\ EntriesOlder /\ FreshRows /\ DistinctDraws
    /\ ReturnRowsAgree /\ BucketsAgree /\ AbsentAdjustments
    /\ ReworkOnce /\ ReturnMovesOnce /\ ScrapWithinReturn /\ AdjustmentReversedOnce

(***************************************************************************)
(* Lots, where users do not share the work that reads before it locks: one *)
(* of them decides on held goods, one supervisor on rework.                *)
(***************************************************************************)

\* At any time one connection at most sends any of the operations ops.
OneSends(ops) ==
    \A s \in Shift : \A t, u \in Tx :
      t # u => OpsOf[s][t] \cap ops = {} \/ OpsOf[s][u] \cap ops = {}

OneDesk == OneSends({"hold"}) /\ OneSends({"decide", "queue"})

\* Nobody reverses QC while somebody else decides on held goods.
OneQcDesk == OneSends({"hold", "qcReverse"})

\* Everybody sends what the shift says.
OwnOperations == \A t \in Tx : ~Idle(t) => req[t].op \in OpsOf[shift][t]

\* Lots about to be promoted or voided are locked, an entry about to be reversed too.
SetsLocked ==
    \A t \in Tx :
      /\ (Doing(t, {"decide"}, 3) \/ Doing(t, {"queue"}, 2)) =>
           \A d \in Stale(snap[t]) : held[t][d] = "X"
      /\ Doing(t, {"qcReverse"}, 3) => held[t][req[t].q] = "X"
      /\ Doing(t, {"qcReverse"}, 4) => \A d \in LotsOf(req[t].q) : held[t][d] = "X"

\* A decision on a lot that locks it first knows its row and its stock.
DecidedKnown ==
    \A t \in Tx :
      Doing(t, {"decide", "mark", "recheck"}, 2) =>
        /\ snap[t].lot[req[t].d] = db.lot[req[t].d]
        /\ snap[t].own[req[t].d] = db.own[req[t].d]

\* v and w differ in lot d at most in whether it is void.
SameLot(v, w, d) ==
    /\ v.lot[d].state = w.lot[d].state /\ v.lot[d].rem = w.lot[d].rem
    /\ v.own[d] = w.own[d]

\* A decision on held goods knows its lot but for that, and splits off a new one.
HeldKnown ==
    \A t \in Tx :
      /\ Doing(t, {"hold"}, 1) => SameLot(snap[t], db, req[t].d)
      /\ Doing(t, {"hold"}, 0) /\ req[t].new # NoLot => db.lot[req[t].new].state = "absent"

\* The supervisor knows the lots to promote.
StaleKnown ==
    \A t \in Tx :
      (Doing(t, {"decide"}, 2) \/ Doing(t, {"queue"}, 1)) =>
        \A d \in Stale(snap[t]) : SameLot(snap[t], db, d)

\* An entry that is being classified is not reversed meanwhile.
ClassifiedStands ==
    \A t \in Tx : Doing(t, {"classify"}, 2) => db.entry[req[t].q].state = "active"

\* Where the stock of a lot is, by the state of the lot: all that is left of it, and of an
\* open lot something is left.  Stock that QC posted lies in the FG Store and is of no use
\* to a decision.
LotShape(row, own) ==
    LET hold == own["read"]["QC_HOLD"]
        away == own["fg"]["QC_HOLD"]
        rework == own["read"]["REWORK"] + own["read"]["QC_PENDING"]
    IN  CASE row.state \in {"absent", "SCRAP", "CLOSED"} ->
               row.rem = 0 /\ hold = 0 /\ away = 0 /\ rework = 0
          [] row.state = "HOLD" ->
               row.rem > 0 /\ hold + away = row.rem /\ away >= 0 /\ rework = 0
          [] row.state = "REWORK_PENDING_SUPERVISOR" ->
               /\ row.rem > 0 /\ away = 0
               /\ (hold = row.rem /\ rework = 0) \/ (hold = 0 /\ rework = row.rem)
          [] row.state \in {"REWORK_APPROVED_PENDING_EXECUTION", "REWORK_READY_FOR_QC"} ->
               row.rem > 0 /\ hold = 0 /\ away = 0 /\ rework = row.rem

LotsInShape == \A d \in Lot : LotShape(db.lot[d], db.own[d])

\* A lot belongs to an entry that exists, a void one to a reversed one, the lot of a
\* classification to a classified one.
LotsHaveEntries ==
    /\ \A d \in Lot : db.lot[d].state # "absent" => db.entry[EntryOf[d]].state # "absent"
    /\ \A d \in Lot : db.lot[d].void => db.entry[EntryOf[d]].state = "reversed"
    /\ \A q \in Entry : LET d == PartLot[q]["classified"] IN
         d # NoLot /\ db.lot[d].state # "absent" => db.entry[q].sorted

LInv ==
    /\ OwnOperations /\ SetsLocked /\ DecidedKnown /\ HeldKnown /\ StaleKnown
    /\ ClassifiedStands /\ LotsInShape /\ LotsHaveEntries

\* A decision on held goods is about goods of an entry that stands.
HeldStands ==
    \A t \in Tx :
      Doing(t, {"hold"}, 1) => db.entry[EntryOf[req[t].d]].state # "reversed"
==============================================================================
