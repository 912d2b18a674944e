------------------------------ MODULE LotProofs ------------------------------
(***************************************************************************)
(* Theorems about lots of rejected goods, for every value of the           *)
(* constants.  A decision on a lot either locks it before it reads it, or  *)
(* is taken by the only user who takes such decisions; so its view of the  *)
(* lot is current (LInv) and what it leaves has the stock that its state   *)
(* stands for (LotShape).  So each write takes from a lot, splits it or    *)
(* voids it as RejectedGoods says.                                         *)
(***************************************************************************)
EXTENDS StockProofs

(***************************************************************************)
(* What is written to one lot.                                             *)
(***************************************************************************)

\* The stock of a lot that the states of lots are about.
OnHold(own) == own["read"]["QC_HOLD"]
Away(own) == own["fg"]["QC_HOLD"]
Reworked(own) == own["read"]["REWORK"] + own["read"]["QC_PENDING"]

\* A lot of v in its shape, and nothing negative waiting for final QC.
Shaped(v, d) ==
    /\ LotShape(v.lot[d], v.own[d])
    /\ v.own[d]["read"]["REWORK"] >= 0 /\ v.own[d]["read"]["QC_PENDING"] >= 0

LEMMA BalanceTypes ==
    ASSUME NEW v \in Tables, NEW d \in Lot
    PROVE  /\ v.own[d] \in Balance
           /\ \A p \in Scope, b \in Bucket : v.own[d][p][b] \in Int
           /\ OnHold(v.own[d]) \in Int /\ Away(v.own[d]) \in Int /\ Reworked(v.own[d]) \in Int
           /\ v.own[d]["read"]["REWORK"] \in Int /\ v.own[d]["read"]["QC_PENDING"] \in Int
           /\ v.lot[d] \in LotRow /\ v.lot[d].rem \in Nat /\ v.lot[d].state \in LotState
BY DEF Tables, Balance, Scope, Bucket, OnHold, Away, Reworked, LotRow

\* The shapes, state by state.
LEMMA Shapes ==
    ASSUME NEW row, NEW own
    PROVE  /\ row.state \in {"absent", "SCRAP", "CLOSED"} =>
                (LotShape(row, own) <=>
                   row.rem = 0 /\ OnHold(own) = 0 /\ Away(own) = 0 /\ Reworked(own) = 0)
           /\ row.state = "HOLD" =>
                (LotShape(row, own) <=>
                   /\ row.rem > 0 /\ OnHold(own) + Away(own) = row.rem
                   /\ Away(own) >= 0 /\ Reworked(own) = 0)
           /\ row.state = "REWORK_PENDING_SUPERVISOR" =>
                (LotShape(row, own) <=>
                   /\ row.rem > 0 /\ Away(own) = 0
                   /\ \/ OnHold(own) = row.rem /\ Reworked(own) = 0
                      \/ OnHold(own) = 0 /\ Reworked(own) = row.rem)
           /\ row.state \in {"REWORK_APPROVED_PENDING_EXECUTION", "REWORK_READY_FOR_QC"} =>
                (LotShape(row, own) <=>
                   row.rem > 0 /\ OnHold(own) = 0 /\ Away(own) = 0 /\ Reworked(own) = row.rem)
<1> USE DEF LotShape, OnHold, Away, Reworked
<1>1. CASE row.state \in {"absent", "SCRAP", "CLOSED"}
  BY <1>1
<1>2. CASE row.state = "HOLD"
  BY <1>2
<1>3. CASE row.state = "REWORK_PENDING_SUPERVISOR"
  BY <1>3
<1>4. CASE row.state \in {"REWORK_APPROVED_PENDING_EXECUTION", "REWORK_READY_FOR_QC"}
  BY <1>4
<1> QED BY <1>1, <1>2, <1>3, <1>4

\* Balances that agree in every bucket are the same.
LEMMA SameBalance ==
    ASSUME NEW A \in Balance, NEW B \in Balance, \A p \in Scope, b \in Bucket : A[p][b] = B[p][b]
    PROVE  A = B
<1>1. \A p \in Scope : A[p] = B[p]
  BY DEF Balance
<1> QED BY <1>1 DEF Balance

\* The shape depends only on state, remainder and stock.
LEMMA ShapeSame ==
    ASSUME NEW v, NEW w, NEW d, SameLot(v, w, d)
    PROVE  LotShape(v.lot[d], v.own[d]) <=> LotShape(w.lot[d], w.own[d])
BY DEF SameLot, LotShape

\* x is w with n moved from one bucket of lot d to another of lot e, in the read scope.
Handed(w, x, d, e, from, to, n) ==
    /\ x \in Tables /\ x.lot = w.lot /\ x.entry = w.entry
    /\ \A f \in Lot, p \in Scope, b \in Bucket :
         x.own[f][p][b] = w.own[f][p][b]
                          + (IF p = "read" /\ f = d /\ b = from THEN -n ELSE 0)
                          + (IF p = "read" /\ f = e /\ b = to THEN n ELSE 0)

LEMMA TransferHands ==
    ASSUME NEW w \in Tables, NEW d \in Lot, NEW e \in Lot,
           NEW from \in Bucket, NEW to \in Bucket, NEW n \in Int
    PROVE  Handed(w, TransferOwned(w, d, e, from, to, n), d, e, from, to, n)
<1> DEFINE m == -n
           y == PostOwned(w, d, "read", from, m)
           x == PostOwned(y, e, "read", to, n)
<1>0. x = TransferOwned(w, d, e, from, to, n)
  BY DEF TransferOwned
<1>1. m \in Int /\ "read" \in Scope /\ m = -n
  BY DEF Scope
<1> HIDE DEF m
<1>2. OwnPosted(w, y, d, "read", from, m)
  BY <1>1, PostOwnedChange
<1> HIDE DEF y
<1>3. y \in Tables
  BY <1>2 DEF OwnPosted, OnlyStock
<1>4. OwnPosted(y, x, e, "read", to, n)
  BY <1>1, <1>3, PostOwnedChange
<1> HIDE DEF x
<1>5. ASSUME NEW f \in Lot, NEW p \in Scope, NEW b \in Bucket
      PROVE  x.own[f][p][b] = w.own[f][p][b]
                          + (IF p = "read" /\ f = d /\ b = from THEN -n ELSE 0)
                          + (IF p = "read" /\ f = e /\ b = to THEN n ELSE 0)
  <2>1. w.own[f][p][b] \in Int
    BY BalanceTypes
  <2>2. /\ y.own[f][p][b] = IF f = d /\ p = "read" /\ b = from THEN w.own[f][p][b] + m
                            ELSE w.own[f][p][b]
        /\ x.own[f][p][b] = IF f = e /\ p = "read" /\ b = to THEN y.own[f][p][b] + n
                            ELSE y.own[f][p][b]
    BY <1>2, <1>4 DEF OwnPosted
  <2> QED BY <1>1, <2>1, <2>2
<1> QED BY <1>0, <1>2, <1>4, <1>5 DEF Handed, OwnPosted, OnlyStock

\* What the transfer leaves of hold, away and rework: out of hold of d, into bucket to of e.
OutOfHoldOf(w, x, d, e, to, n) ==
    \A f \in Lot :
      /\ OnHold(x.own[f]) = OnHold(w.own[f]) - (IF f = d THEN n ELSE 0)
      /\ Away(x.own[f]) = Away(w.own[f])
      /\ Reworked(x.own[f]) = Reworked(w.own[f]) + (IF f = e /\ to = "REWORK" THEN n ELSE 0)
      /\ f \notin {d, e} => x.own[f] = w.own[f]

LEMMA OutOfHoldLeaves ==
    ASSUME NEW w \in Tables, NEW x, NEW d \in Lot, NEW e \in Lot,
           NEW to \in {"USABLE", "REWORK", "SCRAP"}, NEW n \in Int,
           Handed(w, x, d, e, "QC_HOLD", to, n)
    PROVE  OutOfHoldOf(w, x, d, e, to, n)
<1> SUFFICES ASSUME NEW f \in Lot
             PROVE  /\ OnHold(x.own[f]) = OnHold(w.own[f]) - (IF f = d THEN n ELSE 0)
                    /\ Away(x.own[f]) = Away(w.own[f])
                    /\ Reworked(x.own[f]) = Reworked(w.own[f])
                                            + (IF f = e /\ to = "REWORK" THEN n ELSE 0)
                    /\ f \notin {d, e} => x.own[f] = w.own[f]
  BY DEF OutOfHoldOf
<1>1. /\ {"read", "fg"} \subseteq Scope /\ {"QC_HOLD", "REWORK", "QC_PENDING"} \subseteq Bucket
      /\ x \in Tables
  BY DEF Scope, Bucket, Handed
<1>2. /\ w.own[f]["read"]["QC_HOLD"] \in Int /\ w.own[f]["fg"]["QC_HOLD"] \in Int
      /\ w.own[f]["read"]["REWORK"] \in Int /\ w.own[f]["read"]["QC_PENDING"] \in Int
  BY <1>1, BalanceTypes
<1>3. \A p \in Scope, b \in Bucket :
         x.own[f][p][b] = w.own[f][p][b]
                          + (IF p = "read" /\ f = d /\ b = "QC_HOLD" THEN -n ELSE 0)
                          + (IF p = "read" /\ f = e /\ b = to THEN n ELSE 0)
  BY DEF Handed
<1>4. /\ x.own[f]["read"]["QC_HOLD"] = w.own[f]["read"]["QC_HOLD"] + (IF f = d THEN -n ELSE 0)
      /\ x.own[f]["fg"]["QC_HOLD"] = w.own[f]["fg"]["QC_HOLD"]
      /\ x.own[f]["read"]["REWORK"] = w.own[f]["read"]["REWORK"]
                                      + (IF f = e /\ to = "REWORK" THEN n ELSE 0)
      /\ x.own[f]["read"]["QC_PENDING"] = w.own[f]["read"]["QC_PENDING"]
  BY <1>1, <1>2, <1>3
<1>5. f \notin {d, e} => x.own[f] = w.own[f]
  <2> SUFFICES ASSUME f \notin {d, e} PROVE x.own[f] = w.own[f]
    OBVIOUS
  <2>1. \A p \in Scope, b \in Bucket : x.own[f][p][b] = w.own[f][p][b]
    <3> SUFFICES ASSUME NEW p \in Scope, NEW b \in Bucket PROVE x.own[f][p][b] = w.own[f][p][b]
      OBVIOUS
    <3>1. w.own[f][p][b] \in Int
      BY BalanceTypes
    <3> QED BY <1>3, <3>1
  <2> QED BY <1>1, <2>1, BalanceTypes, SameBalance
<1> QED BY <1>2, <1>4, <1>5 DEF OnHold, Away, Reworked

(***************************************************************************)
(* What a handler does to the lots.                                        *)
(***************************************************************************)

\* The states that a handler takes a lot out of.
TakenFrom(op) ==
    CASE op \in {"decide", "queue"} -> {"REWORK_PENDING_SUPERVISOR"}
      [] op = "mark"    -> {"REWORK_APPROVED_PENDING_EXECUTION", "REWORK_READY_FOR_QC"}
      [] op = "hold"    -> {"HOLD"}
      [] op = "recheck" -> {"REWORK_READY_FOR_QC"}
      [] OTHER          -> {}

\* Nothing,
Kept(w, x, d) == x.lot[d] = w.lot[d] /\ x.own[d] = w.own[d]

\* voids it,
Voided(t, w, x, d) ==
    /\ req[t].op = "qcReverse" /\ EntryOf[d] = req[t].q /\ d \in Mine(t)
    /\ SameLot(w, x, d) /\ w.lot[d].state # "absent" /\ x.lot[d].void

\* creates it, with goods of the lot that is split,
Drawn(t, w, x, d) ==
    /\ w.lot[d].state = "absent" /\ x.lot[d].state # "absent" /\ ~x.lot[d].void
    /\ \/ /\ req[t].op = "hold" /\ d = req[t].new
          /\ x.lot[req[t].d].rem + x.lot[d].rem <= w.lot[req[t].d].rem
       \/ /\ req[t].op = "qcPost" /\ EntryOf[d] = req[t].q /\ d \in DrawnByEntries
          /\ d # PartLot[req[t].q]["classified"]
       \/ /\ req[t].op = "classify" /\ d = PartLot[req[t].q]["classified"]
          /\ d \in DrawnByEntries

\* or decides on it; only of the lot it is asked about it takes goods.
Settled(t, w, x, d) ==
    /\ w.lot[d].state \in TakenFrom(req[t].op) /\ x.lot[d].state # "absent"
    /\ d \in Mine(t) /\ x.lot[d].void = w.lot[d].void
    /\ x.lot[d].rem <= w.lot[d].rem
    /\ req[t].op = "queue" \/ d # req[t].d => x.lot[d].rem = w.lot[d].rem

LotDone(t, w, x, d) ==
    /\ Kept(w, x, d) \/ Voided(t, w, x, d) \/ Drawn(t, w, x, d) \/ Settled(t, w, x, d)
    /\ LotShape(x.lot[d], x.own[d])

\* Promoted lots have their stock in rework, so they are in the shape of their new state.
LEMMA PromotedLots ==
    ASSUME NEW t, NEW v \in Tables, NEW w \in Tables,
           \A d \in Lot : Shaped(w, d),
           \A d \in Stale(v) : SameLot(v, w, d) /\ d \in Mine(t),
           req[t].op \in {"decide", "queue"}
    PROVE  LET x == Promote(w, Stale(v))
           IN  /\ x \in Tables /\ x.entry = w.entry /\ x.own = w.own
               /\ \A d \in Lot : /\ LotDone(t, w, x, d)
                                 /\ d \notin Stale(v) => Kept(w, x, d)
<1> DEFINE x == Promote(w, Stale(v))
<1>1. x \in Tables /\ x.entry = w.entry /\ x.own = w.own
  BY PromoteOnly DEF LotMove
<1>2. \A d \in Lot : x.lot[d] = IF d \in Stale(v)
                                THEN [w.lot[d] EXCEPT !.state = "REWORK_READY_FOR_QC"]
                                ELSE w.lot[d]
  BY DEF Promote, Tables
<1> HIDE DEF x
<1>3. ASSUME NEW d \in Lot, d \in Stale(v) PROVE LotDone(t, w, x, d)
  <2>1. /\ w.lot[d].state = "REWORK_PENDING_SUPERVISOR" /\ v.own[d] = w.own[d]
        /\ Owned(v, d, "QC_HOLD") <= 0 /\ InRework(v, d) /\ d \in Mine(t)
    BY <1>3 DEF Stale, SameLot
  <2>2. /\ OnHold(w.own[d]) <= 0
        /\ w.own[d]["read"]["REWORK"] > 0 \/ w.own[d]["read"]["QC_PENDING"] > 0
    BY <2>1 DEF InRework, Owned, OnHold
  <2>3. /\ w.own[d]["read"]["REWORK"] \in Int /\ w.own[d]["read"]["QC_PENDING"] \in Int
        /\ OnHold(w.own[d]) \in Int /\ w.lot[d].rem \in Nat /\ w.lot[d] \in LotRow
    BY BalanceTypes
  <2>4. Reworked(w.own[d]) > 0
    BY <2>2, <2>3 DEF Shaped, Reworked
  <2>5. /\ OnHold(w.own[d]) = 0 /\ Reworked(w.own[d]) = w.lot[d].rem
        /\ Away(w.own[d]) = 0 /\ w.lot[d].rem > 0
    BY <2>1, <2>2, <2>3, <2>4, Shapes DEF Shaped
  <2>6. /\ x.lot[d].state = "REWORK_READY_FOR_QC" /\ x.lot[d].rem = w.lot[d].rem
        /\ x.lot[d].void = w.lot[d].void /\ x.own[d] = w.own[d]
    BY <1>1, <1>2, <1>3, <2>3 DEF LotRow
  <2>7. LotShape(x.lot[d], x.own[d])
    BY <2>5, <2>6, Shapes
  <2> QED BY <2>1, <2>3, <2>6, <2>7 DEF LotDone, Settled, TakenFrom
<1>4. ASSUME NEW d \in Lot, d \notin Stale(v) PROVE Kept(w, x, d) /\ LotDone(t, w, x, d)
  BY <1>1, <1>2, <1>4 DEF Kept, LotDone, Shaped
<1> QED BY <1>1, <1>3, <1>4 DEF x

\* The decision of the supervisor.  A lot that waits for it and is not in rework has all
\* that is left of it on hold.
LEMMA DecideLots ==
    ASSUME NEW t, NEW v \in Tables, NEW w \in Tables, req[t] \in Request,
           req[t].op = "decide", DecideReadable(req[t], v), DecideAllowed(req[t], v),
           \A d \in Lot : Shaped(w, d),
           \A d \in Stale(v) : SameLot(v, w, d) /\ d \in Mine(t),
           Kept(v, w, req[t].d), req[t].d \in Mine(t)
    PROVE  LET x == DecideWrite(req[t], v, w)
           IN  /\ x.entry = w.entry
               /\ \A d \in Lot : LotDone(t, w, x, d)
<1> DEFINE r == req[t]
           e == r.d
           n == Movable(v, e)
           p == Promote(w, Stale(v))
           x == DecideWrite(r, v, w)
           ready == AlreadyReady(r, Promote(v, Stale(v)))
<1>1. e \in Lot /\ r.decision \in {"APPROVE", "HOLD", "SCRAP"}
  BY RequestForms DEF DecideRequest
<1>2. /\ p \in Tables /\ p.entry = w.entry /\ p.own = w.own
      /\ \A d \in Lot : LotDone(t, w, p, d) /\ (d \notin Stale(v) => Kept(w, p, d))
  BY PromotedLots
<1>3. x = IF ready THEN p ELSE Decided(r, v, p)
  BY DEF DecideWrite
<1>4. Decided(r, v, p) =
        CASE r.decision = "APPROVE" ->
               SetState(TransferOwned(p, e, e, "QC_HOLD", "REWORK", n), e, "REWORK_READY_FOR_QC")
          [] r.decision = "HOLD" -> SetState(p, e, "HOLD")
          [] r.decision = "SCRAP" ->
               LET y == TransferOwned(p, e, e, "QC_HOLD", "SCRAP", n)
               IN  PutLot(y, e, Left(y.lot[e], "SCRAP", 0))
  BY DEF Decided, PutLot
<1>5. ASSUME ~ready
      PROVE  /\ e \notin Stale(v) /\ w.lot[e].state = "REWORK_PENDING_SUPERVISOR"
             /\ OnHold(w.own[e]) = w.lot[e].rem /\ Reworked(w.own[e]) = 0 /\ Away(w.own[e]) = 0
             /\ n = w.lot[e].rem /\ n \in Nat /\ n > 0
  <2> DEFINE y == Promote(v, Stale(v))
  <2>1. y.lot[e].state = "REWORK_PENDING_SUPERVISOR" /\ y.lot[e].rem > 0
    BY <1>5 DEF DecideAllowed
  <2>2. y.lot[e] = IF e \in Stale(v) THEN [v.lot[e] EXCEPT !.state = "REWORK_READY_FOR_QC"]
                   ELSE v.lot[e]
    BY <1>1 DEF Promote, Tables
  <2>3. v.lot[e] \in LotRow /\ w.lot[e] = v.lot[e] /\ w.own[e] = v.own[e]
    BY <1>1, BalanceTypes DEF Kept
  <2>4. e \notin Stale(v) /\ v.lot[e].state = "REWORK_PENDING_SUPERVISOR" /\ v.lot[e].rem > 0
    BY <2>1, <2>2, <2>3 DEF LotRow
  <2>5. ~(Owned(v, e, "QC_HOLD") <= 0 /\ InRework(v, e))
    BY <1>1, <2>4 DEF Stale, DecideReadable
  <2>6. /\ w.own[e]["read"]["REWORK"] \in Int /\ w.own[e]["read"]["QC_PENDING"] \in Int
        /\ OnHold(w.own[e]) \in Int /\ w.lot[e].rem \in Nat
    BY <1>1, BalanceTypes
  <2>7. OnHold(w.own[e]) = 0 /\ Reworked(w.own[e]) = w.lot[e].rem => FALSE
    <3> SUFFICES ASSUME OnHold(w.own[e]) = 0, Reworked(w.own[e]) = w.lot[e].rem PROVE FALSE
      OBVIOUS
    <3>1. Owned(v, e, "QC_HOLD") = 0
      BY <2>3 DEF Owned, OnHold
    <3>2. w.own[e]["read"]["REWORK"] > 0 \/ w.own[e]["read"]["QC_PENDING"] > 0
      BY <2>3, <2>4, <2>6 DEF Reworked
    <3> QED BY <2>3, <2>5, <3>1, <3>2 DEF InRework, Owned
  <2>8. /\ OnHold(w.own[e]) = w.lot[e].rem /\ Reworked(w.own[e]) = 0 /\ Away(w.own[e]) = 0
    BY <1>1, <2>3, <2>4, <2>7, Shapes DEF Shaped
  <2>9. n = Min({w.lot[e].rem, OnHold(w.own[e])})
    BY <2>3 DEF Movable, Owned, OnHold
  <2> QED BY <2>3, <2>4, <2>6, <2>8, <2>9, Extremes
<1>6. p.lot[e] \in LotRow /\ "QC_HOLD" \in Bucket /\ {"REWORK", "SCRAP", "USABLE"} \subseteq Bucket
  BY <1>1, <1>2, BalanceTypes DEF Bucket
<1> HIDE DEF r, e, n, p, x, ready
<1>7. CASE ready
  BY <1>2, <1>3, <1>7 DEF x, r
<1>8. ASSUME ~ready, NEW y \in Tables, y.entry = p.entry, y.lot = p.lot,
             \A f \in Lot \ {e} : y.own[f] = p.own[f],
             NEW row \in LotRow, x = PutLot(y, e, row), row.state # "absent",
             row.void = p.lot[e].void, row.rem <= p.lot[e].rem, LotShape(row, y.own[e])
      PROVE  x.entry = w.entry /\ \A d \in Lot : LotDone(t, w, x, d)
  <2>1. /\ x.entry = w.entry /\ x.own = y.own /\ x.lot[e] = row
        /\ \A f \in Lot \ {e} : x.lot[f] = p.lot[f]
    BY <1>1, <1>2, <1>8 DEF PutLot, Tables
  <2>2. ASSUME NEW d \in Lot, d # e PROVE LotDone(t, w, x, d)
    <3>1. x.lot[d] = p.lot[d] /\ x.own[d] = p.own[d]
      BY <1>8, <2>1, <2>2
    <3> QED BY <1>2, <3>1 DEF LotDone, Kept, Voided, Drawn, Settled, SameLot
  <2>3. LotDone(t, w, x, e)
    <3>1. w.lot[e].state = "REWORK_PENDING_SUPERVISOR" /\ p.lot[e] = w.lot[e]
      BY <1>1, <1>2, <1>5, <1>8 DEF Kept
    <3> QED BY <1>8, <2>1, <3>1 DEF LotDone, Settled, TakenFrom, e, r
  <2> QED BY <2>1, <2>2, <2>3
<1>9. CASE ~ready /\ r.decision = "HOLD"
  <2> DEFINE row == [p.lot[e] EXCEPT !.state = "HOLD"]
  <2>1. x = PutLot(p, e, row)
    BY <1>3, <1>4, <1>9 DEF SetState, PutLot
  <2>2. /\ row \in LotRow /\ row.state = "HOLD" /\ row.void = p.lot[e].void
        /\ row.rem = p.lot[e].rem
    BY <1>6 DEF LotRow, LotState
  <2> HIDE DEF row
  <2>3. LotShape(row, p.own[e])
    <3>1. p.lot[e] = w.lot[e] /\ p.own[e] = w.own[e]
      BY <1>1, <1>2, <1>5, <1>9 DEF Kept
    <3>2. /\ OnHold(w.own[e]) + Away(w.own[e]) = row.rem /\ Away(w.own[e]) >= 0
          /\ row.rem > 0
      BY <1>5, <1>9, <2>2, <3>1
    <3> QED BY <1>5, <1>9, <2>2, <3>1, <3>2, Shapes
  <2>4. x.entry = w.entry /\ \A d \in Lot : LotDone(t, w, x, d)
    <3>1. row.rem <= p.lot[e].rem
      BY <1>6, <2>2 DEF LotRow
    <3> QED BY <1>2, <1>8, <1>9, <2>1, <2>2, <2>3, <3>1
  <2> QED BY <2>4 DEF x, r
<1>10. CASE ~ready /\ r.decision = "APPROVE"
  <2> DEFINE to == "REWORK"
             y == TransferOwned(p, e, e, "QC_HOLD", to, n)
             row == [y.lot[e] EXCEPT !.state = "REWORK_READY_FOR_QC"]
  <2>1. x = PutLot(y, e, row)
    BY <1>3, <1>4, <1>10 DEF SetState, PutLot
  <2>2. Handed(p, y, e, e, "QC_HOLD", to, n) /\ n \in Int
    BY <1>1, <1>2, <1>5, <1>6, <1>10, TransferHands
  <2>a. to \in {"USABLE", "REWORK", "SCRAP"} /\ to = "REWORK"
    OBVIOUS
  <2> HIDE DEF y, to
  <2>3. y \in Tables /\ y.lot = p.lot /\ y.entry = p.entry
    BY <2>2 DEF Handed
  <2>4. /\ row \in LotRow /\ row.state = "REWORK_READY_FOR_QC" /\ row.void = p.lot[e].void
        /\ row.rem = p.lot[e].rem
    BY <1>6, <2>3 DEF LotRow, LotState
  <2> HIDE DEF row
  <2>5. \A f \in Lot : /\ OnHold(y.own[f]) = OnHold(p.own[f]) - (IF f = e THEN n ELSE 0)
                       /\ Reworked(y.own[f]) = Reworked(p.own[f]) + (IF f = e THEN n ELSE 0)
                       /\ Away(y.own[f]) = Away(p.own[f])
                       /\ f # e => y.own[f] = p.own[f]
    <3>1. OutOfHoldOf(p, y, e, e, to, n)
      BY <1>1, <1>2, <2>2, <2>a, OutOfHoldLeaves
    <3> QED BY <3>1, <2>a DEF OutOfHoldOf
  <2>6. LotShape(row, y.own[e])
    <3>1. p.lot[e] = w.lot[e] /\ p.own[e] = w.own[e]
      BY <1>1, <1>2, <1>5, <1>10 DEF Kept
    <3>2. /\ OnHold(y.own[e]) = 0 /\ Reworked(y.own[e]) = row.rem
          /\ Away(y.own[e]) = 0 /\ row.rem > 0
      BY <1>1, <1>5, <1>10, <2>4, <2>5, <3>1
    <3> QED BY <2>4, <3>2, Shapes
  <2>7. x.entry = w.entry /\ \A d \in Lot : LotDone(t, w, x, d)
    <3>1. row.rem <= p.lot[e].rem
      BY <1>6, <2>4 DEF LotRow
    <3> QED BY <1>8, <1>10, <2>1, <2>3, <2>4, <2>5, <2>6, <3>1
  <2> QED BY <2>7 DEF x, r
<1>11. CASE ~ready /\ r.decision = "SCRAP"
  <2> DEFINE y == TransferOwned(p, e, e, "QC_HOLD", "SCRAP", n)
             row == Left(y.lot[e], "SCRAP", 0)
  <2>1. x = PutLot(y, e, row)
    BY <1>3, <1>4, <1>11
  <2>2. Handed(p, y, e, e, "QC_HOLD", "SCRAP", n) /\ n \in Int
    BY <1>1, <1>2, <1>5, <1>6, <1>11, TransferHands
  <2> HIDE DEF y
  <2>3. y \in Tables /\ y.lot = p.lot /\ y.entry = p.entry
    BY <2>2 DEF Handed
  <2>4. /\ row \in LotRow /\ row.state = "SCRAP" /\ row.void = p.lot[e].void
        /\ row.rem = 0
    BY <1>6, <2>3 DEF LotRow, LotState, Left
  <2> HIDE DEF row
  <2>5. \A f \in Lot : /\ OnHold(y.own[f]) = OnHold(p.own[f]) - (IF f = e THEN n ELSE 0)
                       /\ Reworked(y.own[f]) = Reworked(p.own[f]) + 0
                       /\ Away(y.own[f]) = Away(p.own[f])
                       /\ f # e => y.own[f] = p.own[f]
    <3>1. OutOfHoldOf(p, y, e, e, "SCRAP", n)
      BY <1>1, <1>2, <2>2, OutOfHoldLeaves
    <3> QED BY <3>1 DEF OutOfHoldOf
  <2>6. LotShape(row, y.own[e])
    <3>1. p.lot[e] = w.lot[e] /\ p.own[e] = w.own[e]
      BY <1>1, <1>2, <1>5, <1>11 DEF Kept
    <3>2. OnHold(y.own[e]) = 0 /\ Reworked(y.own[e]) = 0 /\ Away(y.own[e]) = 0
      BY <1>1, <1>5, <1>11, <2>5, <3>1
    <3> QED BY <2>4, <3>2, Shapes
  <2>7. x.entry = w.entry /\ \A d \in Lot : LotDone(t, w, x, d)
    <3>1. row.rem <= p.lot[e].rem
      BY <1>6, <2>4 DEF LotRow
    <3> QED BY <1>8, <1>11, <2>1, <2>3, <2>4, <2>5, <2>6, <3>1
  <2> QED BY <2>7 DEF x, r
<1> QED BY <1>1, <1>7, <1>9, <1>10, <1>11

\* The promotion of the queues.
LEMMA QueueLots ==
    ASSUME NEW t, NEW v \in Tables, NEW w \in Tables, req[t].op = "queue",
           \A d \in Lot : Shaped(w, d),
           \A d \in Stale(v) : SameLot(v, w, d) /\ d \in Mine(t)
    PROVE  LET x == QueueWrite(req[t], v, w)
           IN  /\ x.entry = w.entry
               /\ \A d \in Lot : LotDone(t, w, x, d)
<1>1. LET x == Promote(w, Stale(v))
      IN  /\ x \in Tables /\ x.entry = w.entry /\ x.own = w.own
          /\ \A d \in Lot : /\ LotDone(t, w, x, d)
                            /\ d \notin Stale(v) => Kept(w, x, d)
  BY PromotedLots
<1> QED BY <1>1 DEF QueueWrite

\* A handler that puts one lot of its own into a new state, after moving stock of that lot.
LEMMA PutDone ==
    ASSUME NEW t, NEW w \in Tables, NEW y \in Tables, NEW d \in Lot, NEW row \in LotRow,
           \A f \in Lot : Shaped(w, f),
           y.lot = w.lot, y.entry = w.entry, \A f \in Lot \ {d} : y.own[f] = w.own[f],
           w.lot[d].state \in TakenFrom(req[t].op), d \in Mine(t),
           req[t].op # "queue", d = req[t].d, row.rem <= w.lot[d].rem,
           row.state # "absent", row.void = w.lot[d].void, LotShape(row, y.own[d])
    PROVE  LET x == PutLot(y, d, row)
           IN  /\ x.entry = w.entry
               /\ \A f \in Lot : LotDone(t, w, x, f)
<1> DEFINE x == PutLot(y, d, row)
<1>1. /\ x.entry = w.entry /\ x.own = y.own /\ x.lot[d] = row
      /\ \A f \in Lot \ {d} : x.lot[f] = w.lot[f]
  BY DEF PutLot, Tables
<1> HIDE DEF x
<1>2. ASSUME NEW f \in Lot, f # d PROVE LotDone(t, w, x, f)
  <2>1. x.lot[f] = w.lot[f] /\ x.own[f] = w.own[f]
    BY <1>1, <1>2
  <2> QED BY <2>1 DEF LotDone, Kept, Shaped
<1>3. LotDone(t, w, x, d)
  BY <1>1 DEF LotDone, Settled
<1> QED BY <1>1, <1>2, <1>3 DEF x

\* mark-rework-executed moves no stock: the lot has it in rework already.
LEMMA MarkLots ==
    ASSUME NEW t, NEW v \in Tables, NEW w \in Tables, req[t] \in Request,
           req[t].op = "mark", MarkReadable(req[t], v),
           \A d \in Lot : Shaped(w, d),
           Kept(v, w, req[t].d), req[t].d \in Mine(t)
    PROVE  LET x == MarkWrite(req[t], v, w)
           IN  /\ x.entry = w.entry
               /\ \A d \in Lot : LotDone(t, w, x, d)
<1> DEFINE e == req[t].d
           row == [w.lot[e] EXCEPT !.state = "REWORK_READY_FOR_QC"]
<1>1. e \in Lot /\ w.lot[e] \in LotRow /\ w.lot[e].rem \in Nat
  BY RequestFields, BalanceTypes DEF LotOps
<1>2. MarkWrite(req[t], v, w) = PutLot(w, e, row)
  BY DEF MarkWrite, SetState, PutLot
<1>3. w.lot[e].state \in {"REWORK_APPROVED_PENDING_EXECUTION", "REWORK_READY_FOR_QC"}
  BY DEF MarkReadable, Kept
<1>4. /\ row \in LotRow /\ row.state = "REWORK_READY_FOR_QC" /\ row.void = w.lot[e].void
      /\ row.rem = w.lot[e].rem
  BY <1>1 DEF LotRow, LotState
<1> HIDE DEF e, row
<1>5. LotShape(row, w.own[e])
  <2>1. /\ OnHold(w.own[e]) = 0 /\ Reworked(w.own[e]) = w.lot[e].rem
        /\ Away(w.own[e]) = 0 /\ w.lot[e].rem > 0
    BY <1>1, <1>3, Shapes DEF Shaped
  <2> QED BY <1>4, <2>1, Shapes
<1>6. /\ w.lot[e].state \in TakenFrom(req[t].op) /\ e \in Mine(t) /\ e = req[t].d
      /\ req[t].op # "queue" /\ row.rem <= w.lot[e].rem
  BY <1>1, <1>3, <1>4 DEF TakenFrom, e
<1>7. LET x == PutLot(w, e, row) IN x.entry = w.entry /\ \A f \in Lot : LotDone(t, w, x, f)
  BY <1>1, <1>4, <1>5, <1>6, PutDone
<1> QED BY <1>2, <1>7

\* The final QC takes all of the rework stock of the lot.
LEMMA RecheckLots ==
    ASSUME NEW t, NEW v \in Tables, NEW w \in Tables, req[t] \in Request,
           req[t].op = "recheck", RecheckReadable(req[t], v),
           \A d \in Lot : Shaped(w, d),
           Kept(v, w, req[t].d), req[t].d \in Mine(t)
    PROVE  LET x == RecheckWrite(req[t], v, w)
           IN  /\ x.entry = w.entry
               /\ \A d \in Lot : LotDone(t, w, x, d)
<1> DEFINE r == req[t]
           d == r.d
           i == -Positive(Owned(v, r.d, "REWORK"))
           j == -Positive(Owned(v, r.d, "QC_PENDING"))
           k == (Owned(v, r.d, "REWORK") + Owned(v, r.d, "QC_PENDING")) - r.rejected
           m == r.rejected
           a == PostOwned(w, d, "read", "REWORK", i)
           b == PostOwned(a, d, "read", "QC_PENDING", j)
           c == PostOwned(b, d, "read", "USABLE", k)
           e == PostOwned(c, d, "read", "SCRAP", m)
           row == Left(e.lot[d], "CLOSED", 0)
<1>1. d \in Lot /\ m \in Nat
  BY RequestFields DEF LotOps
<1>2. /\ w.own[d]["read"]["REWORK"] \in Int /\ w.own[d]["read"]["QC_PENDING"] \in Int
      /\ w.own[d]["read"]["REWORK"] >= 0 /\ w.own[d]["read"]["QC_PENDING"] >= 0
      /\ w.own[d] = v.own[d]
  BY <1>1, BalanceTypes DEF Shaped, Kept
<1>3. /\ i = -w.own[d]["read"]["REWORK"] /\ j = -w.own[d]["read"]["QC_PENDING"]
      /\ i \in Int /\ j \in Int /\ k \in Int /\ m \in Int
  <2>1. ASSUME NEW h \in Int, h >= 0 PROVE Positive(h) = h
    <3>1. 0 \in Int /\ 0 <= h
      BY <2>1
    <3>2. Max({0, h}) = h
      BY <3>1, Extremes
    <3> QED BY <3>2 DEF Positive
  <2> QED BY <1>1, <1>2, <2>1 DEF Owned
<1>4. RecheckWrite(r, v, w) = PutLot(e, d, row)
  <2>1. RecheckWrite(r, v, w) = [e EXCEPT !.lot[d] = Left(@, "CLOSED", 0)]
    BY DEF RecheckWrite
  <2> HIDE DEF e
  <2> QED BY <2>1 DEF PutLot
<1>5. {"read", "fg"} \subseteq Scope /\ {"REWORK", "QC_PENDING", "USABLE", "SCRAP", "QC_HOLD"} \subseteq Bucket
  BY DEF Scope, Bucket
<1>6. /\ w.lot[d].state = "REWORK_READY_FOR_QC" /\ w.lot[d] \in LotRow
      /\ OnHold(w.own[d]) = 0 /\ Away(w.own[d]) = 0
  <2>1. w.lot[d].state = "REWORK_READY_FOR_QC" /\ w.lot[d] \in LotRow
    BY <1>1, BalanceTypes DEF RecheckReadable, Kept
  <2> QED BY <1>1, <2>1, Shapes DEF Shaped
<1>7. /\ d \in Mine(t) /\ w.lot[d].state \in TakenFrom(r.op)
      /\ r.op # "queue" /\ d = req[t].d
  BY <1>6 DEF TakenFrom
<1> HIDE DEF r, d, i, j, k, m
<1>8. OwnPosted(w, a, d, "read", "REWORK", i)
  BY <1>1, <1>3, <1>5, PostOwnedChange
<1> HIDE DEF a
<1>9. a \in Tables
  BY <1>8 DEF OwnPosted, OnlyStock
<1>10. OwnPosted(a, b, d, "read", "QC_PENDING", j)
  BY <1>1, <1>3, <1>5, <1>9, PostOwnedChange
<1> HIDE DEF b
<1>11. b \in Tables
  BY <1>10 DEF OwnPosted, OnlyStock
<1>12. OwnPosted(b, c, d, "read", "USABLE", k)
  BY <1>1, <1>3, <1>5, <1>11, PostOwnedChange
<1> HIDE DEF c
<1>13. c \in Tables
  BY <1>12 DEF OwnPosted, OnlyStock
<1>14. OwnPosted(c, e, d, "read", "SCRAP", m)
  BY <1>1, <1>3, <1>5, <1>13, PostOwnedChange
<1> HIDE DEF e
<1>15. e \in Tables /\ e.lot = w.lot /\ e.entry = w.entry
  BY <1>8, <1>10, <1>12, <1>14 DEF OwnPosted, OnlyStock
<1>16. \A f \in Lot \ {d} : e.own[f] = w.own[f]
  <2> SUFFICES ASSUME NEW f \in Lot \ {d} PROVE e.own[f] = w.own[f]
    OBVIOUS
  <2>1. \A p \in Scope, g \in Bucket : e.own[f][p][g] = w.own[f][p][g]
    BY <1>8, <1>10, <1>12, <1>14 DEF OwnPosted
  <2> QED BY <1>15, <2>1, BalanceTypes, SameBalance
<1>17. OnHold(e.own[d]) = 0 /\ Reworked(e.own[d]) = 0 /\ Away(e.own[d]) = 0
  <2>1. e.own[d]["read"]["QC_HOLD"] = w.own[d]["read"]["QC_HOLD"]
    BY <1>1, <1>5, <1>8, <1>10, <1>12, <1>14 DEF OwnPosted
  <2>3. e.own[d]["fg"]["QC_HOLD"] = w.own[d]["fg"]["QC_HOLD"]
    BY <1>1, <1>5, <1>8, <1>10, <1>12, <1>14 DEF OwnPosted
  <2>2. /\ e.own[d]["read"]["REWORK"] = w.own[d]["read"]["REWORK"] + i
        /\ e.own[d]["read"]["QC_PENDING"] = w.own[d]["read"]["QC_PENDING"] + j
    BY <1>1, <1>5, <1>8, <1>10, <1>12, <1>14 DEF OwnPosted
  <2> QED BY <1>2, <1>3, <1>6, <2>1, <2>2, <2>3 DEF OnHold, Away, Reworked
<1>18. /\ row \in LotRow /\ row.state = "CLOSED" /\ row.void = w.lot[d].void
       /\ row.rem = 0 /\ row.rem <= w.lot[d].rem
  <2> DEFINE old == w.lot[d]
  <2>1. row = Left(old, "CLOSED", 0) /\ old \in LotRow
    BY <1>6, <1>15
  <2> HIDE DEF row, old
  <2>2. row = [old EXCEPT !.state = "CLOSED", !.rem = 0]
    BY <2>1 DEF Left
  <2>3. row \in LotRow /\ row.state = "CLOSED" /\ row.void = old.void /\ row.rem = 0
    <3> DEFINE mid == [old EXCEPT !.state = "CLOSED"]
    <3>1. /\ mid \in LotRow /\ mid.state = "CLOSED" /\ mid.void = old.void
          /\ row = [mid EXCEPT !.rem = 0]
      BY <2>1, <2>2 DEF LotRow, LotState
    <3> HIDE DEF mid
    <3> QED BY <3>1 DEF LotRow
  <2>4. old.rem \in Nat
    BY <2>1 DEF LotRow
  <2>5. row.rem <= old.rem
    BY <2>3, <2>4
  <2> QED BY <2>3, <2>5 DEF old
<1> HIDE DEF row
<1>19. LotShape(row, e.own[d])
  BY <1>17, <1>18, Shapes
<1>20. LET x == PutLot(e, d, row) IN x.entry = w.entry /\ \A f \in Lot : LotDone(t, w, x, f)
  BY <1>1, <1>7, <1>15, <1>16, <1>18, <1>19, PutDone DEF r
<1> QED BY <1>4, <1>20 DEF r

\* The row of a new lot.
LEMMA NewLotRows ==
    ASSUME NEW s \in LotState, NEW n \in Nat
    PROVE  LET row == NewLotRow(s, n)
           IN  /\ row \in LotRow /\ row.state = s /\ row.qty = n /\ row.rem = n
               /\ row.void = FALSE
<1>1. NoLotRow \in LotRow
  BY DEF NoLotRow, LotRow, LotState
<1>2. /\ NewLotRow(s, n) = [NoLotRow EXCEPT !.state = s, !.qty = n, !.rem = n]
      /\ NoLotRow.void = FALSE
  BY DEF NewLotRow, NoLotRow
<1> QED BY <1>1, <1>2 DEF LotRow

\* Rework splits a new lot off a held one, with its stock.
LEMMA SplitLots ==
    ASSUME NEW w \in Tables, NEW r \in Request, r.op = "hold",
           \A f \in Lot : Shaped(w, f), w.lot[r.d].state = "HOLD",
           r.new # NoLot => w.lot[r.new].state = "absent"
    PROVE  LET a == SplitOff(r, w)
           IN  /\ a \in Tables /\ a.entry = w.entry
               /\ \A f \in Lot : f # r.new => a.lot[f] = w.lot[f]
               /\ \A f \in Lot \ {r.d, r.new} : a.own[f] = w.own[f]
               /\ r.d # r.new
               /\ OnHold(a.own[r.d]) = OnHold(w.own[r.d]) - r.rework
               /\ Away(a.own[r.d]) = Away(w.own[r.d])
               /\ Reworked(a.own[r.d]) = Reworked(w.own[r.d])
               /\ r.new # NoLot => /\ a.lot[r.new].state = "REWORK_READY_FOR_QC"
                                   /\ a.lot[r.new].rem = r.rework /\ ~a.lot[r.new].void
                                   /\ LotShape(a.lot[r.new], a.own[r.new])
<1> DEFINE a == SplitOff(r, w)
           d == r.d
           e == r.new
           i == r.rework
           to == "REWORK"
           y == TransferOwned(w, d, e, "QC_HOLD", to, i)
           row == NewLotRow("REWORK_READY_FOR_QC", i)
<1>1. /\ d \in Lot /\ e \in Lot \cup {NoLot} /\ i \in Nat
      /\ i > 0 <=> e # NoLot
      /\ NoLot \notin Lot
  <2>1. d \in Lot
    BY RequestFields DEF LotOps
  <2> QED BY <2>1, RequestFields, StockAssumption
<1>2. /\ OnHold(w.own[d]) \in Int /\ Away(w.own[d]) \in Int /\ Reworked(w.own[d]) \in Int
  BY <1>1, BalanceTypes
<1>3. d # e
  BY <1>1
<1>4. a = IF i = 0 THEN w ELSE PutLot(y, e, row)
  BY DEF SplitOff, PutLot
<1>5. to = "REWORK" /\ to \in {"USABLE", "REWORK", "SCRAP"} /\ "QC_HOLD" \in Bucket /\ to \in Bucket
  BY DEF Bucket
<1>6. "REWORK_READY_FOR_QC" \in LotState
  BY DEF LotState
<1>7. row \in LotRow /\ row.state = "REWORK_READY_FOR_QC" /\ row.rem = i /\ ~row.void
  BY <1>1, <1>6, NewLotRows
<1>8. e # NoLot => w.lot[e].state = "absent"
  OBVIOUS
<1>a. w.lot \in [Lot -> LotRow]
  BY DEF Tables
<1> HIDE DEF a, d, e, i, to, y, row
<1>9. CASE i = 0
  <2>1. a = w /\ e = NoLot
    BY <1>1, <1>4, <1>9
  <2> QED BY <1>1, <1>2, <1>9, <2>1 DEF a, d, e, i
<1>10. CASE i # 0
  <2>1. e \in Lot /\ i \in Int
    BY <1>1, <1>10
  <2>2. Handed(w, y, d, e, "QC_HOLD", to, i)
    BY <1>1, <1>5, <2>1, TransferHands DEF y
  <2>3. OutOfHoldOf(w, y, d, e, to, i)
    BY <1>1, <1>5, <2>1, <2>2, OutOfHoldLeaves
  <2>4. y \in Tables /\ y.lot = w.lot /\ y.entry = w.entry
    BY <2>2 DEF Handed
  <2>5. /\ a \in Tables /\ a.entry = w.entry /\ a.own = y.own /\ a.lot[e] = row
        /\ \A f \in Lot : f # e => a.lot[f] = w.lot[f]
    <3>1. a = PutLot(y, e, row)
      BY <1>4, <1>10
    <3>2. LotMove(y, a) /\ a.own = y.own
      BY <1>7, <2>1, <2>4, <3>1, LotOnly
    <3>3. a.lot = [w.lot EXCEPT ![e] = row]
      BY <2>4, <3>1 DEF PutLot, Tables
    <3> QED BY <1>a, <2>1, <2>4, <3>2, <3>3 DEF LotMove
  <2>6. /\ OnHold(y.own[d]) = OnHold(w.own[d]) - i
        /\ Away(y.own[d]) = Away(w.own[d]) /\ Reworked(y.own[d]) = Reworked(w.own[d])
    BY <1>1, <1>2, <1>3, <2>3 DEF OutOfHoldOf
  <2>7. OnHold(y.own[e]) = 0 /\ Away(y.own[e]) = 0 /\ Reworked(y.own[e]) = i
    <3>1. OnHold(w.own[e]) = 0 /\ Away(w.own[e]) = 0 /\ Reworked(w.own[e]) = 0
      BY <1>1, <1>8, <1>10, <2>1, Shapes DEF Shaped
    <3>2. /\ Away(y.own[e]) = Away(w.own[e])
          /\ OnHold(y.own[e]) = OnHold(w.own[e]) - (IF e = d THEN i ELSE 0)
          /\ Reworked(y.own[e]) = Reworked(w.own[e]) + (IF e = e /\ to = "REWORK" THEN i ELSE 0)
      BY <2>1, <2>3 DEF OutOfHoldOf
    <3>3. /\ Away(y.own[e]) = 0
          /\ OnHold(y.own[e]) = OnHold(w.own[e])
          /\ Reworked(y.own[e]) = Reworked(w.own[e]) + i
      BY <1>3, <1>5, <3>1, <3>2
    <3> QED BY <1>1, <3>1, <3>3
  <2>8. LotShape(row, y.own[e])
    BY <1>1, <1>7, <1>10, <2>7, Shapes
  <2>9. \A f \in Lot \ {d, e} : y.own[f] = w.own[f]
    BY <2>3 DEF OutOfHoldOf
  <2> QED BY <1>3, <1>7, <2>5, <2>6, <2>8, <2>9 DEF a, d, e, i
<1> QED BY <1>9, <1>10

\* What is left of a held lot stays on hold, and none of it goes with the state.
LEMMA HoldLots ==
    ASSUME NEW t, NEW v \in Tables, NEW w \in Tables, req[t] \in Request,
           req[t].op = "hold", HoldReadable(req[t], v), HoldAllowed(req[t], v),
           \A d \in Lot : Shaped(w, d),
           SameLot(v, w, req[t].d), req[t].d \in Mine(t),
           req[t].new # NoLot => w.lot[req[t].new].state = "absent"
    PROVE  LET x == HoldWrite(req[t], v, w)
           IN  /\ x.entry = w.entry
               /\ \A d \in Lot : LotDone(t, w, x, d)
<1> DEFINE r == req[t]
           d == r.d
           e == r.new
           i == r.rework
           j == r.scrap
           k == r.usable
           rem == v.lot[r.d].rem - Parts(r)
           n == Max({0, rem})
           s == HeldState(r, rem)
           a == SplitOff(r, w)
           jto == "SCRAP"
           kto == "USABLE"
           b == TransferOwned(a, d, d, "QC_HOLD", jto, j)
           c == TransferOwned(b, d, d, "QC_HOLD", kto, k)
           row == Left(c.lot[d], s, n)
           x == PutLot(c, d, row)
<1>1. /\ d \in Lot /\ e \in Lot \cup {NoLot} /\ i \in Nat /\ j \in Nat /\ k \in Nat
      /\ NoLot \notin Lot
  <2>1. d \in Lot
    BY RequestFields DEF LotOps
  <2> QED BY <2>1, RequestFields, StockAssumption
<1>2. HoldWrite(r, v, w) = x
  BY DEF HoldWrite, PutLot
<1>3. /\ w.lot[d] \in LotRow /\ w.lot[d].rem \in Nat
      /\ OnHold(w.own[d]) \in Int /\ Away(w.own[d]) \in Int /\ Reworked(w.own[d]) \in Int
  BY <1>1, BalanceTypes
<1>4. w.lot[d].state = "HOLD"
  BY DEF HoldReadable, SameLot
<1>5. OnHold(w.own[d]) + Away(w.own[d]) = w.lot[d].rem /\ Away(w.own[d]) >= 0 /\ Reworked(w.own[d]) = 0
  BY <1>1, <1>4, Shapes DEF Shaped
<1>6. rem = w.lot[d].rem - (i + j + k) /\ rem >= 0 /\ i + j + k <= OnHold(w.own[d]) /\ rem \in Nat
  <2>1. v.lot[d].rem = w.lot[d].rem /\ v.own[d] = w.own[d]
    BY DEF SameLot
  <2>2. Parts(r) = i + j + k /\ Parts(r) \in Nat
    BY <1>1 DEF Parts
  <2>3. Parts(r) <= w.lot[d].rem /\ Parts(r) <= OnHold(w.own[d])
    BY <2>1 DEF HoldAllowed, Owned, OnHold
  <2> QED BY <1>3, <2>1, <2>2, <2>3
<1>7. n = rem
  <2>1. ASSUME NEW h \in Nat PROVE Max({0, h}) = h
    <3>1. 0 \in Int /\ h \in Int /\ 0 <= h
      OBVIOUS
    <3> QED BY <3>1, Extremes
  <2> HIDE DEF rem
  <2> QED BY <1>6, <2>1
<1>8. s \in LotState /\ s \in {"HOLD", "SCRAP", "CLOSED"} /\ (s = "HOLD" <=> rem > 0)
  BY DEF HeldState, LotState
<1>9. /\ a \in Tables /\ a.entry = w.entry
      /\ \A f \in Lot : f # e => a.lot[f] = w.lot[f]
      /\ \A f \in Lot \ {d, e} : a.own[f] = w.own[f]
      /\ d # e
      /\ OnHold(a.own[d]) = OnHold(w.own[d]) - i
      /\ Away(a.own[d]) = Away(w.own[d])
      /\ Reworked(a.own[d]) = Reworked(w.own[d])
      /\ e # NoLot => /\ a.lot[e].state = "REWORK_READY_FOR_QC" /\ LotShape(a.lot[e], a.own[e])
                      /\ a.lot[e].rem = i /\ ~a.lot[e].void
  BY <1>4, SplitLots
<1>10. /\ jto \in {"USABLE", "REWORK", "SCRAP"} /\ jto # "REWORK" /\ jto \in Bucket
       /\ kto \in {"USABLE", "REWORK", "SCRAP"} /\ kto # "REWORK" /\ kto \in Bucket
       /\ "QC_HOLD" \in Bucket /\ j \in Int /\ k \in Int
  BY <1>1 DEF Bucket
<1>11. /\ r.op = "hold" /\ d \in Mine(t) /\ w.lot[d].state \in TakenFrom(r.op)
       /\ e # NoLot => w.lot[e].state = "absent"
  BY <1>4 DEF TakenFrom
<1>12. e = req[t].new /\ r = req[t] /\ d = req[t].d
  OBVIOUS
<1> HIDE DEF r, d, e, i, j, k, rem, n, s, a, jto, kto
<1>13. Handed(a, b, d, d, "QC_HOLD", jto, j) /\ OutOfHoldOf(a, b, d, d, jto, j)
  <2>1. Handed(a, b, d, d, "QC_HOLD", jto, j)
    BY <1>1, <1>9, <1>10, TransferHands
  <2> HIDE DEF b
  <2> QED BY <1>1, <1>9, <1>10, <2>1, OutOfHoldLeaves
<1> HIDE DEF b
<1>14. b \in Tables /\ b.lot = a.lot /\ b.entry = a.entry
  BY <1>13 DEF Handed
<1>15. Handed(b, c, d, d, "QC_HOLD", kto, k) /\ OutOfHoldOf(b, c, d, d, kto, k)
  <2>1. Handed(b, c, d, d, "QC_HOLD", kto, k)
    BY <1>1, <1>14, <1>10, TransferHands
  <2> HIDE DEF c
  <2> QED BY <1>1, <1>14, <1>10, <2>1, OutOfHoldLeaves
<1> HIDE DEF c
<1>16. c \in Tables /\ c.lot = a.lot /\ c.entry = w.entry
  BY <1>9, <1>14, <1>15 DEF Handed
<1>17. \A f \in Lot : f # d => c.own[f] = a.own[f]
  BY <1>13, <1>15 DEF OutOfHoldOf
<1>18. /\ OnHold(c.own[d]) = OnHold(w.own[d]) - (i + j + k)
       /\ Away(c.own[d]) = Away(w.own[d]) /\ Reworked(c.own[d]) = 0
  <2>1. /\ OnHold(b.own[d]) = OnHold(a.own[d]) - j
        /\ Away(b.own[d]) = Away(a.own[d])
        /\ Reworked(b.own[d]) = Reworked(a.own[d]) + 0
    BY <1>1, <1>10, <1>13 DEF OutOfHoldOf
  <2>2. /\ OnHold(c.own[d]) = OnHold(b.own[d]) - k
        /\ Away(c.own[d]) = Away(b.own[d])
        /\ Reworked(c.own[d]) = Reworked(b.own[d]) + 0
    BY <1>1, <1>10, <1>15 DEF OutOfHoldOf
  <2> QED BY <1>1, <1>3, <1>5, <1>9, <2>1, <2>2
<1>19. /\ row \in LotRow /\ row.state = s /\ row.rem = n /\ row.void = w.lot[d].void
  <2>1. c.lot[d] = w.lot[d]
    BY <1>1, <1>9, <1>16
  <2> QED BY <1>3, <1>6, <1>7, <1>8, <2>1 DEF Left, LotRow
<1> HIDE DEF row
<1>20. LotShape(row, c.own[d])
  <2>1. CASE s = "HOLD"
    <3>1. OnHold(c.own[d]) + Away(c.own[d]) = row.rem /\ row.rem > 0
      BY <1>1, <1>3, <1>5, <1>6, <1>7, <1>8, <1>18, <1>19, <2>1
    <3> QED BY <1>5, <1>18, <1>19, <2>1, <3>1, Shapes
  <2>2. CASE s \in {"SCRAP", "CLOSED"}
    <3>1. rem = 0
      BY <1>6, <1>8, <2>2
    <3>2. OnHold(c.own[d]) = 0 /\ Away(c.own[d]) = 0 /\ row.rem = 0
      BY <1>1, <1>3, <1>5, <1>6, <1>7, <1>18, <1>19, <3>1
    <3> QED BY <1>18, <1>19, <2>2, <3>2, Shapes
  <2> QED BY <1>8, <2>1, <2>2
<1>21. /\ x.entry = w.entry /\ x.own = c.own /\ x.lot[d] = row
       /\ \A f \in Lot \ {d} : x.lot[f] = c.lot[f]
  BY <1>1, <1>16 DEF PutLot, Tables
<1> HIDE DEF x
<1>22. ASSUME NEW f \in Lot PROVE LotDone(t, w, x, f)
  <2>1. CASE f = d
    <3>1. row.rem <= w.lot[d].rem
      BY <1>1, <1>3, <1>6, <1>7, <1>19
    <3> QED BY <1>8, <1>11, <1>12, <1>19, <1>20, <1>21, <2>1, <3>1 DEF LotDone, Settled
  <2>2. CASE f = e
    <3>1. x.lot[f] = a.lot[e] /\ x.own[f] = a.own[e] /\ e # NoLot
      BY <1>1, <1>9, <1>16, <1>17, <1>21, <2>2
    <3>2. /\ w.lot[f].state = "absent" /\ x.lot[f].state = "REWORK_READY_FOR_QC"
          /\ LotShape(x.lot[f], x.own[f]) /\ x.lot[f].rem = i /\ ~x.lot[f].void
      BY <1>9, <1>11, <2>2, <3>1
    <3>3. x.lot[d].rem + x.lot[f].rem <= w.lot[d].rem
      BY <1>1, <1>3, <1>6, <1>7, <1>19, <1>21, <3>2
    <3> QED BY <1>11, <1>12, <2>2, <3>2, <3>3 DEF LotDone, Drawn
  <2>3. CASE f # d /\ f # e
    <3>1. x.lot[f] = w.lot[f] /\ x.own[f] = w.own[f]
      BY <1>9, <1>16, <1>17, <1>21, <2>3
    <3> QED BY <3>1 DEF LotDone, Kept, Shaped
  <2> QED BY <2>1, <2>2, <2>3
<1> QED BY <1>2, <1>12, <1>21, <1>22

\* The lots that come with an entry.
LEMMA PartLots ==
    ASSUME NEW q \in Entry, NEW k \in LotKind, PartLot[q][k] # NoLot
    PROVE  LET d == PartLot[q][k]
           IN  /\ d \in Lot /\ EntryOf[d] = q /\ d \in DrawnByEntries
               /\ \A j \in LotKind : j # k => PartLot[q][j] # d
BY StockAssumption DEF DrawnByEntries

\* x is w with other balances, but no other lot than d touched, if at all.
OtherLots(w, x, d) ==
    /\ x \in Tables /\ x.entry = w.entry /\ x.pool["read"] = w.pool["read"]
    /\ \A f \in Lot : f # d => Kept(w, x, f)

\* Stock posted in the FG Store is not read back.
LEMMA PostElsewhere ==
    ASSUME NEW w \in Tables, NEW b \in Bucket, NEW n \in Int
    PROVE  LET x == Post(w, "fg", b, n)
           IN  /\ x \in Tables /\ x.entry = w.entry /\ x.pool["read"] = w.pool["read"]
               /\ x.lot = w.lot /\ x.own = w.own
<1>1. OnlyPool(w, Post(w, "fg", b, n))
  BY PostChange DEF Scope
<1>2. Post(w, "fg", b, n).pool = [w.pool EXCEPT !["fg"][b] = @ + n]
  BY DEF Post, Tables
<1>3. w.pool \in Balance
  BY DEF Tables
<1>4. [w.pool EXCEPT !["fg"][b] = @ + n]["read"] = w.pool["read"]
  BY <1>3 DEF Balance, Scope
<1> QED BY <1>1, <1>2, <1>4 DEF OnlyPool

\* Likewise with an owner.
LEMMA PostOwnedElsewhere ==
    ASSUME NEW w \in Tables, NEW d \in Lot, NEW b \in Bucket, NEW n \in Int
    PROVE  LET x == PostOwned(w, d, "fg", b, n)
           IN  /\ OtherLots(w, x, d) /\ x.lot = w.lot
               /\ OnHold(x.own[d]) = OnHold(w.own[d]) /\ Reworked(x.own[d]) = Reworked(w.own[d])
               /\ b = "QC_HOLD" => Away(x.own[d]) = Away(w.own[d]) + n
<1> DEFINE y == Post(w, "fg", b, n)
           x == PostOwned(w, d, "fg", b, n)
<1>1. OwnPosted(w, x, d, "fg", b, n)
  BY PostOwnedChange DEF Scope
<1>2. y.pool["read"] = w.pool["read"]
  BY PostElsewhere
<1>3. x = [y EXCEPT !.own[d]["fg"][b] = @ + n]
  BY DEF PostOwned
<1>4. x.pool = y.pool
  <2> HIDE DEF x, y
  <2>1. y \in Tables
    BY PostElsewhere DEF y
  <2> QED BY <1>3, <2>1 DEF Tables
<1> HIDE DEF x, y
<1>5. /\ x \in Tables /\ x.lot = w.lot /\ x.entry = w.entry
      /\ \A f \in Lot, p \in Scope, c \in Bucket :
           x.own[f][p][c] = IF f = d /\ p = "fg" /\ c = b THEN w.own[f][p][c] + n
                            ELSE w.own[f][p][c]
  BY <1>1 DEF OwnPosted, OnlyStock
<1>6. \A f \in Lot : f # d => x.own[f] = w.own[f]
  <2> SUFFICES ASSUME NEW f \in Lot, f # d PROVE x.own[f] = w.own[f]
    OBVIOUS
  <2>1. \A p \in Scope, c \in Bucket : x.own[f][p][c] = w.own[f][p][c]
    BY <1>5
  <2> QED BY <1>5, <2>1, BalanceTypes, SameBalance
<1>7. /\ {"read", "fg"} \subseteq Scope /\ {"QC_HOLD", "REWORK", "QC_PENDING"} \subseteq Bucket
      /\ "read" # "fg"
  BY DEF Scope, Bucket
<1>8. /\ x.own[d]["read"]["QC_HOLD"] = w.own[d]["read"]["QC_HOLD"]
      /\ x.own[d]["read"]["REWORK"] = w.own[d]["read"]["REWORK"]
      /\ x.own[d]["read"]["QC_PENDING"] = w.own[d]["read"]["QC_PENDING"]
      /\ b = "QC_HOLD" => x.own[d]["fg"]["QC_HOLD"] = w.own[d]["fg"]["QC_HOLD"] + n
  BY <1>5, <1>7
<1>9. OtherLots(w, x, d)
  BY <1>2, <1>4, <1>5, <1>6 DEF OtherLots, Kept
<1> QED BY <1>5, <1>8, <1>9 DEF OnHold, Reworked, Away, x

\* One row of a lot replaced by another, seen from the others.
LEMMA PutLotElsewhere ==
    ASSUME NEW w \in Tables, NEW d \in Lot, NEW row \in LotRow
    PROVE  LET x == PutLot(w, d, row)
           IN  OtherLots(w, x, d) /\ x.lot[d] = row /\ x.own = w.own
<1> DEFINE x == PutLot(w, d, row)
<1>1. LotMove(w, x) /\ x.own = w.own
  BY LotOnly
<1>2. x.pool = w.pool /\ x.lot = [w.lot EXCEPT ![d] = row]
  BY DEF PutLot, Tables
<1>3. w.lot \in [Lot -> LotRow]
  BY DEF Tables
<1>4. x.lot[d] = row /\ \A f \in Lot : f # d => x.lot[f] = w.lot[f]
  BY <1>2, <1>3
<1> HIDE DEF x
<1> QED BY <1>1, <1>2, <1>4 DEF OtherLots, Kept, LotMove, x

\* The lot of a held or of a reworked part.
LEMMA PartPosted ==
    ASSUME NEW w \in Tables, NEW q \in Entry, NEW k \in {"rework", "hold"},
           NEW s \in LotState, NEW n \in Nat, n > 0 => PartLot[q][k] # NoLot
    PROVE  LET x == PostLot(w, q, k, s, n)
               d == PartLot[q][k]
           IN  /\ OtherLots(w, x, d) /\ (n = 0 => x = w)
               /\ n > 0 => /\ x.lot[d].state = s /\ x.lot[d].rem = n /\ ~x.lot[d].void
                           /\ OnHold(x.own[d]) = OnHold(w.own[d])
                           /\ Reworked(x.own[d]) = Reworked(w.own[d])
                           /\ k = "hold" => Away(x.own[d]) = Away(w.own[d]) + n
<1> DEFINE d == PartLot[q][k]
           y == PostOwned(w, d, "fg", PartBucket(k), n)
           row == NewLotRow(s, n)
           z == PutLot(y, d, row)
           x == PostLot(w, q, k, s, n)
<1>1. x = IF n = 0 THEN w ELSE z
  BY DEF PostLot, PutLot, QcScope
<1>2. CASE n = 0
  BY <1>1, <1>2 DEF OtherLots, Kept
<1>3. CASE n # 0
  <2>1. n \in Int /\ n > 0 /\ k \in LotKind
    BY <1>3 DEF LotKind, Part
  <2>2. d \in Lot
    BY <2>1, PartLots
  <2>3. PartBucket(k) \in Bucket /\ (k = "hold" => PartBucket(k) = "QC_HOLD")
    BY DEF PartBucket, Bucket
  <2>4. row \in LotRow /\ row.state = s /\ row.rem = n /\ ~row.void
    BY NewLotRows
  <2> DEFINE b == PartBucket(k)
  <2>5. x = z
    BY <1>1, <1>3
  <2> HIDE DEF d, row, b, x
  <2>6. /\ OtherLots(w, y, d)
        /\ OnHold(y.own[d]) = OnHold(w.own[d]) /\ Reworked(y.own[d]) = Reworked(w.own[d])
        /\ b = "QC_HOLD" => Away(y.own[d]) = Away(w.own[d]) + n
    BY <2>1, <2>2, <2>3, PostOwnedElsewhere DEF b
  <2> HIDE DEF y
  <2>7. OtherLots(y, z, d) /\ z.lot[d] = row /\ z.own = y.own
    BY <2>2, <2>4, <2>6, PutLotElsewhere DEF OtherLots
  <2> HIDE DEF z
  <2>8. OtherLots(w, z, d)
    BY <2>6, <2>7 DEF OtherLots, Kept
  <2> QED BY <1>3, <2>3, <2>4, <2>5, <2>6, <2>7, <2>8 DEF b, d, x
<1> QED BY <1>2, <1>3

\* The lot of a scrapped part.
LEMMA ScrapPosted ==
    ASSUME NEW w \in Tables, NEW q \in Entry, NEW n \in Nat,
           n > 0 => PartLot[q]["scrap"] # NoLot
    PROVE  LET x == PostScrap(w, q, n)
               d == PartLot[q]["scrap"]
           IN  /\ OtherLots(w, x, d) /\ x.own = w.own /\ (n = 0 => x = w)
               /\ n > 0 => x.lot[d].state = "SCRAP" /\ x.lot[d].rem = 0 /\ ~x.lot[d].void
<1> DEFINE d == PartLot[q]["scrap"]
           y == Post(w, "fg", "SCRAP", n)
           row == [NewLotRow("SCRAP", n) EXCEPT !.rem = 0]
           z == PutLot(y, d, row)
           x == PostScrap(w, q, n)
<1>1. x = IF n = 0 THEN w ELSE z
  BY DEF PostScrap, PutLot, QcScope
<1>2. CASE n = 0
  BY <1>1, <1>2 DEF OtherLots, Kept
<1>3. CASE n # 0
  <2>1. n \in Int /\ n > 0 /\ "scrap" \in LotKind /\ "SCRAP" \in Bucket /\ "SCRAP" \in LotState
    BY <1>3 DEF LotKind, Part, Bucket, LotState
  <2>2. d \in Lot
    BY <2>1, PartLots
  <2>3. row \in LotRow /\ row.state = "SCRAP" /\ row.rem = 0 /\ ~row.void
    <3>1. /\ NewLotRow("SCRAP", n) \in LotRow /\ NewLotRow("SCRAP", n).state = "SCRAP"
          /\ ~NewLotRow("SCRAP", n).void
      BY <2>1, NewLotRows
    <3> QED BY <3>1 DEF LotRow
  <2>4. x = z
    BY <1>1, <1>3
  <2> HIDE DEF d, row, x
  <2>5. /\ y \in Tables /\ y.entry = w.entry /\ y.pool["read"] = w.pool["read"]
        /\ y.lot = w.lot /\ y.own = w.own
    BY <2>1, PostElsewhere
  <2> HIDE DEF y
  <2>6. OtherLots(y, z, d) /\ z.lot[d] = row /\ z.own = y.own
    BY <2>2, <2>3, <2>5, PutLotElsewhere
  <2> HIDE DEF z
  <2> QED BY <1>3, <2>3, <2>4, <2>5, <2>6 DEF OtherLots, Kept, d, x
<1> QED BY <1>2, <1>3

\* What QC posting sends, and no part without a lot.
LEMMA PostRequest ==
    ASSUME NEW r \in Request, r.op = "qcPost"
    PROVE  /\ r.q \in Entry /\ r.acc \in Nat /\ r.usable \in Nat
           /\ \A k \in Part : /\ r.part[k] \in Nat
                              /\ r.part[k] > 0 => PartLot[r.q][k] # NoLot
<1>1. r \in QcPostRequest /\ \A h \in Qty \cup {0} : h \in Nat
  BY RequestForms, StockAssumption
<1>2. /\ r.q \in Entry /\ r.acc \in Qty \cup {0} /\ r.usable \in Qty \cup {0}
      /\ r.part \in [Part -> Qty \cup {0}]
      /\ \A h \in Part : r.part[h] > 0 => PartLot[r.q][h] # NoLot
  BY <1>1 DEF QcPostRequest
<1> QED BY <1>1, <1>2

\* A new entry with the lots of its parts.
LEMMA PostedLotsOf ==
    ASSUME NEW w \in Tables, NEW r \in Request, r.op = "qcPost"
    PROVE  LET q == r.q
               a == PostLot(w, q, "rework", "REWORK_READY_FOR_QC", r.part["rework"])
               b == PostLot(a, q, "hold", "HOLD", r.part["hold"])
               c == PostScrap(b, q, r.part["scrap"])
               x == QcPosted(r, w)
           IN  /\ OtherLots(w, a, PartLot[q]["rework"]) /\ OtherLots(a, b, PartLot[q]["hold"])
               /\ OtherLots(b, c, PartLot[q]["scrap"]) /\ c.own = b.own
               /\ x \in Tables /\ x.lot = c.lot /\ x.own = c.own
               /\ x.pool["read"] = w.pool["read"]
               /\ x.entry[q].state = "active"
               /\ \A e \in Entry \ {q} : x.entry[e] = w.entry[e]
<1> DEFINE q == r.q
           i == r.part["rework"]
           j == r.part["hold"]
           k == r.part["scrap"]
           m == r.acc + r.usable
           a == PostLot(w, q, "rework", "REWORK_READY_FOR_QC", i)
           b == PostLot(a, q, "hold", "HOLD", j)
           c == PostScrap(b, q, k)
           d == Post(c, "fg", "USABLE", m)
           row == [state |-> "active", scope |-> "fg", acc |-> r.acc, rej |-> Rejected(r),
                   bucket |-> RejectedBucket(r), sorted |-> FALSE]
           x == QcPosted(r, w)
<1>1. /\ q \in Entry /\ i \in Nat /\ j \in Nat /\ k \in Nat /\ m \in Int
      /\ i > 0 => PartLot[q]["rework"] # NoLot
      /\ j > 0 => PartLot[q]["hold"] # NoLot
      /\ k > 0 => PartLot[q]["scrap"] # NoLot
  BY PostRequest DEF Part
<1>2. x = [d EXCEPT !.entry[q] = row]
  BY DEF QcPosted, QcScope
<1>3. row \in EntryRow /\ row.state = "active"
  <2>1. Rejected(r) \in Nat /\ r.acc \in Nat
    BY PostRequest DEF Rejected, Part
  <2>2. RejectedBucket(r) \in Bucket \cup {"none"}
    BY DEF RejectedBucket, Bucket
  <2> QED BY <2>1, <2>2 DEF EntryRow, Scope
<1>4. /\ {"REWORK_READY_FOR_QC", "HOLD"} \subseteq LotState /\ "USABLE" \in Bucket
  BY DEF LotState, Bucket
<1> HIDE DEF q, i, j, k, m, row, x
<1>5. OtherLots(w, a, PartLot[q]["rework"])
  BY <1>1, <1>4, PartPosted
<1> HIDE DEF a
<1>6. OtherLots(a, b, PartLot[q]["hold"])
  BY <1>1, <1>4, <1>5, PartPosted DEF OtherLots
<1> HIDE DEF b
<1>7. OtherLots(b, c, PartLot[q]["scrap"]) /\ c.own = b.own
  BY <1>1, <1>6, ScrapPosted DEF OtherLots
<1> HIDE DEF c
<1>8. /\ d \in Tables /\ d.entry = c.entry /\ d.pool["read"] = c.pool["read"]
      /\ d.lot = c.lot /\ d.own = c.own
  BY <1>1, <1>4, <1>7, PostElsewhere DEF OtherLots
<1> HIDE DEF d
<1>9. d.entry = w.entry /\ d.pool["read"] = w.pool["read"]
  BY <1>5, <1>6, <1>7, <1>8 DEF OtherLots
<1>10. /\ x \in Tables /\ x.lot = d.lot /\ x.own = d.own /\ x.pool = d.pool
       /\ x.entry[q] = row /\ \A e \in Entry \ {q} : x.entry[e] = d.entry[e]
  <2>1. d.entry \in [Entry -> EntryRow]
    BY <1>8 DEF Tables
  <2>2. /\ x.entry = [d.entry EXCEPT ![q] = row]
        /\ x.lot = d.lot /\ x.own = d.own /\ x.pool = d.pool
    BY <1>2, <1>8 DEF Tables
  <2>3. x \in Tables
    BY <1>1, <1>2, <1>3, <1>8, <2>1 DEF Tables
  <2> QED BY <1>1, <2>1, <2>2, <2>3
<1> QED BY <1>3, <1>5, <1>6, <1>7, <1>8, <1>9, <1>10 DEF q, i, j, k, a, b, c, x

\* No rework can be posted: it would have to show up where it is not.
LEMMA NoReworkPosted ==
    ASSUME NEW v \in Tables, NEW r \in Request, r.op = "qcPost", QcPostAllowed(r, v)
    PROVE  r.part["rework"] = 0
<1>1. QcPosted(r, v).pool["read"] = v.pool["read"]
  BY PostedLotsOf
<1>2. r.part["rework"] \in Nat
  BY PostRequest DEF Part
<1>3. v.pool["read"]["REWORK"] \in Int
  BY DEF Tables, Balance, Scope, Bucket
<1>4. r.part["rework"] > 0 => v.pool["read"]["REWORK"] = v.pool["read"]["REWORK"] + r.part["rework"]
  BY <1>1 DEF QcPostAllowed, OnHand
<1> QED BY <1>2, <1>3, <1>4

\* The lots of a new entry own what they stand for.
LEMMA PostLots ==
    ASSUME NEW t, NEW v \in Tables, NEW w \in Tables, req[t] \in Request,
           req[t].op = "qcPost", QcPostAllowed(req[t], v),
           \A d \in Lot : Shaped(w, d),
           \A d \in Lot : EntryOf[d] = req[t].q => w.lot[d].state = "absent"
    PROVE  LET x == QcPosted(req[t], w)
               q == req[t].q
           IN  /\ x.entry[q].state = "active"
               /\ \A e \in Entry \ {q} : x.entry[e] = w.entry[e]
               /\ \A d \in Lot : LotDone(t, w, x, d)
<1> DEFINE r == req[t]
           q == r.q
           i == r.part["rework"]
           j == r.part["hold"]
           k == r.part["scrap"]
           h == PartLot[q]["hold"]
           s == PartLot[q]["scrap"]
           a == PostLot(w, q, "rework", "REWORK_READY_FOR_QC", i)
           b == PostLot(a, q, "hold", "HOLD", j)
           c == PostScrap(b, q, k)
           x == QcPosted(r, w)
<1>1. /\ q \in Entry /\ j \in Nat /\ k \in Nat
      /\ j > 0 => h # NoLot
      /\ k > 0 => s # NoLot
  BY PostRequest DEF Part
<1>2. a = w
  BY NoReworkPosted DEF PostLot
<1>3. /\ OtherLots(a, b, h) /\ OtherLots(b, c, s) /\ c.own = b.own
      /\ x.lot = c.lot /\ x.own = c.own
      /\ x.entry[q].state = "active"
      /\ \A e \in Entry \ {q} : x.entry[e] = w.entry[e]
  BY PostedLotsOf
<1>4. /\ j = 0 => b = w
      /\ j > 0 => /\ b.lot[h].state = "HOLD" /\ b.lot[h].rem = j /\ ~b.lot[h].void
                  /\ OnHold(b.own[h]) = OnHold(w.own[h])
                  /\ Reworked(b.own[h]) = Reworked(w.own[h])
                  /\ Away(b.own[h]) = Away(w.own[h]) + j
  <2> DEFINE p == "hold"
             st == "HOLD"
             y == PostLot(w, q, p, st, j)
             d == PartLot[q][p]
  <2>1. p \in {"rework", "hold"} /\ p = "hold" /\ st \in LotState /\ st = "HOLD"
    BY DEF LotState
  <2>2. j > 0 => PartLot[q][p] # NoLot
    BY <1>1
  <2>3. y = b /\ d = h
    BY <1>2
  <2> HIDE DEF p, st, q, j
  <2>4. /\ j = 0 => y = w
        /\ j > 0 => /\ y.lot[d].state = st /\ y.lot[d].rem = j /\ ~y.lot[d].void
                    /\ OnHold(y.own[d]) = OnHold(w.own[d])
                    /\ Reworked(y.own[d]) = Reworked(w.own[d])
                    /\ p = "hold" => Away(y.own[d]) = Away(w.own[d]) + j
    BY <1>1, <2>1, <2>2, PartPosted
  <2> HIDE DEF y, d, b, h
  <2> QED BY <2>1, <2>3, <2>4
<1>5. /\ k = 0 => c = b
      /\ k > 0 => c.lot[s].state = "SCRAP" /\ c.lot[s].rem = 0 /\ ~c.lot[s].void
  <2> DEFINE y == PostScrap(b, q, k)
             d == PartLot[q]["scrap"]
  <2>1. b \in Tables
    BY <1>3 DEF OtherLots
  <2>2. c = y /\ s = d
    OBVIOUS
  <2> HIDE DEF b, k, q
  <2>3. /\ k = 0 => y = b
        /\ k > 0 => y.lot[d].state = "SCRAP" /\ y.lot[d].rem = 0 /\ ~y.lot[d].void
    BY <1>1, <2>1, ScrapPosted
  <2> HIDE DEF y, d, c, s
  <2> QED BY <2>2, <2>3
<1>6. /\ j > 0 => /\ h \in Lot /\ EntryOf[h] = q /\ h \in DrawnByEntries
                  /\ h # PartLot[q]["classified"] /\ h # s
      /\ k > 0 => /\ s \in Lot /\ EntryOf[s] = q /\ s \in DrawnByEntries
                  /\ s # PartLot[q]["classified"] /\ s # h
  BY <1>1, PartLots DEF LotKind, Part
<1>7. r = req[t] /\ r.op = "qcPost" /\ q = req[t].q
  OBVIOUS
<1>8. \A d \in Lot : EntryOf[d] = q => w.lot[d].state = "absent"
  OBVIOUS
<1> HIDE DEF r, q, i, j, k, h, s, a, b, c, x
<1>9. ASSUME j > 0 PROVE LotDone(t, w, x, h)
  <2>1. x.lot[h] = b.lot[h] /\ x.own[h] = b.own[h] /\ w.lot[h].state = "absent"
    BY <1>3, <1>6, <1>8, <1>9 DEF OtherLots, Kept
  <2>2. OnHold(w.own[h]) = 0 /\ Away(w.own[h]) = 0 /\ Reworked(w.own[h]) = 0
    BY <1>6, <1>9, <2>1, Shapes DEF Shaped
  <2>3. LotShape(x.lot[h], x.own[h])
    <3>1. /\ x.lot[h].state = "HOLD" /\ OnHold(x.own[h]) + Away(x.own[h]) = x.lot[h].rem
          /\ Away(x.own[h]) >= 0 /\ Reworked(x.own[h]) = 0 /\ x.lot[h].rem > 0
      BY <1>1, <1>4, <1>9, <2>1, <2>2
    <3> QED BY <3>1, Shapes
  <2> QED BY <1>4, <1>6, <1>7, <1>9, <2>1, <2>3 DEF LotDone, Drawn
<1>10. ASSUME k > 0 PROVE LotDone(t, w, x, s)
  <2>1. /\ x.lot[s].state = "SCRAP" /\ w.lot[s].state = "absent"
        /\ x.lot[s].rem = 0 /\ ~x.lot[s].void
    BY <1>3, <1>5, <1>6, <1>8, <1>10
  <2>2. x.own[s] = w.own[s]
    BY <1>2, <1>3, <1>6, <1>10 DEF OtherLots, Kept
  <2>3. OnHold(w.own[s]) = 0 /\ Away(w.own[s]) = 0 /\ Reworked(w.own[s]) = 0
    BY <1>6, <1>10, <2>1, Shapes DEF Shaped
  <2>4. LotShape(x.lot[s], x.own[s])
    BY <2>1, <2>2, <2>3, Shapes
  <2> QED BY <1>6, <1>7, <1>10, <2>1, <2>4 DEF LotDone, Drawn
<1>11. ASSUME NEW d \in Lot, ~(j > 0 /\ d = h), ~(k > 0 /\ d = s) PROVE LotDone(t, w, x, d)
  <2>1. b.lot[d] = w.lot[d] /\ b.own[d] = w.own[d]
    BY <1>1, <1>2, <1>3, <1>4, <1>11 DEF OtherLots, Kept
  <2>2. c.lot[d] = b.lot[d] /\ c.own[d] = b.own[d]
    BY <1>1, <1>3, <1>5, <1>11 DEF OtherLots, Kept
  <2> QED BY <1>3, <2>1, <2>2 DEF LotDone, Kept, Shaped
<1> QED BY <1>3, <1>9, <1>10, <1>11 DEF r, q, x

\* The reversal of an entry voids its lots and leaves them what they own.
LEMMA ReverseLots ==
    ASSUME NEW t, NEW w \in Tables, req[t] \in Request, req[t].op = "qcReverse",
           \A d \in Lot : Shaped(w, d),
           LotsOf(req[t].q) \subseteq Mine(t)
    PROVE  LET x == QcReverseWrite(req[t], w)
               q == req[t].q
           IN  /\ x.entry[q].state = "reversed" /\ x.entry[q].sorted = w.entry[q].sorted
               /\ \A e \in Entry \ {q} : x.entry[e] = w.entry[e]
               /\ \A d \in Lot : LotDone(t, w, x, d)
               /\ \A d \in Lot : EntryOf[d] = q => ~Live(x, d)
<1> DEFINE r == req[t]
           q == r.q
           e == w.entry[r.q]
           s == e.scope
           m == -e.acc
           k == -e.rej
           out == Post(w, s, "USABLE", m)
           back == IF e.bucket = "none" THEN out ELSE Post(out, s, e.bucket, k)
           L == [d \in Lot |-> [w.lot[d] EXCEPT
                   !.void = @ \/ (EntryOf[d] = r.q /\ w.lot[d].state # "absent")]]
           row == [e EXCEPT !.state = "reversed"]
           x == QcReverseWrite(r, w)
<1>1. q \in Entry /\ e \in EntryRow
  BY RequestFields DEF Tables
<1>2. /\ s \in Scope /\ m \in Int /\ k \in Int
      /\ e.bucket = "none" \/ e.bucket \in Bucket
      /\ "USABLE" \in Bucket
  BY <1>1 DEF EntryRow, Bucket
<1>3. x = [back EXCEPT !.entry[q].state = "reversed", !.lot = L]
  BY DEF QcReverseWrite
<1>4. row.state = "reversed" /\ row.sorted = e.sorted
  BY <1>1 DEF EntryRow
<1>5. ASSUME NEW d \in Lot
      PROVE  /\ L[d].state = w.lot[d].state /\ L[d].rem = w.lot[d].rem
             /\ EntryOf[d] = q /\ w.lot[d].state # "absent" => L[d].void
             /\ ~(EntryOf[d] = q /\ w.lot[d].state # "absent") => L[d] = w.lot[d]
  <2> DEFINE old == w.lot[d]
             b == EntryOf[d] = r.q /\ w.lot[d].state # "absent"
             new == [old EXCEPT !.void = old.void \/ b]
  <2>1. L[d] = new
    OBVIOUS
  <2>2. old \in LotRow /\ old.void \in BOOLEAN
    BY BalanceTypes DEF LotRow
  <2> HIDE DEF L, old, b
  <2>3. new.state = old.state /\ new.rem = old.rem /\ new.void = (old.void \/ b)
    BY <2>2 DEF LotRow
  <2>4. b => new.void
    BY <2>3
  <2>5. ~b => new = old
    <3> SUFFICES ASSUME ~b PROVE new = old
      OBVIOUS
    <3>1. (old.void \/ b) = old.void
      BY <2>2
    <3>2. new = [old EXCEPT !.void = old.void]
      BY <3>1
    <3> QED BY <2>2, <3>2 DEF LotRow
  <2> QED BY <2>1, <2>3, <2>4, <2>5 DEF old, b
<1>6. w.entry[q] = e /\ r = req[t] /\ q = req[t].q /\ r.op = "qcReverse"
  OBVIOUS
<1> HIDE DEF r, q, e, s, m, k, L
<1>7. OnlyPool(w, out)
  BY <1>2, PostChange
<1> HIDE DEF out
<1>8. OnlyPool(w, back)
  <2>1. CASE e.bucket = "none"
    BY <1>7, <2>1
  <2>2. CASE e.bucket # "none"
    <3>1. OnlyPool(out, Post(out, s, e.bucket, k))
      BY <1>2, <1>7, <2>2, PostChange DEF OnlyPool
    <3>2. back = Post(out, s, e.bucket, k)
      BY <2>2
    <3> HIDE DEF back
    <3> QED BY <1>7, <3>1, <3>2 DEF OnlyPool
  <2> QED BY <2>1, <2>2
<1> HIDE DEF back
<1>9. back \in Tables /\ back.entry = w.entry /\ back.own = w.own
  BY <1>8 DEF OnlyPool
<1>10. /\ x.own = w.own /\ x.lot = L /\ x.entry = [w.entry EXCEPT ![q] = row]
  BY <1>3, <1>6, <1>9 DEF Tables, row
<1> HIDE DEF x, row
<1>11. x.entry[q] = row /\ \A f \in Entry \ {q} : x.entry[f] = w.entry[f]
  <2>1. w.entry \in [Entry -> EntryRow]
    BY DEF Tables
  <2> QED BY <1>1, <1>10, <2>1
<1>12. ASSUME NEW d \in Lot PROVE LotDone(t, w, x, d) /\ (EntryOf[d] = q => ~Live(x, d))
  <2>1. x.own[d] = w.own[d] /\ x.lot[d] = L[d]
    BY <1>10
  <2>2. SameLot(w, x, d)
    BY <1>5, <2>1 DEF SameLot
  <2>3. LotShape(x.lot[d], x.own[d])
    BY <2>2, ShapeSame DEF Shaped
  <2>4. CASE EntryOf[d] = q /\ w.lot[d].state # "absent"
    <3>1. x.lot[d].void
      BY <1>5, <2>1, <2>4
    <3>2. d \in Mine(t)
      BY <1>6, <2>4 DEF LotsOf
    <3> QED BY <1>6, <2>2, <2>3, <2>4, <3>1, <3>2 DEF LotDone, Voided, Live
  <2>5. CASE ~(EntryOf[d] = q /\ w.lot[d].state # "absent")
    <3>1. Kept(w, x, d)
      BY <1>5, <2>1, <2>5 DEF Kept
    <3> QED BY <2>3, <2>5, <3>1 DEF LotDone, Kept, Live
  <2> QED BY <2>4, <2>5
<1> QED BY <1>4, <1>6, <1>11, <1>12 DEF r, x, q

\* A classification hands the stock that it moves to hold to a new lot.
LEMMA ClassifyLots ==
    ASSUME NEW t, NEW v \in Tables, NEW w \in Tables, req[t] \in Request,
           req[t].op = "classify", ClassifyReadable(req[t], v),
           \A d \in Lot : Shaped(w, d),
           LET d == PartLot[req[t].q]["classified"] IN d # NoLot => w.lot[d].state = "absent"
    PROVE  LET x == ClassifyWrite(req[t], v, w)
               q == req[t].q
           IN  /\ x.entry[q].state = w.entry[q].state /\ x.entry[q].sorted
               /\ \A e \in Entry \ {q} : x.entry[e] = w.entry[e]
               /\ \A d \in Lot : LotDone(t, w, x, d)
<1> DEFINE r == req[t]
           q == r.q
           d == PartLot[r.q]["classified"]
           n == v.entry[r.q].rej
           m == -n
           from == FromBucket(v.entry[r.q])
           e == w.entry[r.q]
           a == Moved(r, v, w)
           b == Post(a, "read", "QC_HOLD", m)
           c == PostOwned(b, d, "read", "QC_HOLD", n)
           lot == NewLotRow("HOLD", n)
           h == PutLot(c, d, lot)
           y == IF r.to = "QC_HOLD" THEN h ELSE a
           row == [e EXCEPT !.sorted = TRUE]
           x == ClassifyWrite(r, v, w)
<1>1. q \in Entry /\ r.to \in Bucket /\ (r.to = "QC_HOLD" => d # NoLot)
  BY RequestForms DEF ClassifyRequest, Bucket
<1>2. r.to = "QC_HOLD" => /\ d \in Lot /\ EntryOf[d] = q /\ d \in DrawnByEntries
                          /\ w.lot[d].state = "absent"
  BY <1>1, PartLots DEF LotKind
<1>3. /\ n \in Nat /\ n \in Int /\ m \in Int /\ from \in Bucket /\ e \in EntryRow
      /\ "QC_HOLD" \in Bucket /\ {"read", "fg"} \subseteq Scope /\ "HOLD" \in LotState
      /\ {"REWORK", "QC_PENDING"} \subseteq Bucket
  <2>1. v.entry[q] \in EntryRow /\ e \in EntryRow
    BY <1>1 DEF Tables
  <2> QED BY <2>1 DEF EntryRow, FromBucket, Bucket, Scope, LotState
<1>4. x = [y EXCEPT !.entry[q].sorted = TRUE]
  BY DEF ClassifyWrite, PutLot
<1>5. lot \in LotRow /\ lot.state = "HOLD" /\ lot.rem = n /\ ~lot.void /\ n > 0
  <2>1. n > 0
    BY DEF ClassifyReadable
  <2> QED BY <1>3, <2>1, NewLotRows
<1>6. OnlyPool(w, a)
  <2>1. a = IF from = r.to THEN w ELSE Transfer(w, from, r.to, n)
    BY DEF Moved
  <2> HIDE DEF from, n, a
  <2>2. OnlyPool(w, Transfer(w, from, r.to, n))
    BY <1>1, <1>3, TransferChange
  <2>3. OnlyPool(w, w)
    BY DEF OnlyPool
  <2> QED BY <2>1, <2>2, <2>3
<1>7. row.state = e.state /\ row.sorted = TRUE /\ e = w.entry[q]
  BY <1>3 DEF EntryRow
<1>8. r = req[t] /\ q = req[t].q /\ r.op = "classify" /\ d = PartLot[req[t].q]["classified"]
  OBVIOUS
<1> HIDE DEF r, q, d, n, m, from, e, a, lot, x, row
<1>9. /\ y \in Tables /\ y.entry = w.entry
      /\ \A f \in Lot : (f = d /\ r.to = "QC_HOLD") \/ Kept(w, y, f)
      /\ r.to = "QC_HOLD" => /\ y.lot[d] = lot
                             /\ OnHold(y.own[d]) = OnHold(w.own[d]) + n
                             /\ Away(y.own[d]) = Away(w.own[d])
                             /\ Reworked(y.own[d]) = Reworked(w.own[d])
  <2>1. CASE r.to # "QC_HOLD"
    BY <1>6, <2>1 DEF OnlyPool, Kept
  <2>2. CASE r.to = "QC_HOLD"
    <3>1. OnlyPool(w, b)
      <4>1. OnlyPool(a, b)
        BY <1>3, <1>6, PostChange DEF OnlyPool
      <4> HIDE DEF b
      <4> QED BY <1>6, <4>1 DEF OnlyPool
    <3> HIDE DEF b
    <3>2. b \in Tables /\ d \in Lot
      BY <1>2, <2>2, <3>1 DEF OnlyPool
    <3>3. OwnPosted(b, c, d, "read", "QC_HOLD", n)
      BY <1>3, <3>2, PostOwnedChange
    <3> HIDE DEF c
    <3>4. /\ c \in Tables /\ c.lot = w.lot /\ c.entry = w.entry
          /\ \A f \in Lot, p \in Scope, g \in Bucket :
               c.own[f][p][g] = IF f = d /\ p = "read" /\ g = "QC_HOLD"
                                THEN w.own[f][p][g] + n ELSE w.own[f][p][g]
      BY <3>1, <3>3 DEF OwnPosted, OnlyStock, OnlyPool
    <3>5. \A f \in Lot : f # d => c.own[f] = w.own[f]
      <4> SUFFICES ASSUME NEW f \in Lot, f # d PROVE c.own[f] = w.own[f]
        OBVIOUS
      <4>1. \A p \in Scope, g \in Bucket : c.own[f][p][g] = w.own[f][p][g]
        BY <3>4
      <4> QED BY <3>4, <4>1, BalanceTypes, SameBalance
    <3>6. /\ c.own[d]["read"]["QC_HOLD"] = w.own[d]["read"]["QC_HOLD"] + n
          /\ c.own[d]["fg"]["QC_HOLD"] = w.own[d]["fg"]["QC_HOLD"]
          /\ c.own[d]["read"]["REWORK"] = w.own[d]["read"]["REWORK"]
          /\ c.own[d]["read"]["QC_PENDING"] = w.own[d]["read"]["QC_PENDING"]
      BY <1>3, <3>2, <3>4
    <3>7. OtherLots(c, h, d) /\ h.lot[d] = lot /\ h.own = c.own
      BY <1>5, <3>2, <3>4, PutLotElsewhere
    <3>8. y = h
      BY <2>2
    <3> HIDE DEF h, y
    <3> QED BY <2>2, <3>4, <3>5, <3>6, <3>7, <3>8
            DEF OtherLots, Kept, OnHold, Away, Reworked
  <2> QED BY <2>1, <2>2
<1> HIDE DEF y
<1>10. x.own = y.own /\ x.lot = y.lot /\ x.entry = [w.entry EXCEPT ![q] = row]
  BY <1>4, <1>7, <1>9 DEF Tables, row
<1>11. x.entry[q] = row /\ \A f \in Entry \ {q} : x.entry[f] = w.entry[f]
  <2>1. w.entry \in [Entry -> EntryRow]
    BY DEF Tables
  <2> QED BY <1>1, <1>10, <2>1
<1>12. ASSUME NEW f \in Lot PROVE LotDone(t, w, x, f)
  <2>1. CASE Kept(w, y, f)
    BY <1>10, <2>1 DEF LotDone, Kept, Shaped
  <2>2. CASE f = d /\ r.to = "QC_HOLD"
    <3>1. OnHold(w.own[d]) = 0 /\ Away(w.own[d]) = 0 /\ Reworked(w.own[d]) = 0
      BY <1>2, <2>2, Shapes DEF Shaped
    <3>2. /\ x.lot[d].state = "HOLD" /\ OnHold(x.own[d]) + Away(x.own[d]) = x.lot[d].rem
          /\ Away(x.own[d]) >= 0 /\ Reworked(x.own[d]) = 0
          /\ x.lot[d].rem > 0 /\ ~x.lot[d].void
      BY <1>3, <1>5, <1>9, <1>10, <2>2, <3>1
    <3>3. LotShape(x.lot[d], x.own[d])
      BY <3>2, Shapes
    <3> QED BY <1>2, <1>8, <2>2, <3>2, <3>3 DEF LotDone, Drawn
  <2> QED BY <1>9, <2>1, <2>2
<1> QED BY <1>7, <1>8, <1>11, <1>12 DEF r, x, q

(***************************************************************************)
(* The invariant, sorted by what it looks at.                              *)
(***************************************************************************)

\* The part that only looks at the tables.
LotRowsOK(v) ==
    /\ \A d \in Lot : LotShape(v.lot[d], v.own[d])
    /\ \A d \in Lot : v.lot[d].state # "absent" => v.entry[EntryOf[d]].state # "absent"
    /\ \A d \in Lot : v.lot[d].void => v.entry[EntryOf[d]].state = "reversed"
    /\ \A q \in Entry : LET d == PartLot[q]["classified"] IN
         d # NoLot /\ v.lot[d].state # "absent" => v.entry[q].sorted

\* The part about one transaction: who sends it,
Sent(t) == ~Idle(t) => req[t].op \in OpsOf[shift][t]

\* what it has locked,
SetLocked(t) ==
    /\ (Doing(t, {"decide"}, 3) \/ Doing(t, {"queue"}, 2)) =>
         \A d \in Stale(snap[t]) : held[t][d] = "X"
    /\ Doing(t, {"qcReverse"}, 3) => held[t][req[t].q] = "X"
    /\ Doing(t, {"qcReverse"}, 4) => \A d \in LotsOf(req[t].q) : held[t][d] = "X"

\* and what it knows of the tables v.
Knows(t, v) ==
    /\ Doing(t, {"decide", "mark", "recheck"}, 2) => Kept(v, snap[t], req[t].d)
    /\ Doing(t, {"hold"}, 1) => SameLot(snap[t], v, req[t].d)
    /\ Doing(t, {"hold"}, 0) /\ req[t].new # NoLot => v.lot[req[t].new].state = "absent"
    /\ (Doing(t, {"decide"}, 2) \/ Doing(t, {"queue"}, 1)) =>
         \A d \in Stale(snap[t]) : SameLot(snap[t], v, d)
    /\ Doing(t, {"classify"}, 2) => v.entry[req[t].q].state = "active"

\* LInv is these parts.
LEMMA LotInvariantParts ==
    /\ LInv <=> LotRowsOK(db) /\ \A t \in Tx : Sent(t) /\ SetLocked(t) /\ Knows(t, db)
    /\ LotRowsOK(db') /\ (\A t \in Tx : Sent(t)' /\ SetLocked(t)' /\ Knows(t, db)') => LInv'
BY DEF LInv, LotRowsOK, Sent, SetLocked, Knows, OwnOperations, SetsLocked, DecidedKnown,
       HeldKnown, StaleKnown, ClassifiedStands, LotsInShape, LotsHaveEntries, Kept

\* A transaction that takes no part in a step that leaves the tables alone.
LEMMA LotBystander ==
    ASSUME NEW u \in Tx, Sent(u), SetLocked(u), Knows(u, db),
           UNCHANGED <<db, held[u], req[u], at[u], snap[u], shift>>
    PROVE  Sent(u)' /\ SetLocked(u)' /\ Knows(u, db)'
BY DEF Sent, SetLocked, Knows, Idle, Doing

\* One that has ended.
LEMMA LotEnded ==
    ASSUME NEW t \in Tx, at'[t] = 0
    PROVE  Sent(t)' /\ SetLocked(t)' /\ Knows(t, db)'
BY DEF Sent, SetLocked, Knows, Idle, Doing

(***************************************************************************)
(* Steps before the last.                                                  *)
(***************************************************************************)

\* Where a handler locks the sets of rows that it is going to change.
LEMMA SetPositions ==
    ASSUME NEW r \in Request
    PROVE  /\ r.op = "decide" => Plan(r)[3] = "stale"
           /\ r.op = "queue" => Plan(r)[2] = "stale"
           /\ r.op = "qcReverse" => Plan(r)[3] = "entry" /\ Plan(r)[4] = "lots"
           /\ r.op \in {"decide", "mark", "recheck", "classify"} => ReadAt(r.op) = 2
           /\ r.op \in {"hold", "queue", "qcReverse"} => ReadAt(r.op) = 1
BY DEF Plan, DecidePlan, QueuePlan, QcReversePlan, ReadAt, LockFirstOps, ReturnOps

\* t takes a step of its handler before the last, or one of several locks of it.
Advances(t) ==
    /\ ~Idle(t) /\ Step(t) # "write"
    /\ db' = db /\ req' = req
    /\ \A x : held[t][x] = "X" => held'[t][x] = "X"
    /\ \A u \in Tx \ {t} : UNCHANGED <<held[u], req[u], at[u], snap[u]>>
    /\ \/ at'[t] = at[t] /\ snap'[t] = snap[t]
       \/ /\ at'[t] = at[t] + 1
          /\ Step(t) = "read" => snap'[t] = db /\ Readable(req[t], db)
          /\ Step(t) # "read" => snap'[t] = snap[t]
          /\ \A k \in Wants(Step(t), req[t], snap[t]) :
               k[2] = "X" /\ k[1] \in Row => held'[t][k[1]] = "X"

LEMMA StepsAdvance ==
    ASSUME SInv, NEW t \in Tx, Check(t) \/ Lock(t) \/ LockNothing(t) \/ Read(t)
    PROVE  Advances(t)
<1>0. Typed
  BY InvariantParts
<1>1. CASE Check(t) \/ LockNothing(t)
  <2>1. Step(t) \notin {"idle", "read", "write"} /\ Pass(t)
    BY <1>1 DEF LockNothing, Check
  <2>2. ~Idle(t)
    BY <2>1 DEF Step
  <2>3. /\ db' = db /\ req' = req /\ snap' = snap /\ held' = held
        /\ at' = [at EXCEPT ![t] = @ + 1]
    BY <2>1 DEF Pass
  <2>4. ASSUME NEW k \in Wants(Step(t), req[t], snap[t]), k[2] = "X"
        PROVE  held'[t][k[1]] = "X"
    <3>1. Lacking(t) = {}
      BY <1>1, <2>2, <2>4, WantedForms DEF LockNothing, Check
    <3> QED BY <2>3, <2>4, <3>1 DEF Lacking
  <2> QED BY <1>0, <2>1, <2>2, <2>3, <2>4 DEF Advances, Typed
<1>2. CASE Read(t)
  <2>1. ~Idle(t) /\ Step(t) = "read" /\ Readable(req[t], db)
    BY <1>2 DEF Read, Step
  <2>2. /\ db' = db /\ req' = req /\ held' = held
        /\ snap' = [snap EXCEPT ![t] = db] /\ at' = [at EXCEPT ![t] = @ + 1]
    BY <1>2 DEF Read, ReadView
  <2>3. Wants(Step(t), req[t], snap[t]) = {}
    BY <2>1, WantedForms
  <2> QED BY <1>0, <2>1, <2>2, <2>3 DEF Advances, Typed
<1>3. CASE Lock(t)
  <2>1. PICK k \in Lacking(t) :
          IF Lacking(t) = {k} THEN Take(t, k[1], k[2]) ELSE Grab(t, k[1], k[2])
    BY <1>3 DEF Lock
  <2>2. ~Idle(t)
    BY <2>1 DEF Lacking, Wants, Step
  <2>3. /\ k \in Wants(Step(t), req[t], snap[t]) /\ held[t][k[1]] \notin {"X", k[2]}
        /\ Step(t) \notin {"check", "read", "write"} /\ k[2] \in {"S", "X"}
    BY <2>1, <2>2, WantedForms DEF Lacking
  <2>4. /\ Blockers(t, k[1], k[2]) = {} /\ held' = [held EXCEPT ![t][k[1]] = k[2]]
        /\ db' = db /\ req' = req /\ snap' = snap
    BY <2>1 DEF Take, Grab
  <2>5. /\ \A x : held[t][x] = "X" => held'[t][x] = "X"
        /\ k[1] \in Row => held'[t][k[1]] = k[2]
        /\ \A u \in Tx \ {t} : held'[u] = held[u]
    <3> DEFINE y == k[1]
               m == k[2]
    <3>1. m \in {"S", "X"} /\ held[t][y] # "X" /\ held[t][y] # m
      BY <2>3
    <3>2. Blockers(t, y, m) = {} /\ held' = [held EXCEPT ![t][y] = m]
      BY <2>4
    <3> HIDE DEF y, m
    <3>3. /\ \A x : held[t][x] = "X" => held'[t][x] = "X"
          /\ y \in Row => held'[t][y] = m
          /\ \A u \in Tx \ {t} : held'[u] = held[u]
      BY <3>1, <3>2, GrantExcludes
    <3> QED BY <3>3 DEF y, m
  <2>6. CASE Lacking(t) = {k}
    <3>1. at' = [at EXCEPT ![t] = @ + 1]
      BY <2>1, <2>6 DEF Take
    <3>2. ASSUME NEW j \in Wants(Step(t), req[t], snap[t]), j[2] = "X", j[1] \in Row
          PROVE  held'[t][j[1]] = "X"
      <4>1. CASE j = k
        BY <2>5, <3>2, <4>1
      <4>2. CASE j # k
        <5>1. held[t][j[1]] = "X"
          BY <2>6, <3>2, <4>2 DEF Lacking
        <5> QED BY <2>5, <5>1
      <4> QED BY <4>1, <4>2
    <3> QED BY <1>0, <2>2, <2>3, <2>4, <2>5, <3>1, <3>2 DEF Advances, Typed
  <2>7. CASE Lacking(t) # {k}
    <3>1. at' = at
      BY <2>1, <2>7 DEF Grab
    <3> QED BY <2>2, <2>3, <2>4, <2>5, <3>1 DEF Advances
  <2> QED BY <2>6, <2>7
<1> QED BY <1>1, <1>2, <1>3

\* A step before the last keeps the invariant.
LEMMA AdvanceKeepsLots ==
    ASSUME SInv, LInv, NEW t \in Tx, Advances(t), shift' = shift
    PROVE  LInv'
<1>0. LotRowsOK(db) /\ \A u \in Tx : Sent(u) /\ SetLocked(u) /\ Knows(u, db)
  BY LotInvariantParts
<1>1. ASSUME NEW u \in Tx \ {t} PROVE Sent(u)' /\ SetLocked(u)' /\ Knows(u, db)'
  BY <1>0, LotBystander DEF Advances
<1>2. LotRowsOK(db')
  BY <1>0 DEF Advances
<1>3. Sent(t)' /\ SetLocked(t)' /\ Knows(t, db)'
  <2> DEFINE r == req[t]
  <2>1. /\ ~Idle(t) /\ r \in Request /\ at[t] \in 1 .. 5 /\ Step(t) = Plan(r)[at[t]]
        /\ Step(t) = "read" <=> at[t] = ReadAt(r.op)
    BY Standing DEF Advances
  <2>2. db' = db /\ req'[t] = r
    BY DEF Advances
  <2>3. \A d \in Lot \cup Entry : d \in Row
    BY FlowAssumption
  <2>4. CASE at'[t] = at[t] /\ snap'[t] = snap[t]
    BY <1>0, <2>2, <2>4 DEF Advances, Sent, SetLocked, Knows, Idle, Doing
  <2>5. CASE ~(at'[t] = at[t] /\ snap'[t] = snap[t])
    <3>1. /\ at'[t] = at[t] + 1
          /\ Step(t) = "read" => snap'[t] = db /\ Readable(r, db)
          /\ Step(t) # "read" => snap'[t] = snap[t]
          /\ \A k \in Wants(Step(t), r, snap[t]) :
               k[2] = "X" /\ k[1] \in Row => held'[t][k[1]] = "X"
      BY <2>5 DEF Advances
    <3>2. Sent(t)'
      BY <1>0, <2>1, <2>2 DEF Sent
    <3>3. SetLocked(t)'
      <4>1. ASSUME (Doing(t, {"decide"}, 3) \/ Doing(t, {"queue"}, 2))', NEW d \in Stale(snap[t])'
            PROVE  held'[t][d] = "X"
        <5>1. \/ r.op = "decide" /\ at[t] >= 3
              \/ r.op = "queue" /\ at[t] >= 2
          BY <2>1, <2>2, <3>1, <4>1 DEF Doing
        <5>2. snap'[t] = snap[t] /\ d \in Stale(snap[t])
          BY <2>1, <3>1, <4>1, <5>1, SetPositions
        <5>3. CASE Doing(t, {"decide"}, 3) \/ Doing(t, {"queue"}, 2)
          BY <1>0, <5>2, <5>3 DEF Advances, SetLocked
        <5>4. CASE ~(Doing(t, {"decide"}, 3) \/ Doing(t, {"queue"}, 2))
          <6>1. Step(t) = "stale"
            BY <2>1, <5>1, <5>4, SetPositions DEF Doing
          <6>2. <<d, "X">> \in Wants(Step(t), r, snap[t]) /\ d \in Lot
            BY <5>2, <6>1 DEF Wants, Stale
          <6> QED BY <2>3, <3>1, <6>2
        <5> QED BY <5>3, <5>4
      <4>2. ASSUME Doing(t, {"qcReverse"}, 3)' PROVE held'[t][r.q] = "X"
        <5>1. r.op = "qcReverse" /\ at[t] >= 3
          BY <2>1, <2>2, <3>1, <4>2 DEF Doing
        <5>2. CASE at[t] > 3
          BY <1>0, <2>1, <5>1, <5>2 DEF Advances, SetLocked, Doing
        <5>3. CASE at[t] = 3
          <6>1. <<r.q, "X">> \in Wants(Step(t), r, snap[t]) /\ r.q \in Entry
            BY <2>1, <5>1, <5>3, SetPositions, RequestFields DEF Wants
          <6> QED BY <2>3, <3>1, <6>1
        <5> QED BY <2>1, <5>1, <5>2, <5>3
      <4>3. ASSUME Doing(t, {"qcReverse"}, 4)', NEW d \in LotsOf(r.q) PROVE held'[t][d] = "X"
        <5>1. r.op = "qcReverse" /\ at[t] >= 4
          BY <2>1, <2>2, <3>1, <4>3 DEF Doing
        <5>2. CASE at[t] > 4
          BY <1>0, <2>1, <4>3, <5>1, <5>2 DEF Advances, SetLocked, Doing
        <5>3. CASE at[t] = 4
          <6>1. <<d, "X">> \in Wants(Step(t), r, snap[t]) /\ d \in Lot
            BY <2>1, <4>3, <5>1, <5>3, SetPositions DEF Wants, LotsOf
          <6> QED BY <2>3, <3>1, <6>1
        <5> QED BY <2>1, <5>1, <5>2, <5>3
      <4> QED BY <2>2, <4>1, <4>2, <4>3 DEF SetLocked
    <3>4. Knows(t, db)'
      <4>1. CASE Step(t) = "read"
        <5>1. snap'[t] = db' /\ Readable(r, db) /\ at[t] = ReadAt(r.op)
          BY <2>1, <2>2, <3>1, <4>1
        <5>2. Doing(t, {"hold"}, 0)' => Doing(t, {"hold"}, 0)
          BY <2>1, <2>2 DEF Doing
        <5>3. Doing(t, {"classify"}, 2)' => db.entry[r.q].state = "active"
          BY <2>2, <5>1 DEF Doing, Readable, ClassifyReadable
        <5> QED BY <1>0, <2>2, <5>1, <5>2, <5>3 DEF Knows, Kept, SameLot
      <4>2. CASE Step(t) # "read"
        <5>1. snap'[t] = snap[t] /\ at[t] # ReadAt(r.op)
          BY <2>1, <3>1, <4>2
        <5>2. /\ Doing(t, {"decide", "mark", "recheck"}, 2)' => Doing(t, {"decide", "mark", "recheck"}, 2)
              /\ Doing(t, {"hold"}, 1)' => Doing(t, {"hold"}, 1)
              /\ Doing(t, {"hold"}, 0)' => Doing(t, {"hold"}, 0)
              /\ Doing(t, {"decide"}, 2)' => Doing(t, {"decide"}, 2)
              /\ Doing(t, {"queue"}, 1)' => Doing(t, {"queue"}, 1)
              /\ Doing(t, {"classify"}, 2)' => Doing(t, {"classify"}, 2)
          BY <2>1, <2>2, <3>1, <5>1, SetPositions DEF Doing
        <5> QED BY <1>0, <2>2, <5>1, <5>2 DEF Knows
      <4> QED BY <4>1, <4>2
    <3> QED BY <3>2, <3>3, <3>4
  <2> QED BY <2>4, <2>5
<1> QED BY <1>1, <1>2, <1>3, LotInvariantParts

\* A request that enters its handler keeps the invariant.
LEMMA ArriveKeepsLots ==
    ASSUME SInv, LInv, NEW t \in Tx, NEW r \in RequestsOf[shift][t], Arrive(t, r),
           shift' = shift
    PROVE  LInv'
<1>0. /\ LotRowsOK(db) /\ \A u \in Tx : Sent(u) /\ SetLocked(u) /\ Knows(u, db)
      /\ Typed
  BY LotInvariantParts, InvariantParts
<1>1. r \in Request /\ r.op \in OpsOf[shift][t]
  <2>1. shift \in Shift /\ t \in DOMAIN OpsOf[shift]
    BY <1>0, FlowAssumption DEF Typed
  <2>2. r \in AnyRequest /\ r.op \in OpsOf[shift][t]
    BY <2>1 DEF RequestsOf
  <2> QED BY <2>1, <2>2 DEF Request
<1>2. /\ db' = db /\ req'[t] = r
      /\ at'[t] = 1 \/ (at'[t] = 2 /\ Plan(r)[1] = "read" /\ snap'[t] = db)
      /\ \A u \in Tx \ {t} : UNCHANGED <<held[u], req[u], at[u], snap[u]>>
  BY <1>0 DEF Arrive, Begin, BeginReading, Idle, Typed
<1>3. ASSUME NEW u \in Tx \ {t} PROVE Sent(u)' /\ SetLocked(u)' /\ Knows(u, db)'
  BY <1>0, <1>2, <1>3, LotBystander
<1>4. LotRowsOK(db')
  BY <1>0, <1>2
<1>5. at'[t] \in {1, 2} /\ \A n \in {2, 3, 4} : \A ops : ~Doing(t, ops, n)'
  BY <1>2 DEF Doing
<1>6. Sent(t)' /\ SetLocked(t)'
  BY <1>1, <1>2, <1>5 DEF Sent, SetLocked, Doing
<1>7. Knows(t, db)'
  <2>1. Doing(t, {"hold"}, 0)' => r.op = "hold"
    BY <1>2 DEF Doing
  <2>2. r.op = "hold" /\ r.new # NoLot => db.lot[r.new].state = "absent"
    BY DEF Arrive, Fresh
  <2>3. Doing(t, {"hold"}, 1)' => snap'[t] = db
    BY <1>2 DEF Doing
  <2>4. Doing(t, {"queue"}, 1)' => snap'[t] = db
    BY <1>2 DEF Doing
  <2> QED BY <1>2, <1>5, <2>1, <2>2, <2>3, <2>4 DEF Knows, SameLot
<1> QED BY <1>3, <1>4, <1>6, <1>7, LotInvariantParts

\* So does a handler that ends without a write.
LEMMA EndKeepsLots ==
    ASSUME SInv, LInv, NEW t \in Tx, NEW a, Finish(t, a), db' = db, shift' = shift
    PROVE  LInv'
<1>0. /\ LotRowsOK(db) /\ \A u \in Tx : Sent(u) /\ SetLocked(u) /\ Knows(u, db)
      /\ Typed
  BY LotInvariantParts, InvariantParts
<1>1. /\ at'[t] = 0
      /\ \A u \in Tx \ {t} : UNCHANGED <<held[u], req[u], at[u], snap[u]>>
  BY <1>0 DEF Finish, Typed
<1>2. ASSUME NEW u \in Tx \ {t} PROVE Sent(u)' /\ SetLocked(u)' /\ Knows(u, db)'
  BY <1>0, <1>1, <1>2, LotBystander
<1>3. Sent(t)' /\ SetLocked(t)' /\ Knows(t, db)'
  BY <1>1, LotEnded
<1>4. LotRowsOK(db')
  BY <1>0
<1> QED BY <1>2, <1>3, <1>4, LotInvariantParts

(***************************************************************************)
(* The last step of a handler.                                             *)
(***************************************************************************)

\* What a handler that writes knows of lots.
KnowsLots(t, r, v) ==
    /\ \A d \in Lot : Shaped(db, d)
    /\ LotRowsOK(db)
    /\ r.op \in {"decide", "mark", "recheck"} => Kept(v, db, r.d) /\ r.d \in Mine(t)
    /\ r.op = "hold" =>
         /\ SameLot(v, db, r.d) /\ r.d \in Mine(t) /\ db.lot[r.d].state = "HOLD"
         /\ r.new # NoLot => db.lot[r.new].state = "absent"
         /\ Doing(t, {"hold"}, 1)
    /\ r.op \in {"decide", "queue"} => \A d \in Stale(v) : SameLot(v, db, d) /\ d \in Mine(t)
    /\ r.op = "qcReverse" => LotsOf(r.q) \subseteq Mine(t) /\ held[t][r.q] = "X"
    /\ r.op = "classify" => db.entry[r.q].state = "active"

\* How long the plans of lots are.
LEMMA PlanLengths ==
    ASSUME NEW r
    PROVE  /\ r.op = "decide" => Len(Plan(r)) = 5
           /\ r.op \in {"mark", "recheck", "hold", "classify"} => Len(Plan(r)) = 4
           /\ r.op = "queue" => Len(Plan(r)) = 3
           /\ r.op = "qcReverse" => Len(Plan(r)) = 5
BY DEF Plan, ReturnOps, DecidePlan, MarkPlan, RecheckPlan, HoldPlan, ClassifyPlan, QueuePlan,
       QcReversePlan

LEMMA WriterKnows ==
    ASSUME SInv, LInv, NEW t \in Tx, NEW op, Write(t, op)
    PROVE  KnowsLots(t, req[t], snap[t])
<1> DEFINE r == req[t]
           v == snap[t]
<1>1. /\ LotRowsOK(db) /\ SetLocked(t) /\ Knows(t, db)
      /\ RowsIn(db)
  BY LotInvariantParts, InvariantParts, RowForms
<1>2. /\ ~Idle(t) /\ r \in Request
      /\ Readable(r, v)
      /\ r.op \in LockFirstOps => held[t][FirstRow(r)] = "X"
      /\ r.op = "hold" => \A d \in {r.d} \cup Draws(r) : held[t][d] = "X"
  BY Writer
<1>3. at[t] = Len(Plan(r)) /\ at[t] \in 1 .. 5
  BY Standing DEF Write
<1>4. ASSUME NEW d \in Lot PROVE Shaped(db, d)
  BY <1>1 DEF LotRowsOK, RowsIn, Waiting, Owned, Shaped
<1>5. /\ r.op = "decide" => Len(Plan(r)) = 5
      /\ r.op \in {"mark", "recheck", "hold", "classify"} => Len(Plan(r)) = 4
      /\ r.op = "queue" => Len(Plan(r)) = 3
      /\ r.op = "qcReverse" => Len(Plan(r)) = 5
  BY PlanLengths
<1>6. /\ r.op = "decide" => Doing(t, {"decide"}, 2) /\ Doing(t, {"decide"}, 3)
      /\ r.op \in {"decide", "mark", "recheck"} => Doing(t, {"decide", "mark", "recheck"}, 2)
      /\ r.op = "hold" => Doing(t, {"hold"}, 1) /\ Doing(t, {"hold"}, 0)
      /\ r.op = "classify" => Doing(t, {"classify"}, 2)
      /\ r.op = "queue" => Doing(t, {"queue"}, 1) /\ Doing(t, {"queue"}, 2)
      /\ r.op = "qcReverse" => Doing(t, {"qcReverse"}, 3) /\ Doing(t, {"qcReverse"}, 4)
  <2> DEFINE n == Len(Plan(r))
             o == r.op
  <2>1. /\ at[t] = n /\ at[t] \in 1 .. 5
        /\ o = "decide" => n = 5
        /\ o \in {"mark", "recheck", "hold", "classify"} => n = 4
        /\ o = "queue" => n = 3
        /\ o = "qcReverse" => n = 5
    BY <1>3, <1>5
  <2>2. o = req[t].op /\ ~Idle(t)
    BY <1>2
  <2> HIDE DEF n, o
  <2>3. /\ o = "decide" => at[t] > 2 /\ at[t] > 3
        /\ o \in {"decide", "mark", "recheck", "classify"} => at[t] > 2
        /\ o = "hold" => at[t] > 1 /\ at[t] > 0
        /\ o = "queue" => at[t] > 1 /\ at[t] > 2
        /\ o = "qcReverse" => at[t] > 3 /\ at[t] > 4
    BY <2>1
  <2> QED BY <2>2, <2>3 DEF Doing, o
<1>7. r.op \in LotOps => r.d \in Lot
  BY <1>2, RequestFields
<1>8. r.op \in {"decide", "mark", "recheck"} => Kept(v, db, r.d) /\ r.d \in Mine(t)
  <2> SUFFICES ASSUME r.op \in {"decide", "mark", "recheck"}
               PROVE  Kept(v, db, r.d) /\ r.d \in Mine(t)
    OBVIOUS
  <2>1. r.op \in LockFirstOps /\ FirstRow(r) = r.d /\ r.op \in LotOps
    BY DEF LockFirstOps, FirstRow, LotOps, ReturnOps
  <2> QED BY <1>1, <1>2, <1>6, <1>7, <2>1 DEF Knows, Kept, Mine
<1>9. r.op = "hold" =>
         /\ SameLot(v, db, r.d) /\ r.d \in Mine(t) /\ db.lot[r.d].state = "HOLD"
         /\ r.new # NoLot => db.lot[r.new].state = "absent"
  <2> SUFFICES ASSUME r.op = "hold"
               PROVE  /\ SameLot(v, db, r.d) /\ r.d \in Mine(t) /\ db.lot[r.d].state = "HOLD"
                      /\ r.new # NoLot => db.lot[r.new].state = "absent"
    OBVIOUS
  <2>1. HoldReadable(r, v)
    BY <1>2 DEF Readable
  <2>2. SameLot(v, db, r.d) /\ (r.new # NoLot => db.lot[r.new].state = "absent")
    BY <1>1, <1>6 DEF Knows
  <2>3. r.d \in Mine(t)
    BY <1>2, <1>7 DEF Mine, LotOps
  <2> QED BY <2>1, <2>2, <2>3 DEF HoldReadable, SameLot
<1>10. r.op \in {"decide", "queue"} => \A d \in Stale(v) : SameLot(v, db, d) /\ d \in Mine(t)
  BY <1>1, <1>6 DEF Knows, SetLocked, Mine, Stale
<1>11. r.op = "qcReverse" => LotsOf(r.q) \subseteq Mine(t) /\ held[t][r.q] = "X"
  BY <1>1, <1>6 DEF SetLocked, Mine, LotsOf
<1>12. r.op = "classify" => db.entry[r.q].state = "active"
  BY <1>1, <1>6 DEF Knows
<1> HIDE DEF r, v
<1> QED BY <1>1, <1>4, <1>6, <1>8, <1>9, <1>10, <1>11, <1>12 DEF KnowsLots, r, v

\* What a write does to QC entries.
EntriesDone(t, w, x) ==
    LET q == req[t].q IN
    /\ req[t].op = "qcPost" => w.entry[q].state = "absent" /\ x.entry[q].state = "active"
    /\ req[t].op = "qcReverse" =>
         /\ x.entry[q].state = "reversed" /\ x.entry[q].sorted = w.entry[q].sorted
         /\ held[t][q] = "X"
         /\ \A d \in Lot : EntryOf[d] = q => ~Live(x, d)
    /\ req[t].op = "classify" =>
         /\ w.entry[q].state = "active" /\ x.entry[q].state = "active" /\ x.entry[q].sorted
    /\ \A e \in Entry :
         x.entry[e] = w.entry[e] \/ (e = q /\ req[t].op \in {"qcPost", "qcReverse", "classify"})

LotsDone(t, w, x) == EntriesDone(t, w, x) /\ \A d \in Lot : LotDone(t, w, x, d)

\* A handler that leaves lots and entries alone.
LEMMA LotsAlone ==
    ASSUME NEW t, NEW w, NEW x, \A d \in Lot : Shaped(w, d),
           x.lot = w.lot, x.own = w.own, x.entry = w.entry,
           req[t].op \notin {"qcPost", "qcReverse", "classify"}
    PROVE  LotsDone(t, w, x)
BY DEF LotsDone, EntriesDone, LotDone, Kept, Shaped

\* What every write does to lots and entries.
LEMMA LotOutcome ==
    ASSUME SInv, LInv, NEW t \in Tx, NEW op, Write(t, op)
    PROVE  LotsDone(t, db, db')
<1> DEFINE r == req[t]
           v == snap[t]
           x == db'
<1>1. /\ ~Idle(t) /\ r \in Request /\ r.op = op /\ v \in Tables /\ db \in Tables
      /\ Readable(r, v) /\ Allowed(r, v) /\ Insertable(r, db)
      /\ x = Written(r, v, db)
      /\ r.op = "qcPost" => db.entry[r.q].state = "absent"
  BY Writer
<1>2. KnowsLots(t, r, v)
  BY WriterKnows
<1>3. /\ \A d \in Lot : Shaped(db, d)
      /\ LotRowsOK(db)
  BY <1>2 DEF KnowsLots
<1>4. Change(t, db, x)
  BY WriteChanges
<1>5. r = req[t] /\ v = snap[t] /\ x = db'
  OBVIOUS
<1> HIDE DEF r, v, x
<1> SUFFICES LotsDone(t, db, x)
  BY <1>5
<1>6. ASSUME op \notin {"qcPost", "qcReverse", "classify"}, x.entry = db.entry,
             \A d \in Lot : LotDone(t, db, x, d)
      PROVE  LotsDone(t, db, x)
  BY <1>1, <1>5, <1>6 DEF LotsDone, EntriesDone
<1>7. ASSUME op \notin {"qcPost", "qcReverse", "classify"},
             x.lot = db.lot, x.own = db.own, x.entry = db.entry
      PROVE  LotsDone(t, db, x)
  BY <1>1, <1>3, <1>5, <1>7, LotsAlone
<1>8. CASE op = "decide"
  <2>1. /\ DecideReadable(r, v) /\ DecideAllowed(r, v) /\ x = DecideWrite(r, v, db)
        /\ Kept(v, db, r.d) /\ r.d \in Mine(t)
        /\ \A d \in Stale(v) : SameLot(v, db, d) /\ d \in Mine(t)
    BY <1>1, <1>2, <1>8 DEF Readable, Allowed, Written, KnowsLots
  <2>2. x.entry = db.entry /\ \A d \in Lot : LotDone(t, db, x, d)
    BY <1>1, <1>3, <1>5, <1>8, <2>1, DecideLots
  <2> QED BY <1>6, <1>8, <2>2
<1>9. CASE op = "mark"
  <2>1. /\ MarkReadable(r, v) /\ x = MarkWrite(r, v, db)
        /\ Kept(v, db, r.d) /\ r.d \in Mine(t)
    BY <1>1, <1>2, <1>9 DEF Readable, Written, KnowsLots
  <2>2. x.entry = db.entry /\ \A d \in Lot : LotDone(t, db, x, d)
    BY <1>1, <1>3, <1>5, <1>9, <2>1, MarkLots
  <2> QED BY <1>6, <1>9, <2>2
<1>10. CASE op = "queue"
  <2>1. /\ x = QueueWrite(r, v, db)
        /\ \A d \in Stale(v) : SameLot(v, db, d) /\ d \in Mine(t)
    BY <1>1, <1>2, <1>10 DEF Written, KnowsLots
  <2>2. x.entry = db.entry /\ \A d \in Lot : LotDone(t, db, x, d)
    BY <1>1, <1>3, <1>5, <1>10, <2>1, QueueLots
  <2> QED BY <1>6, <1>10, <2>2
<1>11. CASE op = "hold"
  <2>1. /\ HoldReadable(r, v) /\ HoldAllowed(r, v) /\ x = HoldWrite(r, v, db)
        /\ SameLot(v, db, r.d) /\ r.d \in Mine(t)
        /\ r.new # NoLot => db.lot[r.new].state = "absent"
    BY <1>1, <1>2, <1>11 DEF Readable, Allowed, Written, KnowsLots
  <2>2. x.entry = db.entry /\ \A d \in Lot : LotDone(t, db, x, d)
    BY <1>1, <1>3, <1>5, <1>11, <2>1, HoldLots
  <2> QED BY <1>6, <1>11, <2>2
<1>12. CASE op = "recheck"
  <2>1. /\ RecheckReadable(r, v) /\ x = RecheckWrite(r, v, db)
        /\ Kept(v, db, r.d) /\ r.d \in Mine(t)
    BY <1>1, <1>2, <1>12 DEF Readable, Written, KnowsLots
  <2>2. x.entry = db.entry /\ \A d \in Lot : LotDone(t, db, x, d)
    BY <1>1, <1>3, <1>5, <1>12, <2>1, RecheckLots
  <2> QED BY <1>6, <1>12, <2>2
<1>13. CASE op = "qcPost"
  <2>1. QcPostAllowed(r, v) /\ x = QcPosted(r, db) /\ db.entry[r.q].state = "absent"
    BY <1>1, <1>13 DEF Allowed, Written
  <2>2. \A d \in Lot : EntryOf[d] = r.q => db.lot[d].state = "absent"
    BY <1>3, <2>1 DEF LotRowsOK
  <2>3. /\ x.entry[r.q].state = "active"
        /\ \A e \in Entry \ {r.q} : x.entry[e] = db.entry[e]
        /\ \A d \in Lot : LotDone(t, db, x, d)
    BY <1>1, <1>3, <1>5, <1>13, <2>1, <2>2, PostLots
  <2> QED BY <1>1, <1>5, <1>13, <2>1, <2>3 DEF LotsDone, EntriesDone
<1>14. CASE op = "qcReverse"
  <2>1. x = QcReverseWrite(r, db) /\ LotsOf(r.q) \subseteq Mine(t) /\ held[t][r.q] = "X"
    BY <1>1, <1>2, <1>14 DEF Written, KnowsLots
  <2>2. /\ x.entry[r.q].state = "reversed" /\ x.entry[r.q].sorted = db.entry[r.q].sorted
        /\ \A e \in Entry \ {r.q} : x.entry[e] = db.entry[e]
        /\ \A d \in Lot : LotDone(t, db, x, d)
        /\ \A d \in Lot : EntryOf[d] = r.q => ~Live(x, d)
    BY <1>1, <1>3, <1>5, <1>14, <2>1, ReverseLots
  <2> QED BY <1>1, <1>5, <1>14, <2>1, <2>2 DEF LotsDone, EntriesDone
<1>15. CASE op = "classify"
  <2>1. x = ClassifyWrite(r, v, db) /\ db.entry[r.q].state = "active" /\ ~db.entry[r.q].sorted
    BY <1>1, <1>2, <1>15 DEF Written, KnowsLots, Insertable
  <2>2. r.q \in Entry
    BY <1>1, <1>15, RequestFields
  <2>3. LET d == PartLot[r.q]["classified"] IN d # NoLot => db.lot[d].state = "absent"
    BY <1>3, <2>1, <2>2 DEF LotRowsOK
  <2>4. /\ x.entry[r.q].state = db.entry[r.q].state /\ x.entry[r.q].sorted
        /\ \A e \in Entry \ {r.q} : x.entry[e] = db.entry[e]
        /\ \A d \in Lot : LotDone(t, db, x, d)
    <3>1. /\ req[t] \in Request /\ req[t].op = "classify" /\ ClassifyReadable(req[t], v)
          /\ LET d == PartLot[req[t].q]["classified"] IN d # NoLot => db.lot[d].state = "absent"
      BY <1>1, <1>5, <1>15, <2>3 DEF Readable
    <3>2. LET y == ClassifyWrite(req[t], v, db)
              q == req[t].q
          IN  /\ y.entry[q].state = db.entry[q].state /\ y.entry[q].sorted
              /\ \A e \in Entry \ {q} : y.entry[e] = db.entry[e]
              /\ \A d \in Lot : LotDone(t, db, y, d)
      BY <1>1, <1>3, <3>1, ClassifyLots
    <3> QED BY <1>5, <2>1, <3>2
  <2> QED BY <1>1, <1>5, <1>15, <2>1, <2>4 DEF LotsDone, EntriesDone
<1>16. CASE op \in ReturnOps \cup {"return"}
  <2>1. ReturnChange(t, db, x)
    BY <1>5, <1>16, ReturnHandlers
  <2>2. x.lot = db.lot /\ x.own = db.own /\ x.entry = db.entry
    BY <2>1 DEF ReturnChange, ReturnPosts, OnlyReturn
  <2> QED BY <1>7, <1>16, <2>2 DEF ReturnOps
<1>17. CASE op \in {"adjust", "reverseAdjust", "qcAdjust"}
  <2>1. AdjustmentChange(t, db, x)
    BY <1>5, <1>17, AdjustmentHandlers
  <2>2. x.lot = db.lot /\ x.own = db.own /\ x.entry = db.entry
    BY <2>1 DEF AdjustmentChange, OnlyAdjustment
  <2> QED BY <1>7, <1>17, <2>2
<1>18. CASE op \in {"openApprove", "openReverse"}
  <2>1. OpeningChange(t, db, x)
    BY <1>5, <1>18, OpeningHandlers
  <2>2. x.lot = db.lot /\ x.own = db.own /\ x.entry = db.entry
    BY <2>1 DEF OpeningChange, OnlyOpening
  <2> QED BY <1>7, <1>18, <2>2
<1>19. CASE op = "transfer"
  <2>1. x = Transfer(db, r.from, r.to, r.qty)
    BY <1>1, <1>19 DEF Written, TransferWrite, ReturnOps
  <2>2. r.qty \in Int /\ r.from \in Bucket /\ r.to \in Bucket
    <3>1. r \in TransferRequest /\ r.qty \in Nat
      BY <1>1, <1>19, RequestForms, RequestFields
    <3> QED BY <3>1 DEF TransferRequest
  <2>3. OnlyPool(db, Transfer(db, r.from, r.to, r.qty))
    BY <1>1, <2>2, TransferChange
  <2> QED BY <1>7, <1>19, <2>1, <2>3 DEF OnlyPool
<1>20. CASE op = "completeRework"
  <2>1. x = ReworkQcWrite(r, db)
    BY <1>1, <1>20 DEF Written
  <2>2. OnlyPool(db, x)
    BY <1>1, <1>20, <2>1, ReworkQcChange
  <2> QED BY <1>7, <1>20, <2>2 DEF OnlyPool
<1>21. op \in Operation
  BY <1>1, RequestForms
<1> QED BY <1>8, <1>9, <1>10, <1>11, <1>12, <1>13, <1>14, <1>15, <1>16, <1>17, <1>18, <1>19,
           <1>20, <1>21 DEF Operation, LotOps

\* A write leaves lots in shape, of entries that exist.
LEMMA WriteKeepsRows ==
    ASSUME SInv, LInv, NEW t \in Tx, NEW op, Write(t, op)
    PROVE  LotRowsOK(db')
<1> DEFINE r == req[t]
           x == db'
<1>1. /\ EntriesDone(t, db, x) /\ \A d \in Lot : LotDone(t, db, x, d)
      /\ LotRowsOK(db) /\ KnowsLots(t, r, snap[t]) /\ r \in Request
  BY LotOutcome, WriterKnows, Writer DEF LotsDone, KnowsLots
<1> HIDE DEF x
<1>2. r.op = "hold" =>
        /\ r.d \in Lot /\ db.lot[r.d].state # "absent"
        /\ r.new # NoLot => EntryOf[r.new] = EntryOf[r.d] /\ r.new \notin DrawnByEntries
  <2>1. r.op = "hold" => r \in HoldRequest /\ r.d \in Lot
    BY <1>1, RequestForms, RequestFields DEF LotOps
  <2> QED BY <1>1, <2>1 DEF HoldRequest, KnowsLots
<1>3. \A e \in Entry : db.entry[e].state # "absent" => x.entry[e].state # "absent"
  BY <1>1 DEF EntriesDone
<1>4. ASSUME NEW d \in Lot, x.lot[d].state # "absent", db.lot[d].state # "absent"
      PROVE  /\ db.entry[EntryOf[d]].state # "absent"
             /\ x.entry[EntryOf[d]].state # "absent"
  <2>1. EntryOf[d] \in Entry
    BY StockAssumption
  <2> QED BY <1>1, <1>3, <1>4, <2>1 DEF LotRowsOK
<1>5. ASSUME NEW d \in Lot, x.lot[d].state # "absent", db.lot[d].state = "absent"
      PROVE  Drawn(t, db, x, d)
  BY <1>1, <1>5 DEF LotDone, Kept, Voided, Settled, TakenFrom
<1>6. ASSUME NEW d \in Lot, x.lot[d].state # "absent" PROVE x.entry[EntryOf[d]].state # "absent"
  <2>1. CASE db.lot[d].state # "absent"
    BY <1>4, <1>6, <2>1
  <2>2. CASE db.lot[d].state = "absent"
    <3>1. Drawn(t, db, x, d)
      BY <1>5, <1>6, <2>2
    <3>2. CASE r.op = "hold" /\ d = r.new
      <4>1. d # NoLot
        BY StockAssumption
      <4>2. EntryOf[d] = EntryOf[r.d] /\ EntryOf[r.d] \in Entry /\ db.entry[EntryOf[r.d]].state # "absent"
        BY <1>1, <1>2, <3>2, <4>1, StockAssumption DEF LotRowsOK
      <4> QED BY <1>3, <4>2
    <3>3. CASE r.op = "qcPost" /\ EntryOf[d] = r.q
      BY <1>1, <3>3 DEF EntriesDone
    <3>4. CASE r.op = "classify" /\ d = PartLot[r.q]["classified"]
      <4>1. r.q \in Entry
        BY <1>1, <3>4, RequestFields
      <4>2. EntryOf[d] = r.q
        <5>1. "classified" \in LotKind /\ d # NoLot
          BY StockAssumption DEF LotKind
        <5> QED BY <3>4, <4>1, <5>1, PartLots
      <4> QED BY <1>1, <3>4, <4>2 DEF EntriesDone
    <3> QED BY <3>1, <3>2, <3>3, <3>4 DEF Drawn
  <2> QED BY <2>1, <2>2
<1>7. ASSUME NEW q \in Entry, PartLot[q]["classified"] # NoLot,
             x.lot[PartLot[q]["classified"]].state # "absent"
      PROVE  x.entry[q].sorted
  <2> DEFINE d == PartLot[q]["classified"]
  <2>1. d \in Lot /\ EntryOf[d] = q /\ d \in DrawnByEntries
    BY <1>7, PartLots DEF LotKind
  <2>2. CASE db.lot[d].state # "absent"
    <3>1. db.entry[q].sorted /\ db.entry[q].state # "absent"
      BY <1>1, <1>4, <1>7, <2>1, <2>2 DEF LotRowsOK
    <3> QED BY <1>1, <3>1 DEF EntriesDone
  <2>3. CASE db.lot[d].state = "absent"
    <3>1. Drawn(t, db, x, d)
      BY <1>5, <1>7, <2>1, <2>3
    <3>2. ~(r.op = "hold" /\ d = r.new)
      <4>1. d # NoLot
        BY <1>7
      <4> QED BY <1>2, <2>1, <4>1
    <3>3. ~(r.op = "qcPost" /\ EntryOf[d] = r.q /\ d # PartLot[r.q]["classified"])
      BY <2>1
    <3>4. CASE r.op = "classify" /\ d = PartLot[r.q]["classified"]
      <4>1. r.q \in Entry
        BY <1>1, <3>4, RequestFields
      <4>2. EntryOf[d] = r.q
        <5>1. "classified" \in LotKind /\ PartLot[r.q]["classified"] # NoLot
          BY <1>7, <3>4 DEF LotKind
        <5> QED BY <3>4, <4>1, <5>1, PartLots
      <4> QED BY <1>1, <2>1, <3>4, <4>2 DEF EntriesDone
    <3> QED BY <3>1, <3>2, <3>3, <3>4 DEF Drawn
  <2> QED BY <2>2, <2>3
<1>8. ASSUME NEW d \in Lot, x.lot[d].void PROVE x.entry[EntryOf[d]].state = "reversed"
  <2>1. EntryOf[d] \in Entry
    BY StockAssumption
  <2>2. CASE Voided(t, db, x, d)
    BY <1>1, <2>2 DEF Voided, EntriesDone
  <2>3. CASE ~Voided(t, db, x, d)
    <3>1. db.lot[d].void
      BY <1>1, <1>8, <2>3 DEF LotDone, Kept, Drawn, Settled
    <3>2. db.entry[EntryOf[d]].state = "reversed"
      BY <1>1, <3>1 DEF LotRowsOK
    <3> QED BY <1>1, <2>1, <3>2 DEF EntriesDone
  <2> QED BY <2>2, <2>3
<1> QED BY <1>1, <1>6, <1>7, <1>8 DEF LotRowsOK, LotDone, x

\* What one sender of an operation does, no other does at that time.
LEMMA SentByOne ==
    ASSUME NEW ops, OneSends(ops), SInv, NEW t \in Tx, NEW u \in Tx \ {t},
           Sent(t), Sent(u), ~Idle(t), ~Idle(u), req[t].op \in ops, req[u].op \in ops
    PROVE  FALSE
<1>1. shift \in Shift
  BY InvariantParts DEF Typed
<1>2. OpsOf[shift][t] \cap ops = {} \/ OpsOf[shift][u] \cap ops = {}
  BY <1>1 DEF OneSends
<1> QED BY <1>2 DEF Sent

\* What another one knows about lots stays true.
LEMMA OthersKnow ==
    ASSUME SInv, LInv, OneDesk, NEW t \in Tx, NEW op, Write(t, op), NEW u \in Tx \ {t}, ~Idle(u)
    PROVE  Knows(u, db')
<1> DEFINE r == req[u]
           v == snap[u]
           x == db'
<1>1. /\ EntriesDone(t, db, x) /\ \A d \in Lot : LotDone(t, db, x, d)
      /\ Sent(t) /\ Sent(u) /\ Knows(u, db) /\ ~Idle(t)
  BY LotOutcome, LotInvariantParts, Writer DEF LotsDone
<1>2. r \in Request /\ at[u] \in 1 .. 5 /\ TxOK(u) /\ r.op \in Operation
  BY Standing, InvariantParts, RequestForms
<1>3. OneSends({"hold"}) /\ OneSends({"decide", "queue"})
  BY DEF OneDesk
<1>4. Doing(u, LockFirstOps, 2) => held[u][FirstRow(r)] = "X"
  BY Reader
<1>5. \A y \in Row : ~(held[t][y] = "X" /\ held[u][y] = "X")
  BY NotBoth
<1>6. Lot \subseteq Row /\ Entry \subseteq Row
  BY FlowAssumption
<1> HIDE DEF x
<1>7. ASSUME Doing(u, {"decide", "mark", "recheck"}, 2) PROVE Kept(x, v, r.d)
  <2>1. /\ r.op \in {"decide", "mark", "recheck"} /\ at[u] > 2
        /\ r.op \in LockFirstOps /\ FirstRow(r) = r.d /\ r.op \in LotOps /\ ReadAt(r.op) = 2
    BY <1>7 DEF Doing, LockFirstOps, FirstRow, LotOps, ReturnOps, ReadAt
  <2>2. r.d \in Lot /\ held[u][r.d] = "X"
    BY <1>2, <1>4, <1>7, <2>1, RequestFields DEF Doing
  <2>3. r.d \notin Mine(t)
    BY <1>5, <1>6, <2>2 DEF Mine
  <2>4. Kept(db, v, r.d)
    BY <1>1, <1>7 DEF Knows
  <2>5. db.lot[r.d].state # "absent"
    <3>1. Readable(r, v)
      BY <1>2, <2>1 DEF TxOK, Viewed, Idle
    <3>2. Live(v, r.d)
      BY <2>1, <3>1 DEF Readable, DecideReadable, MarkReadable, RecheckReadable
    <3> QED BY <2>4, <3>2 DEF Kept, Live
  <2>6. Kept(db, x, r.d)
    BY <1>1, <2>2, <2>3, <2>5 DEF LotDone, Voided, Drawn, Settled
  <2> QED BY <2>4, <2>6 DEF Kept
<1>8. ASSUME Doing(u, {"hold"}, 1) PROVE SameLot(v, x, r.d)
  <2>1. r.op = "hold" /\ at[u] > 1 /\ r.d \in Lot /\ ReadAt(r.op) = 1
    BY <1>2, <1>8, RequestFields DEF Doing, LotOps, ReadAt, LockFirstOps, ReturnOps
  <2>2. SameLot(v, db, r.d)
    BY <1>1, <1>8 DEF Knows
  <2>3. db.lot[r.d].state = "HOLD"
    <3>1. Readable(r, v)
      BY <1>2, <2>1 DEF TxOK, Viewed, Idle
    <3>2. HoldReadable(r, v)
      BY <2>1, <3>1 DEF Readable
    <3> QED BY <2>2, <3>2 DEF HoldReadable, SameLot
  <2>4. ~Settled(t, db, x, r.d)
    <3>1. req[t].op = "hold" => FALSE
      BY <1>1, <1>3, <2>1, SentByOne
    <3> QED BY <2>3, <3>1 DEF Settled, TakenFrom
  <2>5. Kept(db, x, r.d) \/ SameLot(db, x, r.d)
    BY <1>1, <2>1, <2>3, <2>4 DEF LotDone, Voided, Drawn
  <2> QED BY <2>2, <2>5 DEF Kept, SameLot
<1>9. ASSUME Doing(u, {"hold"}, 0), r.new # NoLot PROVE x.lot[r.new].state = "absent"
  <2>1. r.op = "hold" /\ r.new \in Lot /\ r.new \notin DrawnByEntries
    <3>1. r.op = "hold"
      BY <1>9 DEF Doing
    <3>2. r \in HoldRequest /\ r.new \in Lot
      BY <1>2, <1>9, <3>1, RequestForms, RequestFields
    <3> QED BY <1>9, <3>1, <3>2 DEF HoldRequest
  <2>2. db.lot[r.new].state = "absent"
    BY <1>1, <1>9 DEF Knows
  <2>3. ~Drawn(t, db, x, r.new)
    <3>1. req[t].op = "hold" => FALSE
      BY <1>1, <1>3, <2>1, SentByOne
    <3> QED BY <2>1, <3>1 DEF Drawn
  <2>4. Kept(db, x, r.new)
    BY <1>1, <2>1, <2>2, <2>3 DEF LotDone, Voided, Settled, TakenFrom
  <2> QED BY <2>2, <2>4 DEF Kept
<1>10. ASSUME Doing(u, {"decide"}, 2) \/ Doing(u, {"queue"}, 1), NEW d \in Stale(v)
       PROVE  SameLot(v, x, d)
  <2>1. r.op \in {"decide", "queue"}
    BY <1>10 DEF Doing
  <2>2. d \in Lot /\ v.lot[d].state = "REWORK_PENDING_SUPERVISOR"
    BY <1>10 DEF Stale
  <2>3. SameLot(v, db, d)
    BY <1>1, <1>10 DEF Knows
  <2>4. db.lot[d].state = "REWORK_PENDING_SUPERVISOR"
    BY <2>2, <2>3 DEF SameLot
  <2>5. ~Settled(t, db, x, d)
    <3>1. req[t].op \in {"decide", "queue"} => FALSE
      BY <1>1, <1>3, <2>1, SentByOne
    <3> QED BY <2>4, <3>1 DEF Settled, TakenFrom
  <2>6. Kept(db, x, d) \/ SameLot(db, x, d)
    BY <1>1, <2>2, <2>4, <2>5 DEF LotDone, Voided, Drawn
  <2> QED BY <2>3, <2>6 DEF Kept, SameLot
<1>11. ASSUME Doing(u, {"classify"}, 2) PROVE x.entry[r.q].state = "active"
  <2>1. /\ r.op = "classify" /\ at[u] > 2 /\ r.op \in LockFirstOps /\ FirstRow(r) = r.q
        /\ r.q \in Entry
    BY <1>2, <1>11, RequestFields DEF Doing, LockFirstOps, FirstRow, LotOps, ReturnOps
  <2>2. held[u][r.q] = "X"
    BY <1>4, <1>11, <2>1 DEF Doing
  <2>3. held[t][r.q] # "X"
    BY <1>5, <1>6, <2>1, <2>2
  <2>4. db.entry[r.q].state = "active"
    BY <1>1, <1>11 DEF Knows
  <2> QED BY <1>1, <2>1, <2>3, <2>4 DEF EntriesDone
<1> QED BY <1>7, <1>8, <1>9, <1>10, <1>11 DEF Knows, x

\* A write keeps the invariant.
LEMMA WriteKeepsLots ==
    ASSUME SInv, LInv, OneDesk, NEW t \in Tx, NEW op, Write(t, op), shift' = shift
    PROVE  LInv'
<1>0. /\ \A u \in Tx : Sent(u) /\ SetLocked(u) /\ Knows(u, db)
      /\ Typed /\ Finish(t, "done")
  BY LotInvariantParts, InvariantParts, Writer
<1>1. /\ at'[t] = 0
      /\ \A u \in Tx \ {t} : UNCHANGED <<held[u], req[u], at[u], snap[u]>>
  BY <1>0 DEF Finish, Typed
<1>2. ASSUME NEW u \in Tx \ {t} PROVE Sent(u)' /\ SetLocked(u)' /\ Knows(u, db)'
  <2>1. Knows(u, db')
    <3>1. CASE Idle(u)
      BY <3>1 DEF Knows, Doing
    <3>2. CASE ~Idle(u)
      BY <3>2, OthersKnow
    <3> QED BY <3>1, <3>2
  <2>2. UNCHANGED <<held[u], req[u], at[u], snap[u], shift>>
    BY <1>1, <1>2
  <2> QED BY <1>0, <2>1, <2>2 DEF Sent, SetLocked, Knows, Idle, Doing
<1>3. Sent(t)' /\ SetLocked(t)' /\ Knows(t, db)'
  BY <1>1, LotEnded
<1>4. LotRowsOK(db')
  BY WriteKeepsRows
<1> QED BY <1>2, <1>3, <1>4, LotInvariantParts

(***************************************************************************)
(* The invariant holds first, and every step keeps it.                     *)
(***************************************************************************)

\* A first lot lies where its state has it.
LEMMA PlacedShape ==
    ASSUME NEW p \in FirstPlace
    PROVE  LotShape(NewLotRow(p[1], OldQty), InBucket(p[2], OldQty))
<1> DEFINE row == NewLotRow(p[1], OldQty)
           own == InBucket(p[2], OldQty)
<1>1. OldQty \in Nat /\ OldQty > 0
  BY StockAssumption
<1>2. /\ p[1] \in LotState /\ p[2] \in {"QC_HOLD", "REWORK", "QC_PENDING"}
      /\ \/ p[1] = "HOLD" /\ p[2] = "QC_HOLD"
         \/ p[1] = "REWORK_PENDING_SUPERVISOR"
         \/ p[1] \in {"REWORK_APPROVED_PENDING_EXECUTION", "REWORK_READY_FOR_QC"}
            /\ p[2] # "QC_HOLD"
  BY DEF FirstPlace, LotState
<1>3. row.state = p[1] /\ row.rem = OldQty
  BY <1>1, <1>2, NewLotRows
<1>4. /\ OnHold(own) = IF p[2] = "QC_HOLD" THEN OldQty ELSE 0
      /\ Away(own) = 0
      /\ Reworked(own) = IF p[2] = "QC_HOLD" THEN 0 ELSE OldQty
  <2> DEFINE b == p[2]
  <2>1. b \in {"QC_HOLD", "REWORK", "QC_PENDING"}
    BY <1>2
  <2> HIDE DEF b
  <2>2. /\ InBucket(b, OldQty)["fg"] = Nothing
        /\ InBucket(b, OldQty)["read"] = [Nothing EXCEPT ![b] = OldQty]
    BY DEF InBucket, Empty, Scope
  <2>3. [Nothing EXCEPT ![b] = OldQty] = [c \in Bucket |-> IF c = b THEN OldQty ELSE 0]
    BY <2>1 DEF Nothing
  <2>4. {"QC_HOLD", "REWORK", "QC_PENDING"} \subseteq Bucket
    BY DEF Bucket
  <2>5. /\ OnHold(InBucket(b, OldQty)) = IF b = "QC_HOLD" THEN OldQty ELSE 0
        /\ Away(InBucket(b, OldQty)) = 0
    BY <2>2, <2>3, <2>4 DEF OnHold, Away, Nothing
  <2>6. Reworked(InBucket(b, OldQty)) = (IF b = "REWORK" THEN OldQty ELSE 0)
                                        + (IF b = "QC_PENDING" THEN OldQty ELSE 0)
    BY <2>2, <2>3, <2>4 DEF Reworked
  <2> QED BY <1>1, <2>1, <2>5, <2>6 DEF b
<1> HIDE DEF row, own
<1>5. LotShape(row, own)
  BY <1>1, <1>2, <1>3, <1>4, Shapes
<1> QED BY <1>5 DEF row, own

LEMMA LotsFirst == Init => LInv /\ HeldStands /\ ReversedLeavesNoLot
<1> SUFFICES ASSUME Init PROVE LInv /\ HeldStands /\ ReversedLeavesNoLot
  OBVIOUS
<1>1. PICK place \in [FirstLot -> FirstPlace] : db = TablesInit(place)
  BY DEF Init
<1>2. ASSUME NEW t \in Tx PROVE at[t] = 0
  <2>1. at = [u \in Tx |-> 0]
    BY DEF Init, EngineInit
  <2> QED BY <2>1
<1>3. FirstLot \subseteq Lot /\ DrawnByEntries \subseteq Lot \ FirstLot /\ EntryOf \in [Lot -> Entry]
  BY StockAssumption
<1>4. /\ \A d \in Lot : /\ db.lot[d] = IF d \in FirstLot THEN NewLotRow(place[d][1], OldQty)
                                       ELSE NoLotRow
                        /\ db.own[d] = IF d \in FirstLot THEN InBucket(place[d][2], OldQty)
                                       ELSE Empty
      /\ \A q \in Entry : db.entry[q] = IF q \in FirstEntries THEN OldEntry ELSE NoEntry
  BY <1>1 DEF TablesInit
<1>5. ASSUME NEW d \in Lot PROVE LotShape(db.lot[d], db.own[d])
  <2>1. CASE d \in FirstLot
    <3>1. place[d] \in FirstPlace
      BY <2>1
    <3> QED BY <1>4, <2>1, <3>1, PlacedShape
  <2>2. CASE d \notin FirstLot
    <3>1. NoLotRow.state = "absent" /\ NoLotRow.rem = 0
      BY DEF NoLotRow
    <3>2. OnHold(Empty) = 0 /\ Away(Empty) = 0 /\ Reworked(Empty) = 0
      BY DEF OnHold, Away, Reworked, Empty, Nothing, Scope, Bucket
    <3> QED BY <1>4, <2>2, <3>1, <3>2, Shapes
  <2> QED BY <2>1, <2>2
<1>6. \A d \in Lot : db.lot[d].state # "absent" => d \in FirstLot
  BY <1>4 DEF NoLotRow
<1>7. OldEntry.state = "active" /\ NoEntry.state = "absent"
  BY DEF OldEntry, NoEntry
<1>8. ASSUME NEW d \in Lot, db.lot[d].state # "absent"
      PROVE  db.entry[EntryOf[d]].state # "absent"
  <2>1. EntryOf[d] \in FirstEntries /\ EntryOf[d] \in Entry
    BY <1>3, <1>6, <1>8 DEF FirstEntries
  <2> QED BY <1>4, <1>7, <2>1
<1>9. ASSUME NEW q \in Entry, PartLot[q]["classified"] # NoLot
      PROVE  db.lot[PartLot[q]["classified"]].state = "absent"
  <2>1. PartLot[q]["classified"] \in DrawnByEntries
    BY <1>9, PartLots DEF LotKind
  <2> QED BY <1>3, <1>6, <2>1
<1>14. ASSUME NEW d \in Lot PROVE ~db.lot[d].void
  <2>1. CASE d \in FirstLot
    <3>1. place[d] \in FirstPlace
      BY <2>1
    <3>2. place[d][1] \in LotState /\ OldQty \in Nat
      BY <3>1, StockAssumption DEF FirstPlace, LotState
    <3>3. NewLotRow(place[d][1], OldQty).void = FALSE
      <4> DEFINE s == place[d][1]
      <4>1. s \in LotState
        BY <3>2
      <4> HIDE DEF s
      <4>2. NewLotRow(s, OldQty).void = FALSE
        BY <3>2, <4>1, NewLotRows
      <4> QED BY <4>2 DEF s
    <3> QED BY <1>4, <2>1, <3>3
  <2>2. CASE d \notin FirstLot
    BY <1>4, <2>2 DEF NoLotRow
  <2> QED BY <2>1, <2>2
<1>10. LotRowsOK(db)
  BY <1>5, <1>8, <1>9, <1>14 DEF LotRowsOK
<1>11. ASSUME NEW t \in Tx PROVE Sent(t) /\ SetLocked(t) /\ Knows(t, db)
  BY <1>2 DEF Sent, SetLocked, Knows, Idle, Doing
<1>12. HeldStands
  BY <1>2 DEF HeldStands, Doing, Idle
<1>13. ReversedLeavesNoLot
  <2>1. \A q \in Entry : db.entry[q].state # "reversed"
    BY <1>4, <1>7
  <2> QED BY <1>3, <2>1 DEF ReversedLeavesNoLot
<1> QED BY <1>10, <1>11, <1>12, <1>13, LotInvariantParts

\* The steps of transaction t, sorted by what they do.
StepOf(t) ==
    \/ \E r \in RequestsOf[shift][t] : Arrive(t, r)
    \/ Advances(t)
    \/ db' = db /\ \E a : Finish(t, a)
    \/ \E op : Write(t, op)

LEMMA StepForms ==
    ASSUME SInv, [Next]_<<vars, shift>>
    PROVE  shift' = shift /\ (UNCHANGED vars \/ \E t \in Tx : StepOf(t))
<1>1. CASE UNCHANGED <<vars, shift>>
  BY <1>1
<1>2. CASE Next
  <2>1. /\ shift' = shift
        /\ \E t \in Tx :
             \/ \E r \in RequestsOf[shift][t] : Arrive(t, r)
             \/ Check(t) \/ Lock(t) \/ LockNothing(t) \/ Read(t) \/ Reject(t)
             \/ \E op : Write(t, op)
             \/ Abort(t)
    BY <1>2 DEF Next, LotSteps, ReturnSteps, CorrectionSteps, SupervisorDecision,
                MarkReworkExecuted, ReconcileQueues, HoldAction, Recheck, PostQc, ReverseQc,
                Classify, CreateReturn, ApproveReturn, ReworkCompleted, ApproveRework,
                ScrapReturn, CreateReplacement, BucketTransfer, CompleteReworkQc, Adjust,
                ReverseAdjustment, QcOfAdjustment, ApproveOpening, ReverseOpening
  <2>2. PICK t \in Tx :
             \/ \E r \in RequestsOf[shift][t] : Arrive(t, r)
             \/ Check(t) \/ Lock(t) \/ LockNothing(t) \/ Read(t) \/ Reject(t)
             \/ \E op : Write(t, op)
             \/ Abort(t)
    BY <2>1
  <2>3. Check(t) \/ Lock(t) \/ LockNothing(t) \/ Read(t) => Advances(t)
    BY StepsAdvance
  <2>4. Reject(t) \/ Abort(t) => db' = db /\ \E a : Finish(t, a)
    BY DEF Reject, Refuse, Abort, Rollback
  <2> QED BY <2>1, <2>2, <2>3, <2>4 DEF StepOf
<1> QED BY <1>1, <1>2

\* A step keeps the invariant; it leaves the tables alone, or is the write of a handler.
LEMMA StepKeepsLots ==
    ASSUME SInv, LInv, OneDesk, [Next]_<<vars, shift>>
    PROVE  LInv' /\ (db' = db \/ \E t \in Tx : LotsDone(t, db, db'))
<1>0. LotRowsOK(db) /\ \A u \in Tx : Sent(u) /\ SetLocked(u) /\ Knows(u, db)
  BY LotInvariantParts
<1>1. shift' = shift /\ (UNCHANGED vars \/ \E t \in Tx : StepOf(t))
  BY StepForms
<1>2. CASE UNCHANGED vars
  <2>1. /\ db' = db
        /\ \A u \in Tx : UNCHANGED <<db, held[u], req[u], at[u], snap[u], shift>>
    BY <1>1, <1>2 DEF vars
  <2>2. \A u \in Tx : Sent(u)' /\ SetLocked(u)' /\ Knows(u, db)'
    BY <1>0, <2>1, LotBystander
  <2>3. LotRowsOK(db')
    BY <1>0, <2>1
  <2> QED BY <2>1, <2>2, <2>3, LotInvariantParts
<1>3. ASSUME NEW t \in Tx, StepOf(t) PROVE LInv' /\ (db' = db \/ LotsDone(t, db, db'))
  <2>1. ASSUME NEW r \in RequestsOf[shift][t], Arrive(t, r) PROVE LInv' /\ db' = db
    <3>1. db' = db
      BY <2>1 DEF Arrive, Begin, BeginReading
    <3> QED BY <1>1, <2>1, <3>1, ArriveKeepsLots
  <2>2. CASE Advances(t)
    BY <1>1, <2>2, AdvanceKeepsLots DEF Advances
  <2>3. ASSUME db' = db, NEW a, Finish(t, a) PROVE LInv'
    BY <1>1, <2>3, EndKeepsLots
  <2>4. ASSUME NEW op, Write(t, op) PROVE LInv' /\ LotsDone(t, db, db')
    BY <1>1, <2>4, WriteKeepsLots, LotOutcome
  <2> QED BY <1>3, <2>1, <2>2, <2>3, <2>4 DEF StepOf
<1> QED BY <1>1, <1>2, <1>3

(***************************************************************************)
(* Reversals of QC, where nobody reverses QC while somebody else decides   *)
(* on held goods.                                                          *)
(***************************************************************************)

\* One who decides on held goods did so before the step, or has just read the tables.
LEMMA HoldViews ==
    ASSUME SInv, [Next]_<<vars, shift>>, NEW u \in Tx, Doing(u, {"hold"}, 1)'
    PROVE  \/ Doing(u, {"hold"}, 1) /\ req'[u] = req[u]
           \/ db' = db /\ snap'[u] = db
<1>1. UNCHANGED vars \/ \E t \in Tx : StepOf(t)
  BY StepForms
<1>2. /\ req'[u].op = "hold" /\ at'[u] > 1 /\ at'[u] # 0
      /\ Typed
  BY InvariantParts DEF Doing, Idle
<1>3. CASE UNCHANGED vars
  BY <1>3 DEF vars, Doing, Idle
<1>4. ASSUME NEW t \in Tx, StepOf(t), u # t PROVE Doing(u, {"hold"}, 1) /\ req'[u] = req[u]
  <2>1. req'[u] = req[u] /\ at'[u] = at[u]
    BY <1>2, <1>4 DEF StepOf, Arrive, Begin, BeginReading, Advances, Finish, Write, Commit, Typed
  <2> QED BY <1>2, <2>1 DEF Doing, Idle
<1>5. CASE StepOf(u)
  <2>1. ASSUME NEW r \in RequestsOf[shift][u], Arrive(u, r) PROVE db' = db /\ snap'[u] = db
    BY <1>2, <2>1 DEF Arrive, Begin, BeginReading, Idle, Typed
  <2>2. ASSUME NEW a, Finish(u, a) PROVE FALSE
    BY <1>2, <2>2 DEF Finish, Typed
  <2>3. ASSUME NEW op, Write(u, op) PROVE FALSE
    BY <2>2, <2>3 DEF Write, Commit
  <2>4. ASSUME Advances(u) PROVE \/ Doing(u, {"hold"}, 1) /\ req'[u] = req[u]
                                 \/ db' = db /\ snap'[u] = db
    <3>1. /\ ~Idle(u) /\ req' = req /\ db' = db /\ at[u] \in 1 .. 5 /\ req[u] \in Request
          /\ Step(u) = "read" <=> at[u] = ReadAt(req[u].op)
      BY <2>4, Standing DEF Advances
    <3>2. req[u].op = "hold" /\ ReadAt(req[u].op) = 1
      BY <1>2, <3>1, SetPositions
    <3>3. CASE at[u] = 1
      <4>1. Step(u) = "read" /\ at'[u] # at[u]
        BY <1>2, <3>1, <3>2, <3>3
      <4> QED BY <2>4, <3>1, <4>1 DEF Advances
    <3>4. CASE at[u] > 1
      BY <3>1, <3>2, <3>4 DEF Doing
    <3> QED BY <3>1, <3>3, <3>4
  <2> QED BY <1>5, <2>1, <2>2, <2>3, <2>4 DEF StepOf
<1> QED BY <1>1, <1>3, <1>4, <1>5

\* A write leaves no lot of a reversed entry.
LEMMA WriteLeavesNoLot ==
    ASSUME SInv, LInv, HeldStands, ReversedLeavesNoLot, NEW t \in Tx, NEW op, Write(t, op)
    PROVE  ReversedLeavesNoLot'
<1> DEFINE r == req[t]
           x == db'
<1>1. /\ EntriesDone(t, db, x) /\ \A d \in Lot : LotDone(t, db, x, d)
      /\ KnowsLots(t, r, snap[t]) /\ r \in Request
  BY LotOutcome, WriterKnows, Writer DEF LotsDone
<1> SUFFICES ASSUME NEW d \in Lot, x.entry[EntryOf[d]].state = "reversed", Live(x, d)
             PROVE  FALSE
  BY DEF ReversedLeavesNoLot
<1>2. EntryOf[d] \in Entry
  BY StockAssumption
<1>3. /\ EntryOf[d] = r.q => r.op \notin {"qcPost", "qcReverse", "classify"}
      /\ x.entry[EntryOf[d]] = db.entry[EntryOf[d]]
  BY <1>1, <1>2 DEF EntriesDone
<1>4. ~Live(db, d)
  BY <1>3 DEF ReversedLeavesNoLot
<1>5. ~Kept(db, x, d) /\ ~Voided(t, db, x, d) /\ ~Settled(t, db, x, d)
  <2>1. "absent" \notin TakenFrom(r.op)
    BY DEF TakenFrom
  <2> QED BY <1>4, <2>1 DEF Kept, Voided, Settled, Live
<1>6. ~Drawn(t, db, x, d)
  <2>1. ASSUME r.op = "hold", d = r.new PROVE FALSE
    <3>1. EntryOf[d] = EntryOf[r.d]
      <4>1. r \in HoldRequest /\ d # NoLot
        BY <1>1, <2>1, RequestForms, StockAssumption
      <4> QED BY <2>1, <4>1 DEF HoldRequest
    <3>2. Doing(t, {"hold"}, 1)
      BY <1>1, <2>1 DEF KnowsLots
    <3>3. db.entry[EntryOf[r.d]].state # "reversed"
      BY <3>2 DEF HeldStands
    <3> QED BY <1>3, <3>1, <3>3
  <2>2. ASSUME r.op = "classify", d = PartLot[r.q]["classified"] PROVE FALSE
    <3>1. EntryOf[d] = r.q
      <4>1. r.q \in Entry /\ PartLot[r.q]["classified"] # NoLot /\ "classified" \in LotKind
        BY <1>1, <2>2, RequestFields, StockAssumption DEF LotKind
      <4> QED BY <2>2, <4>1, PartLots
    <3> QED BY <1>3, <2>2, <3>1
  <2> QED BY <1>3, <2>1, <2>2 DEF Drawn
<1> QED BY <1>1, <1>5, <1>6 DEF LotDone

LEMMA StepKeepsReversed ==
    ASSUME SInv, LInv, HeldStands, ReversedLeavesNoLot, OneQcDesk, [Next]_<<vars, shift>>,
           SInv'
    PROVE  HeldStands' /\ ReversedLeavesNoLot'
<1>1. UNCHANGED vars \/ \E t \in Tx : StepOf(t)
  BY StepForms
<1>2. db' = db \/ \E t \in Tx : \E op : Write(t, op)
  BY <1>1 DEF vars, StepOf, Arrive, Begin, BeginReading, Advances
<1>3. ReversedLeavesNoLot'
  BY <1>2, WriteLeavesNoLot DEF ReversedLeavesNoLot
<1>4. ASSUME NEW u \in Tx, Doing(u, {"hold"}, 1)'
      PROVE  db'.entry[EntryOf[req'[u].d]].state # "reversed"
  <2>1. CASE db' = db /\ snap'[u] = db
    <3>1. Live(db, req'[u].d) /\ req'[u].d \in Lot
      <4>1. TypeOK' /\ ViewRead'
        BY DEF SInv
      <4>2. at'[u] > 1 /\ at'[u] # 0 /\ req'[u].op = "hold"
        BY <1>4 DEF Doing, Idle
      <4>3. req'[u] \in Request
        <5>1. req'[u] \in Request \cup {NoReq} /\ req'[u] # NoReq
          BY <4>1, <4>2 DEF TypeOK, Idle
        <5> QED BY <5>1
      <4>4. ReadAt(req'[u].op) = 1 /\ req'[u].d \in Lot
        BY <4>2, <4>3, SetPositions, RequestFields DEF LotOps
      <4>5. Readable(req'[u], snap'[u])
        BY <4>1, <4>2, <4>4 DEF ViewRead, Viewed, Idle
      <4> QED BY <2>1, <4>2, <4>4, <4>5 DEF Readable, HoldReadable
    <3> QED BY <2>1, <3>1 DEF ReversedLeavesNoLot
  <2>2. CASE Doing(u, {"hold"}, 1) /\ req'[u] = req[u]
    <3>1. db.entry[EntryOf[req[u].d]].state # "reversed"
      BY <2>2 DEF HeldStands
    <3>2. ASSUME NEW t \in Tx, NEW op, Write(t, op)
          PROVE  db'.entry[EntryOf[req[u].d]].state # "reversed"
      <4> DEFINE e == EntryOf[req[u].d]
      <4>1. EntriesDone(t, db, db') /\ Sent(t) /\ Sent(u) /\ ~Idle(t)
        BY <3>2, LotOutcome, LotInvariantParts, Writer DEF LotsDone
      <4>2. t # u
        <5>1. at'[t] = 0
          BY <3>2, Writer, InvariantParts DEF Finish, Typed
        <5> QED BY <1>4, <5>1 DEF Doing, Idle
      <4>3. req[u].op = "hold" /\ ~Idle(u) /\ OneSends({"hold", "qcReverse"})
        BY <2>2 DEF Doing, OneQcDesk
      <4>4. req[t].op # "qcReverse"
        <5> SUFFICES ASSUME req[t].op = "qcReverse" PROVE FALSE
          OBVIOUS
        <5> QED BY <4>1, <4>2, <4>3, SentByOne
      <4>5. e \in Entry
        <5>1. req[u] \in Request
          BY <4>3, Standing
        <5>2. req[u].d \in Lot
          BY <4>3, <5>1, RequestFields DEF LotOps
        <5> QED BY <5>2, StockAssumption
      <4> QED BY <3>1, <4>1, <4>4, <4>5 DEF EntriesDone
    <3> QED BY <1>2, <2>2, <3>1, <3>2
  <2> QED BY <1>4, <2>1, <2>2, HoldViews
<1> QED BY <1>3, <1>4 DEF HeldStands

(***************************************************************************)
(* The lots as RejectedGoods sees them.                                    *)
(***************************************************************************)

\* A lot that is open or done.
SeenOpenOrDone(x, d) ==
    LET n == WaitingOf(x.lot[d], x.own[d])
    IN  n >= 0 /\ StageOf(x.lot[d]) = IF n > 0 THEN "open" ELSE "done"

SeenSame(w, x, d) ==
    /\ StageOf(x.lot[d]) = StageOf(w.lot[d])
    /\ WaitingOf(x.lot[d], x.own[d]) = WaitingOf(w.lot[d], w.own[d])

\* In its shape, all that is left of a lot waits, and of an open lot something is left.
LEMMA LotSeen ==
    ASSUME NEW v \in Tables, NEW d \in Lot, LotShape(v.lot[d], v.own[d])
    PROVE  LET row == v.lot[d]
               s == StageOf(row)
               n == WaitingOf(row, v.own[d])
           IN  /\ row.rem \in Nat /\ row.void \in BOOLEAN
               /\ n = IF row.void THEN 0 ELSE row.rem
               /\ s = "none" <=> row.state = "absent"
               /\ row.state # "absent" /\ row.void => s = "void"
               /\ row.state \notin {"absent", "SCRAP", "CLOSED"} /\ ~row.void =>
                     s = "open" /\ n > 0
               /\ row.state # "absent" /\ ~row.void => SeenOpenOrDone(v, d)
               /\ n >= 0 /\ (n > 0 <=> s = "open")
<1> DEFINE row == v.lot[d]
           own == v.own[d]
           s == StageOf(row)
           n == WaitingOf(row, own)
<1>1. /\ row.rem \in Nat /\ row.void \in BOOLEAN /\ row.state \in LotState
      /\ own["read"]["QC_HOLD"] \in Int /\ own["fg"]["QC_HOLD"] \in Int
      /\ own["read"]["REWORK"] \in Int /\ own["read"]["QC_PENDING"] \in Int
      /\ LotShape(row, own)
  BY BalanceTypes DEF LotRow, OnHold, Away
<1> HIDE DEF row, own
<1>2. /\ row.state \in {"absent", "SCRAP", "CLOSED"} =>
            row.rem = 0 /\ OnHold(own) + Away(own) + Reworked(own) = 0
      /\ row.state \notin {"absent", "SCRAP", "CLOSED"} =>
            row.rem > 0 /\ OnHold(own) + Away(own) + Reworked(own) = row.rem
  BY <1>1, Shapes DEF OnHold, Away, Reworked, LotState
<1>3. n = IF row.void THEN 0 ELSE row.rem
  BY <1>1, <1>2 DEF WaitingOf, OnHold, Away, Reworked
<1>4. /\ s = "none" <=> row.state = "absent"
      /\ row.state # "absent" /\ row.void => s = "void"
      /\ row.state \in {"SCRAP", "CLOSED"} /\ ~row.void => s = "done"
      /\ row.state \notin {"absent", "SCRAP", "CLOSED"} /\ ~row.void => s = "open"
      /\ s = "open" => row.state \notin {"absent", "SCRAP", "CLOSED"} /\ ~row.void
  BY <1>1 DEF StageOf
<1> HIDE DEF s, n
<1>5. n >= 0 /\ (n > 0 <=> s = "open")
  BY <1>1, <1>2, <1>3, <1>4
<1>6. row.state # "absent" /\ ~row.void => n >= 0 /\ s = IF n > 0 THEN "open" ELSE "done"
  BY <1>1, <1>2, <1>3, <1>4
<1> QED BY <1>1, <1>3, <1>4, <1>5, <1>6 DEF row, own, s, n, SeenOpenOrDone

\* The actions of RejectedGoods are about what is seen.
LEMMA SeenParts ==
    ASSUME NEW d \in Lot
    PROVE  /\ LotStage[d] = StageOf(db.lot[d])
           /\ LotWaiting[d] = WaitingOf(db.lot[d], db.own[d])
           /\ LotStage'[d] = StageOf(db'.lot[d])
           /\ LotWaiting'[d] = WaitingOf(db'.lot[d], db'.own[d])
           /\ LotGoods!Same(d) <=> SeenSame(db, db', d)
           /\ LotGoods!OpenOrDone(d) <=> SeenOpenOrDone(db', d)
<1>1. /\ LotStage[d] = StageOf(db.lot[d])
      /\ LotWaiting[d] = WaitingOf(db.lot[d], db.own[d])
      /\ LotStage'[d] = StageOf(db'.lot[d])
      /\ LotWaiting'[d] = WaitingOf(db'.lot[d], db'.own[d])
  BY DEF LotStage, LotWaiting
<1> QED BY <1>1 DEF LotGoods!Same, LotGoods!OpenOrDone, SeenSame, SeenOpenOrDone

\* What is seen of a lot, by what a write did to it.
LEMMA SeenDone ==
    ASSUME NEW t, NEW w \in Tables, NEW x \in Tables, NEW d \in Lot,
           LotShape(w.lot[d], w.own[d]), LotDone(t, w, x, d)
    PROVE  /\ Kept(w, x, d) => SeenSame(w, x, d)
           /\ Settled(t, w, x, d) /\ x.lot[d].rem = w.lot[d].rem => SeenSame(w, x, d)
           /\ Settled(t, w, x, d) /\ ~w.lot[d].void =>
                 /\ StageOf(w.lot[d]) = "open" /\ SeenOpenOrDone(x, d)
                 /\ WaitingOf(x.lot[d], x.own[d]) <= WaitingOf(w.lot[d], w.own[d])
           /\ Drawn(t, w, x, d) =>
                 /\ StageOf(w.lot[d]) = "none" /\ SeenOpenOrDone(x, d)
                 /\ WaitingOf(x.lot[d], x.own[d]) = x.lot[d].rem
           /\ x.lot[d].state # "absent" /\ x.lot[d].void =>
                 StageOf(x.lot[d]) = "void" /\ WaitingOf(x.lot[d], x.own[d]) = 0
<1> DEFINE old == w.lot[d]
           new == x.lot[d]
           m == WaitingOf(old, w.own[d])
           n == WaitingOf(new, x.own[d])
<1>1. LotShape(new, x.own[d])
  BY DEF LotDone
<1>2. /\ old.rem \in Nat /\ old.void \in BOOLEAN
      /\ m = IF old.void THEN 0 ELSE old.rem
      /\ StageOf(old) = "none" <=> old.state = "absent"
      /\ old.state # "absent" /\ old.void => StageOf(old) = "void"
      /\ old.state \notin {"absent", "SCRAP", "CLOSED"} /\ ~old.void => StageOf(old) = "open"
      /\ old.state # "absent" /\ ~old.void => SeenOpenOrDone(w, d)
  BY LotSeen
<1>3. /\ new.rem \in Nat /\ new.void \in BOOLEAN
      /\ n = IF new.void THEN 0 ELSE new.rem
      /\ new.state # "absent" /\ new.void => StageOf(new) = "void"
      /\ new.state # "absent" /\ ~new.void => SeenOpenOrDone(x, d)
  BY <1>1, LotSeen
<1>4. Kept(w, x, d) => SeenSame(w, x, d)
  BY DEF Kept, SeenSame
<1>5. "absent" \notin TakenFrom(req[t].op) /\ TakenFrom(req[t].op) \cap {"SCRAP", "CLOSED"} = {}
  BY DEF TakenFrom
<1>6. ASSUME Settled(t, w, x, d)
      PROVE  /\ old.state \notin {"absent", "SCRAP", "CLOSED"} /\ new.state # "absent"
             /\ new.void = old.void /\ new.rem <= old.rem
  BY <1>5, <1>6 DEF Settled
<1>7. ASSUME Settled(t, w, x, d), new.rem = old.rem PROVE SeenSame(w, x, d)
  <2>1. m = n
    BY <1>2, <1>3, <1>6, <1>7
  <2>2. StageOf(new) = StageOf(old)
    BY <1>2, <1>3, <1>6, <1>7, <2>1 DEF SeenOpenOrDone
  <2> QED BY <2>1, <2>2 DEF SeenSame
<1>8. ASSUME Settled(t, w, x, d), ~old.void
      PROVE  StageOf(old) = "open" /\ SeenOpenOrDone(x, d) /\ n <= m
  <2> HIDE DEF m, n, old, new
  <2> QED BY <1>2, <1>3, <1>6, <1>8
<1>9. ASSUME Drawn(t, w, x, d)
      PROVE  StageOf(old) = "none" /\ SeenOpenOrDone(x, d) /\ n = new.rem
  BY <1>2, <1>3, <1>9 DEF Drawn
<1> QED BY <1>3, <1>4, <1>7, <1>8, <1>9

\* Every write of a handler is a step of RejectedGoods, or is not seen there.
LEMMA WriteOfGoods ==
    ASSUME SInv, LInv, HeldStands, db' \in Tables, NEW t \in Tx, NEW op, Write(t, op)
    PROVE  LotGoods!Next \/ \A d \in Lot : LotGoods!Same(d)
<1> DEFINE r == req[t]
           v == snap[t]
           x == db'
<1>1. /\ EntriesDone(t, db, x) /\ \A d \in Lot : LotDone(t, db, x, d)
      /\ KnowsLots(t, r, v) /\ LotRowsOK(db)
      /\ r \in Request /\ Readable(r, v) /\ db \in Tables /\ x \in Tables
  BY LotOutcome, WriterKnows, Writer DEF LotsDone, KnowsLots
<1>2. \A d \in Lot : LotShape(db.lot[d], db.own[d])
  BY <1>1 DEF LotRowsOK
<1>3. r = req[t] /\ x = db' /\ v = snap[t]
  OBVIOUS
<1> HIDE DEF r, v, x
<1>4. ASSUME NEW d \in Lot
      PROVE  /\ Kept(db, x, d) => SeenSame(db, x, d)
             /\ Settled(t, db, x, d) /\ x.lot[d].rem = db.lot[d].rem => SeenSame(db, x, d)
             /\ Settled(t, db, x, d) /\ ~db.lot[d].void =>
                  /\ StageOf(db.lot[d]) = "open" /\ SeenOpenOrDone(x, d)
                  /\ WaitingOf(x.lot[d], x.own[d]) <= WaitingOf(db.lot[d], db.own[d])
             /\ Drawn(t, db, x, d) =>
                  /\ StageOf(db.lot[d]) = "none" /\ SeenOpenOrDone(x, d)
                  /\ WaitingOf(x.lot[d], x.own[d]) = x.lot[d].rem
             /\ x.lot[d].state # "absent" /\ x.lot[d].void =>
                  StageOf(x.lot[d]) = "void" /\ WaitingOf(x.lot[d], x.own[d]) = 0
  BY <1>1, <1>2, SeenDone
<1>5. ASSUME NEW d \in Lot
      PROVE  /\ LotStage[d] = StageOf(db.lot[d])
             /\ LotWaiting[d] = WaitingOf(db.lot[d], db.own[d])
             /\ LotStage'[d] = StageOf(x.lot[d])
             /\ LotWaiting'[d] = WaitingOf(x.lot[d], x.own[d])
             /\ LotGoods!Same(d) <=> SeenSame(db, x, d)
             /\ LotGoods!OpenOrDone(d) <=> SeenOpenOrDone(x, d)
  BY <1>3, SeenParts
<1>6. ASSUME NEW d \in Lot
      PROVE  Kept(db, x, d) \/ Voided(t, db, x, d) \/ Drawn(t, db, x, d) \/ Settled(t, db, x, d)
  BY <1>1 DEF LotDone
\* One lot that is not void, and of which alone goods are taken.
<1>7. ASSUME NEW d \in Lot, ~db.lot[d].void, Kept(db, x, d) \/ Settled(t, db, x, d),
             \A f \in Lot \ {d} : SeenSame(db, x, f)
      PROVE  LotGoods!Next \/ \A f \in Lot : LotGoods!Same(f)
  <2>1. CASE Kept(db, x, d)
    BY <1>4, <1>5, <1>7, <2>1
  <2>2. CASE Settled(t, db, x, d)
    <3>1. /\ LotStage[d] = "open" /\ LotGoods!OpenOrDone(d) /\ LotWaiting'[d] <= LotWaiting[d]
          /\ \A f \in Lot \ {d} : LotGoods!Same(f)
      BY <1>4, <1>5, <1>7, <2>2
    <3>2. LotGoods!Decide(d)
      BY <3>1 DEF LotGoods!Decide
    <3> QED BY <3>2 DEF LotGoods!Next
  <2> QED BY <1>7, <2>1, <2>2
<1>8. CASE r.op \in {"decide", "mark", "recheck"}
  <2>1. r.d \in Lot /\ ~db.lot[r.d].void
    <3>1. Live(v, r.d)
      BY <1>1, <1>8 DEF Readable, DecideReadable, MarkReadable, RecheckReadable
    <3>2. r.d \in Lot /\ Kept(v, db, r.d)
      BY <1>1, <1>8, RequestFields DEF LotOps, KnowsLots
    <3> QED BY <3>1, <3>2 DEF Live, Kept
  <2>2. ASSUME NEW f \in Lot PROVE ~Voided(t, db, x, f) /\ ~Drawn(t, db, x, f)
    BY <1>3, <1>8 DEF Voided, Drawn
  <2>3. ASSUME NEW f \in Lot \ {r.d} PROVE SeenSame(db, x, f)
    BY <1>3, <1>4, <1>6, <1>8, <2>2 DEF Settled
  <2> QED BY <1>6, <1>7, <2>1, <2>2, <2>3
<1>9. CASE r.op = "queue"
  <2> SUFFICES ASSUME NEW f \in Lot PROVE SeenSame(db, x, f)
    BY <1>5
  <2>1. ~Voided(t, db, x, f) /\ ~Drawn(t, db, x, f)
    BY <1>3, <1>9 DEF Voided, Drawn
  <2> QED BY <1>3, <1>4, <1>6, <1>9, <2>1 DEF Settled
<1>10. CASE r.op = "hold"
  <2>1. /\ r \in HoldRequest /\ r.d \in Lot /\ db.lot[r.d].state = "HOLD"
        /\ r.new # NoLot => db.lot[r.new].state = "absent" /\ r.new \in Lot
        /\ Doing(t, {"hold"}, 1)
    BY <1>1, <1>10, RequestForms, RequestFields DEF LotOps, KnowsLots
  <2>2. ~db.lot[r.d].void
    BY <1>1, <1>3, <2>1 DEF HeldStands, LotRowsOK
  <2>3. /\ Kept(db, x, r.d) \/ Settled(t, db, x, r.d)
        /\ \A f \in Lot : ~Voided(t, db, x, f)
    BY <1>3, <1>6, <1>10, <2>1 DEF Voided, Drawn
  <2>4. ASSUME NEW f \in Lot \ {r.d}, f # r.new PROVE SeenSame(db, x, f)
    <3>1. ~Drawn(t, db, x, f)
      BY <1>3, <1>10, <2>4 DEF Drawn
    <3> QED BY <1>3, <1>4, <1>6, <1>10, <2>3, <2>4, <3>1 DEF Settled
  <2>5. ASSUME r.new \in Lot, Drawn(t, db, x, r.new) PROVE LotGoods!Next
    <3>1. r.new # r.d /\ EntryOf[r.new] = EntryOf[r.d]
      BY <2>1, <2>5, StockAssumption DEF HoldRequest
    <3>2. /\ LotStage[r.d] = "open" /\ LotWaiting[r.d] = db.lot[r.d].rem
          /\ LotGoods!OpenOrDone(r.d) /\ LotWaiting'[r.d] = x.lot[r.d].rem
      <4>1. /\ WaitingOf(db.lot[r.d], db.own[r.d]) = db.lot[r.d].rem
            /\ StageOf(db.lot[r.d]) = "open" /\ SeenOpenOrDone(db, r.d)
        BY <1>1, <1>2, <2>1, <2>2, LotSeen
      <4>2. LotShape(x.lot[r.d], x.own[r.d]) /\ x.lot[r.d].state # "absent" /\ ~x.lot[r.d].void
        BY <1>1, <2>1, <2>2, <2>3 DEF LotDone, Kept, Settled
      <4>3. WaitingOf(x.lot[r.d], x.own[r.d]) = x.lot[r.d].rem /\ SeenOpenOrDone(x, r.d)
        BY <1>1, <2>1, <4>2, LotSeen
      <4> QED BY <1>5, <2>1, <4>1, <4>3
    <3>3. /\ LotStage[r.new] = "none" /\ LotGoods!OpenOrDone(r.new)
          /\ LotWaiting'[r.new] = x.lot[r.new].rem
      BY <1>4, <1>5, <2>5
    <3>4. x.lot[r.d].rem + x.lot[r.new].rem <= db.lot[r.d].rem
      BY <1>3, <1>10, <2>5 DEF Drawn
    <3>5. \A f \in Lot \ {r.d, r.new} : LotGoods!Same(f)
      BY <1>5, <2>4
    <3>6. LotGoods!Split(r.d, r.new)
      BY <3>1, <3>2, <3>3, <3>4, <3>5 DEF LotGoods!Split
    <3> QED BY <2>1, <2>5, <3>6 DEF LotGoods!Next
  <2>6. ASSUME ~(r.new \in Lot /\ Drawn(t, db, x, r.new))
        PROVE  \A f \in Lot \ {r.d} : SeenSame(db, x, f)
    <3> SUFFICES ASSUME NEW f \in Lot \ {r.d} PROVE SeenSame(db, x, f)
      OBVIOUS
    <3>1. CASE f = r.new
      BY <1>3, <1>4, <1>6, <1>10, <2>3, <2>6, <3>1 DEF Settled
    <3> QED BY <2>4, <3>1
  <2> QED BY <1>7, <2>1, <2>2, <2>3, <2>5, <2>6
<1>11. CASE r.op \in {"qcPost", "classify"}
  <2>1. r.q \in Entry
    BY <1>1, <1>11, RequestFields
  <2>2. ASSUME NEW f \in Lot
        PROVE  \/ LotGoods!Same(f)
               \/ /\ EntryOf[f] = r.q /\ LotStage[f] = "none" /\ LotGoods!OpenOrDone(f)
    <3>1. Kept(db, x, f) \/ Drawn(t, db, x, f)
      BY <1>3, <1>6, <1>11 DEF Voided, Settled, TakenFrom
    <3>2. Drawn(t, db, x, f) => EntryOf[f] = r.q
      <4>1. r.op = "classify" /\ f = PartLot[r.q]["classified"] => EntryOf[f] = r.q
        BY <2>1, PartLots, StockAssumption DEF LotKind
      <4> QED BY <1>3, <1>11, <4>1 DEF Drawn
    <3> QED BY <1>4, <1>5, <3>1, <3>2
  <2>3. LotGoods!Come(r.q)
    BY <2>2 DEF LotGoods!Come
  <2> QED BY <2>1, <2>3 DEF LotGoods!Next
<1>12. CASE r.op = "qcReverse"
  <2>1. r.q \in Entry /\ \A f \in Lot : EntryOf[f] = r.q => ~Live(x, f)
    BY <1>1, <1>3, <1>12, RequestFields DEF EntriesDone
  <2>2. ASSUME NEW f \in Lot, EntryOf[f] = r.q, LotStage[f] # "none"
        PROVE  LotStage'[f] = "void" /\ LotWaiting'[f] = 0
    <3>1. db.lot[f].state # "absent"
      BY <1>1, <1>2, <1>5, <2>2, LotSeen
    <3>2. x.lot[f].state # "absent"
      BY <1>3, <1>6, <1>12, <3>1 DEF Kept, Voided, SameLot, Drawn, Settled
    <3>3. x.lot[f].void
      BY <2>1, <2>2, <3>2 DEF Live
    <3> QED BY <1>4, <1>5, <3>2, <3>3
  <2>3. ASSUME NEW f \in Lot, ~(EntryOf[f] = r.q /\ LotStage[f] # "none")
        PROVE  LotGoods!Same(f)
    <3>1. LotStage[f] = "none" <=> db.lot[f].state = "absent"
      BY <1>1, <1>2, <1>5, LotSeen
    <3>2. Kept(db, x, f)
      BY <1>3, <1>6, <1>12, <2>3, <3>1 DEF Voided, Drawn, Settled, TakenFrom
    <3> QED BY <1>4, <1>5, <3>2
  <2>4. LotGoods!Void(r.q)
    BY <2>2, <2>3 DEF LotGoods!Void
  <2> QED BY <2>1, <2>4 DEF LotGoods!Next
<1>13. CASE r.op \notin {"decide", "mark", "recheck", "queue", "hold", "qcPost", "classify",
                         "qcReverse"}
  <2> SUFFICES ASSUME NEW f \in Lot PROVE SeenSame(db, x, f)
    BY <1>5
  <2>1. Kept(db, x, f)
    BY <1>3, <1>6, <1>13 DEF Voided, Drawn, Settled, TakenFrom
  <2> QED BY <1>4, <2>1
<1> QED BY <1>8, <1>9, <1>10, <1>11, <1>12, <1>13

(***************************************************************************)
(* The theorems about lots.                                                *)
(***************************************************************************)

\* Where one user decides on held goods and one supervisor on rework, every decision on
\* a lot rests on the lot as it is when it is written, and the stock of a lot lies where
\* its state has it, whatever final QC, QC and its reversal do meanwhile.
THEOREM LotInvariance ==
    ASSUME OneDesk
    PROVE  Spec => []LInv
<1>1. Init => LInv
  BY LotsFirst
<1>2. SInv /\ LInv /\ [Next]_<<vars, shift>> => LInv'
  BY StepKeepsLots
<1> QED BY <1>1, <1>2, StockInvariance, PTL DEF Spec

\* What is left on a held lot is what it owns in QC_HOLD.
THEOREM HeldGoodsOwned ==
    ASSUME OneDesk
    PROVE  Spec => []HeldIsOwned
<1>1. SInv /\ LInv => HeldIsOwned
  <2> SUFFICES ASSUME SInv, LInv, NEW d \in Lot, db.lot[d].state = "HOLD"
               PROVE  db.lot[d].rem = db.own[d]["read"]["QC_HOLD"] + db.own[d]["fg"]["QC_HOLD"]
    BY DEF HeldIsOwned
  <2>1. LotShape(db.lot[d], db.own[d])
    BY DEF LInv, LotsInShape
  <2> QED BY <2>1, Shapes DEF OnHold, Away
<1> QED BY <1>1, StockInvariance, LotInvariance, PTL

\* A lot that is closed or scrapped owns nothing that still waits for a decision.
THEOREM ClosedLotsEmpty ==
    ASSUME OneDesk
    PROVE  Spec => []ClosedOwnsNothing
<1>1. SInv /\ LInv => ClosedOwnsNothing
  <2> SUFFICES ASSUME SInv, LInv, NEW d \in Lot, db.lot[d].state \in {"CLOSED", "SCRAP"}
               PROVE  \A b \in {"QC_HOLD", "REWORK", "QC_PENDING"} : Owned(db, d, b) = 0
    BY DEF ClosedOwnsNothing
  <2>1. LotShape(db.lot[d], db.own[d])
    BY DEF LInv, LotsInShape
  <2>2. OnHold(db.own[d]) = 0 /\ Reworked(db.own[d]) = 0
    BY <2>1, Shapes
  <2>3. /\ db.own[d]["read"]["REWORK"] >= 0 /\ db.own[d]["read"]["QC_PENDING"] >= 0
        /\ db.own[d]["read"]["REWORK"] \in Int /\ db.own[d]["read"]["QC_PENDING"] \in Int
    <3>1. db \in Tables /\ ReworkOnce
      BY DEF SInv, TypeOK
    <3> QED BY <3>1, BalanceTypes DEF ReworkOnce, Owned
  <2> QED BY <2>2, <2>3 DEF OnHold, Reworked, Owned
<1> QED BY <1>1, StockInvariance, LotInvariance, PTL

\* A lot that waits for final QC has the stock to check.
THEOREM ReadyLotsStocked ==
    ASSUME OneDesk
    PROVE  Spec => []ReadyHasRework
<1>1. LInv => ReadyHasRework
  <2> SUFFICES ASSUME LInv, NEW d \in Lot, db.lot[d].state = "REWORK_READY_FOR_QC"
               PROVE  Owned(db, d, "REWORK") + Owned(db, d, "QC_PENDING") = db.lot[d].rem
    BY DEF ReadyHasRework
  <2>1. LotShape(db.lot[d], db.own[d])
    BY DEF LInv, LotsInShape
  <2> QED BY <2>1, Shapes DEF Reworked, Owned
<1> QED BY <1>1, LotInvariance, PTL

\* No decision, promotion or reversal reopens a lot that is closed or scrapped.
THEOREM ClosedLotsStay ==
    ASSUME OneDesk
    PROVE  Spec => ClosedStays
<1> DEFINE Stays == \A d \in Lot : db.lot[d].state \in {"CLOSED", "SCRAP"} =>
                                     db'.lot[d].state = db.lot[d].state
<1>1. SInv /\ LInv /\ [Next]_<<vars, shift>> => [Stays]_vars
  <2> SUFFICES ASSUME SInv, LInv, [Next]_<<vars, shift>>,
                      NEW d \in Lot, db.lot[d].state \in {"CLOSED", "SCRAP"}
               PROVE  db'.lot[d].state = db.lot[d].state
    OBVIOUS
  <2>1. CASE db' = db
    BY <2>1
  <2>2. ASSUME NEW t \in Tx, LotsDone(t, db, db') PROVE db'.lot[d].state = db.lot[d].state
    <3>1. TakenFrom(req[t].op) \cap {"CLOSED", "SCRAP"} = {}
      BY DEF TakenFrom
    <3> QED BY <2>2, <3>1 DEF LotsDone, LotDone, Kept, Voided, SameLot, Drawn, Settled
  <2> QED BY <2>1, <2>2, StepKeepsLots
<1> QED BY <1>1, StockInvariance, LotInvariance, PTL DEF Spec, ClosedStays

\* Where also the same user reverses QC, a reversed entry leaves no lot behind: neither
\* one that a classification nor one that rework draws while it is reversed.
THEOREM ReversedLeavesNone ==
    ASSUME OneDesk, OneQcDesk
    PROVE  Spec => []ReversedLeavesNoLot
<1>1. Init => HeldStands /\ ReversedLeavesNoLot
  BY LotsFirst
<1>2. SInv /\ LInv /\ SInv' /\ HeldStands /\ ReversedLeavesNoLot /\ [Next]_<<vars, shift>>
        => HeldStands' /\ ReversedLeavesNoLot'
  BY StepKeepsReversed
<1> QED BY <1>1, <1>2, StockInvariance, LotInvariance, PTL DEF Spec

\* Where one user decides on held goods and reverses QC and one supervisor on rework, the
\* handlers implement RejectedGoods: whatever runs at once, each commit posts rejects,
\* decides on goods that wait, splits a lot without making goods, voids all lots of an
\* entry, or changes nothing that waits.
THEOREM LotsImplementGoods ==
    ASSUME OneDesk, OneQcDesk
    PROVE  Spec => ImplementsGoods
<1>1. Init => LotGoods!Init
  <2> SUFFICES ASSUME Init PROVE LotGoods!Init
    OBVIOUS
  <2>0. PICK place \in [FirstLot -> FirstPlace] : db = TablesInit(place)
    BY DEF Init
  <2>1. db \in Tables /\ LotRowsOK(db) /\ \A d \in Lot : ~db.lot[d].void
    <3>1. \A q \in Entry : db.entry[q].state # "reversed"
      BY <2>0 DEF TablesInit, OldEntry, NoEntry
    <3>2. LInv /\ TypeOK
      BY LotsFirst, InitHolds DEF SInv
    <3>3. LotRowsOK(db) /\ db \in Tables
      BY <3>2, LotInvariantParts DEF TypeOK
    <3>4. ASSUME NEW d \in Lot PROVE EntryOf[d] \in Entry
      BY StockAssumption
    <3> QED BY <3>1, <3>3, <3>4 DEF LotRowsOK
  <2>2. ASSUME NEW d \in Lot PROVE db.lot[d].state \notin {"SCRAP", "CLOSED"}
    <3>1. CASE d \in FirstLot
      <4> DEFINE st == place[d][1]
      <4>1. st \in LotState \ {"SCRAP", "CLOSED"} /\ OldQty \in Nat
        <5>1. place[d] \in FirstPlace
          BY <3>1
        <5> QED BY <5>1, StockAssumption DEF FirstPlace, LotState
      <4>2. db.lot[d] = NewLotRow(st, OldQty)
        BY <2>0, <3>1 DEF TablesInit
      <4> HIDE DEF st
      <4>3. NewLotRow(st, OldQty).state = st
        BY <4>1, NewLotRows
      <4> QED BY <4>1, <4>2, <4>3
    <3>2. CASE d \notin FirstLot
      BY <2>0, <3>2 DEF TablesInit, NoLotRow
    <3> QED BY <3>1, <3>2
  <2>3. ASSUME NEW d \in Lot
        PROVE  /\ LotStage[d] \in {"none", "open"} /\ LotWaiting[d] \in Nat
               /\ LotWaiting[d] > 0 <=> LotStage[d] = "open"
    <3> DEFINE row == db.lot[d]
               n == WaitingOf(row, db.own[d])
    <3>1. /\ row.rem \in Nat /\ n = (IF row.void THEN 0 ELSE row.rem) /\ ~row.void
          /\ StageOf(row) = "none" <=> row.state = "absent"
          /\ row.state \notin {"absent", "SCRAP", "CLOSED"} /\ ~row.void => StageOf(row) = "open"
          /\ n > 0 <=> StageOf(row) = "open"
          /\ row.state \notin {"SCRAP", "CLOSED"}
      BY <2>1, <2>2, LotSeen DEF LotRowsOK
    <3>2. LotStage[d] = StageOf(row) /\ LotWaiting[d] = n
      BY DEF LotStage, LotWaiting
    <3> HIDE DEF row, n
    <3> QED BY <3>1, <3>2
  <2>4. LotStage \in [Lot -> {"none", "open"}] /\ LotWaiting \in [Lot -> Nat]
    BY <2>3 DEF LotStage, LotWaiting
  <2> QED BY <2>3, <2>4 DEF LotGoods!Init
<1>2. Init => HeldStands /\ ReversedLeavesNoLot
  BY LotsFirst
<1>3. SInv /\ LInv /\ SInv' /\ HeldStands /\ ReversedLeavesNoLot /\ [Next]_<<vars, shift>>
        => HeldStands' /\ ReversedLeavesNoLot'
  BY StepKeepsReversed
<1>4. SInv /\ LInv /\ SInv' /\ HeldStands /\ [Next]_<<vars, shift>>
        => [LotGoods!Next]_<<LotStage, LotWaiting>>
  <2> SUFFICES ASSUME SInv, LInv, SInv', HeldStands, [Next]_<<vars, shift>>,
                      ~UNCHANGED <<LotStage, LotWaiting>>
               PROVE  LotGoods!Next
    OBVIOUS
  <2>1. db' \in Tables
    <3>1. TypeOK'
      BY DEF SInv
    <3> QED BY <3>1 DEF TypeOK
  <2>2. db' = db \/ \E t \in Tx : \E op : Write(t, op)
    <3>1. UNCHANGED vars \/ \E t \in Tx : StepOf(t)
      BY StepForms
    <3> QED BY <3>1 DEF vars, StepOf, Arrive, Begin, BeginReading, Advances
  <2>3. db' # db
    BY DEF LotStage, LotWaiting
  <2>4. ~(\A d \in Lot : LotGoods!Same(d))
    <3> SUFFICES ASSUME \A d \in Lot : LotGoods!Same(d) PROVE FALSE
      OBVIOUS
    <3>1. \A d \in Lot : LotStage'[d] = LotStage[d] /\ LotWaiting'[d] = LotWaiting[d]
      BY DEF LotGoods!Same
    <3>2. LotStage' = LotStage
      BY <3>1 DEF LotStage
    <3>3. LotWaiting' = LotWaiting
      BY <3>1 DEF LotWaiting
    <3> QED BY <3>2, <3>3
  <2> QED BY <2>1, <2>2, <2>3, <2>4, WriteOfGoods
<1> QED BY <1>1, <1>2, <1>3, <1>4, StockInvariance, LotInvariance,
           PTL DEF Spec, ImplementsGoods, LotGoods!Spec
==============================================================================
