---------------------------- MODULE LockingProofs -----------------------------
(***************************************************************************)
(* What the order of the row locks gives, for every value of the           *)
(* constants.  Handlers that lock the order, then the item, then one more  *)
(* row do not wait for one another in a cycle.  Handlers that prepare,     *)
(* confirm and delete dispatches validate what is still true when they     *)
(* write, and so act as if each ran alone: Fulfilment refines              *)
(* SerialFulfilment.                                                       *)
(***************************************************************************)
EXTENDS FulfilmentProofs, SumTheorems

\* The next row of such a handler ranks above all it has locked so far.
LEMMA NextRank ==
    ASSUME IInv, NEW t \in Tx, ~Idle(t), req[t].op \in OrderFirstOps
    PROVE  LET n == Reached(req[t].op, at[t])
           IN  /\ n \in 0 .. 3 /\ at[t] \in 1 .. 5
               /\ n <= Reached(req[t].op, at[t] + 1)
               /\ at[t] = 1 => n = 0
               /\ \A k \in Wanted(t) : /\ k[1] \in Row /\ Rank(k[1]) = n + 1
                                       /\ Reached(req[t].op, at[t] + 1) = n + 1
<1> DEFINE r == req[t]
           i == at[t]
           n == Reached(r.op, i)
<1>1. /\ r \in Request /\ i \in 1 .. Len(Plan(r.op)) /\ Step(t) = Plan(r.op)[i]
  BY DEF IInv, InPlan, Step
<1>2. CASE r.op = "post"
  <2>1. /\ r \in PostRequest /\ r.d \in Dispatch /\ Plan(r.op) = PostPlan /\ i \in 1 .. 5
    BY <1>1, <1>2, RequestForms DEF Plan, PostPlan
  <2>2. /\ i = 1 => Step(t) = "so" /\ n = 0 /\ Reached(r.op, i + 1) = 1
        /\ i = 2 => Step(t) = "item" /\ n = 1 /\ Reached(r.op, i + 1) = 2
        /\ i = 3 => Step(t) = "read" /\ n = 2 /\ Reached(r.op, i + 1) = 2
        /\ i = 4 => Step(t) = "draft" /\ n = 2 /\ Reached(r.op, i + 1) = 3
        /\ i = 5 => Step(t) = "write" /\ n = 3 /\ Reached(r.op, i + 1) = 4
    BY <1>1, <1>2, <2>1 DEF PostPlan, Reached
  <2>3. \A k \in Wanted(t) : /\ k[1] \in Row /\ Rank(k[1]) = n + 1
                             /\ Reached(r.op, i + 1) = n + 1
    <3> SUFFICES ASSUME NEW k \in Wanted(t)
                 PROVE  k[1] \in Row /\ Rank(k[1]) = n + 1 /\ Reached(r.op, i + 1) = n + 1
      OBVIOUS
    <3>1. CASE i = 1
      <4>1. k[1] = SoOf[LineOf[r.d]]
        BY <1>2, <2>2, <3>1 DEF Wanted, Wants, SoOfRequest, LineOfRequest
      <4> QED BY <2>1, <2>2, <3>1, <4>1, TablesAssumption, RowAssumption DEF Rank
    <3>2. CASE i = 2
      <4>1. k[1] = ItemOf[LineOf[r.d]]
        BY <1>2, <2>2, <3>2 DEF Wanted, Wants, LineOfRequest
      <4> QED BY <2>1, <2>2, <3>2, <4>1, TablesAssumption, RowAssumption DEF Rank
    <3>3. CASE i = 4
      <4>1. k[1] = DraftOf(snap[t], LineOf[r.d]) /\ Drafts(snap[t], LineOf[r.d]) # {}
        BY <2>2, <3>3 DEF Wanted, Wants
      <4>2. k[1] \in Dispatch
        BY <2>1, <4>1, TablesAssumption, DraftChosen
      <4> QED BY <2>2, <3>3, <4>2, RowAssumption DEF Rank
    <3>4. CASE i \in {3, 5}
      BY <2>2, <3>4 DEF Wanted, Wants
    <3> QED BY <2>1, <3>1, <3>2, <3>3, <3>4
  <2> QED BY <2>1, <2>2, <2>3
<1>3. CASE r.op \in {"reverse", "qcReverse"}
  <2>1. /\ r.op = "reverse" => r \in ReverseRequest /\ r.d \in Dispatch
        /\ r.op = "qcReverse" => r \in QcRequest /\ r.q \in QcEntry
        /\ LineOfRequest(r) \in Line /\ SoOfRequest(r) = SoOf[LineOfRequest(r)]
    BY <1>1, <1>3, RequestForms, TablesAssumption DEF QcRequest, LineOfRequest, SoOfRequest
  <2>2. /\ i \in 1 .. 5
        /\ i = 1 => Step(t) = "read" /\ n = 0 /\ Reached(r.op, i + 1) = 0
        /\ i = 2 => Step(t) = "so" /\ n = 0 /\ Reached(r.op, i + 1) = 1
        /\ i = 3 => Step(t) = "item" /\ n = 1 /\ Reached(r.op, i + 1) = 2
        /\ i = 4 => /\ Step(t) = IF r.op = "reverse" THEN "dispatch" ELSE "qc"
                    /\ n = 2 /\ Reached(r.op, i + 1) = 3
        /\ i = 5 => Step(t) = "write" /\ n = 3 /\ Reached(r.op, i + 1) = 4
    BY <1>1, <1>3 DEF Plan, ReversePlan, QcReversePlan, Reached
  <2>3. \A k \in Wanted(t) : /\ k[1] \in Row /\ Rank(k[1]) = n + 1
                             /\ Reached(r.op, i + 1) = n + 1
    <3> SUFFICES ASSUME NEW k \in Wanted(t)
                 PROVE  k[1] \in Row /\ Rank(k[1]) = n + 1 /\ Reached(r.op, i + 1) = n + 1
      OBVIOUS
    <3>1. CASE i = 2
      <4>1. k[1] = SoOf[LineOfRequest(r)]
        BY <2>1, <2>2, <3>1 DEF Wanted, Wants
      <4> QED BY <2>1, <2>2, <3>1, <4>1, TablesAssumption, RowAssumption DEF Rank
    <3>2. CASE i = 3
      <4>1. k[1] = ItemOf[LineOfRequest(r)]
        BY <2>2, <3>2 DEF Wanted, Wants
      <4> QED BY <2>1, <2>2, <3>2, <4>1, TablesAssumption, RowAssumption DEF Rank
    <3>3. CASE i = 4
      <4>1. k[1] \in Dispatch \cup QcEntry
        BY <1>3, <2>1, <2>2, <3>3 DEF Wanted, Wants
      <4> QED BY <2>2, <3>3, <4>1, RowAssumption DEF Rank
    <3>4. CASE i \in {1, 5}
      BY <2>2, <3>4 DEF Wanted, Wants
    <3> QED BY <2>2, <3>1, <3>2, <3>3, <3>4
  <2> QED BY <2>2, <2>3
<1>4. CASE r.op \in {"status", "cancel"}
  <2>1. SoOfRequest(r) \in SO
    BY <1>1, <1>4, RequestForms DEF StatusRequest, CancelRequest, SoOfRequest
  <2>2. /\ i \in 1 .. 3
        /\ i = 1 => Step(t) = "read" /\ n = 0 /\ Reached(r.op, i + 1) = 0
        /\ i = 2 => Step(t) = "so" /\ n = 0 /\ Reached(r.op, i + 1) = 1
        /\ i = 3 => Step(t) = "write" /\ n = 1 /\ Reached(r.op, i + 1) = 2
    BY <1>1, <1>4 DEF Plan, StatusPlan, Reached
  <2>3. \A k \in Wanted(t) : k[1] = SoOfRequest(r) /\ i = 2
    BY <2>2 DEF Wanted, Wants
  <2> QED BY <2>1, <2>2, <2>3, RowAssumption DEF Rank
<1> QED BY <1>2, <1>3, <1>4 DEF OrderFirstOps

\* The rows of other transactions, and what they have reached, stay as they are.
LEMMA RankBystander ==
    ASSUME IInv, LockedByRank, NEW u \in Tx, NEW r \in Row,
           UNCHANGED <<held[u], req[u], at[u]>>, held'[u][r] # "-"
    PROVE  ~Idle(u)' /\ (req'[u].op \in OrderFirstOps => Rank(r) <= Reached(req'[u].op, at'[u]))
BY DEF LockedByRank, Idle

\* COMMIT and ROLLBACK let go of everything.
LEMMA FinishByRank ==
    ASSUME IInv, LockedByRank, NEW t \in Tx, NEW a, Finish(t, a)
    PROVE  LockedByRank'
<1>1. /\ \A r \in Row : held'[t][r] = "-"
      /\ \A u \in Tx \ {t} : UNCHANGED <<held[u], req[u], at[u]>>
  BY DEF Finish, Unlocked, IInv, TypeOK
<1>2. \A u \in Tx : \A r \in Row : held'[u][r] # "-" =>
        ~Idle(u)' /\ (req'[u].op \in OrderFirstOps => Rank(r) <= Reached(req'[u].op, at'[u]))
  BY <1>1, RankBystander
<1> QED BY <1>2 DEF LockedByRank

\* A granted lock is of the next rank, any other step moves on with what it has.
LEMMA AdvanceByRank ==
    ASSUME IInv, LockedByRank, NEW t \in Tx, ~Idle(t),
           req' = req, at' = [at EXCEPT ![t] = @ + 1],
           \A u \in Tx \ {t} : held'[u] = held[u],
           \A r \in Row : held'[t][r] = held[t][r] \/ \E k \in Wanted(t) : k[1] = r
    PROVE  LockedByRank'
<1>1. /\ \A u \in Tx \ {t} : UNCHANGED <<held[u], req[u], at[u]>>
      /\ at'[t] = at[t] + 1 /\ req'[t] = req[t]
  BY DEF IInv, TypeOK
<1>2. ASSUME NEW r \in Row, held'[t][r] # "-"
      PROVE  ~Idle(t)' /\ (req'[t].op \in OrderFirstOps => Rank(r) <= Reached(req'[t].op, at'[t]))
  <2>1. at[t] \in 0 .. 5 /\ at[t] # 0
    BY DEF IInv, TypeOK, Idle
  <2>2. ~Idle(t)'
    BY <1>1, <2>1 DEF Idle
  <2>3. ASSUME req[t].op \in OrderFirstOps PROVE Rank(r) <= Reached(req[t].op, at[t] + 1)
    <3> DEFINE n == Reached(req[t].op, at[t])
               m == Reached(req[t].op, at[t] + 1)
    <3>1. /\ n \in 0 .. 3 /\ n <= m
          /\ \A k \in Wanted(t) : Rank(k[1]) = n + 1 /\ m = n + 1
      BY <2>3, NextRank
    <3>2. CASE held'[t][r] = held[t][r]
      <4>1. Rank(r) <= n /\ Rank(r) \in 1 .. 3
        BY <1>2, <2>3, <3>2 DEF LockedByRank, Rank
      <4>2. m \in Int
        BY <2>1 DEF Reached
      <4> HIDE DEF n, m
      <4>3. Rank(r) <= m
        BY <3>1, <4>1, <4>2
      <4> QED BY <4>3 DEF m
    <3>3. CASE \E k \in Wanted(t) : k[1] = r
      <4>1. m \in Int
        BY <2>1 DEF Reached
      <4> HIDE DEF n, m
      <4>2. Rank(r) <= m
        BY <3>1, <3>3, <4>1
      <4> QED BY <4>2 DEF m
    <3> QED BY <3>2, <3>3
  <2> QED BY <1>1, <2>2, <2>3
<1>3. \A u \in Tx : \A r \in Row : held'[u][r] # "-" =>
        ~Idle(u)' /\ (req'[u].op \in OrderFirstOps => Rank(r) <= Reached(req'[u].op, at'[u]))
  BY <1>1, <1>2, RankBystander
<1> QED BY <1>3 DEF LockedByRank

\* Every step keeps the ranks.
LEMMA StepByRank ==
    ASSUME IInv, LockedByRank, [Next]_vars
    PROVE  LockedByRank'
<1>1. CASE UNCHANGED vars
  BY <1>1 DEF vars, LockedByRank, Idle
<1>2. ASSUME NEW t \in Tx, NEW r \in Request, Arrive(t, r) PROVE LockedByRank'
  <2>1. /\ \A u \in Tx \ {t} : UNCHANGED <<held[u], req[u], at[u]>>
        /\ held' = held /\ Idle(t)
    BY <1>2 DEF Arrive, Begin, IInv, TypeOK
  <2>2. \A s \in Row : held'[t][s] = "-"
    BY <2>1 DEF LockedByRank
  <2>3. \A u \in Tx : \A s \in Row : held'[u][s] # "-" =>
          ~Idle(u)' /\ (req'[u].op \in OrderFirstOps => Rank(s) <= Reached(req'[u].op, at'[u]))
    BY <2>1, <2>2, RankBystander
  <2> QED BY <2>3 DEF LockedByRank
<1>3. ASSUME NEW t \in Tx, Lock(t) PROVE LockedByRank'
  <2>1. ~Idle(t)
    BY <1>3 DEF Lock, Wanted, Wants, Step
  <2>2. PICK k \in Wanted(t) : Take(t, k[1], k[2])
    BY <1>3 DEF Lock
  <2>3. \A r \in Row : held'[t][r] = held[t][r] \/ r = k[1]
    BY <2>2 DEF Take, IInv, TypeOK
  <2>4. \A u \in Tx \ {t} : held'[u] = held[u]
    BY <2>2 DEF Take, IInv, TypeOK
  <2> QED BY <2>1, <2>2, <2>3, <2>4, AdvanceByRank DEF Take
<1>4. ASSUME NEW t \in Tx, LockNothing(t) \/ Read(t) PROVE LockedByRank'
  <2>1. ~Idle(t)
    BY <1>4 DEF LockNothing, Read, Step, LockSteps
  <2>2. req' = req /\ held' = held /\ at' = [at EXCEPT ![t] = @ + 1]
    BY <1>4 DEF LockNothing, Pass, Read, ReadView
  <2> QED BY <2>1, <2>2, AdvanceByRank
<1>5. ASSUME NEW t \in Tx, NEW a, Finish(t, a) PROVE LockedByRank'
  BY <1>5, FinishByRank
<1>6. ASSUME NEW t \in Tx, Run(t), ~LockNothing(t), ~Read(t) PROVE \E a : Finish(t, a)
  BY <1>6 DEF Run, NotFound, RefuseAtRead, KeepStatus, RefuseAtWrite, Writes, PostDispatch,
              LockDispatch, FinalizeDraft, DeleteDispatch, ReverseDispatch, PutStatus,
              CancelApproval, PostQc, ReverseQc, Write, Refuse, Commit
<1>7. ASSUME NEW t \in Tx, DeadlockVictim(t) \/ Expire(t) PROVE \E a : Finish(t, a)
  BY <1>7 DEF DeadlockVictim, Expire, Rollback
<1> QED BY <1>1, <1>2, <1>3, <1>4, <1>5, <1>6, <1>7 DEF Next

(***************************************************************************)
(* The handlers of dispatchWriteLocks.js lock by rank: SalesOrder, Item,   *)
(* then the dispatch or the QC entry.                                      *)
(***************************************************************************)
THEOREM RankInvariance == Spec => []LockedByRank
<1>1. Init => IInv /\ LockedByRank
  <2>1. Init => LockedByRank
    BY DEF Init, EngineInit, Unlocked, LockedByRank
  <2> QED BY <2>1, InitHolds
<1>2. IInv /\ LockedByRank /\ [Next]_vars => IInv' /\ LockedByRank'
  BY StepHolds, StepByRank
<1> QED BY <1>1, <1>2, PTL DEF Spec

\* Such a handler waits for one that has come further.
LEMMA WaitsUpward ==
    ASSUME IInv, LockedByRank, NEW S \in SUBSET Tx, Stuck(S),
           \A t \in S : req[t].op \in OrderFirstOps, NEW t \in S
    PROVE  /\ Reached(req[t].op, at[t]) \in 0 .. 3
           /\ \E u \in S : Reached(req[u].op, at[u]) > Reached(req[t].op, at[t])
<1>1. PICK u \in S : u \in WaitsFor(t)
  BY DEF Stuck
<1>2. PICK k \in Wanted(t) : u \in Blockers(t, k[1], k[2])
  BY <1>1 DEF WaitsFor
<1>3. ~Idle(t) /\ held[u][k[1]] # "-"
  BY <1>2 DEF Wanted, Wants, Step, Blockers, Conflict
<1>4. /\ Reached(req[t].op, at[t]) \in 0 .. 3
      /\ k[1] \in Row /\ Rank(k[1]) = Reached(req[t].op, at[t]) + 1
  BY <1>3, NextRank
<1>5. Rank(k[1]) <= Reached(req[u].op, at[u]) /\ ~Idle(u)
  BY <1>3, <1>4 DEF LockedByRank
<1>6. Reached(req[u].op, at[u]) \in 0 .. 3
  BY <1>5, NextRank
<1> QED BY <1>4, <1>5, <1>6

(***************************************************************************)
(* In a cycle of waits one handler does not keep the documented order      *)
(* (dispatchWriteLocks.js 5): preparing, reversing, QC reversal and status *)
(* changes never deadlock one another, however many run at once.           *)
(***************************************************************************)
THEOREM OrderFirstNeverDeadlocks == Spec => []NoWaitCycle
<1>1. IInv /\ LockedByRank => NoWaitCycle
  <2> SUFFICES ASSUME IInv, LockedByRank, NEW S \in SUBSET Tx, Stuck(S),
                      \A t \in S : req[t].op \in OrderFirstOps
               PROVE  FALSE
    BY DEF NoWaitCycle, Cycle
  <2> DEFINE n(t) == Reached(req[t].op, at[t])
  <2>1. \A t \in S : n(t) \in 0 .. 3 /\ \E u \in S : n(u) > n(t)
    BY WaitsUpward
  <2>2. \E t \in S : TRUE
    BY DEF Stuck
  <2> HIDE DEF n
  <2>3. \E t \in S : n(t) >= 1
    BY <2>1, <2>2
  <2>4. \E t \in S : n(t) >= 2
    BY <2>1, <2>3
  <2>5. \E t \in S : n(t) >= 3
    BY <2>1, <2>4
  <2> QED BY <2>1, <2>5
<1> QED BY <1>1, Invariance, RankInvariance, PTL

(***************************************************************************)
(* Serial equivalence: tables that agree on a line are the same to the     *)
(* handlers of the line.                                                   *)
(***************************************************************************)

\* They show the same drafts, quantities and QC (getSoItemDispatchNet, dispatchQcCap.js).
LEMMA AgreeSame ==
    ASSUME NEW v \in Tables, NEW w \in Tables, NEW l \in Line, AgreeOn(v, w, l)
    PROVE  /\ Drafts(v, l) = Drafts(w, l) /\ DraftOf(v, l) = DraftOf(w, l)
           /\ OperationalNet(v, l) = OperationalNet(w, l)
           /\ ConfirmedNet(v, l) = ConfirmedNet(w, l)
           /\ Accepted(v, l) = Accepted(w, l) /\ QcPending(v, l) = QcPending(w, l)
<1>1. /\ Drafts(v, l) = Drafts(w, l)
      /\ Confirmations(v, l) = Confirmations(w, l)
      /\ Rows(v, l) = Rows(w, l)
  BY DEF AgreeOn, Drafts, Confirmations, Rows
<1>2. DraftOf(v, l) = DraftOf(w, l)
  BY <1>1 DEF DraftOf
<1>3. \A d \in DispatchesOf(l) : Nets(v)[d] = Nets(w)[d]
  BY DEF AgreeOn, Nets, Net, DispatchesOf
<1>4. /\ Rows(v, l) \subseteq DispatchesOf(l) /\ Confirmations(v, l) \subseteq DispatchesOf(l)
      /\ IsFiniteSet(Rows(v, l)) /\ IsFiniteSet(Confirmations(v, l))
  <2>1. /\ Rows(v, l) \subseteq DispatchesOf(l) /\ Confirmations(v, l) \subseteq DispatchesOf(l)
        /\ DispatchesOf(l) \subseteq Dispatch
    BY DEF Rows, Drafts, Confirmations, DispatchesOf
  <2> QED BY <2>1, TablesAssumption, FS_Subset
<1>5. OperationalNet(v, l) = OperationalNet(w, l)
  <2>1. SumFunctionOnSet(Nets(v), Rows(v, l)) = SumFunctionOnSet(Nets(w), Rows(v, l))
    BY <1>3, <1>4, SumSame
  <2> QED BY <1>1, <2>1 DEF OperationalNet
<1>6. ConfirmedNet(v, l) = ConfirmedNet(w, l)
  <2>1. SumFunctionOnSet(Nets(v), Confirmations(v, l)) = SumFunctionOnSet(Nets(w), Confirmations(v, l))
    BY <1>3, <1>4, SumSame
  <2> QED BY <1>1, <2>1 DEF ConfirmedNet
<1>7. Accepted(v, l) = Accepted(w, l)
  BY DEF AgreeOn, Accepted, ActiveEntries
<1> QED BY <1>1, <1>2, <1>5, <1>6, <1>7 DEF QcPending

\* They close the order alike (salesOrderOperationalAutoClose.js).
LEMMA AgreeClose ==
    ASSUME DispatchOnly, NEW v \in Tables, NEW w \in Tables, NEW l \in Line, AgreeOn(v, w, l),
           NEW z
    PROVE  AutoClose(v, z, SoOf[l]) = AutoClose(w, z, SoOf[l])
<1>1. LinesOf(SoOf[l]) = {l}
  BY DEF DispatchOnly, LinesOf
<1>2. CloseDue(v, SoOf[l]) <=> CloseDue(w, SoOf[l])
  BY <1>1, AgreeSame DEF CloseDue, AgreeOn
<1> QED BY <1>2 DEF AutoClose

\* What a changed row, with or without its stock row, leaves as it was.
LEMMA PutRest ==
    ASSUME NEW w \in Tables, NEW d \in Dispatch, NEW x \in DispatchRow,
           NEW i \in Item, NEW n \in Int
    PROVE  /\ PutRow(w, d, x).status = w.status /\ PutRow(w, d, x).qc = w.qc
           /\ PutRow(w, d, x).seen = w.seen
           /\ PutRowAndStock(w, d, x, i, n).status = w.status
           /\ PutRowAndStock(w, d, x, i, n).qc = w.qc
           /\ PutRowAndStock(w, d, x, i, n).seen = w.seen
BY DEF PutRow, PutRowAndStock, Tables

\* Closing an order sets its status and nothing else.
LEMMA CloseRest ==
    ASSUME NEW v, NEW w \in Tables, NEW o \in SO
    PROVE  /\ AutoClose(v, w, o).disp = w.disp /\ AutoClose(v, w, o).qc = w.qc
           /\ AutoClose(v, w, o).seen = w.seen
           /\ \A p \in SO : p # o => AutoClose(v, w, o).status[p] = w.status[p]
BY DEF AutoClose, SetStatus, Tables

\* Tables that agree on a line still do after the same change of a row.
LEMMA PutAgree ==
    ASSUME NEW v \in Tables, NEW w \in Tables, NEW l \in Line, AgreeOn(v, w, l),
           NEW d \in Dispatch, NEW x \in DispatchRow, NEW i \in Item, NEW m \in Int, NEW n \in Int
    PROVE  /\ AgreeOn(PutRow(v, d, x), PutRow(w, d, x), l)
           /\ AgreeOn(PutRowAndStock(v, d, x, i, m), PutRowAndStock(w, d, x, i, n), l)
<1>1. /\ \A e \in DispatchesOf(l) : [v.disp EXCEPT ![d] = x][e] = [w.disp EXCEPT ![d] = x][e]
      /\ v.status[SoOf[l]] = w.status[SoOf[l]] /\ v.qc = w.qc /\ v.seen = w.seen
  BY DEF AgreeOn, DispatchesOf, Tables
<1>2. /\ PutRow(v, d, x).disp = [v.disp EXCEPT ![d] = x]
      /\ PutRow(w, d, x).disp = [w.disp EXCEPT ![d] = x]
      /\ PutRowAndStock(v, d, x, i, m).disp = [v.disp EXCEPT ![d] = x]
      /\ PutRowAndStock(w, d, x, i, n).disp = [w.disp EXCEPT ![d] = x]
  BY RowChange, RowAndStockChange
<1>3. /\ PutRow(v, d, x).status = v.status /\ PutRow(w, d, x).status = w.status
      /\ PutRow(v, d, x).qc = v.qc /\ PutRow(w, d, x).qc = w.qc
      /\ PutRow(v, d, x).seen = v.seen /\ PutRow(w, d, x).seen = w.seen
  BY PutRest, <1>2
<1>4. /\ PutRowAndStock(v, d, x, i, m).status = v.status /\ PutRowAndStock(w, d, x, i, n).status = w.status
      /\ PutRowAndStock(v, d, x, i, m).qc = v.qc /\ PutRowAndStock(w, d, x, i, n).qc = w.qc
      /\ PutRowAndStock(v, d, x, i, m).seen = v.seen /\ PutRowAndStock(w, d, x, i, n).seen = w.seen
  BY PutRest
<1> QED BY <1>1, <1>2, <1>3, <1>4 DEF AgreeOn

\* The requests that such handlers serve.
LEMMA DispatchRequests ==
    ASSUME DispatchOnly, NEW r \in Request
    PROVE  /\ r.op \in {"post", "lock", "finalize", "delete"} /\ r.d \in Dispatch
           /\ LineOf[r.d] \in Line /\ SoOfDispatch(r.d) = SoOf[LineOf[r.d]]
           /\ SoOf[LineOf[r.d]] \in SO /\ ItemOfDispatch(r.d) \in Item
           /\ r.op = "post" => r \in PostRequest /\ r.qty \in Nat
           /\ r.op # "post" => r \in DraftRequest
<1>1. r.op \in {"post", "lock", "finalize", "delete"}
  BY DEF DispatchOnly, DraftOps, Request
<1>2. /\ r.op = "post" => r \in PostRequest /\ r.d \in Dispatch
      /\ r.op # "post" => r \in DraftRequest /\ r.d \in Dispatch
  BY <1>1, RequestForms DEF DraftOps
<1>3. r \in PostRequest => r.qty \in Nat
  BY TablesAssumption DEF PostRequest, Positive
<1> QED BY <1>1, <1>2, <1>3, TablesAssumption DEF SoOfDispatch, ItemOfDispatch

\* Preparing a draft, seen as the change of one row.
LEMMA PrepareForm ==
    ASSUME NEW v \in Tables, NEW r \in PostRequest
    PROVE  \E d \in DispatchesOf(LineOf[r.d]) : \A w \in Tables : AgreeOn(v, w, LineOf[r.d]) =>
             \E x \in DispatchRow : /\ PrepareDraft(r, v, w) = PutRow(w, d, x)
                                    /\ PrepareDraft(r, w, w) = PutRow(w, d, x)
                                    /\ PrepareDraft(r, v, v) = PutRow(v, d, x)
<1> DEFINE l == LineOf[r.d]
<1>1. r.d \in Dispatch /\ r.qty \in Nat /\ l \in Line /\ r.d \in DispatchesOf(l)
  BY TablesAssumption DEF PostRequest, Positive, DispatchesOf
<1>2. CASE Drafts(v, l) = {}
  <2>1. NewDraft(r.qty) \in DispatchRow
    BY <1>1 DEF NewDraft, NoDispatch, DispatchRow, DispatchState
  <2>2. \A w \in Tables : AgreeOn(v, w, l) =>
          /\ PrepareDraft(r, v, w) = PutRow(w, r.d, NewDraft(r.qty))
          /\ PrepareDraft(r, w, w) = PutRow(w, r.d, NewDraft(r.qty))
          /\ PrepareDraft(r, v, v) = PutRow(v, r.d, NewDraft(r.qty))
    BY <1>1, <1>2, AgreeSame DEF PrepareDraft, PutRow
  <2> QED BY <1>1, <2>1, <2>2
<1>3. CASE Drafts(v, l) # {}
  <2> DEFINE e == DraftOf(v, l)
             x == RequantifiedRow(v.disp[e], r.qty)
  <2>1. e \in Dispatch /\ e \in DispatchesOf(l)
    BY <1>1, <1>3, DraftChosen DEF DispatchesOf
  <2>2. x \in DispatchRow
    BY <1>1, <2>1, RowTypes DEF Tables
  <2>3. ASSUME NEW w \in Tables, AgreeOn(v, w, l)
        PROVE  /\ PrepareDraft(r, v, w) = PutRow(w, e, x)
               /\ PrepareDraft(r, w, w) = PutRow(w, e, x)
               /\ PrepareDraft(r, v, v) = PutRow(v, e, x)
    <3>1. w.disp[e] = v.disp[e] /\ DraftOf(w, l) = e /\ Drafts(w, l) # {}
      BY <1>1, <1>3, <2>1, <2>3, AgreeSame DEF AgreeOn
    <3>2. /\ PrepareDraft(r, v, w) = [w EXCEPT !.disp[e] = RequantifiedRow(@, r.qty)]
          /\ PrepareDraft(r, w, w) = [w EXCEPT !.disp[e] = RequantifiedRow(@, r.qty)]
          /\ PrepareDraft(r, v, v) = [v EXCEPT !.disp[e] = RequantifiedRow(@, r.qty)]
      BY <1>3, <3>1 DEF PrepareDraft
    <3>3. /\ [w EXCEPT !.disp[e] = RequantifiedRow(@, r.qty)] = PutRow(w, e, x)
          /\ [v EXCEPT !.disp[e] = RequantifiedRow(@, r.qty)] = PutRow(v, e, x)
      BY <2>1, <3>1 DEF PutRow, Tables
    <3> HIDE DEF e, x
    <3> QED BY <3>2, <3>3
  <2> HIDE DEF e, x
  <2> QED BY <2>1, <2>2, <2>3
<1> QED BY <1>2, <1>3

\* Confirming, likewise: only the FG balance depends on more than the line.
LEMMA ConfirmForm ==
    ASSUME NEW v \in Tables, NEW w \in Tables, NEW r \in DraftRequest,
           AgreeOn(v, w, LineOf[r.d])
    PROVE  /\ Confirm(r, v, w) = Confirm(r, w, w)
           /\ \E x \in DispatchRow, m, n \in Int :
                /\ Confirm(r, w, w) = PutRowAndStock(w, r.d, x, ItemOfDispatch(r.d), n)
                /\ Confirm(r, v, v) = PutRowAndStock(v, r.d, x, ItemOfDispatch(r.d), m)
<1>1. r.d \in Dispatch /\ ItemOfDispatch(r.d) \in Item /\ v.disp[r.d] = w.disp[r.d]
  BY TablesAssumption DEF DraftRequest, ItemOfDispatch, AgreeOn, DispatchesOf
<1> DEFINE x == ConfirmedRow(w.disp[r.d])
           n == w.fg[ItemOfDispatch(r.d)] - w.disp[r.d].qty
           m == v.fg[ItemOfDispatch(r.d)] - v.disp[r.d].qty
<1>2. w.disp[r.d] \in DispatchRow /\ v.disp[r.d] \in DispatchRow /\ n \in Int /\ m \in Int
  BY <1>1 DEF Tables, DispatchRow
<1>3. x \in DispatchRow
  BY <1>2, RowTypes
<1>4. Confirm(r, v, w) = Confirm(r, w, w)
  BY <1>1 DEF Confirm
<1>5. /\ Confirm(r, w, w) = PutRowAndStock(w, r.d, x, ItemOfDispatch(r.d), n)
      /\ Confirm(r, v, v) = PutRowAndStock(v, r.d, x, ItemOfDispatch(r.d), m)
  BY <1>1 DEF Confirm, PutRowAndStock, Tables
<1> HIDE DEF x, n, m
<1> QED BY <1>2, <1>3, <1>4, <1>5

(***************************************************************************)
(* A handler that validates and writes on a view which agrees with the     *)
(* tables on its line does what it would do on the tables (dispatch.js     *)
(* 2813, 2910, 3182, 3385).                                                *)
(***************************************************************************)
LEMMA AgreeAnswer ==
    ASSUME DispatchOnly, NEW v \in Tables, NEW w \in Tables, NEW r \in Request,
           AgreeOn(v, w, LineOf[r.d])
    PROVE  /\ Readable(r, v) <=> Readable(r, w)
           /\ Allowed(r, v) <=> Allowed(r, w)
           /\ Written(r, v, w) = Written(r, w, w)
<1> DEFINE l == LineOf[r.d]
<1>1. /\ r.op \in {"post", "lock", "finalize", "delete"} /\ r.d \in Dispatch /\ l \in Line
      /\ SoOfDispatch(r.d) = SoOf[l] /\ SoOf[l] \in SO /\ ItemOfDispatch(r.d) \in Item
      /\ v.disp[r.d] = w.disp[r.d] /\ v.status[SoOf[l]] = w.status[SoOf[l]] /\ v.seen = w.seen
  BY DispatchRequests DEF AgreeOn, DispatchesOf
<1>2. OperationalNet(v, l) = OperationalNet(w, l) /\ Accepted(v, l) = Accepted(w, l)
  BY <1>1, AgreeSame
<1>3. CASE r.op = "post"
  <2>1. r \in PostRequest
    BY <1>3, DispatchRequests
  <2>2. Readable(r, v) <=> Readable(r, w)
    BY <1>3 DEF Readable
  <2>3. Allowed(r, v) <=> Allowed(r, w)
    BY <1>1, <1>2, <1>3 DEF Allowed, PostAllowed
  <2>4. PICK d \in DispatchesOf(l), x \in DispatchRow :
          /\ PrepareDraft(r, v, w) = PutRow(w, d, x) /\ PrepareDraft(r, w, w) = PutRow(w, d, x)
          /\ PrepareDraft(r, v, v) = PutRow(v, d, x)
    BY <2>1, PrepareForm
  <2>5. /\ PutRow(v, d, x) \in Tables /\ PutRow(w, d, x) \in Tables
        /\ AgreeOn(PutRow(v, d, x), PutRow(w, d, x), l)
    <3>1. d \in Dispatch /\ 0 \in Int
      BY DEF DispatchesOf
    <3> QED BY <1>1, <3>1, RowChange, PutAgree
  <2>6. AutoClose(PutRow(v, d, x), PutRow(w, d, x), SoOf[l]) =
        AutoClose(PutRow(w, d, x), PutRow(w, d, x), SoOf[l])
    BY <1>1, <2>5, AgreeClose
  <2>7. PostWrite(r, v, w) = PostWrite(r, w, w)
    BY <1>1, <2>4, <2>6 DEF PostWrite
  <2> QED BY <1>3, <2>2, <2>3, <2>7 DEF Written
<1>4. CASE r.op \in {"lock", "finalize"}
  <2>1. r \in DraftRequest
    BY <1>4, DispatchRequests
  <2>2. Readable(r, v) <=> Readable(r, w)
    BY <1>1, <1>4 DEF Readable, IsDraft
  <2>3. Allowed(r, v) <=> Allowed(r, w)
    <3>1. NetOfOthers(v, r.d) = NetOfOthers(w, r.d) /\ ShipCap(v, r.d) = ShipCap(w, r.d)
      BY <1>1, <1>2 DEF NetOfOthers, ShipCap, Net
    <3>2. ConfirmAllowed(r, v) <=> ConfirmAllowed(r, w)
      BY <1>1, <3>1 DEF ConfirmAllowed
    <3> QED BY <1>4, <3>2 DEF Allowed
  <2>4. Confirm(r, v, w) = Confirm(r, w, w)
    BY <2>1, ConfirmForm
  <2>5. PICK x \in DispatchRow, m \in Int, n \in Int :
          /\ Confirm(r, w, w) = PutRowAndStock(w, r.d, x, ItemOfDispatch(r.d), n)
          /\ Confirm(r, v, v) = PutRowAndStock(v, r.d, x, ItemOfDispatch(r.d), m)
    BY <2>1, ConfirmForm
  <2>6. /\ Confirm(r, v, v) \in Tables /\ Confirm(r, w, w) \in Tables
        /\ AgreeOn(Confirm(r, v, v), Confirm(r, w, w), l)
    <3> DEFINE i == ItemOfDispatch(r.d)
    <3>1. r.d \in Dispatch /\ i \in Item /\ l \in Line /\ AgreeOn(v, w, l)
      BY <1>1
    <3> HIDE DEF i, l
    <3>2. PutRowAndStock(v, r.d, x, i, m) \in Tables /\ PutRowAndStock(w, r.d, x, i, n) \in Tables
      BY <3>1, RowAndStockChange
    <3>3. AgreeOn(PutRowAndStock(v, r.d, x, i, m), PutRowAndStock(w, r.d, x, i, n), l)
      BY <3>1, PutAgree
    <3> QED BY <2>5, <3>2, <3>3 DEF i
  <2>7. FinalizeWrite(r, v, w) = FinalizeWrite(r, w, w) /\ LockWrite(r, v, w) = LockWrite(r, w, w)
    BY <1>1, <2>4, <2>6, AgreeClose DEF FinalizeWrite, LockWrite
  <2>8. Written(r, v, w) = Written(r, w, w)
    BY <1>4, <2>7 DEF Written
  <2> QED BY <2>2, <2>3, <2>8
<1>5. CASE r.op = "delete"
  <2>1. (Readable(r, v) <=> Readable(r, w)) /\ (Allowed(r, v) <=> Allowed(r, w))
    BY <1>1, <1>5 DEF Readable, IsDraft, Allowed, DeleteAllowed
  <2>2. Written(r, v, w) = Written(r, w, w)
    BY <1>5 DEF Written, DeleteWrite
  <2> QED BY <2>1, <2>2
<1> QED BY <1>1, <1>3, <1>4, <1>5

(***************************************************************************)
(* Only one handler at a time can write to a line, and it writes nowhere   *)
(* else but to the stock and the status of the order.                      *)
(***************************************************************************)

\* v and w differ in what belongs to line l, and in the FG balance.
DifferOn(v, w, l) ==
    /\ w.qc = v.qc /\ w.seen = v.seen
    /\ \A d \in Dispatch : LineOf[d] # l => w.disp[d] = v.disp[d]
    /\ \A o \in SO : o # SoOf[l] => w.status[o] = v.status[o]

\* Where the handlers write.
LEMMA WrittenOnLine ==
    ASSUME DispatchOnly, NEW v \in Tables, NEW w \in Tables, NEW r \in Request
    PROVE  DifferOn(w, Written(r, v, w), LineOf[r.d])
<1> DEFINE l == LineOf[r.d]
           y == Written(r, v, w)
<1>1. /\ r.op \in {"post", "lock", "finalize", "delete"} /\ r.d \in Dispatch /\ l \in Line
      /\ SoOfDispatch(r.d) = SoOf[l] /\ SoOf[l] \in SO /\ ItemOfDispatch(r.d) \in Item
      /\ r.op # "post" => r \in DraftRequest
      /\ r.op = "post" => r \in PostRequest
  BY DispatchRequests
<1>2. ASSUME NEW z \in Tables, DifferOn(w, z, l), NEW u PROVE DifferOn(w, AutoClose(u, z, SoOf[l]), l)
  BY <1>1, <1>2, CloseRest DEF DifferOn
<1>3. ASSUME NEW d \in Dispatch, LineOf[d] = l, NEW x \in DispatchRow, NEW i \in Item, NEW n \in Int
      PROVE  /\ PutRow(w, d, x) \in Tables /\ DifferOn(w, PutRow(w, d, x), l)
             /\ PutRowAndStock(w, d, x, i, n) \in Tables
             /\ DifferOn(w, PutRowAndStock(w, d, x, i, n), l)
  <2>1. /\ PutRow(w, d, x) \in Tables /\ PutRow(w, d, x).disp = [w.disp EXCEPT ![d] = x]
        /\ PutRowAndStock(w, d, x, i, n) \in Tables
        /\ PutRowAndStock(w, d, x, i, n).disp = [w.disp EXCEPT ![d] = x]
    BY RowChange, RowAndStockChange
  <2>2. /\ PutRow(w, d, x).status = w.status /\ PutRow(w, d, x).qc = w.qc
        /\ PutRow(w, d, x).seen = w.seen
        /\ PutRowAndStock(w, d, x, i, n).status = w.status
        /\ PutRowAndStock(w, d, x, i, n).qc = w.qc
        /\ PutRowAndStock(w, d, x, i, n).seen = w.seen
    BY PutRest
  <2>3. \A e \in Dispatch : LineOf[e] # l => [w.disp EXCEPT ![d] = x][e] = w.disp[e]
    BY <1>3 DEF Tables
  <2> HIDE DEF l, y
  <2> QED BY <2>1, <2>2, <2>3 DEF DifferOn
<1>4. CASE r.op = "post"
  <2>1. \E d \in Dispatch, x \in DispatchRow :
          LineOf[d] = l /\ PrepareDraft(r, v, w) = PutRow(w, d, x)
    <3>1. CASE Drafts(v, l) = {}
      <4>1. NewDraft(r.qty) \in DispatchRow
        <5>1. r.qty \in Nat
          BY <1>4, DispatchRequests
        <5> QED BY <5>1 DEF NewDraft, NoDispatch, DispatchRow, DispatchState
      <4>2. PrepareDraft(r, v, w) = PutRow(w, r.d, NewDraft(r.qty))
        BY <3>1 DEF PrepareDraft, PutRow
      <4> QED BY <1>1, <4>1, <4>2
    <3>2. CASE Drafts(v, l) # {}
      <4> DEFINE e == DraftOf(v, l)
                 x == RequantifiedRow(w.disp[e], r.qty)
      <4>1. e \in Dispatch /\ LineOf[e] = l
        BY <1>1, <3>2, DraftChosen
      <4>2. x \in DispatchRow
        BY <1>4, <4>1, DispatchRequests, RowTypes DEF Tables
      <4>3. PrepareDraft(r, v, w) = PutRow(w, e, x)
        BY <3>2, <4>1 DEF PrepareDraft, PutRow, Tables
      <4> HIDE DEF e, x
      <4> QED BY <4>1, <4>2, <4>3
    <3> QED BY <3>1, <3>2
  <2>2. PICK d \in Dispatch, x \in DispatchRow :
          LineOf[d] = l /\ PrepareDraft(r, v, w) = PutRow(w, d, x)
    BY <2>1
  <2>3. PrepareDraft(r, v, w) \in Tables /\ DifferOn(w, PrepareDraft(r, v, w), l)
    <3>1. 0 \in Int
      OBVIOUS
    <3> QED BY <1>1, <1>3, <2>2, <3>1
  <2>4. y = AutoClose(PrepareDraft(r, v, v), PrepareDraft(r, v, w), SoOf[l])
    BY <1>1, <1>4 DEF Written, PostWrite
  <2> QED BY <1>2, <2>3, <2>4
<1>5. CASE r.op \in {"lock", "finalize"}
  <2> DEFINE x == ConfirmedRow(w.disp[r.d])
             n == w.fg[ItemOfDispatch(r.d)] - v.disp[r.d].qty
  <2>1. w.disp[r.d] \in DispatchRow /\ n \in Int
    BY <1>1 DEF Tables, DispatchRow
  <2>2. x \in DispatchRow
    BY <2>1, RowTypes
  <2>3. Confirm(r, v, w) = PutRowAndStock(w, r.d, x, ItemOfDispatch(r.d), n)
    BY <1>1 DEF Confirm, PutRowAndStock, Tables
  <2>4. Confirm(r, v, w) \in Tables /\ DifferOn(w, Confirm(r, v, w), l)
    <3> HIDE DEF x, n
    <3> QED BY <1>1, <1>3, <2>1, <2>2, <2>3
  <2>5. y = Confirm(r, v, w) \/ y = AutoClose(Confirm(r, v, v), Confirm(r, v, w), SoOf[l])
    BY <1>1, <1>5 DEF Written, LockWrite, FinalizeWrite
  <2> QED BY <1>2, <2>4, <2>5
<1>6. CASE r.op = "delete"
  <2> DEFINE x == DeletedRow(w.disp[r.d])
  <2>1. x \in DispatchRow /\ y = PutRow(w, r.d, x)
    BY <1>1, <1>6, RowTypes DEF Written, DeleteWrite, PutRow, Tables
  <2> HIDE DEF x
  <2> QED BY <1>1, <1>3, <2>1
<1> QED BY <1>1, <1>4, <1>5, <1>6

\* The writer of a line holds its order, and its draft if there is one.
LEMMA LineOwner ==
    ASSUME DispatchOnly, IInv, NEW t \in Tx, Writes(t), NEW u \in Tx \ {t}, Viewed(u)
    PROVE  LineOf[req[t].d] # LineOf[req[u].d]
<1> SUFFICES ASSUME LineOf[req[t].d] = LineOf[req[u].d] PROVE FALSE
  OBVIOUS
<1> DEFINE l == LineOf[req[t].d]
           o == SoOf[l]
<1>1. /\ ~Idle(t) /\ ~Idle(u) /\ Step(t) = "write" /\ req[t] \in Request /\ req[u] \in Request
      /\ at[t] \in 1 .. 5 /\ at[u] \in 1 .. 5
  <2>1. Step(t) = "write" /\ ~Idle(t) /\ ~Idle(u)
    BY DEF Writes, PostDispatch, LockDispatch, FinalizeDraft, DeleteDispatch, ReverseDispatch,
           PutStatus, CancelApproval, PostQc, ReverseQc, Write, Step, Viewed
  <2> QED BY <2>1, Standing DEF IInv
<1>2. /\ req[t].op \in {"post", "lock", "finalize", "delete"} /\ req[t].d \in Dispatch
      /\ req[u].op \in {"post", "lock", "finalize", "delete"} /\ req[u].d \in Dispatch
      /\ l \in Line /\ SoOfDispatch(req[t].d) = o /\ SoOfDispatch(req[u].d) = o /\ o \in Row
      /\ req[t].d \in Row /\ req[u].d \in Row
  BY <1>1, DispatchRequests, RowAssumption
<1>3. \A r \in Row : ~(held[t][r] = "X" /\ held[u][r] = "X")
  BY DEF IInv, LocksExclusive
<1>4. held[t][o] = "X"
  <2>1. Doing(t, {"post"}, 1) \/ Doing(t, DraftOps, 3)
    BY <1>1, <1>2, Standing DEF IInv, Doing, DraftOps
  <2> QED BY <1>2, <2>1 DEF IInv, HoldsOrder
<1>5. req[u].op # "post"
  <2> SUFFICES ASSUME req[u].op = "post" PROVE FALSE
    OBVIOUS
  <2>1. Doing(u, {"post"}, 1)
    BY <1>1 DEF Viewed, ReadAt, Doing
  <2> QED BY <1>2, <1>3, <1>4, <2>1 DEF IInv, HoldsOrder
<1>6. /\ held[u][req[u].d] = "X" /\ req[u].d \in Drafts(db, l)
  <2>1. Doing(u, DraftOps, 2) /\ Doing(u, DraftOps, 1)
    BY <1>1, <1>2, <1>5 DEF Viewed, ReadAt, Doing, DraftOps
  <2> QED BY <1>2, <2>1 DEF IInv, HoldsDispatch, DraftStable, Drafts, DispatchesOf
<1>7. CASE req[t].op = "post"
  <2>1. Doing(t, {"post"}, 3) /\ Doing(t, {"post"}, 4)
    BY <1>1, <1>7, Standing DEF IInv, Doing
  <2>2. Drafts(snap[t], l) = Drafts(db, l)
    BY <2>1 DEF IInv, LineStable, Drafts
  <2>3. DraftOf(snap[t], l) = req[u].d
    <3>1. DraftOf(snap[t], l) \in Drafts(db, l)
      BY <1>6, <2>2 DEF DraftOf
    <3> QED BY <1>2, <1>6, <3>1 DEF IInv, OneDraftPerLine
  <2>4. held[t][req[u].d] = "X"
    BY <1>6, <2>1, <2>2, <2>3 DEF IInv, HoldsDispatch
  <2> QED BY <1>2, <1>3, <1>6, <2>4
<1>8. CASE req[t].op # "post"
  <2>1. Doing(t, DraftOps, 1) /\ Doing(t, DraftOps, 2)
    BY <1>1, <1>2, <1>8, Standing DEF IInv, Doing, DraftOps
  <2>2. held[t][req[t].d] = "X" /\ req[t].d \in Drafts(db, l)
    BY <1>2, <2>1 DEF IInv, HoldsDispatch, DraftStable, Drafts, DispatchesOf
  <2>3. req[t].d = req[u].d
    BY <1>2, <1>6, <2>2 DEF IInv, OneDraftPerLine
  <2> QED BY <1>2, <1>3, <1>6, <2>2, <2>3
<1> QED BY <1>7, <1>8

\* A write to one line leaves what the handlers of the others look at.
LEMMA OffLine ==
    ASSUME DispatchOnly, NEW v \in Tables, NEW w \in Tables, NEW z \in Tables,
           NEW k \in Line, NEW l \in Line, k # l, AgreeOn(v, w, l), DifferOn(w, z, k)
    PROVE  AgreeOn(v, z, l)
<1>1. SoOf[l] # SoOf[k] /\ SoOf[l] \in SO
  BY TablesAssumption DEF DispatchOnly
<1>2. \A d \in DispatchesOf(l) : d \in Dispatch /\ LineOf[d] # k
  BY DEF DispatchesOf
<1> QED BY <1>1, <1>2 DEF AgreeOn, DifferOn

\* What was current when it was read is current until the handler ends.
LEMMA CurrentStep ==
    ASSUME DispatchOnly, IInv, ViewsCurrent, [Next]_vars
    PROVE  ViewsCurrent'
<1>1. CASE UNCHANGED vars
  BY <1>1 DEF vars, ViewsCurrent, Viewed, Idle
<1>2. ASSUME NEW t \in Tx, NEW a \in Answer, Finish(t, a), db' = db PROVE ViewsCurrent'
  <2>1. at'[t] = 0 /\ \A u \in Tx \ {t} : UNCHANGED <<req[u], at[u], snap[u]>>
    BY <1>2 DEF Finish, IInv, TypeOK
  <2> QED BY <1>2, <2>1 DEF ViewsCurrent, Viewed, Idle
<1>3. ASSUME NEW t \in Tx, NEW r \in Request, Arrive(t, r) PROVE ViewsCurrent'
  <2>1. /\ db' = db /\ snap' = snap /\ at'[t] = 1 /\ req'[t] = r
        /\ \A u \in Tx \ {t} : UNCHANGED <<req[u], at[u]>>
    BY <1>3 DEF Arrive, Begin, IInv, TypeOK
  <2>2. ~(1 > ReadAt(r.op))
    BY RequestForms, PlanRange
  <2> QED BY <2>1, <2>2 DEF ViewsCurrent, Viewed, Idle
<1>4. ASSUME NEW t \in Tx, ~Idle(t), Step(t) \notin {"read", "write"},
             db' = db, req' = req, snap' = snap, at' = [at EXCEPT ![t] = @ + 1]
      PROVE  ViewsCurrent'
  <2>1. /\ at'[t] = at[t] + 1 /\ at[t] \in 1 .. 5 /\ at[t] # ReadAt(req[t].op)
        /\ ReadAt(req[t].op) \in 1 .. 3
        /\ \A u \in Tx \ {t} : at'[u] = at[u]
    BY <1>4, Standing, PlanRange DEF IInv, TypeOK
  <2>2. Viewed(t)' => Viewed(t)
    BY <1>4, <2>1 DEF Viewed, Idle
  <2> QED BY <1>4, <2>1, <2>2 DEF ViewsCurrent, Viewed, Idle
<1>5. ASSUME NEW t \in Tx, Read(t) PROVE ViewsCurrent'
  <2>1. /\ db' = db /\ req' = req /\ snap'[t] = db
        /\ \A u \in Tx \ {t} : at'[u] = at[u] /\ snap'[u] = snap[u]
    BY <1>5 DEF Read, ReadView, IInv, TypeOK
  <2>2. AgreeOn(db, db, LineOf[req[t].d])
    BY DEF AgreeOn
  <2> QED BY <2>1, <2>2 DEF ViewsCurrent, Viewed, Idle
<1>6. ASSUME NEW t \in Tx, Writes(t) PROVE ViewsCurrent'
  <2>1. /\ ~Idle(t) /\ Step(t) = "write" /\ Finish(t, "done")
        /\ db' = Written(req[t], snap[t], db)
    BY <1>6 DEF Writes, PostDispatch, LockDispatch, FinalizeDraft, DeleteDispatch, ReverseDispatch,
           PutStatus, CancelApproval, PostQc, ReverseQc, Write, Commit, Step
  <2>2. req[t] \in Request /\ snap[t] \in Tables /\ db \in Tables /\ db' \in Tables
    <3>1. req[t] \in Request /\ snap[t] \in Tables /\ db \in Tables
      BY <2>1, Standing DEF IInv, ViewTyped, TypeOK
    <3> QED BY <2>1, <3>1, WrittenTyped
  <2>3. DifferOn(db, db', LineOf[req[t].d]) /\ LineOf[req[t].d] \in Line
    BY <2>1, <2>2, WrittenOnLine, DispatchRequests
  <2>4. at'[t] = 0 /\ \A u \in Tx \ {t} : UNCHANGED <<req[u], at[u], snap[u]>>
    BY <2>1 DEF Finish, IInv, TypeOK
  <2>5. ASSUME NEW u \in Tx \ {t}, Viewed(u) PROVE AgreeOn(snap[u], db', LineOf[req[u].d])
    <3>1. LineOf[req[t].d] # LineOf[req[u].d]
      BY <1>6, <2>5, LineOwner
    <3>2. snap[u] \in Tables /\ LineOf[req[u].d] \in Line
      <4>1. ~Idle(u)
        BY <2>5 DEF Viewed
      <4> QED BY <2>5, <4>1, Standing, DispatchRequests DEF IInv, ViewTyped
    <3>3. AgreeOn(snap[u], db, LineOf[req[u].d])
      BY <2>5 DEF ViewsCurrent
    <3> QED BY <2>2, <2>3, <3>1, <3>2, <3>3, OffLine
  <2> QED BY <2>4, <2>5 DEF ViewsCurrent, Viewed, Idle
<1>7. ASSUME NEW t \in Tx, Lock(t) PROVE ViewsCurrent'
  <2>1. ~Idle(t) /\ Step(t) \notin {"read", "write"}
    BY <1>7 DEF Lock, Wanted, Wants, Step
  <2>2. db' = db /\ req' = req /\ snap' = snap /\ at' = [at EXCEPT ![t] = @ + 1]
    BY <1>7 DEF Lock, Take
  <2> QED BY <1>4, <2>1, <2>2
<1>8. ASSUME NEW t \in Tx, LockNothing(t) PROVE ViewsCurrent'
  <2>1. ~Idle(t) /\ Step(t) \notin {"read", "write"}
    BY <1>8 DEF LockNothing, LockSteps, Step
  <2>2. db' = db /\ req' = req /\ snap' = snap /\ at' = [at EXCEPT ![t] = @ + 1]
    BY <1>8 DEF LockNothing, Pass
  <2> QED BY <1>4, <2>1, <2>2
<1>9. ASSUME NEW t \in Tx,
             \/ NotFound(t) \/ RefuseAtRead(t) \/ RefuseAtWrite(t) \/ KeepStatus(t)
             \/ DeadlockVictim(t) \/ Expire(t)
      PROVE  ViewsCurrent'
  <2>1. db' = db /\ (Finish(t, "refused") \/ Finish(t, "done") \/ Finish(t, "failed"))
    BY <1>9 DEF NotFound, RefuseAtRead, RefuseAtWrite, KeepStatus, DeadlockVictim, Expire,
                Refuse, Commit, Rollback
  <2> QED BY <1>2, <2>1 DEF Answer
<1> QED BY <1>1, <1>3, <1>5, <1>6, <1>7, <1>8, <1>9 DEF Next, Run

(***************************************************************************)
(* The operators that SerialFulfilment has from Handlers are those of      *)
(* Fulfilment.                                                             *)
(***************************************************************************)

\* Sums are the same.
LEMMA SerialSums ==
    \A f, S : Serial!SumFunctionOnSet(f, S) = SumFunctionOnSet(f, S)
BY DEF Serial!SumFunctionOnSet, Serial!FoldFunctionOnSet, Serial!MapThenFoldSet,
       SumFunctionOnSet, FoldFunctionOnSet, MapThenFoldSet

\* Requests, identifiers and first tables are the same.
LEMMA SerialRequests ==
    /\ Serial!Request = Request /\ Serial!FirstStatus = FirstStatus
    /\ \A first : Serial!TablesInit(first) = TablesInit(first)
    /\ \A r, v : (Serial!Fresh(r, v) <=> Fresh(r, v)) /\ (Serial!Insertable(r, v) <=> Insertable(r, v))
BY DEF Serial!Request, Serial!StatusRequest, Serial!CancelRequest, Serial!PostRequest,
         Serial!DraftRequest, Serial!ReverseRequest, Serial!QcRequest,
         Serial!FirstStatus, Serial!HasWorkOrder, Serial!LinesOf, Serial!TablesInit,
         Serial!NoDispatch, Serial!Fresh, Serial!Insertable,
         Serial!QcReversalInsertable, Request, StatusRequest, CancelRequest,
         PostRequest, DraftRequest, ReverseRequest, QcRequest, FirstStatus,
         HasWorkOrder, LinesOf, TablesInit, NoDispatch, Fresh, Insertable,
         QcReversalInsertable

\* Quantities are.
LEMMA SerialQuantities ==
    \A v, l : /\ Serial!OperationalNet(v, l) = OperationalNet(v, l)
              /\ Serial!ConfirmedNet(v, l) = ConfirmedNet(v, l)
              /\ Serial!Accepted(v, l) = Accepted(v, l)
BY SerialSums
   DEF Serial!OperationalNet, Serial!Nets, Serial!Net, Serial!Rows, Serial!Drafts,
         Serial!DispatchesOf, Serial!Confirmations, Serial!ConfirmedNet,
         Serial!Accepted, Serial!ActiveEntries, OperationalNet, Nets, Net, Rows, Drafts,
         DispatchesOf, Confirmations, ConfirmedNet, Accepted, ActiveEntries

\* Checks and rules are.
LEMMA SerialRules ==
    \A r \in Request : \A v : /\ Serial!Readable(r, v) <=> Readable(r, v)
                              /\ Serial!Allowed(r, v) <=> Allowed(r, v)
<1>1. \A v, d : /\ Serial!IsDraft(v, d) <=> IsDraft(v, d)
                /\ Serial!RowExists(v, d) <=> RowExists(v, d)
                /\ Serial!QcExists(v, d) <=> QcExists(v, d)
  BY DEF Serial!IsDraft, IsDraft, Serial!RowExists, RowExists, Serial!QcExists, QcExists
<1>2. \A r, v : Serial!StatusReadable(r, v) <=> StatusReadable(r, v)
  BY DEF Serial!StatusReadable, StatusReadable
<1>3. \A v, l : Serial!Rows(v, l) = Rows(v, l)
  BY DEF Serial!Rows, Serial!Drafts, Serial!Confirmations, Serial!DispatchesOf,
         Rows, Drafts, Confirmations, DispatchesOf
<1>4. \A r, v : Serial!CancelReadable(r, v) <=> CancelReadable(r, v)
  BY <1>3 DEF Serial!CancelReadable, Serial!HasWorkOrder, Serial!LinesOf,
              CancelReadable, HasWorkOrder, LinesOf
<1>5. \A v, l : Serial!QcPending(v, l) = QcPending(v, l)
  BY SerialQuantities DEF Serial!QcPending, QcPending
<1>6. \A r, v : Serial!QcPostReadable(r, v) <=> QcPostReadable(r, v)
  BY <1>5 DEF Serial!QcPostReadable, QcPostReadable
<1>7. \A r, v : Serial!Readable(r, v) <=> Readable(r, v)
  BY <1>1, <1>2, <1>4, <1>6 DEF Serial!Readable, Readable
<1>8. \A d : Serial!SoOfDispatch(d) = SoOfDispatch(d)
  BY DEF Serial!SoOfDispatch, SoOfDispatch
<1>9. \A r, v : Serial!PostAllowed(r, v) <=> PostAllowed(r, v)
  BY SerialQuantities DEF Serial!PostAllowed, PostAllowed
<1>10. \A v, d : Serial!Net(v, d) = Net(v, d)
  BY DEF Serial!Net, Net
<1>11. \A v, d : /\ Serial!NetOfOthers(v, d) = NetOfOthers(v, d)
                 /\ Serial!ShipCap(v, d) = ShipCap(v, d)
  BY <1>10, SerialQuantities DEF Serial!NetOfOthers, NetOfOthers, Serial!ShipCap, ShipCap
<1>12. \A r, v : Serial!ConfirmAllowed(r, v) <=> ConfirmAllowed(r, v)
  BY <1>11 DEF Serial!ConfirmAllowed, ConfirmAllowed
<1>13. \A r, v : /\ Serial!DeleteAllowed(r, v) <=> DeleteAllowed(r, v)
                 /\ Serial!ReverseAllowed(r, v) <=> ReverseAllowed(r, v)
  BY <1>8, <1>10 DEF Serial!DeleteAllowed, DeleteAllowed, Serial!ReverseAllowed, ReverseAllowed
<1>14. \A r, v : Serial!StatusAllowed(r, v) <=> StatusAllowed(r, v)
  BY SerialQuantities
     DEF Serial!StatusAllowed, StatusAllowed, Serial!ConfirmedDispatchComplete,
         ConfirmedDispatchComplete, Serial!LinesOf, LinesOf
<1>15. \A r, v : Serial!QcReverseAllowed(r, v) <=> QcReverseAllowed(r, v)
  BY SerialQuantities DEF Serial!QcReverseAllowed, QcReverseAllowed
<1>16. ASSUME NEW r \in Request, NEW v PROVE Serial!Allowed(r, v) <=> Allowed(r, v)
  <2>1. r.op \in Operation
    BY RequestForms
  <2>2. CASE r.op \in {"post", "lock", "finalize"}
    BY <1>9, <1>12, <2>2 DEF Serial!Allowed, Allowed
  <2>3. CASE r.op \in {"delete", "reverse", "status"}
    BY <1>13, <1>14, <2>3 DEF Serial!Allowed, Allowed
  <2>4. CASE r.op \in {"cancel", "qcPost", "qcReverse"}
    BY <1>15, <2>4 DEF Serial!Allowed, Allowed
  <2> QED BY <2>1, <2>2, <2>3, <2>4 DEF Operation
<1> QED BY <1>7, <1>16

\* And so is what is written.
LEMMA SerialWrites ==
    \A r \in Request : \A v, w : Serial!Written(r, v, w) = Written(r, v, w)
<1>1. \A v, w, o : /\ Serial!AutoClose(v, w, o) = AutoClose(v, w, o)
                   /\ Serial!Reopen(v, w, o) = Reopen(v, w, o)
  BY SerialQuantities
     DEF Serial!AutoClose, Serial!CloseDue, Serial!LinesOf, Serial!QcPending, Serial!Drafts,
         Serial!DispatchesOf, Serial!SetStatus, Serial!Reopen,
         Serial!ConfirmedDispatchComplete, AutoClose, CloseDue, LinesOf, QcPending,
         Drafts, DispatchesOf, SetStatus, Reopen, ConfirmedDispatchComplete
<1>2. \A r, v, w : /\ Serial!PrepareDraft(r, v, w) = PrepareDraft(r, v, w)
                   /\ Serial!Confirm(r, v, w) = Confirm(r, v, w)
                   /\ Serial!DeleteWrite(r, v, w) = DeleteWrite(r, v, w)
  BY DEF Serial!PrepareDraft, Serial!Drafts, Serial!DispatchesOf, Serial!NewDraft,
         Serial!NoDispatch, Serial!DraftOf, Serial!RequantifiedRow, Serial!Confirm,
         Serial!ConfirmedRow, Serial!ItemOfDispatch, Serial!DeleteWrite,
         Serial!DeletedRow, PrepareDraft, Drafts, DispatchesOf, NewDraft, NoDispatch,
         DraftOf, RequantifiedRow, Confirm, ConfirmedRow, ItemOfDispatch, DeleteWrite,
         DeletedRow
<1>3. \A r, v, w : Serial!PostReversal(r, v, w) = PostReversal(r, v, w)
  BY DEF Serial!PostReversal, Serial!ReversedRow, Serial!Covers, Serial!ItemOfDispatch,
         PostReversal, ReversedRow, Covers, ItemOfDispatch
<1>4. \A r, w : Serial!AcceptBatch(r, w) = AcceptBatch(r, w)
  BY DEF Serial!AcceptBatch, Serial!BatchItem, AcceptBatch, BatchItem
<1>5. \A r, v, w : Serial!QcReverseWrite(r, v, w) = QcReverseWrite(r, v, w)
  BY DEF Serial!QcReverseWrite, Serial!BatchItem, QcReverseWrite, BatchItem
<1>6. \A d : Serial!SoOfDispatch(d) = SoOfDispatch(d) /\ Serial!BatchSo(d) = BatchSo(d)
  BY DEF Serial!SoOfDispatch, SoOfDispatch, Serial!BatchSo, BatchSo
<1>7. \A r, v, w : Serial!PostWrite(r, v, w) = PostWrite(r, v, w)
  BY <1>1, <1>2, <1>6 DEF Serial!PostWrite, PostWrite
<1>8. \A r, v, w : /\ Serial!LockWrite(r, v, w) = LockWrite(r, v, w)
                   /\ Serial!FinalizeWrite(r, v, w) = FinalizeWrite(r, v, w)
  BY <1>1, <1>2, <1>6 DEF Serial!LockWrite, LockWrite, Serial!FinalizeWrite, FinalizeWrite
<1>9. \A r, v, w : Serial!ReverseWrite(r, v, w) = ReverseWrite(r, v, w)
  BY <1>1, <1>3, <1>6 DEF Serial!ReverseWrite, ReverseWrite
<1>10. \A r, v, w : /\ Serial!StatusWrite(r, v, w) = StatusWrite(r, v, w)
                    /\ Serial!CancelWrite(r, v, w) = CancelWrite(r, v, w)
  BY DEF Serial!StatusWrite, StatusWrite, Serial!CancelWrite, CancelWrite, Serial!SetStatus, SetStatus
<1>11. \A r, v, w : Serial!QcPostWrite(r, v, w) = QcPostWrite(r, v, w)
  BY <1>1, <1>4, <1>6 DEF Serial!QcPostWrite, QcPostWrite
<1>12. ASSUME NEW r \in Request, NEW v, NEW w PROVE Serial!Written(r, v, w) = Written(r, v, w)
  <2>1. r.op \in Operation
    BY RequestForms
  <2>2. CASE r.op \in {"post", "lock", "finalize"}
    BY <1>7, <1>8, <2>2 DEF Serial!Written, Written
  <2>3. CASE r.op \in {"delete", "reverse", "status"}
    BY <1>2, <1>9, <1>10, <2>3 DEF Serial!Written, Written
  <2>4. CASE r.op \in {"cancel", "qcPost", "qcReverse"}
    BY <1>5, <1>10, <1>11, <2>4 DEF Serial!Written, Written
  <2> QED BY <2>1, <2>2, <2>3, <2>4 DEF Operation
<1> QED BY <1>12

\* A handler that writes does what it does alone.
LEMMA WriteServes ==
    ASSUME DispatchOnly, IInv, ViewsCurrent, NEW t \in Tx, Writes(t)
    PROVE  Serial!Serve(req[t]) /\ req[t] \in Request
<1> DEFINE r == req[t]
<1>1. /\ ~Idle(t) /\ Step(t) = "write" /\ Allowed(r, snap[t])
      /\ db' = Written(r, snap[t], db)
  BY DEF Writes, PostDispatch, LockDispatch, FinalizeDraft, DeleteDispatch, ReverseDispatch,
         PutStatus, CancelApproval, PostQc, ReverseQc, Write, Commit, Step
<1>2. r \in Request /\ Viewed(t) /\ snap[t] \in Tables /\ db \in Tables /\ at[t] \in 1 .. 5
  BY <1>1, Standing DEF IInv, ViewTyped, TypeOK
<1>3. r.op \in {"post", "lock", "finalize", "delete"}
  BY <1>2, DispatchRequests
<1>4. AgreeOn(snap[t], db, LineOf[r.d])
  BY <1>2 DEF ViewsCurrent
<1>5. Allowed(r, db) /\ db' = Written(r, db, db)
  <2>1. (Allowed(r, snap[t]) <=> Allowed(r, db)) /\ Written(r, snap[t], db) = Written(r, db, db)
    BY <1>2, <1>4, AgreeAnswer
  <2> QED BY <1>1, <2>1
<1>6. Fresh(r, db)
  <2>1. r.op = "post" => Doing(t, {"post"}, 0)
    BY <1>1, <1>2 DEF Doing
  <2> QED BY <1>3, <2>1 DEF IInv, FreshIds, Fresh
<1>7. Readable(r, db)
  <2>1. r.op # "post" => Doing(t, DraftOps, 2)
    BY <1>1, <1>2, <1>3, Standing DEF IInv, Doing, DraftOps
  <2>2. r.op # "post" => db.disp[r.d].state = "UNLOCKED"
    BY <2>1 DEF IInv, DraftStable
  <2> QED BY <1>3, <2>2 DEF Readable, IsDraft
<1>8. Insertable(r, db)
  BY <1>3 DEF Insertable
<1>9. /\ Serial!Fresh(r, db) /\ Serial!Readable(r, db) /\ Serial!Allowed(r, db)
      /\ Serial!Insertable(r, db) /\ Serial!Written(r, db, db) = Written(r, db, db)
  <2>1. Serial!Fresh(r, db) /\ Serial!Insertable(r, db)
    BY <1>6, <1>8, SerialRequests
  <2>2. Serial!Readable(r, db) /\ Serial!Allowed(r, db)
    BY <1>2, <1>5, <1>7, SerialRules
  <2>3. Serial!Written(r, db, db) = Written(r, db, db)
    BY <1>2, SerialWrites
  <2> QED BY <2>1, <2>2, <2>3
<1> QED BY <1>2, <1>5, <1>9 DEF Serial!Serve

(***************************************************************************)
(* "LOCK -> RE-READ -> VALIDATE -> WRITE" (dispatchWriteLocks.js) gives    *)
(* what it is meant to where dispatches of one-line orders are prepared,   *)
(* confirmed and deleted: every commit is what the handler would have done *)
(* alone, whatever the interleaving, rollbacks and repeats included.       *)
(***************************************************************************)
THEOREM DispatchingIsSerial ==
    ASSUME DispatchOnly
    PROVE  Spec => ImplementsSerial
<1>1. Init => IInv /\ ViewsCurrent /\ Serial!Init
  <2> SUFFICES ASSUME Init PROVE ViewsCurrent /\ Serial!Init
    BY InitHolds
  <2>1. ASSUME NEW t \in Tx PROVE ~Viewed(t)
    <3>1. at[t] = 0
      BY DEF Init, EngineInit
    <3> QED BY <3>1 DEF Viewed, Idle
  <2>2. PICK first \in FirstStatus : db = TablesInit(first)
    BY DEF Init
  <2>3. first \in Serial!FirstStatus /\ db = Serial!TablesInit(first)
    BY <2>2, SerialRequests
  <2>4. Serial!Init
    BY <2>3 DEF Serial!Init
  <2> QED BY <2>1, <2>4 DEF ViewsCurrent
<1>2. IInv /\ ViewsCurrent /\ [Next]_vars =>
        IInv' /\ ViewsCurrent' /\ [Serial!Next]_db
  <2> SUFFICES ASSUME IInv, ViewsCurrent, [Next]_vars
               PROVE  IInv' /\ ViewsCurrent' /\ [Serial!Next]_db
    OBVIOUS
  <2>1. IInv' /\ (db' = db \/ \E t \in Tx : Writes(t))
    BY StepHolds
  <2>2. ViewsCurrent'
    BY CurrentStep
  <2>3. ASSUME NEW t \in Tx, Writes(t) PROVE Serial!Next
    <3>1. Serial!Serve(req[t]) /\ req[t] \in Serial!Request
      BY <2>3, WriteServes, SerialRequests
    <3> QED BY <3>1 DEF Serial!Next
  <2> QED BY <2>1, <2>2, <2>3
<1> QED BY <1>1, <1>2, PTL DEF Spec, ImplementsSerial, Serial!Spec

\* What a handler has read of the line whose dispatch it prepares, confirms or deletes is
\* still so when it uses it, although it reads before it holds the order.
THEOREM ViewsStayCurrent ==
    ASSUME DispatchOnly
    PROVE  Spec => []ViewsCurrent
<1>1. Init => IInv /\ ViewsCurrent
  <2> SUFFICES ASSUME Init PROVE ViewsCurrent
    BY InitHolds
  <2>1. ASSUME NEW t \in Tx PROVE ~Viewed(t)
    <3>1. at[t] = 0
      BY DEF Init, EngineInit
    <3> QED BY <3>1 DEF Viewed, Idle
  <2> QED BY <2>1 DEF ViewsCurrent
<1>2. IInv /\ ViewsCurrent /\ [Next]_vars => IInv' /\ ViewsCurrent'
  BY StepHolds, CurrentStep
<1> QED BY <1>1, <1>2, PTL DEF Spec
==============================================================================
