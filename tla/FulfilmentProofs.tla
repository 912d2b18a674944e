-------------------------- MODULE FulfilmentProofs ---------------------------
(***************************************************************************)
(* Theorems about Fulfilment for every value of its constants, in          *)
(* particular for any number of connections, orders, items and dispatches. *)
(* Argument: the handlers' locks, in the order in which they take them,    *)
(* make the dispatch row a handler writes its own and keep what it has     *)
(* read of that row true (IInv); each write changes at most one row, and   *)
(* in a way (RowEffect) that disturbs nobody else.                         *)
(***************************************************************************)
EXTENDS FulfilmentInvariant, TLAPS

Operation == {"post", "lock", "finalize", "delete", "reverse",
              "status", "cancel", "qcPost", "qcReverse"}

(***************************************************************************)
(* What stands at position i of the plan of each handler (dispatch.js,     *)
(* salesOrders.js, production.js): where it reads, where it writes, which  *)
(* locks come first.                                                       *)
(***************************************************************************)
LEMMA Positions ==
    ASSUME NEW op \in Operation, NEW i \in 1 .. Len(Plan(op))
    PROVE  /\ Len(Plan(op)) \in 3 .. 5
           /\ ReadAt(op) \in 1 .. 3 /\ ReadAt(op) < Len(Plan(op))
           /\ Plan(op)[i] \in LockSteps \cup {"read", "write"}
           /\ Plan(op)[i] = "write" <=> i = Len(Plan(op))
           /\ Plan(op)[i] = "read" <=> i = ReadAt(op)
           /\ Plan(op)[i] = "draft" <=> op = "post" /\ i = 4
           /\ Plan(op)[i] \in {"entry", "close"} => op = "qcPost"
           /\ Plan(op)[i] = "dispatch" => op \in {"lock", "finalize", "delete", "reverse"}
           /\ op = "post" => Len(Plan(op)) = 5 /\ (i = 1 => Plan(op)[i] = "so")
           /\ op \in {"lock", "finalize", "delete"} =>
                /\ Len(Plan(op)) = IF op = "delete" THEN 4 ELSE 5
                /\ i = 1 => Plan(op)[i] = "dispatch"
                /\ i = 3 => Plan(op)[i] = "so"
           /\ op = "reverse" =>
                /\ Len(Plan(op)) = 5
                /\ i = 4 => Plan(op)[i] = "dispatch"
<1>1. CASE op = "post"
  BY <1>1 DEF Plan, PostPlan, ReadAt, LockSteps
<1>2. CASE op \in {"lock", "finalize"}
  BY <1>2 DEF Plan, ConfirmPlan, ReadAt, LockSteps
<1>3. CASE op = "delete"
  BY <1>3 DEF Plan, DeletePlan, ReadAt, LockSteps
<1>4. CASE op = "reverse"
  BY <1>4 DEF Plan, ReversePlan, ReadAt, LockSteps
<1>5. CASE op \in {"status", "cancel"}
  BY <1>5 DEF Plan, StatusPlan, ReadAt, LockSteps
<1>6. CASE op = "qcPost"
  BY <1>6 DEF Plan, QcPostPlan, ReadAt, LockSteps
<1>7. CASE op = "qcReverse"
  BY <1>7 DEF Plan, QcReversePlan, ReadAt, LockSteps
<1> QED BY <1>1, <1>2, <1>3, <1>4, <1>5, <1>6, <1>7 DEF Operation

\* An order update (tx.salesOrder.update) touches no dispatch row.
LEMMA StatusChange ==
    ASSUME NEW w \in Tables, NEW o \in SO, NEW s \in Status
    PROVE  SetStatus(w, o, s) \in Tables /\ SetStatus(w, o, s).disp = w.disp
BY DEF SetStatus, Tables

\* Closing or reopening an order at the end of a handler touches no dispatch row.
LEMMA CloseChange ==
    ASSUME NEW v, NEW w \in Tables, NEW o \in SO
    PROVE  /\ AutoClose(v, w, o) \in Tables /\ AutoClose(v, w, o).disp = w.disp
           /\ Reopen(v, w, o) \in Tables /\ Reopen(v, w, o).disp = w.disp
BY StatusChange DEF AutoClose, Reopen, Status

(***************************************************************************)
(* What each handler writes: typed tables, and which dispatch row changes. *)
(***************************************************************************)

\* The draft that POST /dispatches finds is an unlocked row of the line asked for.
LEMMA DraftChosen ==
    ASSUME NEW v, NEW l \in Line, Drafts(v, l) # {}
    PROVE  /\ DraftOf(v, l) \in Dispatch
           /\ LineOf[DraftOf(v, l)] = l
           /\ v.disp[DraftOf(v, l)].state = "UNLOCKED"
BY DEF DraftOf, Drafts, DispatchesOf

\* One dispatch row replaced, and with it one FG balance.
PutRow(w, d, x) == [w EXCEPT !.disp[d] = x]
PutRowAndStock(w, d, x, i, n) == [w EXCEPT !.disp[d] = x, !.fg[i] = n]

Requantified(D, d, qty) == [D EXCEPT ![d] = RequantifiedRow(@, qty)]

\* tx.dispatch.update or create: typed tables in which one dispatch row differs.
LEMMA RowChange ==
    ASSUME NEW w \in Tables, NEW d \in Dispatch, NEW x \in DispatchRow
    PROVE  /\ PutRow(w, d, x) \in Tables
           /\ PutRow(w, d, x).disp = [w.disp EXCEPT ![d] = x]
<1> DEFINE D == [w.disp EXCEPT ![d] = x]
<1>1. D \in [Dispatch -> DispatchRow]
  BY DEF Tables
<1>2. PutRow(w, d, x) = [w EXCEPT !.disp = D]
  BY DEF PutRow, Tables
<1>3. [w EXCEPT !.disp = D] \in Tables /\ [w EXCEPT !.disp = D].disp = D
  <2> HIDE DEF D
  <2> QED BY <1>1 DEF Tables
<1> QED BY <1>2, <1>3

\* The same together with one stock transaction, as confirming and reversing do.
LEMMA RowAndStockChange ==
    ASSUME NEW w \in Tables, NEW d \in Dispatch, NEW x \in DispatchRow,
           NEW i \in Item, NEW n \in Int
    PROVE  /\ PutRowAndStock(w, d, x, i, n) \in Tables
           /\ PutRowAndStock(w, d, x, i, n).disp = [w.disp EXCEPT ![d] = x]
<1> DEFINE D == [w.disp EXCEPT ![d] = x]
           F == [w.fg EXCEPT ![i] = n]
<1>1. D \in [Dispatch -> DispatchRow] /\ F \in [Item -> Int]
  BY DEF Tables
<1>2. PutRowAndStock(w, d, x, i, n) = [w EXCEPT !.disp = D, !.fg = F]
  BY DEF PutRowAndStock, Tables
<1>3. /\ [w EXCEPT !.disp = D, !.fg = F] \in Tables
      /\ [w EXCEPT !.disp = D, !.fg = F].disp = D
  <2> HIDE DEF D, F
  <2> QED BY <1>1 DEF Tables
<1> QED BY <1>2, <1>3

\* Every row that the dispatch routes write is a dispatch row.
LEMMA RowTypes ==
    ASSUME NEW x \in DispatchRow, NEW n \in Nat, NEW b \in BOOLEAN
    PROVE  /\ NewDraft(n) \in DispatchRow
           /\ RequantifiedRow(x, n) \in DispatchRow
           /\ ConfirmedRow(x) \in DispatchRow
           /\ DeletedRow(x) \in DispatchRow
           /\ ReversedRow(x, n, b) \in DispatchRow
<1>1. NewDraft(n) \in DispatchRow
  BY DEF NewDraft, NoDispatch, DispatchRow, DispatchState
<1>2. RequantifiedRow(x, n) \in DispatchRow
  BY DEF RequantifiedRow, DispatchRow
<1>3. ConfirmedRow(x) \in DispatchRow
  <2> DEFINE p == x.posted + 1
  <2>1. p \in Nat /\ ConfirmedRow(x) = [x EXCEPT !.state = "LOCKED", !.posted = p]
    BY DEF ConfirmedRow, DispatchRow
  <2> HIDE DEF p
  <2> QED BY <2>1 DEF DispatchRow, DispatchState
<1>4. DeletedRow(x) \in DispatchRow
  BY DEF DeletedRow, DispatchRow, DispatchState
<1>5. ReversedRow(x, n, b) \in DispatchRow
  <2> DEFINE m == x.reversed + n
             c == x.stamped \/ b
  <2>1. m \in Nat /\ c \in BOOLEAN /\ ReversedRow(x, n, b) = [x EXCEPT !.reversed = m, !.stamped = c]
    BY DEF ReversedRow, DispatchRow
  <2> HIDE DEF m, c
  <2> QED BY <2>1 DEF DispatchRow
<1> QED BY <1>1, <1>2, <1>3, <1>4, <1>5

\* POST /dispatches creates the row it was given or updates the draft it found.
LEMMA PostWrites ==
    ASSUME NEW v \in Tables, NEW w \in Tables, NEW r \in PostRequest
    PROVE  /\ PostWrite(r, v, w) \in Tables
           /\ Drafts(v, LineOf[r.d]) = {} =>
                PostWrite(r, v, w).disp = [w.disp EXCEPT ![r.d] = NewDraft(r.qty)]
           /\ Drafts(v, LineOf[r.d]) # {} =>
                PostWrite(r, v, w).disp = Requantified(w.disp, DraftOf(v, LineOf[r.d]), r.qty)
<1> DEFINE l == LineOf[r.d]
<1>1. r.d \in Dispatch /\ r.qty \in Nat /\ l \in Line /\ SoOfDispatch(r.d) \in SO
  BY TablesAssumption DEF PostRequest, Positive, SoOfDispatch
<1>2. CASE Drafts(v, l) = {}
  <2>1. /\ PrepareDraft(r, v, w) \in Tables
        /\ PrepareDraft(r, v, w).disp = [w.disp EXCEPT ![r.d] = NewDraft(r.qty)]
    <3>1. NewDraft(r.qty) \in DispatchRow
      BY <1>1 DEF NewDraft, NoDispatch, DispatchRow, DispatchState
    <3>2. PrepareDraft(r, v, w) = PutRow(w, r.d, NewDraft(r.qty))
      BY <1>1, <1>2 DEF PrepareDraft, PutRow
    <3> QED BY <1>1, <3>1, <3>2, RowChange
  <2> QED BY <1>1, <1>2, <2>1, CloseChange DEF PostWrite
<1>3. CASE Drafts(v, l) # {}
  <2> DEFINE e == DraftOf(v, l)
             x == RequantifiedRow(w.disp[e], r.qty)
  <2>1. e \in Dispatch
    BY <1>1, <1>3, DraftChosen
  <2>2. x \in DispatchRow
    BY <1>1, <2>1, RowTypes DEF Tables
  <2>3. PrepareDraft(r, v, w) = PutRow(w, e, x)
    BY <1>1, <1>3, <2>1 DEF PrepareDraft, PutRow, Tables
  <2>4. PrepareDraft(r, v, w) \in Tables /\ PrepareDraft(r, v, w).disp = [w.disp EXCEPT ![e] = x]
    <3> HIDE DEF e, x
    <3> QED BY <2>1, <2>2, <2>3, RowChange
  <2>5. PostWrite(r, v, w).disp = [w.disp EXCEPT ![e] = x] /\ PostWrite(r, v, w) \in Tables
    BY <1>1, <2>4, CloseChange DEF PostWrite
  <2> QED BY <1>3, <2>5 DEF Requantified
<1> QED BY <1>2, <1>3

\* /:id/lock and /:id/finalize-draft change the dispatch row they were asked for.
LEMMA ConfirmWrites ==
    ASSUME NEW v \in Tables, NEW w \in Tables, NEW r \in DraftRequest
    PROVE  /\ LockWrite(r, v, w) \in Tables
           /\ FinalizeWrite(r, v, w) \in Tables
           /\ LockWrite(r, v, w).disp = [w.disp EXCEPT ![r.d] = ConfirmedRow(@)]
           /\ FinalizeWrite(r, v, w).disp = [w.disp EXCEPT ![r.d] = ConfirmedRow(@)]
<1>1. r.d \in Dispatch /\ ItemOfDispatch(r.d) \in Item /\ SoOfDispatch(r.d) \in SO
  BY TablesAssumption DEF DraftRequest, ItemOfDispatch, SoOfDispatch
<1> DEFINE x == ConfirmedRow(w.disp[r.d])
           n == w.fg[ItemOfDispatch(r.d)] - v.disp[r.d].qty
<1>2. w.disp[r.d] \in DispatchRow /\ n \in Int
  BY <1>1 DEF Tables, DispatchRow
<1>x. x \in DispatchRow
  BY <1>2, RowTypes
<1>3. Confirm(r, v, w) = PutRowAndStock(w, r.d, x, ItemOfDispatch(r.d), n)
  BY <1>1 DEF Confirm, PutRowAndStock, Tables
<1>4. Confirm(r, v, w) \in Tables /\ Confirm(r, v, w).disp = [w.disp EXCEPT ![r.d] = x]
  <2> HIDE DEF x, n
  <2> QED BY <1>1, <1>2, <1>x, <1>3, RowAndStockChange
<1> QED BY <1>1, <1>4, CloseChange DEF LockWrite, FinalizeWrite

\* DELETE /dispatches/:id changes the dispatch row it was asked for.
LEMMA DeleteWrites ==
    ASSUME NEW v, NEW w \in Tables, NEW r \in DraftRequest
    PROVE  /\ DeleteWrite(r, v, w) \in Tables
           /\ DeleteWrite(r, v, w).disp = [w.disp EXCEPT ![r.d] = DeletedRow(@)]
<1>1. r.d \in Dispatch
  BY DEF DraftRequest
<1> DEFINE x == DeletedRow(w.disp[r.d])
<1>2. x \in DispatchRow
  BY <1>1, RowTypes DEF Tables
<1>3. DeleteWrite(r, v, w) = PutRow(w, r.d, x)
  BY <1>1 DEF DeleteWrite, PutRow, Tables
<1> HIDE DEF x
<1>4. DeleteWrite(r, v, w) \in Tables /\ DeleteWrite(r, v, w).disp = [w.disp EXCEPT ![r.d] = x]
  BY <1>1, <1>2, <1>3, RowChange
<1> QED BY <1>4 DEF x

\* POST /dispatch/reverse adds to the dispatch row it was asked for.
LEMMA ReverseWrites ==
    ASSUME NEW v \in Tables, NEW w \in Tables, NEW r \in ReverseRequest
    PROVE  /\ ReverseWrite(r, v, w) \in Tables
           /\ ReverseWrite(r, v, w).disp =
                [w.disp EXCEPT ![r.d] = ReversedRow(@, r.qty, Covers(r, v))]
<1>1. r.d \in Dispatch /\ ItemOfDispatch(r.d) \in Item /\ SoOfDispatch(r.d) \in SO
  BY TablesAssumption DEF ReverseRequest, ItemOfDispatch, SoOfDispatch
<1>2. r.qty \in Nat
  BY TablesAssumption DEF ReverseRequest, Positive
<1>c. Covers(r, v) \in BOOLEAN
  BY DEF Covers
<1> DEFINE x == ReversedRow(w.disp[r.d], r.qty, Covers(r, v))
           n == w.fg[ItemOfDispatch(r.d)] + r.qty
<1>w. w.disp[r.d] \in DispatchRow /\ n \in Int
  BY <1>1, <1>2 DEF Tables
<1>3. x \in DispatchRow /\ n \in Int
  BY <1>2, <1>c, <1>w, RowTypes
<1>4. PostReversal(r, v, w) = PutRowAndStock(w, r.d, x, ItemOfDispatch(r.d), n)
  BY <1>1 DEF PostReversal, PutRowAndStock, Tables
<1>5. PostReversal(r, v, w) \in Tables /\ PostReversal(r, v, w).disp = [w.disp EXCEPT ![r.d] = x]
  <2> HIDE DEF x, n
  <2> QED BY <1>1, <1>3, <1>4, RowAndStockChange
<1> QED BY <1>1, <1>5, CloseChange DEF ReverseWrite

\* Status, cancel-approval and QC handlers touch no dispatch row.
LEMMA OtherWrites ==
    ASSUME NEW v \in Tables, NEW w \in Tables
    PROVE  /\ \A r \in StatusRequest :
                StatusWrite(r, v, w) \in Tables /\ StatusWrite(r, v, w).disp = w.disp
           /\ \A r \in CancelRequest :
                CancelWrite(r, v, w) \in Tables /\ CancelWrite(r, v, w).disp = w.disp
           /\ \A r \in QcRequest :
                /\ QcPostWrite(r, v, w) \in Tables /\ QcPostWrite(r, v, w).disp = w.disp
                /\ QcReverseWrite(r, v, w) \in Tables /\ QcReverseWrite(r, v, w).disp = w.disp
<1>1. \A r \in StatusRequest :
        StatusWrite(r, v, w) \in Tables /\ StatusWrite(r, v, w).disp = w.disp
  BY StatusChange, TablesAssumption DEF StatusWrite, StatusRequest
<1>2. \A r \in CancelRequest :
        CancelWrite(r, v, w) \in Tables /\ CancelWrite(r, v, w).disp = w.disp
  BY StatusChange DEF CancelWrite, CancelRequest, Status
<1>3. ASSUME NEW r \in QcRequest
      PROVE  /\ QcPostWrite(r, v, w) \in Tables /\ QcPostWrite(r, v, w).disp = w.disp
             /\ QcReverseWrite(r, v, w) \in Tables /\ QcReverseWrite(r, v, w).disp = w.disp
  <2>1. /\ r.q \in QcEntry /\ BatchItem(r.q) \in Item /\ BatchSo(r.q) \in SO
        /\ QcQty[r.q] \in Nat
    BY TablesAssumption DEF QcRequest, BatchItem, BatchSo, Positive
  <2> DEFINE i == BatchItem(r.q)
             Q(s) == [w.qc EXCEPT ![r.q] = s]
             F(n) == [w.fg EXCEPT ![i] = n]
             G(n) == [w.seen EXCEPT ![i] = n]
             in == w.fg[i] + QcQty[r.q]
             out == w.fg[i] - QcQty[r.q]
             less == w.seen[i] - QcQty[r.q]
  <2>2. /\ Q("active") \in [QcEntry -> {"absent", "active", "reversed"}]
        /\ Q("reversed") \in [QcEntry -> {"absent", "active", "reversed"}]
        /\ F(in) \in [Item -> Int] /\ F(out) \in [Item -> Int] /\ G(less) \in [Item -> Int]
    BY <2>1 DEF Tables
  <2>3. AcceptBatch(r, w) = [w EXCEPT !.qc = Q("active"), !.fg = F(in)]
    BY <2>1 DEF AcceptBatch, Tables
  <2>4. QcReverseWrite(r, v, w) = IF r.q \in Legacy
                                  THEN [w EXCEPT !.qc = Q("reversed"), !.seen = G(less)]
                                  ELSE [w EXCEPT !.qc = Q("reversed"), !.fg = F(out)]
    BY <2>1 DEF QcReverseWrite, Tables
  <2> HIDE DEF Q, F, G, in, out, less
  <2>5. AcceptBatch(r, w) \in Tables /\ AcceptBatch(r, w).disp = w.disp
    BY <2>2, <2>3 DEF Tables
  <2>6. QcReverseWrite(r, v, w) \in Tables /\ QcReverseWrite(r, v, w).disp = w.disp
    <3>1. CASE r.q \in Legacy
      <4>1. QcReverseWrite(r, v, w) = [w EXCEPT !.qc = Q("reversed"), !.seen = G(less)]
        BY <2>4, <3>1
      <4> QED BY <2>2, <4>1 DEF Tables
    <3>2. CASE r.q \notin Legacy
      <4>1. QcReverseWrite(r, v, w) = [w EXCEPT !.qc = Q("reversed"), !.fg = F(out)]
        BY <2>4, <3>2
      <4> QED BY <2>2, <4>1 DEF Tables
    <3> QED BY <3>1, <3>2
  <2> QED BY <2>1, <2>5, <2>6, CloseChange DEF QcPostWrite
<1> QED BY <1>1, <1>2, <1>3

(***************************************************************************)
(* Facts about a busy transaction.                                         *)
(***************************************************************************)

\* The bounds of a plan that SMT needs to see one operation at a time.
LEMMA PlanRange ==
    ASSUME NEW op \in Operation
    PROVE  /\ Len(Plan(op)) \in 3 .. 5 /\ 1 \in 1 .. Len(Plan(op))
           /\ ReadAt(op) \in 1 .. 3 /\ ReadAt(op) < Len(Plan(op))
<1>1. CASE op = "post"
  BY <1>1 DEF Plan, PostPlan, ReadAt
<1>2. CASE op \in {"lock", "finalize"}
  BY <1>2 DEF Plan, ConfirmPlan, ReadAt
<1>3. CASE op = "delete"
  BY <1>3 DEF Plan, DeletePlan, ReadAt
<1>4. CASE op = "reverse"
  BY <1>4 DEF Plan, ReversePlan, ReadAt
<1>5. CASE op \in {"status", "cancel"}
  BY <1>5 DEF Plan, StatusPlan, ReadAt
<1>6. CASE op = "qcPost"
  BY <1>6 DEF Plan, QcPostPlan, ReadAt
<1>7. CASE op = "qcReverse"
  BY <1>7 DEF Plan, QcReversePlan, ReadAt
<1> QED BY <1>1, <1>2, <1>3, <1>4, <1>5, <1>6, <1>7 DEF Operation

\* A request carries the parameters of its route.
LEMMA RequestForms ==
    ASSUME NEW r \in Request
    PROVE  /\ r.op \in Operation
           /\ r.op = "post" => r \in PostRequest /\ r.d \in Dispatch
           /\ r.op \in DraftOps => r \in DraftRequest /\ r.d \in Dispatch
           /\ r.op = "reverse" => r \in ReverseRequest /\ r.d \in Dispatch
           /\ r.op = "status" => r \in StatusRequest
           /\ r.op = "cancel" => r \in CancelRequest
           /\ r.op \in {"qcPost", "qcReverse"} => r \in QcRequest
BY DEF Request, Operation, DraftOps, StatusRequest, CancelRequest, PostRequest,
       DraftRequest, ReverseRequest, QcRequest

\* Every handler writes typed tables.
LEMMA WrittenTyped ==
    ASSUME NEW v \in Tables, NEW w \in Tables, NEW r \in Request
    PROVE  Written(r, v, w) \in Tables
<1>1. CASE r.op = "post"
  BY <1>1, RequestForms, PostWrites DEF Written
<1>2. CASE r.op = "lock"
  BY <1>2, RequestForms, ConfirmWrites DEF Written, DraftOps
<1>3. CASE r.op = "finalize"
  BY <1>3, RequestForms, ConfirmWrites DEF Written, DraftOps
<1>4. CASE r.op = "delete"
  BY <1>4, RequestForms, DeleteWrites DEF Written, DraftOps
<1>5. CASE r.op = "reverse"
  BY <1>5, RequestForms, ReverseWrites DEF Written
<1>6. CASE r.op = "status"
  BY <1>6, RequestForms, OtherWrites DEF Written
<1>7. CASE r.op = "cancel"
  BY <1>7, RequestForms, OtherWrites DEF Written
<1>8. CASE r.op = "qcPost"
  BY <1>8, RequestForms, OtherWrites DEF Written
<1>9. CASE r.op = "qcReverse"
  BY <1>9, RequestForms, OtherWrites DEF Written
<1> QED BY <1>1, <1>2, <1>3, <1>4, <1>5, <1>6, <1>7, <1>8, <1>9, RequestForms DEF Operation

\* Where a transaction stands when it is about to lock, read or write.
LEMMA Standing ==
    ASSUME InPlan, TypeOK, NEW t \in Tx, ~Idle(t)
    PROVE  /\ req[t] \in Request /\ req[t].op \in Operation
           /\ at[t] \in 1 .. 5 /\ at[t] <= Len(Plan(req[t].op))
           /\ Step(t) = Plan(req[t].op)[at[t]]
           /\ Step(t) = "read" <=> at[t] = ReadAt(req[t].op)
           /\ Step(t) # "write" => at[t] + 1 \in 1 .. Len(Plan(req[t].op))
           /\ Step(t) = "write" =>
                /\ Viewed(t)
                /\ Doing(t, {"post", "lock", "finalize", "reverse"}, 0) => at[t] = 5
                /\ Doing(t, {"delete"}, 0) => at[t] = 4
<1>1. req[t] \in Request /\ at[t] \in 1 .. Len(Plan(req[t].op)) /\ req[t].op \in Operation
  BY RequestForms DEF InPlan
<1>2. Step(t) = Plan(req[t].op)[at[t]]
  BY DEF Step
<1>3. /\ Len(Plan(req[t].op)) \in 3 .. 5
      /\ ReadAt(req[t].op) \in 1 .. 3 /\ ReadAt(req[t].op) < Len(Plan(req[t].op))
      /\ Step(t) = "read" <=> at[t] = ReadAt(req[t].op)
      /\ Step(t) = "write" <=> at[t] = Len(Plan(req[t].op))
  BY <1>1, <1>2, Positions
<1>4. /\ req[t].op \in {"post", "lock", "finalize", "reverse"} => Len(Plan(req[t].op)) = 5
      /\ req[t].op = "delete" => Len(Plan(req[t].op)) = 4
  BY <1>1, Positions DEF DraftOps
<1>5. /\ at[t] \in 1 .. 5 /\ at[t] <= Len(Plan(req[t].op))
      /\ Step(t) # "write" => at[t] + 1 \in 1 .. Len(Plan(req[t].op))
      /\ Step(t) = "write" => at[t] > ReadAt(req[t].op)
  <2> DEFINE n == Len(Plan(req[t].op))
             k == ReadAt(req[t].op)
             i == at[t]
  <2>1. /\ n \in 3 .. 5 /\ k \in 1 .. 3 /\ k < n /\ i \in 1 .. n
        /\ Step(t) = "write" <=> i = n
    BY <1>1, <1>3
  <2> HIDE DEF n, k, i
  <2>2. /\ i \in 1 .. 5 /\ i <= n
        /\ Step(t) # "write" => i + 1 \in 1 .. n
        /\ Step(t) = "write" => i > k
    BY <2>1
  <2> QED BY <2>2 DEF n, k, i
<1>6. Step(t) = "write" => /\ Doing(t, {"post", "lock", "finalize", "reverse"}, 0) => at[t] = 5
                           /\ Doing(t, {"delete"}, 0) => at[t] = 4
  BY <1>3, <1>4 DEF Doing
<1> QED BY <1>1, <1>2, <1>3, <1>5, <1>6 DEF Viewed

(***************************************************************************)
(* Moves that leave the tables alone keep the invariant.                   *)
(***************************************************************************)

\* The part of the invariant that only looks at the tables.
RowsOK == StampedLocked /\ PostedOnce /\ OneDraftPerLine /\ StampMeansFullyReversed

\* A step that writes nothing keeps the rows in order.
LEMMA SameTables ==
    ASSUME RowsOK, db' = db
    PROVE  RowsOK'
BY DEF RowsOK, StampedLocked, PostedOnce, OneDraftPerLine, StampMeansFullyReversed

\* The rest, for one transaction.
TxOK(t) ==
    /\ IF Idle(t) THEN req[t] = NoReq
       ELSE req[t] \in Request /\ at[t] \in 1 .. Len(Plan(req[t].op))
    /\ Viewed(t) => snap[t] \in Tables
    /\ Doing(t, DraftOps, 1) => held[t][req[t].d] = "X"
    /\ Doing(t, {"reverse"}, 4) => held[t][req[t].d] = "X"
    /\ Doing(t, {"post"}, 4) /\ Drafts(snap[t], LineOf[req[t].d]) # {} =>
         held[t][DraftOf(snap[t], LineOf[req[t].d])] = "X"
    /\ Doing(t, {"post"}, 1) \/ Doing(t, DraftOps, 3) =>
         held[t][SoOfDispatch(req[t].d)] = "X"
    /\ Doing(t, DraftOps, 2) =>
         /\ snap[t].disp[req[t].d] = db.disp[req[t].d]
         /\ db.disp[req[t].d].state = "UNLOCKED"
    /\ Doing(t, {"post"}, 3) =>
         \A e \in DispatchesOf(LineOf[req[t].d]) :
           snap[t].disp[e].state = db.disp[e].state
    /\ Viewed(t) => \A d \in Dispatch : RowMove(snap[t].disp[d], db.disp[d])
    /\ Doing(t, {"post"}, 0) => db.disp[req[t].d].state = "absent"

DistinctIds ==
    \A t, u \in Tx : t # u /\ Doing(t, {"post"}, 0) /\ Doing(u, {"post"}, 0) =>
                     req[u].d # req[t].d

\* The invariant, sorted by what it looks at.
LEMMA Parts ==
    /\ IInv <=> /\ TypeOK /\ LocksExclusive /\ RowsOK /\ DistinctIds
                /\ \A t \in Tx : TxOK(t)
    /\ TypeOK' /\ LocksExclusive' /\ RowsOK' /\ DistinctIds' /\ (\A t \in Tx : TxOK(t)')
         => IInv'
BY DEF IInv, TxOK, RowsOK, DistinctIds, InPlan, ViewTyped, HoldsDispatch, HoldsOrder,
       DraftStable, LineStable, ViewOlder, FreshIds

\* A transaction that takes no part in a step that leaves the tables alone.
LEMMA Bystander ==
    ASSUME NEW u \in Tx, TxOK(u), UNCHANGED <<db.disp, held[u], req[u], at[u], snap[u]>>
    PROVE  TxOK(u)'
BY DEF TxOK, Idle, Viewed, Doing

\* COMMIT and ROLLBACK keep what concerns the transaction that ends.
LEMMA FinishKeeps ==
    ASSUME IInv, NEW t \in Tx, NEW a \in Answer, Finish(t, a), db' \in Tables
    PROVE  TypeOK' /\ LocksExclusive' /\ DistinctIds' /\ TxOK(t)'
<1>1. /\ at'[t] = 0 /\ req'[t] = NoReq /\ held'[t] = Unlocked
      /\ \A u \in Tx \ {t} : UNCHANGED <<held[u], req[u], at[u], snap[u]>>
  BY DEF Finish, IInv, TypeOK
<1>2. TypeOK'
  BY DEF Finish, IInv, TypeOK, Unlocked, LockMode
<1>3. LocksExclusive'
  BY <1>1 DEF IInv, LocksExclusive, Unlocked
<1>4. DistinctIds'
  BY <1>1, Parts DEF DistinctIds, Doing, Idle
<1>5. TxOK(t)'
  BY <1>1 DEF TxOK, Idle, Viewed, Doing
<1> QED BY <1>2, <1>3, <1>4, <1>5

\* A handler that ends without a write keeps the invariant.
LEMMA EndKeeps ==
    ASSUME IInv, NEW t \in Tx, NEW a \in Answer, Finish(t, a), db' = db
    PROVE  IInv'
<1>1. \A u \in Tx \ {t} : UNCHANGED <<db, held[u], req[u], at[u], snap[u]>>
  BY DEF Finish, IInv, TypeOK
<1>2. \A u \in Tx \ {t} : TxOK(u)'
  BY <1>1, Parts, Bystander
<1>3. TypeOK' /\ LocksExclusive' /\ DistinctIds' /\ TxOK(t)'
  BY FinishKeeps DEF IInv, TypeOK
<1>4. RowsOK'
  BY Parts, SameTables
<1>5. \A u \in Tx : TxOK(u)'
  BY <1>2, <1>3
<1> QED BY <1>3, <1>4, <1>5, Parts

\* A request that enters its handler keeps the invariant.
LEMMA ArriveKeeps ==
    ASSUME IInv, NEW t \in Tx, NEW r \in Request, Arrive(t, r)
    PROVE  IInv'
<1>1. /\ db' = db /\ held' = held /\ snap' = snap
      /\ at[t] = 0 /\ at'[t] = 1 /\ req'[t] = r
      /\ \A u \in Tx \ {t} : UNCHANGED <<db, held[u], req[u], at[u], snap[u]>>
  BY DEF Arrive, Begin, Idle, IInv, TypeOK
<1>2. TypeOK'
  BY DEF Arrive, Begin, IInv, TypeOK, Answer
<1>3. LocksExclusive'
  BY <1>1 DEF IInv, LocksExclusive
<1>4. RowsOK'
  BY <1>1, Parts, SameTables
<1>5. DistinctIds'
  BY <1>1, Parts DEF DistinctIds, Doing, Idle, Arrive, Drawn
<1>6. \A u \in Tx \ {t} : TxOK(u)'
  BY <1>1, Parts, Bystander
<1>7. TxOK(t)'
  <2>1. 1 \in 1 .. Len(Plan(r.op)) /\ ~(1 > ReadAt(r.op))
    BY RequestForms, PlanRange
  <2>2. r.op = "post" => db.disp[r.d].state = "absent"
    BY DEF Arrive, Fresh
  <2> QED BY <1>1, <2>1, <2>2 DEF TxOK, Idle, Viewed, Doing
<1> QED BY <1>2, <1>3, <1>4, <1>5, <1>6, <1>7, Parts

\* The row a lock step asks for.  Only QC posting asks for a shared lock.
LEMMA WantedForms ==
    ASSUME IInv, NEW t \in Tx, ~Idle(t), NEW k \in Wanted(t)
    PROVE  /\ Step(t) \notin {"read", "write"}
           /\ k[2] \in {"S", "X"}
           /\ req[t].op # "qcPost" => k[2] = "X"
           /\ Step(t) = "so" => k[1] = SoOfRequest(req[t])
           /\ Step(t) = "dispatch" => k[1] = req[t].d
           /\ Step(t) = "draft" => k[1] = DraftOf(snap[t], LineOf[req[t].d])
<1>1. Step(t) \in LockSteps \cup {"read", "write"} /\ (Step(t) = "entry" => req[t].op = "qcPost")
  BY Standing, Positions DEF IInv
<1> QED BY <1>1 DEF Wanted, Wants, LockSteps

\* A step before the last: what it has to establish for the transaction itself.
LEMMA AdvanceKeeps ==
    ASSUME IInv, NEW t \in Tx, ~Idle(t), Step(t) # "write",
           db' = db, req' = req, answer' = answer,
           at' = [at EXCEPT ![t] = @ + 1],
           held' \in [Tx -> [Row -> LockMode]], LocksExclusive',
           snap' \in [Tx -> Tables \cup {NoView}],
           \A u \in Tx \ {t} : held'[u] = held[u] /\ snap'[u] = snap[u],
           req[t].op # "qcPost" => \A r \in Row : held[t][r] = "X" => held'[t][r] = "X",
           Step(t) = "dispatch" => held'[t][req[t].d] = "X",
           Step(t) = "so" => held'[t][SoOfRequest(req[t])] = "X",
           Step(t) = "draft" /\ Drafts(snap[t], LineOf[req[t].d]) # {} =>
             held'[t][DraftOf(snap[t], LineOf[req[t].d])] = "X",
           Step(t) # "read" => snap'[t] = snap[t],
           Step(t) = "read" => /\ snap'[t] = db
                               /\ req[t].op \in DraftOps => IsDraft(db, req[t].d)
    PROVE  IInv'
<1> DEFINE r == req[t]
           i == at[t]
           n == Len(Plan(r.op))
           k == ReadAt(r.op)
<1>1. /\ at'[t] = i + 1 /\ req'[t] = r
      /\ \A u \in Tx \ {t} : UNCHANGED <<db, held[u], req[u], at[u], snap[u]>>
  BY DEF IInv, TypeOK
<1>2. /\ r \in Request /\ r.op \in Operation /\ i \in 1 .. 5
      /\ i + 1 \in 1 .. n /\ n \in 3 .. 5 /\ k \in 1 .. 3
      /\ Step(t) = "read" <=> i = k
  BY Standing, PlanRange DEF IInv
<1>3. ~Idle(t)' /\ i + 1 \in 0 .. 5
  <2> HIDE DEF i, n, k
  <2>1. i + 1 \in 0 .. 5 /\ i + 1 # 0
    BY <1>2
  <2> QED BY <1>1, <2>1 DEF Idle
<1>4. TypeOK'
  <2>1. at' \in [Tx -> 0 .. 5]
    BY <1>3 DEF IInv, TypeOK
  <2> QED BY <2>1 DEF IInv, TypeOK
<1>5. RowsOK'
  BY Parts, SameTables
<1>6. DistinctIds'
  <2>1. \A u \in Tx : Doing(u, {"post"}, 0)' => Doing(u, {"post"}, 0) /\ req'[u] = req[u]
    <3>1. \A u \in Tx \ {t} : Doing(u, {"post"}, 0)' => Doing(u, {"post"}, 0)
      BY <1>1 DEF Doing, Idle
    <3>2. Doing(t, {"post"}, 0)' => Doing(t, {"post"}, 0)
      BY <1>1, <1>2 DEF Doing, Idle
    <3> QED BY <3>1, <3>2
  <2> QED BY <2>1, Parts DEF DistinctIds
<1>7. \A u \in Tx \ {t} : TxOK(u)'
  BY <1>1, Parts, Bystander
<1>8. TxOK(t)'
  <2>0. /\ i \in 1 .. n
        /\ Step(t) = Plan(r.op)[i]
        /\ r.op \in DraftOps \cup {"post", "reverse"} => r.d \in Dispatch /\ r.d \in Row
        /\ r.op \in DraftOps \cup {"post"} => SoOfDispatch(r.d) \in Row
        /\ r.op \in DraftOps \cup {"post", "reverse"} =>
             \A x \in Row : held[t][x] = "X" => held'[t][x] = "X"
    BY <1>2, RequestForms, Standing, TablesAssumption, RowAssumption
       DEF IInv, InPlan, DraftOps, SoOfDispatch
  <2>1. TxOK(t)
    BY Parts
  <2>2. i + 1 > k <=> i > k \/ Step(t) = "read"
    <3> HIDE DEF i, k, n
    <3> QED BY <1>2
  <2>3. IF Idle(t)' THEN req'[t] = NoReq
        ELSE req'[t] \in Request /\ at'[t] \in 1 .. Len(Plan(req'[t].op))
    BY <1>1, <1>2, <1>3
  <2>4. Viewed(t)' => snap'[t] \in Tables /\ \A d \in Dispatch : RowMove(snap'[t].disp[d], db.disp[d])
    <3>1. CASE Step(t) = "read"
      BY <3>1 DEF IInv, TypeOK, RowMove, Tables, DispatchRow
    <3>2. CASE Step(t) # "read"
      BY <1>1, <2>1, <2>2, <3>2 DEF Viewed, TxOK
    <3> QED BY <3>1, <3>2
  <2>5. Doing(t, DraftOps, 1)' => held'[t][r.d] = "X"
    <3> SUFFICES ASSUME r.op \in DraftOps PROVE held'[t][r.d] = "X"
      BY <1>1 DEF Doing
    <3>1. CASE i = 1
      BY <1>2, <3>1, <2>0, Positions DEF DraftOps
    <3>2. CASE i # 1
      <4>1. i > 1
        BY <1>2, <3>2
      <4> QED BY <2>1, <2>0, <4>1 DEF TxOK, Doing, DraftOps
    <3> QED BY <3>1, <3>2
  <2>6. Doing(t, {"reverse"}, 4)' => held'[t][r.d] = "X"
    <3> SUFFICES ASSUME r.op = "reverse", i + 1 > 4 PROVE held'[t][r.d] = "X"
      BY <1>1 DEF Doing
    <3>1. n = 5
      BY <1>2, <2>0, Positions
    <3>2. i = 4
      <4> HIDE DEF i, n
      <4> QED BY <1>2, <3>1
    <3> QED BY <3>2, <2>0, Positions, <1>2
  <2>7. Doing(t, {"post"}, 4)' /\ Drafts(snap'[t], LineOf[r.d]) # {} =>
          held'[t][DraftOf(snap'[t], LineOf[r.d])] = "X"
    <3> SUFFICES ASSUME r.op = "post", i + 1 > 4, Drafts(snap'[t], LineOf[r.d]) # {}
                 PROVE  held'[t][DraftOf(snap'[t], LineOf[r.d])] = "X"
      BY <1>1 DEF Doing
    <3>1. n = 5
      BY <1>2, <2>0, Positions
    <3>2. i = 4
      <4> HIDE DEF i, n
      <4> QED BY <1>2, <3>1
    <3>3. Step(t) = "draft" /\ Step(t) # "read"
      BY <3>2, <2>0, Positions, <1>2
    <3> QED BY <3>3
  <2>8. (Doing(t, {"post"}, 1) \/ Doing(t, DraftOps, 3))' => held'[t][SoOfDispatch(r.d)] = "X"
    <3>1. ASSUME r.op = "post" PROVE held'[t][SoOfDispatch(r.d)] = "X"
      <4>1. CASE i = 1
        <5>1. Step(t) = "so" /\ SoOfRequest(r) = SoOfDispatch(r.d)
          BY <3>1, <4>1, <2>0, <1>2, Positions DEF SoOfRequest, SoOfDispatch, LineOfRequest
        <5> QED BY <5>1
      <4>2. CASE i # 1
        <5>1. i > 1
          BY <1>2, <4>2
        <5> QED BY <2>1, <2>0, <5>1, <3>1 DEF TxOK, Doing
      <4> QED BY <4>1, <4>2
    <3>2. ASSUME r.op \in DraftOps, i + 1 > 3 PROVE held'[t][SoOfDispatch(r.d)] = "X"
      <4>1. CASE i = 3
        <5>1. Step(t) = "so"
          BY <3>2, <4>1, <2>0, <1>2, Positions DEF DraftOps
        <5>2. SoOfRequest(r) = SoOfDispatch(r.d)
          BY <3>2 DEF SoOfRequest, SoOfDispatch, LineOfRequest, DraftOps
        <5> QED BY <5>1, <5>2
      <4>2. CASE i # 3
        <5>1. i > 3
          BY <1>2, <4>2, <3>2
        <5> QED BY <2>1, <2>0, <5>1, <3>2 DEF TxOK, Doing, DraftOps
      <4> QED BY <4>1, <4>2
    <3> QED BY <1>1, <3>1, <3>2 DEF Doing
  <2>9. Doing(t, DraftOps, 2)' => /\ snap'[t].disp[r.d] = db.disp[r.d]
                                 /\ db.disp[r.d].state = "UNLOCKED"
    <3> SUFFICES ASSUME r.op \in DraftOps, i + 1 > 2
                 PROVE  snap'[t].disp[r.d] = db.disp[r.d] /\ db.disp[r.d].state = "UNLOCKED"
      BY <1>1 DEF Doing
    <3>0. k = 2
      BY DEF ReadAt, DraftOps
    <3>1. CASE Step(t) = "read"
      BY <3>1 DEF IsDraft
    <3>2. CASE Step(t) # "read"
      <4>1. i > 2
        BY <1>2, <3>0, <3>2
      <4> QED BY <2>1, <4>1, <3>2 DEF TxOK, Doing
    <3> QED BY <3>1, <3>2
  <2>10. Doing(t, {"post"}, 3)' =>
           \A e \in DispatchesOf(LineOf[r.d]) : snap'[t].disp[e].state = db.disp[e].state
    <3> SUFFICES ASSUME r.op = "post", i + 1 > 3
                 PROVE  \A e \in DispatchesOf(LineOf[r.d]) : snap'[t].disp[e].state = db.disp[e].state
      BY <1>1 DEF Doing
    <3>0. k = 3
      BY DEF ReadAt
    <3>1. CASE Step(t) = "read"
      BY <3>1
    <3>2. CASE Step(t) # "read"
      <4>1. i > 3
        BY <1>2, <3>0, <3>2
      <4> QED BY <2>1, <4>1, <3>2 DEF TxOK, Doing
    <3> QED BY <3>1, <3>2
  <2>11. Doing(t, {"post"}, 0)' => db.disp[r.d].state = "absent"
    <3>1. i > 0
      BY <1>2
    <3> QED BY <1>1, <2>1, <3>1 DEF TxOK, Doing
  <2> QED BY <1>1, <2>3, <2>4, <2>5, <2>6, <2>7, <2>8, <2>9, <2>10, <2>11 DEF TxOK
<1> QED BY <1>4, <1>5, <1>6, <1>7, <1>8, Parts DEF IInv

\* A granted SELECT ... FOR UPDATE keeps the invariant.
LEMMA LockKeeps ==
    ASSUME IInv, NEW t \in Tx, Lock(t)
    PROVE  IInv'
<1>i. ~Idle(t)
  BY DEF Lock, Wanted, Wants, Step
<1>1. PICK k \in Wanted(t) : Take(t, k[1], k[2])
  BY DEF Lock
<1>2. /\ \A r \in Row : held'[t][r] = IF r = k[1] THEN k[2] ELSE held[t][r]
      /\ \A u \in Tx \ {t} : held'[u] = held[u] /\ snap'[u] = snap[u]
      /\ snap'[t] = snap[t]
  BY <1>1 DEF Take, IInv, TypeOK
<1>3. held' \in [Tx -> [Row -> LockMode]]
  BY <1>1, <1>i, WantedForms DEF Take, IInv, TypeOK, LockMode
<1>4. LocksExclusive'
  <2>1. \A u \in Tx \ {t} : ~Conflict(held[u][k[1]], k[2])
    BY <1>1 DEF Take, Blockers
  <2>2. k[2] \in {"S", "X"} /\ \A u \in Tx : \A r \in Row : held[u][r] \in LockMode
    BY <1>i, WantedForms DEF IInv, TypeOK
  <2>3. \A u \in Tx \ {t} : k[1] \in Row =>
            /\ held[u][k[1]] # "X"
            /\ k[2] = "X" => held[u][k[1]] = "-"
    BY <2>1, <2>2 DEF Conflict, LockMode
  <2> QED BY <1>2, <2>3 DEF IInv, LocksExclusive
<1>5. req[t].op # "qcPost" => k[2] = "X"
  BY <1>i, WantedForms
<1>6. /\ Step(t) = "dispatch" => held'[t][req[t].d] = "X"
      /\ Step(t) = "so" => held'[t][SoOfRequest(req[t])] = "X"
      /\ Step(t) = "draft" => held'[t][DraftOf(snap[t], LineOf[req[t].d])] = "X"
  <2>1. Step(t) \in {"dispatch", "so", "draft"} => k[2] = "X" /\ k[1] \in Row
    <3>1. Step(t) = "so" => SoOfRequest(req[t]) \in SO
      BY <1>i, Standing, TablesAssumption
         DEF IInv, SoOfRequest, LineOfRequest, Request, StatusRequest, CancelRequest,
             PostRequest, DraftRequest, ReverseRequest, QcRequest
    <3>2. Step(t) = "dispatch" => req[t].d \in Dispatch
      BY <1>i, Standing, Positions, RequestForms DEF IInv, InPlan, DraftOps
    <3>3. Step(t) = "draft" => DraftOf(snap[t], LineOf[req[t].d]) \in Dispatch
      <4> SUFFICES ASSUME Step(t) = "draft"
                   PROVE  DraftOf(snap[t], LineOf[req[t].d]) \in Dispatch
        OBVIOUS
      <4>1. req[t].op = "post"
        BY <1>i, Standing, Positions DEF IInv, InPlan
      <4>2. LineOf[req[t].d] \in Line
        BY <1>i, <4>1, Standing, RequestForms, TablesAssumption DEF IInv
      <4>3. Drafts(snap[t], LineOf[req[t].d]) # {}
        BY DEF Wanted, Wants
      <4> QED BY <4>2, <4>3, DraftChosen
    <3>4. Step(t) \in {"dispatch", "so", "draft"} => k[2] = "X"
      BY DEF Wanted, Wants
    <3> QED BY <1>i, <3>1, <3>2, <3>3, <3>4, WantedForms, RowAssumption
  <2> QED BY <1>2, <1>i, <2>1, WantedForms
<1>7. Step(t) \notin {"read", "write"}
  BY <1>i, WantedForms
<1> QED BY <1>i, <1>1, <1>2, <1>3, <1>4, <1>5, <1>6, <1>7, AdvanceKeeps DEF Take, IInv, TypeOK

\* A lock step with nothing to lock (no draft found, nothing to close) keeps it.
LEMMA PassKeeps ==
    ASSUME IInv, NEW t \in Tx, LockNothing(t)
    PROVE  IInv'
<1>1. ~Idle(t)
  BY DEF LockNothing, Step, LockSteps
<1>2. Step(t) \notin {"read", "write", "so", "dispatch"}
  BY DEF LockNothing, LockSteps, Wanted, Wants
<1>3. Step(t) = "draft" => Drafts(snap[t], LineOf[req[t].d]) = {}
  BY DEF LockNothing, Wanted, Wants
<1> QED BY <1>1, <1>2, <1>3, AdvanceKeeps DEF LockNothing, Pass, IInv, TypeOK, LocksExclusive

\* The first plain SELECT with its check (not a draft: 409) keeps it.
LEMMA ReadKeeps ==
    ASSUME IInv, NEW t \in Tx, Read(t)
    PROVE  IInv'
<1>1. ~Idle(t) /\ Step(t) = "read"
  BY DEF Read, Step
<1>2. req[t].op \in DraftOps => IsDraft(db, req[t].d)
  BY DEF Read, Readable, DraftOps
<1>3. /\ snap' \in [Tx -> Tables \cup {NoView}]
      /\ snap'[t] = db /\ \A u \in Tx \ {t} : snap'[u] = snap[u]
  BY DEF Read, ReadView, IInv, TypeOK
<1>4. /\ db' = db /\ req' = req /\ answer' = answer /\ held' = held
      /\ at' = [at EXCEPT ![t] = @ + 1]
  BY DEF Read, ReadView
<1>5. held' \in [Tx -> [Row -> LockMode]] /\ LocksExclusive'
  BY <1>4 DEF IInv, TypeOK, LocksExclusive
<1> QED BY <1>1, <1>2, <1>3, <1>4, <1>5, AdvanceKeeps

(***************************************************************************)
(* Writes.                                                                 *)
(***************************************************************************)

\* x, put in the place of dispatch row e, keeps the rows in order, and t may put it.
RowEffect(t, e, x) ==
    /\ RowMove(db.disp[e], x)
    /\ x.posted = IF x.state = "LOCKED" THEN 1 ELSE 0
    /\ x.stamped => x.state = "LOCKED" /\ x.reversed >= x.qty
    /\ x.state = "UNLOCKED" => \/ db.disp[e].state = "UNLOCKED"
                               \/ Drafts(db, LineOf[e]) = {}
    /\ x.state = "UNLOCKED" => PostDispatch(t)
    /\ x.state = "LOCKED" => db.disp[e].state \in {"UNLOCKED", "LOCKED"}
    /\ x.state # db.disp[e].state => \/ x.state = "UNLOCKED"
                                     \/ db.disp[e].state = "UNLOCKED"
    /\ x.state # db.disp[e].state => held[t][SoOfDispatch(e)] = "X"
    /\ \/ db.disp[e].state # "absent" /\ held[t][e] = "X"
       \/ db.disp[e].state = "absent" /\ Doing(t, {"post"}, 0) /\ e = req[t].d

\* POST /dispatches writes a row it owns: a new one, or the draft it has locked.
LEMMA PostEffect ==
    ASSUME IInv, NEW t \in Tx, PostDispatch(t)
    PROVE  \E e \in DispatchesOf(LineOf[req[t].d]), x \in DispatchRow :
             /\ db'.disp = [db.disp EXCEPT ![e] = x] /\ RowEffect(t, e, x)
             /\ db.disp[e].state \in {"absent", "UNLOCKED"}
             /\ x.state = "UNLOCKED" /\ x.qty = req[t].qty
             /\ x.reversed = 0 \/ x.reversed = db.disp[e].reversed
<1> DEFINE r == req[t]
           l == LineOf[r.d]
<1>1. /\ Step(t) = "write" /\ ~Idle(t) /\ r.op = "post"
      /\ db' = PostWrite(r, snap[t], db)
  BY DEF PostDispatch, Write, Commit, Written, Step
<1>2. /\ r \in PostRequest /\ r.d \in Dispatch /\ r.qty \in Nat /\ at[t] = 5 /\ Viewed(t)
      /\ l \in Line /\ SoOfDispatch(r.d) \in Row
  <2>1. r \in PostRequest /\ r.d \in Dispatch
    BY <1>1, Standing, RequestForms DEF IInv
  <2>2. at[t] = 5 /\ Viewed(t)
    BY <1>1, Standing DEF IInv, Doing
  <2> QED BY <2>1, <2>2, TablesAssumption, RowAssumption DEF PostRequest, Positive, SoOfDispatch
<1>3. /\ snap[t] \in Tables /\ db \in Tables
      /\ held[t][SoOfDispatch(r.d)] = "X"
      /\ Drafts(snap[t], l) # {} => held[t][DraftOf(snap[t], l)] = "X"
      /\ \A e \in DispatchesOf(l) : snap[t].disp[e].state = db.disp[e].state
      /\ db.disp[r.d].state = "absent"
  <2>1. TxOK(t) /\ db \in Tables
    BY Parts DEF IInv, TypeOK
  <2>2. Doing(t, {"post"}, 0) /\ Doing(t, {"post"}, 1) /\ Doing(t, {"post"}, 3) /\ Doing(t, {"post"}, 4)
    BY <1>1, <1>2 DEF Doing
  <2> QED BY <1>2, <2>1, <2>2 DEF TxOK
<1>4. CASE Drafts(snap[t], l) = {}
  <2>1. db'.disp = [db.disp EXCEPT ![r.d] = NewDraft(r.qty)]
    BY <1>1, <1>2, <1>3, <1>4, PostWrites
  <2>2. Drafts(db, l) = {}
    BY <1>3, <1>4 DEF Drafts
  <2>3. NewDraft(r.qty) \in DispatchRow
    BY <1>2 DEF NewDraft, NoDispatch, DispatchRow, DispatchState
  <2>4. RowEffect(t, r.d, NewDraft(r.qty))
    BY <1>1, <1>2, <1>3, <2>2 DEF RowEffect, RowMove, NewDraft, NoDispatch, Doing
  <2>5. LET x == NewDraft(r.qty)
        IN  x.state = "UNLOCKED" /\ x.qty = r.qty /\ x.reversed = 0
    BY DEF NewDraft, NoDispatch
  <2>6. r.d \in DispatchesOf(l)
    BY <1>2 DEF DispatchesOf
  <2> QED BY <1>3, <2>1, <2>3, <2>4, <2>5, <2>6
<1>5. CASE Drafts(snap[t], l) # {}
  <2> DEFINE e == DraftOf(snap[t], l)
             x == RequantifiedRow(db.disp[e], r.qty)
  <2>1. e \in Dispatch /\ LineOf[e] = l /\ snap[t].disp[e].state = "UNLOCKED"
    BY <1>2, <1>5, DraftChosen
  <2>2. db'.disp = [db.disp EXCEPT ![e] = x]
    <3>1. db'.disp = Requantified(db.disp, DraftOf(snap[t], LineOf[r.d]), r.qty)
      BY <1>1, <1>2, <1>3, <1>5, PostWrites
    <3> QED BY <3>1 DEF Requantified
  <2>3. db.disp[e].state = "UNLOCKED" /\ db.disp[e] \in DispatchRow
    BY <1>3, <2>1 DEF DispatchesOf, Tables
  <2>4. x \in DispatchRow
    BY <1>2, <2>3, RowTypes
  <2>5. /\ x.state = "UNLOCKED" /\ x.posted = db.disp[e].posted /\ x.stamped = db.disp[e].stamped
        /\ x.qty = r.qty /\ x.reversed = db.disp[e].reversed
    BY <2>3 DEF RequantifiedRow, DispatchRow
  <2>6. db.disp[e].posted = 0 /\ ~db.disp[e].stamped
    BY <2>1, <2>3 DEF IInv, PostedOnce, StampedLocked
  <2>7. RowEffect(t, e, x)
    <3> HIDE DEF x
    <3> QED BY <1>3, <1>5, <2>3, <2>5, <2>6 DEF RowEffect, RowMove
  <2>8. e \in DispatchesOf(l)
    BY <2>1 DEF DispatchesOf
  <2> HIDE DEF e, x
  <2> QED BY <2>2, <2>3, <2>4, <2>5, <2>7, <2>8
<1> QED BY <1>4, <1>5

\* Confirming or deleting a draft writes a row that is a draft still.
LEMMA DraftEffect ==
    ASSUME IInv, NEW t \in Tx, LockDispatch(t) \/ FinalizeDraft(t) \/ DeleteDispatch(t)
    PROVE  \E e \in Dispatch, x \in DispatchRow :
             db'.disp = [db.disp EXCEPT ![e] = x] /\ RowEffect(t, e, x)
<1> DEFINE r == req[t]
           y == db.disp[r.d]
<1>1. Step(t) = "write" /\ ~Idle(t) /\ r.op \in DraftOps
  BY DEF LockDispatch, FinalizeDraft, DeleteDispatch, Write, Step, DraftOps
<1>2. r \in DraftRequest /\ r.d \in Dispatch /\ at[t] \in {4, 5} /\ Viewed(t)
  BY <1>1, Standing, RequestForms DEF IInv, Doing, DraftOps
<1>3. /\ snap[t] \in Tables /\ db \in Tables /\ y \in DispatchRow
      /\ held[t][SoOfDispatch(r.d)] = "X" /\ held[t][r.d] = "X"
      /\ y.state = "UNLOCKED" /\ y.posted = 0 /\ ~y.stamped
  BY <1>1, <1>2 DEF IInv, TypeOK, ViewTyped, HoldsOrder, HoldsDispatch, DraftStable,
                    Doing, Tables, PostedOnce, StampedLocked
<1>4. ConfirmedRow(y) \in DispatchRow /\ DeletedRow(y) \in DispatchRow
  BY <1>3, RowTypes
<1>5. CASE LockDispatch(t) \/ FinalizeDraft(t)
  <2> DEFINE x == ConfirmedRow(y)
  <2>1. db'.disp = [db.disp EXCEPT ![r.d] = x]
    <3>1. /\ LockWrite(r, snap[t], db).disp = [db.disp EXCEPT ![r.d] = ConfirmedRow(@)]
          /\ FinalizeWrite(r, snap[t], db).disp = [db.disp EXCEPT ![r.d] = ConfirmedRow(@)]
      BY <1>2, <1>3, ConfirmWrites
    <3>2. CASE LockDispatch(t)
      <4>1. db' = LockWrite(r, snap[t], db)
        BY <3>2 DEF LockDispatch, Write, Commit, Written
      <4> QED BY <3>1, <4>1
    <3>3. CASE FinalizeDraft(t)
      <4>1. db' = FinalizeWrite(r, snap[t], db)
        BY <3>3 DEF FinalizeDraft, Write, Commit, Written
      <4> QED BY <3>1, <4>1
    <3> QED BY <1>5, <3>2, <3>3
  <2>2. x.state = "LOCKED" /\ x.posted = 1 /\ ~x.stamped
    BY <1>3 DEF ConfirmedRow, DispatchRow
  <2>3. RowEffect(t, r.d, x)
    <3> HIDE DEF x
    <3> QED BY <1>3, <2>2 DEF RowEffect, RowMove
  <2> QED BY <1>2, <1>4, <2>1, <2>3
<1>6. CASE DeleteDispatch(t)
  <2> DEFINE x == DeletedRow(y)
  <2>1. db'.disp = [db.disp EXCEPT ![r.d] = x]
    BY <1>2, <1>3, <1>6, DeleteWrites DEF DeleteDispatch, Write, Commit, Written
  <2>2. x.state = "deleted" /\ x.posted = 0 /\ ~x.stamped
    BY <1>3 DEF DeletedRow, DispatchRow
  <2>3. RowEffect(t, r.d, x)
    <3> HIDE DEF x
    <3> QED BY <1>3, <2>2 DEF RowEffect, RowMove
  <2> QED BY <1>2, <1>4, <2>1, <2>3
<1> QED BY <1>5, <1>6

\* A reversal adds to a confirmed row, and what its stale view saw covered still is.
LEMMA ReverseEffect ==
    ASSUME IInv, NEW t \in Tx, ReverseDispatch(t)
    PROVE  \E e \in Dispatch, x \in DispatchRow :
             db'.disp = [db.disp EXCEPT ![e] = x] /\ RowEffect(t, e, x)
<1> DEFINE r == req[t]
           z == snap[t].disp[r.d]
           y == db.disp[r.d]
           b == Covers(r, snap[t])
           x == ReversedRow(y, r.qty, b)
<1>1. /\ Step(t) = "write" /\ ~Idle(t) /\ r.op = "reverse"
      /\ db' = ReverseWrite(r, snap[t], db) /\ z.state = "LOCKED"
  BY DEF ReverseDispatch, Write, Commit, Written, Step, Allowed, ReverseAllowed
<1>2. /\ r \in ReverseRequest /\ r.d \in Dispatch /\ r.qty \in Nat
      /\ at[t] = 5 /\ Viewed(t)
  <2>1. r \in ReverseRequest /\ r.d \in Dispatch
    BY <1>1, Standing, RequestForms DEF IInv
  <2>2. at[t] = 5 /\ Viewed(t)
    BY <1>1, Standing DEF IInv, Doing
  <2> QED BY <2>1, <2>2, TablesAssumption DEF ReverseRequest, Positive
<1>3. /\ snap[t] \in Tables /\ db \in Tables /\ y \in DispatchRow /\ z \in DispatchRow
      /\ held[t][r.d] = "X" /\ RowMove(z, y)
  BY <1>1, <1>2 DEF IInv, TypeOK, ViewTyped, HoldsDispatch, ViewOlder, Doing, Tables
<1>4. /\ y.state = "LOCKED" /\ y.posted = 1 /\ y.qty = z.qty /\ y.reversed >= z.reversed
      /\ y.stamped => y.reversed >= y.qty
  BY <1>1, <1>2, <1>3 DEF RowMove, IInv, PostedOnce, StampMeansFullyReversed
<1>5. db'.disp = [db.disp EXCEPT ![r.d] = x]
  BY <1>1, <1>2, <1>3, ReverseWrites
<1>6. b \in BOOLEAN /\ (b <=> z.reversed + r.qty >= z.qty)
  BY DEF Covers
<1>7. x \in DispatchRow
  BY <1>2, <1>3, <1>6, RowTypes
<1>8. /\ x.state = "LOCKED" /\ x.posted = 1 /\ x.qty = y.qty
      /\ x.reversed = y.reversed + r.qty /\ x.stamped = (y.stamped \/ b)
  BY <1>3, <1>4 DEF ReversedRow, DispatchRow
<1>9. /\ x.reversed >= y.reversed
      /\ x.stamped => x.reversed >= x.qty
  <2>1. /\ y.reversed \in Nat /\ z.reversed \in Nat /\ y.qty \in Nat /\ z.qty \in Nat
        /\ y.stamped \in BOOLEAN
    BY <1>3 DEF DispatchRow
  <2> HIDE DEF x, y, z, b
  <2> QED BY <1>2, <1>4, <1>6, <1>8, <2>1
<1>10. RowEffect(t, r.d, x)
  <2> HIDE DEF x
  <2> QED BY <1>3, <1>4, <1>8, <1>9 DEF RowEffect, RowMove
<1> QED BY <1>2, <1>5, <1>7, <1>10

\* A write of any handler changes at most one dispatch row, in such a way.
LEMMA WriteEffect ==
    ASSUME IInv, NEW t \in Tx, Writes(t)
    PROVE  \/ db'.disp = db.disp
           \/ \E e \in Dispatch, x \in DispatchRow :
                db'.disp = [db.disp EXCEPT ![e] = x] /\ RowEffect(t, e, x)
<1>1. CASE PostDispatch(t)
  BY <1>1, PostEffect DEF DispatchesOf
<1>2. CASE LockDispatch(t) \/ FinalizeDraft(t) \/ DeleteDispatch(t)
  BY <1>2, DraftEffect
<1>3. CASE ReverseDispatch(t)
  BY <1>3, ReverseEffect
<1>4. CASE PutStatus(t) \/ CancelApproval(t) \/ PostQc(t) \/ ReverseQc(t)
  <2>1. Step(t) = "write" /\ ~Idle(t)
    BY <1>4 DEF PutStatus, CancelApproval, PostQc, ReverseQc, Write, Step
  <2>2. req[t] \in Request /\ snap[t] \in Tables /\ db \in Tables
    BY <2>1, Standing DEF IInv, ViewTyped, TypeOK
  <2>3. CASE PutStatus(t)
    BY <2>2, <2>3, RequestForms, OtherWrites DEF PutStatus, Write, Commit, Written
  <2>4. CASE CancelApproval(t)
    BY <2>2, <2>4, RequestForms, OtherWrites DEF CancelApproval, Write, Commit, Written
  <2>5. CASE PostQc(t)
    BY <2>2, <2>5, RequestForms, OtherWrites DEF PostQc, Write, Commit, Written
  <2>6. CASE ReverseQc(t)
    BY <2>2, <2>6, RequestForms, OtherWrites DEF ReverseQc, Write, Commit, Written
  <2> QED BY <1>4, <2>3, <2>4, <2>5, <2>6
<1> QED BY <1>1, <1>2, <1>3, <1>4 DEF Writes

\* Moves of a dispatch row add up.
LEMMA MoveTransitive ==
    ASSUME NEW x \in DispatchRow, NEW y \in DispatchRow, NEW z \in DispatchRow,
           RowMove(x, y), RowMove(y, z)
    PROVE  RowMove(x, z)
BY DEF RowMove, DispatchRow

\* Such a change disturbs no other transaction: the locks it needs exclude that.
LEMMA EffectKeeps ==
    ASSUME IInv, NEW t \in Tx, NEW e \in Dispatch, NEW x \in DispatchRow,
           db' \in Tables, db'.disp = [db.disp EXCEPT ![e] = x], RowEffect(t, e, x),
           \A u \in Tx \ {t} : UNCHANGED <<held[u], req[u], at[u], snap[u]>>
    PROVE  RowsOK' /\ \A u \in Tx \ {t} : TxOK(u)'
<1>1. \A d \in Dispatch : db'.disp[d] = IF d = e THEN x ELSE db.disp[d]
  BY DEF IInv, TypeOK, Tables
<1>2. RowsOK'
  <2>1. StampedLocked' /\ PostedOnce' /\ StampMeansFullyReversed'
    BY <1>1 DEF IInv, StampedLocked, PostedOnce, StampMeansFullyReversed, RowEffect
  <2>2. OneDraftPerLine'
    <3> SUFFICES ASSUME NEW l \in Line, NEW c \in Drafts(db, l)', NEW d \in Drafts(db, l)'
                 PROVE  c = d
      BY DEF OneDraftPerLine
    <3>1. /\ \A f \in {c, d} : f # e => f \in Drafts(db, l)
          /\ e \in {c, d} => LineOf[e] = l /\ x.state = "UNLOCKED"
      BY <1>1 DEF Drafts, DispatchesOf
    <3>2. e \in {c, d} => e \in Drafts(db, l) \/ Drafts(db, l) = {}
      BY <3>1 DEF RowEffect, Drafts, DispatchesOf
    <3> QED BY <3>1, <3>2 DEF IInv, OneDraftPerLine
  <2> QED BY <2>1, <2>2 DEF RowsOK
<1>3. ASSUME NEW u \in Tx \ {t} PROVE TxOK(u)'
  <2>1. TxOK(u) /\ UNCHANGED <<held[u], req[u], at[u], snap[u]>>
    BY Parts
  <2>2. \A r \in Row : held[t][r] = "X" => held[u][r] = "-"
    BY DEF IInv, LocksExclusive
  <2>3. \A n : UNCHANGED <<Idle(u), Viewed(u), Doing(u, DraftOps, n), Doing(u, {"post"}, n),
                          Doing(u, {"reverse"}, n)>>
    BY <2>1 DEF Idle, Viewed, Doing
  <2>4. ~Idle(u) => req[u] \in Request
    BY <2>1 DEF TxOK
  <2>5. Viewed(u) => \A d \in Dispatch : RowMove(snap[u].disp[d], db'.disp[d])
    <3> SUFFICES ASSUME Viewed(u), NEW d \in Dispatch PROVE RowMove(snap[u].disp[d], db'.disp[d])
      OBVIOUS
    <3>1. /\ snap[u].disp[d] \in DispatchRow /\ db.disp[d] \in DispatchRow
          /\ db'.disp[d] \in DispatchRow /\ RowMove(snap[u].disp[d], db.disp[d])
      BY <2>1 DEF TxOK, IInv, TypeOK, Tables
    <3>2. RowMove(db.disp[d], db'.disp[d])
      BY <1>1, <3>1 DEF RowEffect, RowMove, DispatchRow
    <3> QED BY <3>1, <3>2, MoveTransitive
  <2>6. Doing(u, DraftOps, 2) => db'.disp[req[u].d] = db.disp[req[u].d]
    <3> SUFFICES ASSUME Doing(u, DraftOps, 2) PROVE req[u].d \in Dispatch /\ req[u].d # e
      BY <1>1
    <3>1. req[u].d \in Dispatch
      BY <2>4, RequestForms DEF Doing
    <3>2. db.disp[req[u].d].state = "UNLOCKED"
      BY <2>1 DEF TxOK
    <3>3. held[u][req[u].d] = "X"
      <4>1. at[u] \in 0 .. 5
        BY DEF IInv, TypeOK
      <4>2. at[u] > 1
        BY <4>1 DEF Doing
      <4> QED BY <2>1, <4>2 DEF TxOK, Doing
    <3> QED BY <2>2, <3>1, <3>2, <3>3, RowAssumption DEF RowEffect
  <2>7. Doing(u, {"post"}, 3) =>
          \A f \in DispatchesOf(LineOf[req[u].d]) : db'.disp[f].state = db.disp[f].state
    <3> SUFFICES ASSUME Doing(u, {"post"}, 3), LineOf[e] = LineOf[req[u].d]
                 PROVE  x.state = db.disp[e].state
      BY <1>1 DEF DispatchesOf
    <3>1. SoOfDispatch(e) = SoOfDispatch(req[u].d) /\ SoOfDispatch(e) \in Row
      BY TablesAssumption, RowAssumption DEF SoOfDispatch
    <3>2. at[u] \in 0 .. 5
      BY DEF IInv, TypeOK
    <3>3. Doing(u, {"post"}, 1)
      BY <3>2 DEF Doing
    <3> QED BY <2>1, <2>2, <3>1, <3>3 DEF TxOK, RowEffect
  <2>8. Doing(u, {"post"}, 0) => db'.disp[req[u].d].state = "absent"
    <3> SUFFICES ASSUME Doing(u, {"post"}, 0) PROVE req[u].d \in Dispatch /\ req[u].d # e
      BY <1>1, <2>1 DEF TxOK
    <3>1. req[u].d \in Dispatch /\ db.disp[req[u].d].state = "absent"
      BY <2>1, <2>4, RequestForms DEF Doing, TxOK
    <3> QED BY <3>1, Parts DEF RowEffect, DistinctIds
  <2> QED BY <2>1, <2>3, <2>5, <2>6, <2>7, <2>8 DEF TxOK
<1> QED BY <1>2, <1>3

\* The validation, writes and COMMIT of any handler keep the invariant.
LEMMA WriteKeeps ==
    ASSUME IInv, NEW t \in Tx, Writes(t)
    PROVE  IInv'
<1>1. /\ Step(t) = "write" /\ ~Idle(t) /\ Finish(t, "done")
      /\ db' = Written(req[t], snap[t], db)
  BY DEF Writes, PostDispatch, LockDispatch, FinalizeDraft, DeleteDispatch, ReverseDispatch,
         PutStatus, CancelApproval, PostQc, ReverseQc, Write, Commit, Step
<1>2. db' \in Tables
  <2>1. req[t] \in Request /\ snap[t] \in Tables /\ db \in Tables
    BY <1>1, Standing DEF IInv, ViewTyped, TypeOK
  <2> QED BY <1>1, <2>1, WrittenTyped
<1>3. TypeOK' /\ LocksExclusive' /\ DistinctIds' /\ TxOK(t)'
  BY <1>1, <1>2, FinishKeeps DEF Answer
<1>4. \A u \in Tx \ {t} : UNCHANGED <<held[u], req[u], at[u], snap[u]>>
  BY <1>1 DEF Finish, IInv, TypeOK
<1>5. RowsOK' /\ \A u \in Tx \ {t} : TxOK(u)'
  <2>1. CASE db'.disp = db.disp
    <3>1. RowsOK'
      BY <2>1, Parts DEF RowsOK, StampedLocked, PostedOnce, OneDraftPerLine,
                         StampMeansFullyReversed, Drafts
    <3>2. \A u \in Tx \ {t} : TxOK(u)'
      BY <1>4, <2>1, Parts, Bystander
    <3> QED BY <3>1, <3>2
  <2>2. CASE \E e \in Dispatch, x \in DispatchRow :
               db'.disp = [db.disp EXCEPT ![e] = x] /\ RowEffect(t, e, x)
    BY <1>2, <1>4, <2>2, EffectKeeps
  <2> QED BY <2>1, <2>2, WriteEffect
<1>6. \A u \in Tx : TxOK(u)'
  BY <1>3, <1>5
<1> QED BY <1>3, <1>5, <1>6, Parts

(***************************************************************************)
(* The invariant.                                                          *)
(***************************************************************************)

\* The invariant holds when no request has been made.
LEMMA InitHolds == Init => IInv
<1> SUFFICES ASSUME Init PROVE IInv
  OBVIOUS
<1>1. PICK first \in FirstStatus : db = TablesInit(first)
  BY DEF Init
<1>2. db \in Tables
  <2>1. first \in [SO -> Status]
    BY DEF FirstStatus, Status
  <2>2. NoDispatch \in DispatchRow
    BY DEF NoDispatch, DispatchRow, DispatchState
  <2>3. /\ [d \in Dispatch |-> NoDispatch] \in [Dispatch -> DispatchRow]
        /\ LegacyStock \in [Item -> Int] /\ [i \in Item |-> 0] \in [Item -> Int]
    BY <2>2, LegacyAssumption
  <2> QED BY <1>1, <2>1, <2>3 DEF TablesInit, Tables
<1>3. \A d \in Dispatch : db.disp[d] = NoDispatch
  BY <1>1 DEF TablesInit
<1>4. TypeOK /\ LocksExclusive
  BY <1>2 DEF TypeOK, LocksExclusive, Init, EngineInit, Unlocked, LockMode, Answer
<1>5. RowsOK
  BY <1>3 DEF RowsOK, StampedLocked, PostedOnce, OneDraftPerLine, StampMeansFullyReversed,
              NoDispatch, Drafts, DispatchesOf
<1>6. \A t \in Tx : Idle(t) /\ req[t] = NoReq
  BY DEF Init, EngineInit, Idle
<1>7. DistinctIds /\ \A t \in Tx : TxOK(t)
  BY <1>6 DEF DistinctIds, TxOK, Viewed, Doing
<1> QED BY <1>4, <1>5, <1>7, Parts

\* A step leaves the tables alone or is a write, and keeps the invariant.
LEMMA StepHolds ==
    ASSUME IInv, [Next]_vars
    PROVE  IInv' /\ (db' = db \/ \E t \in Tx : Writes(t))
<1>1. CASE UNCHANGED vars
  <2>1. \A t \in Tx : UNCHANGED <<db.disp, held[t], req[t], at[t], snap[t]>>
    BY <1>1 DEF vars
  <2>2. \A t \in Tx : TxOK(t)'
    BY <2>1, Parts, Bystander
  <2>3. TypeOK' /\ LocksExclusive' /\ DistinctIds'
    BY <1>1, Parts DEF vars, TypeOK, LocksExclusive, DistinctIds, Doing, Idle
  <2> QED BY <1>1, <2>2, <2>3, Parts, SameTables DEF vars
<1>2. ASSUME NEW t \in Tx, NEW r \in Request, Arrive(t, r) PROVE IInv' /\ db' = db
  BY <1>2, ArriveKeeps DEF Arrive, Begin
<1>3. ASSUME NEW t \in Tx, Lock(t) PROVE IInv' /\ db' = db
  BY <1>3, LockKeeps DEF Lock, Take
<1>4. ASSUME NEW t \in Tx, Run(t) PROVE IInv' /\ (db' = db \/ Writes(t))
  <2>1. CASE LockNothing(t)
    BY <2>1, PassKeeps DEF LockNothing, Pass
  <2>2. CASE Read(t)
    BY <2>2, ReadKeeps DEF Read, ReadView
  <2>3. CASE NotFound(t) \/ RefuseAtRead(t) \/ RefuseAtWrite(t) \/ KeepStatus(t)
    <3>1. db' = db /\ (Finish(t, "refused") \/ Finish(t, "done"))
      BY <2>3 DEF NotFound, RefuseAtRead, RefuseAtWrite, KeepStatus, Refuse, Commit
    <3> QED BY <3>1, EndKeeps DEF Answer
  <2>4. CASE Writes(t)
    BY <2>4, WriteKeeps
  <2> QED BY <1>4, <2>1, <2>2, <2>3, <2>4 DEF Run
<1>5. ASSUME NEW t \in Tx, DeadlockVictim(t) \/ Expire(t) PROVE IInv' /\ db' = db
  <2>1. db' = db /\ (Finish(t, "done") \/ Finish(t, "failed"))
    BY <1>5 DEF DeadlockVictim, Expire, Rollback
  <2> QED BY <2>1, EndKeeps DEF Answer
<1> QED BY <1>1, <1>2, <1>3, <1>4, <1>5 DEF Next

(***************************************************************************)
(* In every reachable state each transaction holds and knows what its      *)
(* place in its handler implies (IInv): lock before read, read before      *)
(* write, as the routes of dispatch.js order them.                         *)
(***************************************************************************)
THEOREM Invariance == Spec => []IInv
<1>1. Init => IInv
  BY InitHolds
<1>2. IInv /\ [Next]_vars => IInv'
  BY StepHolds
<1> QED BY <1>1, <1>2, PTL DEF Spec

\* The tables and the engine keep their types, whatever the interleaving.
THEOREM TypeCorrectness == Spec => []TypeOK
<1>1. IInv => TypeOK
  BY DEF IInv
<1> QED BY <1>1, Invariance, PTL

(***************************************************************************)
(* A confirmed dispatch has exactly one DISPATCH stock row, any other none *)
(* (/:id/lock and /:id/finalize-draft, dispatch.js 2910 and 3182).         *)
(***************************************************************************)
THEOREM PostingOnce == Spec => []PostedOnce
<1>1. IInv => PostedOnce
  BY DEF IInv
<1> QED BY <1>1, Invariance, PTL

(***************************************************************************)
(* POST /dispatches never leaves two drafts of one order and item          *)
(* (dispatch.js 2838).                                                     *)
(***************************************************************************)
THEOREM SingleDraft == Spec => []OneDraftPerLine
<1>1. IInv => OneDraftPerLine
  BY DEF IInv
<1> QED BY <1>1, Invariance, PTL

(***************************************************************************)
(* The forward stock row is stamped as reversed only when its reversals    *)
(* cover the dispatch (POST /dispatch/reverse, dispatch.js 3682).          *)
(***************************************************************************)
THEOREM StampSound == Spec => []StampMeansFullyReversed
<1>1. IInv => StampMeansFullyReversed
  BY DEF IInv
<1> QED BY <1>1, Invariance, PTL

(***************************************************************************)
(* No handler rewrites a confirmed dispatch, also one that read it as a    *)
(* draft, and reversed quantity only grows.                                *)
(***************************************************************************)
THEOREM ConfirmedIsFinal == Spec => FrozenOnceLocked
<1> DEFINE Frozen(x, y) == x.state = "LOCKED" => /\ y.state = "LOCKED"
                                                /\ y.qty = x.qty
                                                /\ y.reversed >= x.reversed
<1>1. IInv /\ [Next]_vars =>
        [\A d \in Dispatch :
           db.disp[d].state = "LOCKED" =>
             /\ db'.disp[d].state = "LOCKED"
             /\ db'.disp[d].qty = db.disp[d].qty
             /\ db'.disp[d].reversed >= db.disp[d].reversed]_vars
  <2> SUFFICES ASSUME IInv, [Next]_vars, NEW d \in Dispatch
               PROVE  Frozen(db.disp[d], db'.disp[d])
    OBVIOUS
  <2>1. db.disp \in [Dispatch -> DispatchRow]
    BY DEF IInv, TypeOK, Tables
  <2>2. db.disp[d] \in DispatchRow /\ db.disp[d].reversed \in Nat
    BY <2>1 DEF DispatchRow
  <2>3. CASE db'.disp = db.disp
    BY <2>2, <2>3
  <2>4. ASSUME NEW e \in Dispatch, NEW x \in DispatchRow, NEW t \in Tx,
               db'.disp = [db.disp EXCEPT ![e] = x], RowEffect(t, e, x)
        PROVE  Frozen(db.disp[d], db'.disp[d])
    <3>1. db'.disp[d] = IF d = e THEN x ELSE db.disp[d]
      BY <2>1, <2>4
    <3> QED BY <2>2, <2>4, <3>1 DEF RowEffect, RowMove
  <2> QED BY <2>3, <2>4, StepHolds, WriteEffect
<1> QED BY <1>1, Invariance, PTL DEF Spec, FrozenOnceLocked
==============================================================================
