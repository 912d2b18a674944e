---------------------------- MODULE QuantityProofs ----------------------------
(***************************************************************************)
(* Theorems about the quantities of Fulfilment, for every value of its     *)
(* constants: what is on a line, what is confirmed of it, what the ledger  *)
(* holds, what a completed order has shipped.  Every sum is brought into  *)
(* the form of a sum over all dispatches or all QC entries, so that a      *)
(* write changes one of its terms and a view can be compared with the      *)
(* tables term by term.                                                    *)
(***************************************************************************)
EXTENDS FulfilmentProofs, SumTheorems

(***************************************************************************)
(* Sums over a line or an item as sums over all rows.                      *)
(***************************************************************************)

\* What a row counts for its line: in operational mode, in confirmed mode.
Part(x) == IF x.state \in {"UNLOCKED", "LOCKED"} THEN x.qty - x.reversed ELSE 0
FirmPart(x) == IF x.state = "LOCKED" THEN x.qty - x.reversed ELSE 0

\* What the ledger lacks because of a row that has been posted as it should.
BookPart(x) == IF x.state = "LOCKED" THEN x.qty - x.reversed ELSE 0 - x.reversed

\* What the changes of one row compare: the rest is the same, postings are right.
OneEntry(v, w, q) == \A p \in QcEntry \ {q} : w.qc[p] = v.qc[p]
OneRow(v, w, e) == \A d \in Dispatch \ {e} : w.disp[d] = v.disp[d]
PostedWell(v) == \A d \in Dispatch : v.disp[d].posted = IF v.disp[d].state = "LOCKED" THEN 1 ELSE 0

NetParts(v, l) == [d \in Dispatch |-> IF LineOf[d] = l THEN Part(v.disp[d]) ELSE 0]
FirmParts(v, l) == [d \in Dispatch |-> IF LineOf[d] = l THEN FirmPart(v.disp[d]) ELSE 0]
BookParts(v, i) == [d \in Dispatch |-> IF ItemOfDispatch(d) = i THEN BookPart(v.disp[d]) ELSE 0]

\* The rows of typed tables count integers.
LEMMA PartTypes ==
    ASSUME NEW v \in Tables, NEW d \in Dispatch
    PROVE  /\ v.disp[d] \in DispatchRow
           /\ v.disp[d].qty \in Nat /\ v.disp[d].reversed \in Nat /\ v.disp[d].posted \in Nat
           /\ Net(v, d) \in Int
           /\ Part(v.disp[d]) \in Int /\ FirmPart(v.disp[d]) \in Int /\ BookPart(v.disp[d]) \in Int
<1>1. v.disp[d] \in DispatchRow
  BY DEF Tables
<1>2. v.disp[d].qty \in Nat /\ v.disp[d].reversed \in Nat /\ v.disp[d].posted \in Nat
  BY <1>1 DEF DispatchRow
<1> QED BY <1>1, <1>2 DEF Net, Part, FirmPart, BookPart

\* The quantity on a line (getSoItemDispatchNet) in both modes, row by row.
LEMMA NetForm ==
    ASSUME NEW v \in Tables, NEW l \in Line
    PROVE  /\ OperationalNet(v, l) = SumFunctionOnSet(NetParts(v, l), Dispatch)
           /\ ConfirmedNet(v, l) = SumFunctionOnSet(FirmParts(v, l), Dispatch)
           /\ OperationalNet(v, l) \in Int /\ ConfirmedNet(v, l) \in Int
<1>1. Rows(v, l) \in SUBSET Dispatch /\ Confirmations(v, l) \in SUBSET Dispatch
  BY DEF Rows, Drafts, Confirmations, DispatchesOf
<1>2. \A d \in Dispatch : Nets(v)[d] = v.disp[d].qty - v.disp[d].reversed /\ Nets(v)[d] \in Int
  BY PartTypes DEF Nets, Net
<1>3. IsFiniteSet(Dispatch) /\ IsFiniteSet(Rows(v, l)) /\ IsFiniteSet(Confirmations(v, l))
  BY <1>1, TablesAssumption, FS_Subset
<1>4. OperationalNet(v, l) = SumFunctionOnSet(NetParts(v, l), Dispatch)
  <2>1. OperationalNet(v, l) =
          SumFunctionOnSet([d \in Dispatch |-> IF d \in Rows(v, l) THEN Nets(v)[d] ELSE 0], Dispatch)
    BY <1>1, <1>2, <1>3, SumPart DEF OperationalNet
  <2>2. [d \in Dispatch |-> IF d \in Rows(v, l) THEN Nets(v)[d] ELSE 0] = NetParts(v, l)
    BY <1>2 DEF NetParts, Part, Rows, Drafts, Confirmations, DispatchesOf
  <2> QED BY <2>1, <2>2
<1>5. ConfirmedNet(v, l) = SumFunctionOnSet(FirmParts(v, l), Dispatch)
  <2>1. ConfirmedNet(v, l) =
          SumFunctionOnSet([d \in Dispatch |-> IF d \in Confirmations(v, l) THEN Nets(v)[d] ELSE 0],
                           Dispatch)
    BY <1>1, <1>2, <1>3, SumPart DEF ConfirmedNet
  <2>2. [d \in Dispatch |-> IF d \in Confirmations(v, l) THEN Nets(v)[d] ELSE 0] = FirmParts(v, l)
    BY <1>2 DEF FirmParts, FirmPart, Confirmations, DispatchesOf
  <2> QED BY <2>1, <2>2
<1>6. OperationalNet(v, l) \in Int /\ ConfirmedNet(v, l) \in Int
  BY <1>1, <1>2, <1>3, SumType DEF OperationalNet, ConfirmedNet
<1> QED BY <1>4, <1>5, <1>6

\* What one changed row changes of the quantities on a line.
LEMMA NetRowChange ==
    ASSUME NEW v \in Tables, NEW w \in Tables, NEW l \in Line, NEW e \in Dispatch,
           OneRow(v, w, e)
    PROVE  /\ LineOf[e] # l => /\ OperationalNet(w, l) = OperationalNet(v, l)
                               /\ ConfirmedNet(w, l) = ConfirmedNet(v, l)
           /\ LineOf[e] = l =>
                /\ OperationalNet(w, l) = OperationalNet(v, l) - Part(v.disp[e]) + Part(w.disp[e])
                /\ ConfirmedNet(w, l) = ConfirmedNet(v, l) - FirmPart(v.disp[e]) + FirmPart(w.disp[e])
<1>1. \A d \in Dispatch : /\ NetParts(v, l)[d] \in Int /\ NetParts(w, l)[d] \in Int
                          /\ FirmParts(v, l)[d] \in Int /\ FirmParts(w, l)[d] \in Int
  BY PartTypes DEF NetParts, FirmParts
<1>2. \A d \in Dispatch \ {e} : /\ NetParts(v, l)[d] = NetParts(w, l)[d]
                                /\ FirmParts(v, l)[d] = FirmParts(w, l)[d]
  BY DEF NetParts, FirmParts, OneRow
<1>3. SumFunctionOnSet(NetParts(w, l), Dispatch) =
        SumFunctionOnSet(NetParts(v, l), Dispatch) - NetParts(v, l)[e] + NetParts(w, l)[e]
  BY <1>1, <1>2, TablesAssumption, SumChange
<1>4. SumFunctionOnSet(FirmParts(w, l), Dispatch) =
        SumFunctionOnSet(FirmParts(v, l), Dispatch) - FirmParts(v, l)[e] + FirmParts(w, l)[e]
  BY <1>1, <1>2, TablesAssumption, SumChange
<1>5. /\ OperationalNet(w, l) = OperationalNet(v, l) - NetParts(v, l)[e] + NetParts(w, l)[e]
      /\ ConfirmedNet(w, l) = ConfirmedNet(v, l) - FirmParts(v, l)[e] + FirmParts(w, l)[e]
      /\ OperationalNet(v, l) \in Int /\ ConfirmedNet(v, l) \in Int
  BY <1>3, <1>4, NetForm
<1>6. /\ NetParts(v, l)[e] = (IF LineOf[e] = l THEN Part(v.disp[e]) ELSE 0)
      /\ NetParts(w, l)[e] = (IF LineOf[e] = l THEN Part(w.disp[e]) ELSE 0)
      /\ FirmParts(v, l)[e] = (IF LineOf[e] = l THEN FirmPart(v.disp[e]) ELSE 0)
      /\ FirmParts(w, l)[e] = (IF LineOf[e] = l THEN FirmPart(w.disp[e]) ELSE 0)
  BY DEF NetParts, FirmParts
<1> QED BY <1>5, <1>6

\* Tables whose rows count no more have no more on the line.
LEMMA NetCompare ==
    ASSUME NEW v \in Tables, NEW w \in Tables, NEW l \in Line
    PROVE  /\ (\A d \in DispatchesOf(l) : Part(w.disp[d]) <= Part(v.disp[d])) =>
                OperationalNet(w, l) <= OperationalNet(v, l)
           /\ (\A d \in DispatchesOf(l) : FirmPart(w.disp[d]) <= FirmPart(v.disp[d])) =>
                ConfirmedNet(w, l) <= ConfirmedNet(v, l)
           /\ (\A d \in DispatchesOf(l) : FirmPart(w.disp[d]) <= Part(v.disp[d])) =>
                ConfirmedNet(w, l) <= OperationalNet(v, l)
<1>1. \A d \in Dispatch : /\ NetParts(v, l)[d] \in Int /\ NetParts(w, l)[d] \in Int
                          /\ FirmParts(v, l)[d] \in Int /\ FirmParts(w, l)[d] \in Int
  BY PartTypes DEF NetParts, FirmParts
<1>2. ASSUME \A d \in DispatchesOf(l) : Part(w.disp[d]) <= Part(v.disp[d])
      PROVE  OperationalNet(w, l) <= OperationalNet(v, l)
  <2>1. \A d \in Dispatch : NetParts(w, l)[d] <= NetParts(v, l)[d]
    BY <1>2 DEF NetParts, DispatchesOf
  <2> QED BY <1>1, <2>1, NetForm, SumLess, TablesAssumption
<1>3. ASSUME \A d \in DispatchesOf(l) : FirmPart(w.disp[d]) <= FirmPart(v.disp[d])
      PROVE  ConfirmedNet(w, l) <= ConfirmedNet(v, l)
  <2>1. \A d \in Dispatch : FirmParts(w, l)[d] <= FirmParts(v, l)[d]
    BY <1>3 DEF FirmParts, DispatchesOf
  <2> QED BY <1>1, <2>1, NetForm, SumLess, TablesAssumption
<1>4. ASSUME \A d \in DispatchesOf(l) : FirmPart(w.disp[d]) <= Part(v.disp[d])
      PROVE  ConfirmedNet(w, l) <= OperationalNet(v, l)
  <2>1. \A d \in Dispatch : FirmParts(w, l)[d] <= NetParts(v, l)[d]
    BY <1>4 DEF FirmParts, NetParts, DispatchesOf
  <2> QED BY <1>1, <2>1, NetForm, SumLess, TablesAssumption
<1> QED BY <1>2, <1>3, <1>4

\* The postings of an item's dispatches, row by row.
LEMMA BookForm ==
    ASSUME NEW v \in Tables, NEW i \in Item, PostedWell(v)
    PROVE  /\ TakenOut(v, i) = SumFunctionOnSet(BookParts(v, i), Dispatch)
           /\ TakenOut(v, i) \in Int
<1> DEFINE f == [d \in Dispatch |-> Posting(v, d)]
           D == {d \in Dispatch : ItemOfDispatch(d) = i}
<1>1. \A d \in Dispatch : f[d] = BookPart(v.disp[d]) /\ f[d] \in Int
  <2> TAKE d \in Dispatch
  <2>1. /\ v.disp[d].qty \in Nat /\ v.disp[d].reversed \in Nat
        /\ v.disp[d].posted = IF v.disp[d].state = "LOCKED" THEN 1 ELSE 0
    BY PartTypes DEF PostedWell
  <2>2. v.disp[d].posted * v.disp[d].qty = IF v.disp[d].state = "LOCKED" THEN v.disp[d].qty ELSE 0
    BY <2>1
  <2> QED BY <2>1, <2>2 DEF Posting, BookPart
<1>2. D \in SUBSET Dispatch /\ IsFiniteSet(Dispatch) /\ IsFiniteSet(D)
  BY TablesAssumption, FS_Subset
<1>3. [d \in Dispatch |-> IF d \in D THEN f[d] ELSE 0] = BookParts(v, i)
  <2> HIDE DEF f
  <2> QED BY <1>1 DEF BookParts
<1>4. TakenOut(v, i) = SumFunctionOnSet(f, D)
  BY DEF TakenOut
<1> HIDE DEF f, D
<1>5. SumFunctionOnSet(f, D) =
        SumFunctionOnSet([d \in Dispatch |-> IF d \in D THEN f[d] ELSE 0], Dispatch)
  BY <1>1, <1>2, SumPart
<1>6. SumFunctionOnSet(f, D) \in Int
  BY <1>1, <1>2, SumType
<1> QED BY <1>3, <1>4, <1>5, <1>6

\* What one changed row changes of the postings.
LEMMA BookRowChange ==
    ASSUME NEW v \in Tables, NEW w \in Tables, NEW i \in Item, NEW e \in Dispatch,
           PostedWell(v), PostedWell(w),
           OneRow(v, w, e)
    PROVE  /\ TakenOut(v, i) \in Int
           /\ TakenOut(w, i) = TakenOut(v, i) +
                IF ItemOfDispatch(e) = i THEN BookPart(w.disp[e]) - BookPart(v.disp[e]) ELSE 0
<1>1. \A d \in Dispatch : BookParts(v, i)[d] \in Int /\ BookParts(w, i)[d] \in Int
  BY PartTypes DEF BookParts
<1>2. \A d \in Dispatch \ {e} : BookParts(v, i)[d] = BookParts(w, i)[d]
  BY DEF BookParts, OneRow
<1>3. SumFunctionOnSet(BookParts(w, i), Dispatch) =
        SumFunctionOnSet(BookParts(v, i), Dispatch) - BookParts(v, i)[e] + BookParts(w, i)[e]
  <2> DEFINE f == BookParts(v, i)
             g == BookParts(w, i)
  <2>1. /\ IsFiniteSet(Dispatch)
        /\ \A d \in Dispatch : f[d] \in Int /\ g[d] \in Int
        /\ \A d \in Dispatch \ {e} : f[d] = g[d]
    BY <1>1, <1>2, TablesAssumption
  <2> HIDE DEF f, g
  <2>2. SumFunctionOnSet(g, Dispatch) = SumFunctionOnSet(f, Dispatch) - f[e] + g[e]
    BY <2>1, SumChange
  <2> QED BY <2>2 DEF f, g
<1>4. /\ TakenOut(w, i) = TakenOut(v, i) - BookParts(v, i)[e] + BookParts(w, i)[e]
      /\ TakenOut(v, i) \in Int
  BY <1>3, BookForm
<1>5. /\ BookParts(v, i)[e] = (IF ItemOfDispatch(e) = i THEN BookPart(v.disp[e]) ELSE 0)
      /\ BookParts(w, i)[e] = (IF ItemOfDispatch(e) = i THEN BookPart(w.disp[e]) ELSE 0)
  BY DEF BookParts
<1>6. BookPart(v.disp[e]) \in Int /\ BookPart(w.disp[e]) \in Int
  BY PartTypes
<1> QED BY <1>4, <1>5, <1>6

\* What QC brought in for an item when an entry is posted, and when it is reversed.
LEMMA EntryChange ==
    ASSUME NEW v \in Tables, NEW w \in Tables, NEW q \in QcEntry, NEW i \in Item,
           OneEntry(v, w, q)
    PROVE  /\ BroughtIn(v, i) \in Int
           /\ v.qc[q] = "absent" /\ w.qc[q] = "active" =>
                BroughtIn(w, i) = BroughtIn(v, i) + IF BatchItem(q) = i THEN QcQty[q] ELSE 0
           /\ v.qc[q] = "active" /\ w.qc[q] = "reversed" =>
                BroughtIn(w, i) = BroughtIn(v, i) - IF BatchItem(q) = i THEN QcQty[q] ELSE 0
<1> DEFINE V == {p \in QcEntry : BatchItem(p) = i /\ v.qc[p] = "active"}
           W == {p \in QcEntry : BatchItem(p) = i /\ w.qc[p] = "active"}
<1>1. /\ IsFiniteSet(V) /\ IsFiniteSet(W) /\ V \in SUBSET QcEntry /\ W \in SUBSET QcEntry
      /\ \A p \in QcEntry : QcQty[p] \in Int
  BY TablesAssumption, FS_Subset DEF Positive
<1>2. BroughtIn(v, i) = SumFunctionOnSet(QcQty, V) /\ BroughtIn(w, i) = SumFunctionOnSet(QcQty, W)
  BY DEF BroughtIn
<1>3. SumFunctionOnSet(QcQty, V) \in Int /\ SumFunctionOnSet(QcQty, W) \in Int
  <2> HIDE DEF V, W
  <2> QED BY <1>1, SumType
<1>4. ASSUME v.qc[q] = "absent", w.qc[q] = "active"
      PROVE  BroughtIn(w, i) = BroughtIn(v, i) + IF BatchItem(q) = i THEN QcQty[q] ELSE 0
  <2>1. W = (IF BatchItem(q) = i THEN V \cup {q} ELSE V) /\ q \notin V
    BY <1>4 DEF OneEntry
  <2> HIDE DEF V, W
  <2>2. SumFunctionOnSet(QcQty, V \cup {q}) = QcQty[q] + SumFunctionOnSet(QcQty, V)
    BY <1>1, <2>1, SumAdd
  <2> QED BY <1>1, <1>2, <1>3, <2>1, <2>2
<1>5. ASSUME v.qc[q] = "active", w.qc[q] = "reversed"
      PROVE  BroughtIn(w, i) = BroughtIn(v, i) - IF BatchItem(q) = i THEN QcQty[q] ELSE 0
  <2>1. W = (IF BatchItem(q) = i THEN V \ {q} ELSE V) /\ (BatchItem(q) = i => q \in V)
    BY <1>5 DEF OneEntry
  <2> HIDE DEF V, W
  <2>2. BatchItem(q) = i => SumFunctionOnSet(QcQty, V) = QcQty[q] + SumFunctionOnSet(QcQty, V \ {q})
    BY <1>1, <2>1, SumRemove
  <2> QED BY <1>1, <1>2, <1>3, <2>1, <2>2
<1> QED BY <1>2, <1>3, <1>4, <1>5

\* What QC ever accepted covers what any view counts as accepted.
LEMMA ReceivedCovers ==
    ASSUME NEW v \in Tables, NEW w \in Tables, NEW l \in Line,
           \A q \in QcEntry : v.qc[q] # "absent" => w.qc[q] # "absent"
    PROVE  /\ Received(v, l) <= Received(w, l) /\ Accepted(v, l) <= Received(w, l)
           /\ Received(v, l) \in Int /\ Received(w, l) \in Int /\ Accepted(v, l) \in Int
<1> DEFINE V == {q \in QcEntry : BatchOf[q] = l /\ v.qc[q] # "absent"}
           W == {q \in QcEntry : BatchOf[q] = l /\ w.qc[q] # "absent"}
           A == ActiveEntries(v, l)
<1>1. /\ IsFiniteSet(V) /\ IsFiniteSet(W) /\ IsFiniteSet(A)
      /\ V \in SUBSET W /\ A \in SUBSET W
      /\ V \in SUBSET QcEntry /\ W \in SUBSET QcEntry
      /\ \A q \in QcEntry : QcQty[q] \in Nat
  BY TablesAssumption, FS_Subset DEF Positive, ActiveEntries
<1>2. /\ Received(v, l) = SumFunctionOnSet(QcQty, V) /\ Received(w, l) = SumFunctionOnSet(QcQty, W)
      /\ Accepted(v, l) = SumFunctionOnSet(QcQty, A)
  BY DEF Received, Accepted
<1> HIDE DEF V, W, A
<1>3. \A q \in W : QcQty[q] \in Int /\ QcQty[q] >= 0
  BY <1>1
<1>4. /\ SumFunctionOnSet(QcQty, V) <= SumFunctionOnSet(QcQty, W)
      /\ SumFunctionOnSet(QcQty, A) <= SumFunctionOnSet(QcQty, W)
  BY <1>1, <1>3, SumLarger
<1>5. /\ SumFunctionOnSet(QcQty, V) \in Int /\ SumFunctionOnSet(QcQty, W) \in Int
      /\ SumFunctionOnSet(QcQty, A) \in Int
  BY <1>1, <1>3, SumType
<1> QED BY <1>2, <1>4, <1>5

(***************************************************************************)
(* What each handler writes besides dispatch rows.                         *)
(***************************************************************************)

SameBooks(w, x) == x.qc = w.qc /\ x.fg = w.fg /\ x.seen = w.seen

\* Only the status of order o differs.
StatusWithin(w, x, o) == \A p \in SO \ {o} : x.status[p] = w.status[p]

\* An order update changes nothing else.
LEMMA StatusBooks ==
    ASSUME NEW v, NEW w \in Tables, NEW o \in SO, NEW s \in Status
    PROVE  /\ SameBooks(w, SetStatus(w, o, s)) /\ StatusWithin(w, SetStatus(w, o, s), o)
           /\ SameBooks(w, AutoClose(v, w, o)) /\ StatusWithin(w, AutoClose(v, w, o), o)
           /\ SameBooks(w, Reopen(v, w, o)) /\ StatusWithin(w, Reopen(v, w, o), o)
<1>1. ASSUME NEW z \in Status
      PROVE  SameBooks(w, SetStatus(w, o, z)) /\ StatusWithin(w, SetStatus(w, o, z), o)
  BY DEF SetStatus, SameBooks, StatusWithin, Tables
<1>2. SameBooks(w, w) /\ StatusWithin(w, w, o)
  BY DEF SameBooks, StatusWithin
<1> QED BY <1>1, <1>2 DEF AutoClose, Reopen, Status

\* Replacing a dispatch row leaves the other tables.
LEMMA RowBooks ==
    ASSUME NEW w \in Tables, NEW d, NEW x
    PROVE  SameBooks(w, PutRow(w, d, x)) /\ PutRow(w, d, x).status = w.status
BY DEF PutRow, SameBooks, Tables

\* Together with a stock posting it changes that balance and no other.
LEMMA RowAndStockBooks ==
    ASSUME NEW w \in Tables, NEW d \in Dispatch, NEW x \in DispatchRow, NEW i \in Item, NEW n \in Int
    PROVE  /\ PutRowAndStock(w, d, x, i, n).qc = w.qc
           /\ PutRowAndStock(w, d, x, i, n).seen = w.seen
           /\ PutRowAndStock(w, d, x, i, n).status = w.status
           /\ PutRowAndStock(w, d, x, i, n).fg = [w.fg EXCEPT ![i] = n]
BY DEF PutRowAndStock, Tables

\* POST /dispatches posts no stock and touches no QC entry.
LEMMA PostBooks ==
    ASSUME NEW v \in Tables, NEW w \in Tables, NEW r \in PostRequest
    PROVE  SameBooks(w, PostWrite(r, v, w)) /\ StatusWithin(w, PostWrite(r, v, w), SoOfDispatch(r.d))
<1>1. r.d \in Dispatch /\ r.qty \in Nat /\ LineOf[r.d] \in Line /\ SoOfDispatch(r.d) \in SO
  BY TablesAssumption DEF PostRequest, Positive, SoOfDispatch
<1> DEFINE y == PrepareDraft(r, v, w)
<1>2. y \in Tables /\ SameBooks(w, y) /\ y.status = w.status
  <2>1. CASE Drafts(v, LineOf[r.d]) = {}
    <3>1. NewDraft(r.qty) \in DispatchRow
      BY <1>1 DEF NewDraft, NoDispatch, DispatchRow, DispatchState
    <3>2. y = PutRow(w, r.d, NewDraft(r.qty))
      BY <2>1 DEF PrepareDraft, PutRow
    <3>3. PutRow(w, r.d, NewDraft(r.qty)) \in Tables
      BY <1>1, <3>1, RowChange
    <3>4. /\ SameBooks(w, PutRow(w, r.d, NewDraft(r.qty)))
          /\ PutRow(w, r.d, NewDraft(r.qty)).status = w.status
      BY RowBooks
    <3> QED BY <3>2, <3>3, <3>4
  <2>2. CASE Drafts(v, LineOf[r.d]) # {}
    <3> DEFINE e == DraftOf(v, LineOf[r.d])
    <3>1. e \in Dispatch
      BY <1>1, <2>2, DraftChosen
    <3>2. RequantifiedRow(w.disp[e], r.qty) \in DispatchRow
      BY <1>1, <3>1, RowTypes DEF Tables
    <3>3. y = PutRow(w, e, RequantifiedRow(w.disp[e], r.qty))
      BY <2>2, <3>1 DEF PrepareDraft, PutRow, Tables
    <3> DEFINE x == RequantifiedRow(w.disp[e], r.qty)
    <3>4. PutRow(w, e, x) \in Tables
      BY <3>1, <3>2, RowChange
    <3>5. SameBooks(w, PutRow(w, e, x)) /\ PutRow(w, e, x).status = w.status
      BY RowBooks
    <3> QED BY <3>3, <3>4, <3>5
  <2> QED BY <2>1, <2>2
<1>3. PostWrite(r, v, w) = AutoClose(PrepareDraft(r, v, v), y, SoOfDispatch(r.d))
  BY DEF PostWrite
<1> HIDE DEF y
<1>4. /\ SameBooks(y, PostWrite(r, v, w))
      /\ StatusWithin(y, PostWrite(r, v, w), SoOfDispatch(r.d))
  BY <1>1, <1>2, <1>3, StatusBooks DEF Status
<1> QED BY <1>2, <1>4 DEF SameBooks, StatusWithin

\* x is w after a shipment of dispatch d with quantity n.
Ships(w, x, d, n) ==
    /\ x.qc = w.qc /\ x.seen = w.seen
    /\ \A i \in Item : x.fg[i] = w.fg[i] - IF ItemOfDispatch(d) = i THEN n ELSE 0
    /\ StatusWithin(w, x, SoOfDispatch(d))

\* Confirming posts the quantity of the view out of the FG Store.
LEMMA ConfirmBooks ==
    ASSUME NEW v \in Tables, NEW w \in Tables, NEW r \in DraftRequest
    PROVE  /\ Ships(w, LockWrite(r, v, w), r.d, v.disp[r.d].qty)
           /\ Ships(w, FinalizeWrite(r, v, w), r.d, v.disp[r.d].qty)
<1> SUFFICES ASSUME NEW x, x = LockWrite(r, v, w) \/ x = FinalizeWrite(r, v, w)
             PROVE  Ships(w, x, r.d, v.disp[r.d].qty)
  OBVIOUS
<1>1. r.d \in Dispatch /\ ItemOfDispatch(r.d) \in Item /\ SoOfDispatch(r.d) \in SO
  BY TablesAssumption DEF DraftRequest, ItemOfDispatch, SoOfDispatch
<1> DEFINE y == Confirm(r, v, w)
           n == w.fg[ItemOfDispatch(r.d)] - v.disp[r.d].qty
<1>2. y = PutRowAndStock(w, r.d, ConfirmedRow(w.disp[r.d]), ItemOfDispatch(r.d), n)
  BY <1>1 DEF Confirm, PutRowAndStock, Tables
<1>3. ConfirmedRow(w.disp[r.d]) \in DispatchRow /\ n \in Int
  <2>1. w.disp[r.d] \in DispatchRow /\ v.disp[r.d].qty \in Int
    BY <1>1, PartTypes
  <2>2. w.fg[ItemOfDispatch(r.d)] \in Int
    BY <1>1 DEF Tables
  <2>3. ConfirmedRow(w.disp[r.d]) \in DispatchRow
    BY <2>1, RowTypes
  <2> QED BY <2>1, <2>2, <2>3
<1>4. /\ y \in Tables /\ y.qc = w.qc /\ y.seen = w.seen /\ y.status = w.status
      /\ y.fg = [w.fg EXCEPT ![ItemOfDispatch(r.d)] = n]
  <2> DEFINE x0 == ConfirmedRow(w.disp[r.d])
  <2> HIDE DEF y, n, x0
  <2>1. PutRowAndStock(w, r.d, x0, ItemOfDispatch(r.d), n) \in Tables
    BY <1>1, <1>3, RowAndStockChange DEF x0
  <2>2. y = PutRowAndStock(w, r.d, x0, ItemOfDispatch(r.d), n)
    BY <1>2 DEF x0
  <2>3. x0 \in DispatchRow /\ n \in Int
    BY <1>3 DEF x0
  <2> QED BY <1>1, <2>1, <2>2, <2>3, RowAndStockBooks
<1>5. x = y \/ x = AutoClose(Confirm(r, v, v), y, SoOfDispatch(r.d))
  BY DEF LockWrite, FinalizeWrite
<1>6. SameBooks(y, x) /\ StatusWithin(y, x, SoOfDispatch(r.d))
  <2> HIDE DEF y
  <2>1. CASE x = y
    BY <2>1 DEF SameBooks, StatusWithin
  <2>2. CASE x = AutoClose(Confirm(r, v, v), y, SoOfDispatch(r.d))
    BY <1>1, <1>4, <2>2, StatusBooks DEF Status
  <2> QED BY <1>5, <2>1, <2>2
<1>7. \A i \in Item :
        y.fg[i] = w.fg[i] - IF ItemOfDispatch(r.d) = i THEN v.disp[r.d].qty ELSE 0
  <2> SUFFICES ASSUME NEW i \in Item
               PROVE  y.fg[i] = w.fg[i] - IF ItemOfDispatch(r.d) = i THEN v.disp[r.d].qty ELSE 0
    OBVIOUS
  <2>1. y.fg[i] = IF ItemOfDispatch(r.d) = i THEN n ELSE w.fg[i]
    <3> HIDE DEF y, n
    <3> QED BY <1>4 DEF Tables
  <2>2. w.fg[i] \in Int
    BY DEF Tables
  <2> HIDE DEF y
  <2> QED BY <2>1, <2>2
<1> HIDE DEF y
<1> QED BY <1>4, <1>6, <1>7 DEF SameBooks, StatusWithin, Ships

\* Deleting a draft posts nothing.
LEMMA DeleteBooks ==
    ASSUME NEW v, NEW w \in Tables, NEW r \in DraftRequest
    PROVE  SameBooks(w, DeleteWrite(r, v, w)) /\ DeleteWrite(r, v, w).status = w.status
BY DEF DeleteWrite, SameBooks, Tables

\* A reversal posts its quantity back into the FG Store.
LEMMA ReverseBooks ==
    ASSUME NEW v \in Tables, NEW w \in Tables, NEW r \in ReverseRequest
    PROVE  LET x == ReverseWrite(r, v, w)
           IN  /\ x.qc = w.qc /\ x.seen = w.seen
               /\ \A i \in Item :
                    x.fg[i] = w.fg[i] + IF ItemOfDispatch(r.d) = i THEN r.qty ELSE 0
               /\ StatusWithin(w, x, SoOfDispatch(r.d))
<1>1. r.d \in Dispatch /\ ItemOfDispatch(r.d) \in Item /\ SoOfDispatch(r.d) \in SO /\ r.qty \in Nat
  BY TablesAssumption DEF ReverseRequest, ItemOfDispatch, SoOfDispatch, Positive
<1> DEFINE y == PostReversal(r, v, w)
           n == w.fg[ItemOfDispatch(r.d)] + r.qty
           x == ReverseWrite(r, v, w)
           z == ReversedRow(w.disp[r.d], r.qty, Covers(r, v))
<1>2. y = PutRowAndStock(w, r.d, z, ItemOfDispatch(r.d), n)
  BY <1>1 DEF PostReversal, PutRowAndStock, Tables
<1>3. z \in DispatchRow /\ n \in Int
  <2>1. Covers(r, v) \in BOOLEAN
    BY DEF Covers
  <2>2. w.disp[r.d] \in DispatchRow
    BY <1>1, PartTypes
  <2>3. w.fg[ItemOfDispatch(r.d)] \in Int
    BY <1>1 DEF Tables
  <2>4. z \in DispatchRow
    BY <1>1, <2>1, <2>2, RowTypes
  <2> QED BY <1>1, <2>3, <2>4
<1>4. /\ y \in Tables /\ y.qc = w.qc /\ y.seen = w.seen /\ y.status = w.status
      /\ y.fg = [w.fg EXCEPT ![ItemOfDispatch(r.d)] = n]
  <2> HIDE DEF x, y, n, z
  <2>1. PutRowAndStock(w, r.d, z, ItemOfDispatch(r.d), n) \in Tables
    BY <1>1, <1>3, RowAndStockChange
  <2>2. y = PutRowAndStock(w, r.d, z, ItemOfDispatch(r.d), n)
    BY <1>2
  <2> QED BY <1>1, <1>3, <2>1, <2>2, RowAndStockBooks
<1>5. x = Reopen(PostReversal(r, v, v), y, SoOfDispatch(r.d))
  BY DEF ReverseWrite
<1>6. SameBooks(y, x) /\ StatusWithin(y, x, SoOfDispatch(r.d))
  <2> HIDE DEF y, x
  <2> QED BY <1>1, <1>4, <1>5, StatusBooks DEF Status
<1>7. /\ x.qc = w.qc /\ x.seen = w.seen
      /\ x.fg = [w.fg EXCEPT ![ItemOfDispatch(r.d)] = n]
      /\ StatusWithin(w, x, SoOfDispatch(r.d))
  <2> HIDE DEF y, x
  <2> QED BY <1>4, <1>6 DEF SameBooks, StatusWithin
<1>8. \A i \in Item : x.fg[i] = w.fg[i] + IF ItemOfDispatch(r.d) = i THEN r.qty ELSE 0
  <2> SUFFICES ASSUME NEW i \in Item
               PROVE  x.fg[i] = w.fg[i] + IF ItemOfDispatch(r.d) = i THEN r.qty ELSE 0
    OBVIOUS
  <2>1. x.fg[i] = IF ItemOfDispatch(r.d) = i THEN n ELSE w.fg[i]
    <3> HIDE DEF x, n
    <3> QED BY <1>7 DEF Tables
  <2>2. w.fg[i] \in Int
    BY DEF Tables
  <2> HIDE DEF x
  <2> QED BY <2>1, <2>2
<1> HIDE DEF x
<1> QED BY <1>7, <1>8 DEF x

\* QC posting changes its entry, the FG Store and perhaps the order it closes.
LEMMA QcPostBooks ==
    ASSUME NEW v \in Tables, NEW w \in Tables, NEW r \in QcRequest
    PROVE  LET x == QcPostWrite(r, v, w)
           IN  /\ \A q \in QcEntry : x.qc[q] = IF q = r.q THEN "active" ELSE w.qc[q]
               /\ \A i \in Item :
                    x.fg[i] = w.fg[i] + IF BatchItem(r.q) = i THEN QcQty[r.q] ELSE 0
               /\ x.seen = w.seen
               /\ StatusWithin(w, x, BatchSo(r.q))
               /\ x.status # w.status => QcPostCloses(r, v)
<1>1. /\ r.q \in QcEntry /\ BatchItem(r.q) \in Item /\ BatchSo(r.q) \in SO
      /\ QcQty[r.q] \in Nat
  BY TablesAssumption DEF QcRequest, BatchItem, BatchSo, Positive
<1> DEFINE y == AcceptBatch(r, w)
           Q == [w.qc EXCEPT ![r.q] = "active"]
           F == [w.fg EXCEPT ![BatchItem(r.q)] = @ + QcQty[r.q]]
           x == QcPostWrite(r, v, w)
<1>2. y = [w EXCEPT !.qc = Q, !.fg = F]
  BY <1>1 DEF AcceptBatch, Tables
<1>3. Q \in [QcEntry -> {"absent", "active", "reversed"}] /\ F \in [Item -> Int]
  BY <1>1 DEF Tables
<1>4. y \in Tables /\ y.qc = Q /\ y.fg = F /\ y.seen = w.seen /\ y.status = w.status
  <2> HIDE DEF y, Q, F
  <2> QED BY <1>2, <1>3 DEF Tables
<1>5. x = AutoClose(AcceptBatch(r, v), y, BatchSo(r.q))
  BY DEF QcPostWrite
<1>6. SameBooks(y, x) /\ StatusWithin(y, x, BatchSo(r.q))
  <2> HIDE DEF y, x
  <2> QED BY <1>1, <1>4, <1>5, StatusBooks DEF Status
<1>7. ~QcPostCloses(r, v) => x = y
  BY <1>5 DEF AutoClose, QcPostCloses
<1>8. /\ x.qc = Q /\ x.fg = F /\ x.seen = w.seen /\ StatusWithin(w, x, BatchSo(r.q))
      /\ x.status # w.status => QcPostCloses(r, v)
  <2> HIDE DEF y, x, Q, F
  <2> QED BY <1>4, <1>6, <1>7 DEF SameBooks, StatusWithin
<1>9. /\ \A q \in QcEntry : Q[q] = IF q = r.q THEN "active" ELSE w.qc[q]
      /\ \A i \in Item : F[i] = w.fg[i] + IF BatchItem(r.q) = i THEN QcQty[r.q] ELSE 0
  BY <1>1 DEF Tables
<1> HIDE DEF Q, F, x
<1> QED BY <1>8, <1>9 DEF x

\* A QC reversal takes its quantity from where it was received.
LEMMA QcReverseBooks ==
    ASSUME NEW v \in Tables, NEW w \in Tables, NEW r \in QcRequest
    PROVE  LET x == QcReverseWrite(r, v, w)
               i == BatchItem(r.q)
           IN  /\ \A q \in QcEntry : x.qc[q] = IF q = r.q THEN "reversed" ELSE w.qc[q]
               /\ x.status = w.status
               /\ \A j \in Item : x.fg[j] + x.seen[j] =
                    w.fg[j] + w.seen[j] - IF j = i THEN QcQty[r.q] ELSE 0
<1>1. /\ r.q \in QcEntry /\ BatchItem(r.q) \in Item /\ QcQty[r.q] \in Int
      /\ \A j \in Item : w.fg[j] \in Int /\ w.seen[j] \in Int
  BY TablesAssumption DEF QcRequest, BatchItem, Positive, Tables
<1> DEFINE i == BatchItem(r.q)
           Q == [w.qc EXCEPT ![r.q] = "reversed"]
           F == [w.fg EXCEPT ![i] = @ - QcQty[r.q]]
           G == [w.seen EXCEPT ![i] = @ - QcQty[r.q]]
           x == QcReverseWrite(r, v, w)
<1>2. /\ \A j \in Item : F[j] = w.fg[j] - IF j = i THEN QcQty[r.q] ELSE 0
      /\ \A j \in Item : G[j] = w.seen[j] - IF j = i THEN QcQty[r.q] ELSE 0
      /\ \A q \in QcEntry : Q[q] = IF q = r.q THEN "reversed" ELSE w.qc[q]
  BY <1>1 DEF Tables
<1>3. CASE r.q \in Legacy
  <2>1. x = [w EXCEPT !.qc = Q, !.seen = G]
    BY <1>1, <1>3 DEF QcReverseWrite, Tables
  <2> HIDE DEF i, Q, F, G, x
  <2>2. x.qc = Q /\ x.status = w.status /\ x.fg = w.fg /\ x.seen = G
    BY <2>1 DEF Tables
  <2>3. \A j \in Item : x.fg[j] + x.seen[j] =
           w.fg[j] + w.seen[j] - IF j = i THEN QcQty[r.q] ELSE 0
    BY <1>1, <1>2, <2>2
  <2> QED BY <1>2, <2>2, <2>3 DEF i, x
<1>4. CASE r.q \notin Legacy
  <2>1. x = [w EXCEPT !.qc = Q, !.fg = F]
    BY <1>1, <1>4 DEF QcReverseWrite, Tables
  <2> HIDE DEF i, Q, F, G, x
  <2>2. x.qc = Q /\ x.status = w.status /\ x.fg = F /\ x.seen = w.seen
    BY <2>1 DEF Tables
  <2>3. \A j \in Item : x.fg[j] + x.seen[j] =
           w.fg[j] + w.seen[j] - IF j = i THEN QcQty[r.q] ELSE 0
    BY <1>1, <1>2, <2>2
  <2> QED BY <1>2, <2>2, <2>3 DEF i, x
<1> QED BY <1>3, <1>4

(***************************************************************************)
(* The quantities of one database value, and what a write must do to keep  *)
(* them in order.                                                          *)
(***************************************************************************)

Within(v) == \A l \in Line : OperationalNet(v, l) <= Ordered[l]
Balanced(v) == \A i \in Item : v.fg[i] + v.seen[i] = BroughtIn(v, i) - TakenOut(v, i)
Covered(v) == \A l \in Line : ConfirmedNet(v, l) <= Received(v, l)

InOrder(v) == Unreversed(v) /\ Within(v) /\ Balanced(v) /\ Covered(v)

\* Tables with the same dispatch rows have the same quantities on their lines.
LEMMA SameRows ==
    ASSUME NEW v \in Tables, NEW w \in Tables, w.disp = v.disp
    PROVE  /\ Unreversed(v) => Unreversed(w)
           /\ \A l \in Line : /\ OperationalNet(w, l) = OperationalNet(v, l)
                              /\ ConfirmedNet(w, l) = ConfirmedNet(v, l)
           /\ \A i \in Item : TakenOut(w, i) = TakenOut(v, i)
<1>1. \A d \in Dispatch : Net(w, d) = Net(v, d) /\ Posting(w, d) = Posting(v, d)
  BY DEF Net, Posting
<1>2. Nets(w) = Nets(v) /\ [d \in Dispatch |-> Posting(w, d)] = [d \in Dispatch |-> Posting(v, d)]
  BY <1>1 DEF Nets
<1>3. \A l \in Line : Rows(w, l) = Rows(v, l) /\ Confirmations(w, l) = Confirmations(v, l)
  BY DEF Rows, Drafts, Confirmations, DispatchesOf
<1>4. \A i \in Item : TakenOut(w, i) = TakenOut(v, i)
  BY <1>2 DEF TakenOut
<1> QED BY <1>2, <1>3, <1>4 DEF OperationalNet, ConfirmedNet, Unreversed

\* Tables with the same QC entries brought in and received the same.
LEMMA SameEntries ==
    ASSUME NEW v \in Tables, NEW w \in Tables, w.qc = v.qc
    PROVE  /\ \A i \in Item : BroughtIn(w, i) = BroughtIn(v, i)
           /\ \A l \in Line : Received(w, l) = Received(v, l)
BY DEF BroughtIn, Received

\* A write of one dispatch row.
LEMMA RowKeepsOrder ==
    ASSUME NEW w \in Tables, NEW y \in Tables, NEW e \in Dispatch, NEW x \in DispatchRow,
           InOrder(w), PostedWell(w), PostedWell(y),
           y.disp = [w.disp EXCEPT ![e] = x], y.qc = w.qc, y.seen = w.seen,
           x.state # "LOCKED" => x.reversed = 0,
           \A i \in Item : y.fg[i] =
             w.fg[i] - IF ItemOfDispatch(e) = i THEN BookPart(x) - BookPart(w.disp[e]) ELSE 0,
           OperationalNet(y, LineOf[e]) <= Ordered[LineOf[e]],
           ConfirmedNet(y, LineOf[e]) <= Received(y, LineOf[e])
    PROVE  InOrder(y)
<1>1. OneRow(w, y, e) /\ y.disp[e] = x /\ \A d \in Dispatch \ {e} : y.disp[d] = w.disp[d]
  BY DEF OneRow, Tables
<1>2. Unreversed(y)
  BY <1>1 DEF InOrder, Unreversed
<1>3. Within(y)
  <2> SUFFICES ASSUME NEW l \in Line, LineOf[e] # l PROVE OperationalNet(y, l) <= Ordered[l]
    BY DEF Within
  <2>1. OperationalNet(y, l) = OperationalNet(w, l)
    BY <1>1, NetRowChange
  <2> QED BY <2>1 DEF InOrder, Within
<1>4. Covered(y)
  <2> SUFFICES ASSUME NEW l \in Line, LineOf[e] # l PROVE ConfirmedNet(y, l) <= Received(y, l)
    BY DEF Covered
  <2>1. ConfirmedNet(y, l) = ConfirmedNet(w, l)
    BY <1>1, NetRowChange
  <2>2. Received(y, l) = Received(w, l)
    BY SameEntries
  <2> QED BY <2>1, <2>2 DEF InOrder, Covered
<1>5. Balanced(y)
  <2> SUFFICES ASSUME NEW i \in Item
               PROVE  y.fg[i] + y.seen[i] = BroughtIn(y, i) - TakenOut(y, i)
    BY DEF Balanced
  <2>1. /\ TakenOut(w, i) \in Int
        /\ TakenOut(y, i) = TakenOut(w, i) +
             IF ItemOfDispatch(e) = i THEN BookPart(x) - BookPart(w.disp[e]) ELSE 0
    <3>1. /\ TakenOut(w, i) \in Int
          /\ TakenOut(y, i) = TakenOut(w, i) +
               IF ItemOfDispatch(e) = i THEN BookPart(y.disp[e]) - BookPart(w.disp[e]) ELSE 0
      BY <1>1, BookRowChange
    <3> QED BY <1>1, <3>1
  <2>2. BroughtIn(y, i) = BroughtIn(w, i) /\ y.seen[i] = w.seen[i]
    BY SameEntries
  <2>3. w.fg[i] + w.seen[i] = BroughtIn(w, i) - TakenOut(w, i)
    BY DEF InOrder, Balanced
  <2>4. w.fg[i] \in Int /\ w.seen[i] \in Int /\ BookPart(x) \in Int /\ BookPart(w.disp[e]) \in Int
    BY PartTypes, <1>1 DEF Tables
  <2>5. BroughtIn(w, i) \in Int
    <3>1. /\ {q \in QcEntry : BatchItem(q) = i /\ w.qc[q] = "active"} \in SUBSET QcEntry
          /\ \A q \in QcEntry : QcQty[q] \in Int
      BY TablesAssumption DEF Positive
    <3> QED BY <3>1, TablesAssumption, FS_Subset, SumType DEF BroughtIn
  <2> QED BY <2>1, <2>2, <2>3, <2>4, <2>5
<1> QED BY <1>2, <1>3, <1>4, <1>5 DEF InOrder

\* A write that changes the status of an order and nothing else.
LEMMA StatusKeepsOrder ==
    ASSUME NEW w \in Tables, NEW y \in Tables, InOrder(w), y.disp = w.disp, SameBooks(w, y)
    PROVE  InOrder(y)
<1>1. /\ Unreversed(y)
      /\ \A l \in Line : /\ OperationalNet(y, l) = OperationalNet(w, l)
                         /\ ConfirmedNet(y, l) = ConfirmedNet(w, l)
      /\ \A i \in Item : TakenOut(y, i) = TakenOut(w, i)
  BY SameRows DEF InOrder
<1>2. /\ \A i \in Item : BroughtIn(y, i) = BroughtIn(w, i)
      /\ \A l \in Line : Received(y, l) = Received(w, l)
  BY SameEntries DEF SameBooks
<1>3. \A i \in Item : y.fg[i] = w.fg[i] /\ y.seen[i] = w.seen[i]
  BY DEF SameBooks
<1> QED BY <1>1, <1>2, <1>3 DEF InOrder, Within, Balanced, Covered

\* A write of one QC entry, with the stock it brings in or takes back.
LEMMA EntryKeepsOrder ==
    ASSUME NEW w \in Tables, NEW y \in Tables, InOrder(w), PostedWell(w), y.disp = w.disp,
           NEW q \in QcEntry, NEW s \in {"active", "reversed"},
           w.qc[q] = IF s = "active" THEN "absent" ELSE "active",
           \A p \in QcEntry : y.qc[p] = IF p = q THEN s ELSE w.qc[p],
           \A i \in Item : y.fg[i] + y.seen[i] =
             w.fg[i] + w.seen[i] + (IF BatchItem(q) = i
                                    THEN IF s = "active" THEN QcQty[q] ELSE 0 - QcQty[q] ELSE 0)
    PROVE  InOrder(y)
<1>1. OneEntry(w, y, q) /\ y.qc[q] = s
  BY DEF OneEntry
<1>2. /\ Unreversed(y)
      /\ \A l \in Line : /\ OperationalNet(y, l) = OperationalNet(w, l)
                         /\ ConfirmedNet(y, l) = ConfirmedNet(w, l)
      /\ \A i \in Item : TakenOut(y, i) = TakenOut(w, i)
  BY SameRows DEF InOrder
<1>3. Balanced(y)
  <2> SUFFICES ASSUME NEW i \in Item
               PROVE  y.fg[i] + y.seen[i] = BroughtIn(y, i) - TakenOut(y, i)
    BY DEF Balanced
  <2>1. w.fg[i] + w.seen[i] = BroughtIn(w, i) - TakenOut(w, i)
    BY DEF InOrder, Balanced
  <2>2. BroughtIn(w, i) \in Int /\ QcQty[q] \in Int /\ w.fg[i] \in Int /\ w.seen[i] \in Int
    <3>1. QcQty[q] \in Int
      BY TablesAssumption DEF Positive
    <3>2. /\ {p \in QcEntry : BatchItem(p) = i /\ w.qc[p] = "active"} \in SUBSET QcEntry
          /\ \A p \in QcEntry : QcQty[p] \in Int
      BY TablesAssumption DEF Positive
    <3> QED BY <3>1, <3>2, TablesAssumption, FS_Subset, SumType DEF BroughtIn, Tables
  <2>3. BroughtIn(y, i) = BroughtIn(w, i) +
          (IF BatchItem(q) = i THEN IF s = "active" THEN QcQty[q] ELSE 0 - QcQty[q] ELSE 0)
    <3>1. /\ w.qc[q] = "absent" /\ y.qc[q] = "active" =>
               BroughtIn(y, i) = BroughtIn(w, i) + IF BatchItem(q) = i THEN QcQty[q] ELSE 0
          /\ w.qc[q] = "active" /\ y.qc[q] = "reversed" =>
               BroughtIn(y, i) = BroughtIn(w, i) - IF BatchItem(q) = i THEN QcQty[q] ELSE 0
      BY <1>1, EntryChange
    <3> QED BY <1>1, <2>2, <3>1
  <2>4. TakenOut(w, i) \in Int
    BY BookForm
  <2> QED BY <1>2, <2>1, <2>2, <2>3, <2>4
<1>4. Covered(y)
  <2>1. \A l \in Line : Received(w, l) <= Received(y, l) /\ Received(w, l) \in Int /\ Received(y, l) \in Int
    <3>1. \A p \in QcEntry : w.qc[p] # "absent" => y.qc[p] # "absent"
      BY <1>1 DEF OneEntry
    <3> QED BY <3>1, ReceivedCovers
  <2>2. \A l \in Line : ConfirmedNet(w, l) \in Int
    BY NetForm
  <2> QED BY <1>2, <2>1, <2>2 DEF InOrder, Covered
<1> QED BY <1>2, <1>3, <1>4 DEF InOrder, Within

(***************************************************************************)
(* The invariant of the quantities, for one transaction and for the tables.*)
(***************************************************************************)

QTx(t) ==
    /\ Viewed(t) => /\ Unreversed(snap[t])
                    /\ \A q \in QcEntry : snap[t].qc[q] # "absent" => db.qc[q] # "absent"
    /\ Doing(t, {"qcPost"}, 0) => db.qc[req[t].q] = "absent"
    /\ Doing(t, {"lock", "finalize"}, 2) =>
         \A e \in DispatchesOf(LineOf[req[t].d]) :
           db.disp[e].state = "LOCKED" => snap[t].disp[e].state = "LOCKED"
    /\ Doing(t, {"reverse", "status", "cancel"}, 2) => held[t][SoOfRequest(req[t])] = "X"
    /\ Doing(t, {"qcPost"}, 4) /\ QcPostCloses(req[t], snap[t]) => held[t][BatchSo(req[t].q)] = "X"
    /\ Doing(t, {"post"}, 3) =>
         snap[t].status[SoOfDispatch(req[t].d)] = db.status[SoOfDispatch(req[t].d)]

DistinctEntries ==
    \A t, u \in Tx : t # u /\ Doing(t, {"qcPost"}, 0) /\ Doing(u, {"qcPost"}, 0) =>
                     req[u].q # req[t].q

\* QInv, sorted by what it looks at.
LEMMA QParts ==
    /\ QInv <=> InOrder(db) /\ DistinctEntries /\ \A t \in Tx : QTx(t)
    /\ InOrder(db') /\ DistinctEntries' /\ (\A t \in Tx : QTx(t)') => QInv'
<1>1. QInv <=> InOrder(db) /\ DistinctEntries /\ \A t \in Tx : QTx(t)
  BY DEF QInv, QTx, InOrder, DistinctEntries, SoundTables, EntriesOlder, FreshEntries,
         ConfirmationsKnown, HoldsOrderToSet, StatusKnown, NetWithinOrdered, BooksBalance,
         ConfirmedWithinReceived, Within, Balanced, Covered
<1>2. InOrder(db') /\ DistinctEntries' /\ (\A t \in Tx : QTx(t)') => QInv'
  BY DEF QInv, QTx, InOrder, DistinctEntries, SoundTables, EntriesOlder, FreshEntries,
         ConfirmationsKnown, HoldsOrderToSet, StatusKnown, NetWithinOrdered, BooksBalance,
         ConfirmedWithinReceived, Within, Balanced, Covered
<1> QED BY <1>1, <1>2

\* A transaction that takes no part in a step that leaves the tables alone.
LEMMA QBystander ==
    ASSUME NEW u \in Tx, QTx(u), UNCHANGED <<db, held[u], req[u], at[u], snap[u]>>
    PROVE  QTx(u)'
BY DEF QTx, Idle, Viewed, Doing

\* What concerns the transaction that ends, and the identifiers of the others.
LEMMA QFinish ==
    ASSUME IInv, QInv, NEW t \in Tx, NEW a \in Answer, Finish(t, a)
    PROVE  DistinctEntries' /\ QTx(t)'
<1>1. /\ at'[t] = 0
      /\ \A u \in Tx \ {t} : UNCHANGED <<held[u], req[u], at[u], snap[u]>>
  BY DEF Finish, IInv, TypeOK
<1>2. DistinctEntries'
  BY <1>1, QParts DEF DistinctEntries, Doing, Idle
<1>3. QTx(t)'
  BY <1>1 DEF QTx, Idle, Viewed, Doing
<1> QED BY <1>2, <1>3

\* A handler that ends without a write.
LEMMA QEnd ==
    ASSUME IInv, QInv, NEW t \in Tx, NEW a \in Answer, Finish(t, a), db' = db
    PROVE  QInv'
<1>1. \A u \in Tx \ {t} : UNCHANGED <<db, held[u], req[u], at[u], snap[u]>>
  BY DEF Finish, IInv, TypeOK
<1>2. \A u \in Tx \ {t} : QTx(u)'
  BY <1>1, QParts, QBystander
<1>3. DistinctEntries' /\ QTx(t)'
  BY QFinish
<1>4. InOrder(db')
  BY QParts
<1> QED BY <1>2, <1>3, <1>4, QParts

\* A request that enters its handler.
LEMMA QArrive ==
    ASSUME IInv, QInv, NEW t \in Tx, NEW r \in Request, Arrive(t, r)
    PROVE  QInv'
<1>1. /\ db' = db /\ at[t] = 0 /\ at'[t] = 1 /\ req'[t] = r
      /\ \A u \in Tx \ {t} : UNCHANGED <<db, held[u], req[u], at[u], snap[u]>>
  BY DEF Arrive, Begin, Idle, IInv, TypeOK
<1>2. \A u \in Tx \ {t} : QTx(u)'
  BY <1>1, QParts, QBystander
<1>3. QTx(t)'
  <2>1. ~(1 > ReadAt(r.op))
    BY RequestForms, PlanRange
  <2>2. r.op = "qcPost" => db.qc[r.q] = "absent"
    BY DEF Arrive, Fresh
  <2> QED BY <1>1, <2>1, <2>2 DEF QTx, Idle, Viewed, Doing
<1>4. DistinctEntries'
  BY <1>1, QParts DEF DistinctEntries, Doing, Idle, Arrive, Drawn
<1>5. InOrder(db')
  BY <1>1, QParts
<1> QED BY <1>2, <1>3, <1>4, <1>5, QParts

\* Where a handler that sets the status of an order locks it.
LEMMA OrderPositions ==
    ASSUME NEW op \in Operation, NEW i \in 1 .. Len(Plan(op))
    PROVE  /\ op \in {"reverse", "status", "cancel"} /\ i = 2 => Plan(op)[i] = "so"
           /\ op = "qcPost" /\ i = 4 => Plan(op)[i] = "close"
           /\ op = "qcPost" => Len(Plan(op)) = 5
           /\ op \in {"status", "cancel"} => Len(Plan(op)) = 3
           /\ Plan(op)[i] = "close" => op = "qcPost"
<1>1. CASE op = "post"
  BY <1>1 DEF Plan, PostPlan
<1>2. CASE op \in {"lock", "finalize"}
  BY <1>2 DEF Plan, ConfirmPlan
<1>3. CASE op = "delete"
  BY <1>3 DEF Plan, DeletePlan
<1>4. CASE op = "reverse"
  BY <1>4 DEF Plan, ReversePlan
<1>5. CASE op \in {"status", "cancel"}
  BY <1>5 DEF Plan, StatusPlan
<1>6. CASE op = "qcPost"
  BY <1>6 DEF Plan, QcPostPlan
<1>7. CASE op = "qcReverse"
  BY <1>7 DEF Plan, QcReversePlan
<1> QED BY <1>1, <1>2, <1>3, <1>4, <1>5, <1>6, <1>7 DEF Operation

\* A step before the last.
LEMMA QAdvance ==
    ASSUME IInv, QInv, NEW t \in Tx, ~Idle(t), Step(t) # "write",
           db' = db, req' = req, at' = [at EXCEPT ![t] = @ + 1],
           \A u \in Tx \ {t} : held'[u] = held[u] /\ snap'[u] = snap[u],
           req[t].op # "qcPost" => \A r \in Row : held[t][r] = "X" => held'[t][r] = "X",
           Step(t) = "so" => held'[t][SoOfRequest(req[t])] = "X",
           Step(t) = "close" /\ QcPostCloses(req[t], snap[t]) => held'[t][BatchSo(req[t].q)] = "X",
           Step(t) # "read" => snap'[t] = snap[t],
           Step(t) = "read" => snap'[t] = db
    PROVE  QInv'
<1> DEFINE r == req[t]
           i == at[t]
           n == Len(Plan(r.op))
           k == ReadAt(r.op)
<1>1. /\ at'[t] = i + 1 /\ req'[t] = r
      /\ \A u \in Tx \ {t} : UNCHANGED <<db, held[u], req[u], at[u], snap[u]>>
  BY DEF IInv, TypeOK
<1>2. /\ r \in Request /\ r.op \in Operation /\ i \in 1 .. 5 /\ i \in 1 .. n
      /\ i + 1 \in 1 .. n /\ n \in 3 .. 5 /\ k \in 1 .. 3
      /\ Step(t) = "read" <=> i = k
      /\ Step(t) = Plan(r.op)[i]
  BY Standing, PlanRange DEF IInv, InPlan
<1>3. InOrder(db')
  BY QParts
<1>4. DistinctEntries'
  <2>1. \A u \in Tx : Doing(u, {"qcPost"}, 0)' => Doing(u, {"qcPost"}, 0) /\ req'[u] = req[u]
    <3>1. \A u \in Tx \ {t} : Doing(u, {"qcPost"}, 0)' => Doing(u, {"qcPost"}, 0)
      BY <1>1 DEF Doing, Idle
    <3>2. Doing(t, {"qcPost"}, 0)' => Doing(t, {"qcPost"}, 0)
      BY <1>1, <1>2 DEF Doing, Idle
    <3> QED BY <3>1, <3>2
  <2> QED BY <2>1, QParts DEF DistinctEntries
<1>5. \A u \in Tx \ {t} : QTx(u)'
  BY <1>1, QParts, QBystander
<1>6. QTx(t)'
  <2>1. QTx(t)
    BY QParts
  <2>2. i + 1 > k <=> i > k \/ Step(t) = "read"
    <3> HIDE DEF i, k, n
    <3> QED BY <1>2
  <2>3. Viewed(t)' => /\ Unreversed(snap'[t])
                      /\ \A q \in QcEntry : snap'[t].qc[q] # "absent" => db'.qc[q] # "absent"
    <3>1. CASE Step(t) = "read"
      BY <3>1, QParts DEF InOrder
    <3>2. CASE Step(t) # "read"
      BY <1>1, <2>1, <2>2, <3>2 DEF Viewed, QTx
    <3> QED BY <3>1, <3>2
  <2>4. Doing(t, {"qcPost"}, 0)' => db'.qc[r.q] = "absent"
    <3>1. i > 0
      BY <1>2
    <3> QED BY <1>1, <2>1, <3>1 DEF QTx, Doing
  <2>5. Doing(t, {"lock", "finalize"}, 2)' =>
          \A e \in DispatchesOf(LineOf[r.d]) :
            db'.disp[e].state = "LOCKED" => snap'[t].disp[e].state = "LOCKED"
    <3> SUFFICES ASSUME r.op \in {"lock", "finalize"}, i + 1 > 2,
                        NEW e \in DispatchesOf(LineOf[r.d]), db.disp[e].state = "LOCKED"
                 PROVE  snap'[t].disp[e].state = "LOCKED"
      BY <1>1 DEF Doing
    <3>0. k = 2
      BY DEF ReadAt
    <3>1. CASE Step(t) = "read"
      BY <3>1
    <3>2. CASE Step(t) # "read"
      <4>1. i > 2
        BY <1>2, <3>0, <3>2
      <4> QED BY <2>1, <4>1, <3>2 DEF QTx, Doing
    <3> QED BY <3>1, <3>2
  <2>6. Doing(t, {"reverse", "status", "cancel"}, 2)' => held'[t][SoOfRequest(r)] = "X"
    <3> SUFFICES ASSUME r.op \in {"reverse", "status", "cancel"}, i + 1 > 2
                 PROVE  held'[t][SoOfRequest(r)] = "X"
      BY <1>1 DEF Doing
    <3>1. SoOfRequest(r) \in Row
      BY <1>2, RequestForms, TablesAssumption, RowAssumption
         DEF SoOfRequest, LineOfRequest, ReverseRequest, StatusRequest, CancelRequest
    <3>2. CASE i = 2
      BY <3>2, <1>2, OrderPositions
    <3>3. CASE i # 2
      <4>1. i > 2
        BY <1>2, <3>3
      <4> QED BY <2>1, <4>1, <3>1 DEF QTx, Doing
    <3> QED BY <3>2, <3>3
  <2>7. Doing(t, {"qcPost"}, 4)' /\ QcPostCloses(r, snap'[t]) => held'[t][BatchSo(r.q)] = "X"
    <3> SUFFICES ASSUME r.op = "qcPost", i + 1 > 4, QcPostCloses(r, snap'[t])
                 PROVE  held'[t][BatchSo(r.q)] = "X"
      BY <1>1 DEF Doing
    <3>1. n = 5
      BY <1>2, OrderPositions
    <3>2. i = 4
      <4> HIDE DEF i, n
      <4> QED BY <1>2, <3>1
    <3>3. Step(t) = "close" /\ Step(t) # "read"
      BY <3>2, <1>2, OrderPositions
    <3> QED BY <3>3
  <2>8. Doing(t, {"post"}, 3)' =>
          snap'[t].status[SoOfDispatch(r.d)] = db'.status[SoOfDispatch(r.d)]
    <3> SUFFICES ASSUME r.op = "post", i + 1 > 3
                 PROVE  snap'[t].status[SoOfDispatch(r.d)] = db.status[SoOfDispatch(r.d)]
      BY <1>1 DEF Doing
    <3>0. k = 3
      BY DEF ReadAt
    <3>1. CASE Step(t) = "read"
      BY <3>1
    <3>2. CASE Step(t) # "read"
      <4>1. i > 3
        BY <1>2, <3>0, <3>2
      <4> QED BY <2>1, <4>1, <3>2 DEF QTx, Doing
    <3> QED BY <3>1, <3>2
  <2> QED BY <1>1, <2>3, <2>4, <2>5, <2>6, <2>7, <2>8 DEF QTx
<1> QED BY <1>3, <1>4, <1>5, <1>6, QParts

\* A granted lock.
LEMMA QLock ==
    ASSUME IInv, QInv, NEW t \in Tx, Lock(t)
    PROVE  QInv'
<1>i. ~Idle(t)
  BY DEF Lock, Wanted, Wants, Step
<1>1. PICK k \in Wanted(t) : Take(t, k[1], k[2])
  BY DEF Lock
<1>2. /\ \A r \in Row : held'[t][r] = IF r = k[1] THEN k[2] ELSE held[t][r]
      /\ \A u \in Tx \ {t} : held'[u] = held[u] /\ snap'[u] = snap[u]
      /\ snap'[t] = snap[t]
  BY <1>1 DEF Take, IInv, TypeOK
<1>3. req[t].op # "qcPost" => k[2] = "X"
  BY <1>i, WantedForms
<1>4. Step(t) = "so" => held'[t][SoOfRequest(req[t])] = "X"
  <2> SUFFICES ASSUME Step(t) = "so" PROVE held'[t][SoOfRequest(req[t])] = "X"
    OBVIOUS
  <2>1. SoOfRequest(req[t]) \in SO
    BY <1>i, Standing, TablesAssumption
       DEF IInv, SoOfRequest, LineOfRequest, Request, StatusRequest, CancelRequest,
           PostRequest, DraftRequest, ReverseRequest, QcRequest
  <2>2. k[1] = SoOfRequest(req[t]) /\ k[2] = "X"
    BY DEF Wanted, Wants
  <2> QED BY <1>2, <2>1, <2>2, RowAssumption
<1>5. Step(t) = "close" => held'[t][BatchSo(req[t].q)] = "X"
  <2> SUFFICES ASSUME Step(t) = "close" PROVE held'[t][BatchSo(req[t].q)] = "X"
    OBVIOUS
  <2>1. req[t].op = "qcPost"
    BY <1>i, Standing, OrderPositions DEF IInv, InPlan
  <2>2. BatchSo(req[t].q) \in SO
    BY <1>i, <2>1, Standing, RequestForms, TablesAssumption DEF IInv, BatchSo, QcRequest
  <2>3. k[1] = BatchSo(req[t].q) /\ k[2] = "X"
    BY DEF Wanted, Wants
  <2> QED BY <1>2, <2>2, <2>3, RowAssumption
<1>6. Step(t) \notin {"read", "write"}
  BY <1>i, WantedForms
<1> QED BY <1>i, <1>1, <1>2, <1>3, <1>4, <1>5, <1>6, QAdvance DEF Take

\* A lock step with nothing to lock.
LEMMA QPass ==
    ASSUME IInv, QInv, NEW t \in Tx, LockNothing(t)
    PROVE  QInv'
<1>1. ~Idle(t)
  BY DEF LockNothing, Step, LockSteps
<1>2. Step(t) \notin {"read", "write", "so"}
  BY DEF LockNothing, LockSteps, Wanted, Wants
<1>3. Step(t) = "close" => ~QcPostCloses(req[t], snap[t])
  BY DEF LockNothing, Wanted, Wants
<1> QED BY <1>1, <1>2, <1>3, QAdvance DEF LockNothing, Pass

\* The first plain SELECT.
LEMMA QRead ==
    ASSUME IInv, QInv, NEW t \in Tx, Read(t)
    PROVE  QInv'
<1>1. ~Idle(t) /\ Step(t) = "read"
  BY DEF Read, Step
<1>2. snap'[t] = db /\ \A u \in Tx \ {t} : snap'[u] = snap[u]
  BY DEF Read, ReadView, IInv, TypeOK
<1>3. db' = db /\ req' = req /\ held' = held /\ at' = [at EXCEPT ![t] = @ + 1]
  BY DEF Read, ReadView
<1> QED BY <1>1, <1>2, <1>3, QAdvance

(***************************************************************************)
(* Writes.                                                                 *)
(***************************************************************************)

\* What is known of a handler that is about to write.
LEMMA AtWrite ==
    ASSUME IInv, QInv, NEW t \in Tx, Writes(t)
    PROVE  /\ ~Idle(t) /\ Step(t) = "write" /\ Finish(t, "done") /\ Viewed(t)
           /\ req[t] \in Request /\ req[t].op \in Operation
           /\ snap[t] \in Tables /\ db \in Tables /\ db' \in Tables
           /\ db' = Written(req[t], snap[t], db)
           /\ Allowed(req[t], snap[t]) /\ Insertable(req[t], db)
           /\ PostedWell(db) /\ PostedWell(db')
           /\ InOrder(db) /\ Unreversed(snap[t]) /\ QTx(t)
           /\ req[t].op \in {"post", "reverse", "lock", "finalize", "qcPost"} => at[t] = 5
           /\ req[t].op \in {"status", "cancel"} => at[t] = 3
<1>1. /\ Step(t) = "write" /\ ~Idle(t) /\ Finish(t, "done")
      /\ db' = Written(req[t], snap[t], db)
      /\ Allowed(req[t], snap[t]) /\ Insertable(req[t], db)
  BY DEF Writes, PostDispatch, LockDispatch, FinalizeDraft, DeleteDispatch, ReverseDispatch,
         PutStatus, CancelApproval, PostQc, ReverseQc, Write, Commit, Step
<1>2. /\ req[t] \in Request /\ req[t].op \in Operation /\ Viewed(t)
      /\ at[t] = Len(Plan(req[t].op))
  <2>1. /\ req[t] \in Request /\ req[t].op \in Operation /\ Viewed(t)
        /\ at[t] \in 1 .. Len(Plan(req[t].op)) /\ Step(t) = Plan(req[t].op)[at[t]]
    BY <1>1, Standing DEF IInv, InPlan
  <2>2. at[t] = Len(Plan(req[t].op))
    BY <1>1, <2>1, Positions
  <2> QED BY <2>1, <2>2
<1>3. snap[t] \in Tables /\ db \in Tables
  BY <1>2 DEF IInv, ViewTyped, TypeOK
<1>4. IInv'
  BY WriteKeeps
<1>5. db' \in Tables /\ PostedWell(db) /\ PostedWell(db')
  BY <1>4 DEF IInv, TypeOK, PostedOnce, PostedWell
<1>6. InOrder(db) /\ QTx(t)
  BY QParts
<1>7. Unreversed(snap[t])
  BY <1>2, <1>6 DEF QTx
<1>8. /\ req[t].op \in {"post", "reverse", "lock", "finalize", "qcPost"} => at[t] = 5
      /\ req[t].op \in {"status", "cancel"} => at[t] = 3
  BY <1>2 DEF Plan, PostPlan, ReversePlan, ConfirmPlan, QcPostPlan, StatusPlan
<1> QED BY <1>1, <1>2, <1>3, <1>5, <1>6, <1>7, <1>8

\* A write changes no other order than one it holds (updates of internalStatus).
LEMMA StatusEffect ==
    ASSUME IInv, QInv, NEW t \in Tx, Writes(t), NEW o \in SO, db'.status[o] # db.status[o]
    PROVE  held[t][o] = "X"
<1> DEFINE r == req[t]
<1>1. /\ ~Idle(t) /\ r \in Request /\ r.op \in Operation
      /\ snap[t] \in Tables /\ db \in Tables /\ QTx(t)
      /\ db' = Written(r, snap[t], db)
      /\ req[t].op \in {"post", "reverse", "lock", "finalize", "qcPost"} => at[t] = 5
      /\ req[t].op \in {"status", "cancel"} => at[t] = 3
  BY AtWrite
<1>2. CASE r.op = "post"
  <2>1. StatusWithin(db, db', SoOfDispatch(r.d))
    BY <1>1, <1>2, RequestForms, PostBooks DEF Written
  <2>2. Doing(t, {"post"}, 1)
    BY <1>1, <1>2 DEF Doing
  <2> QED BY <2>1, <2>2 DEF StatusWithin, IInv, HoldsOrder
<1>3. CASE r.op \in {"lock", "finalize"}
  <2>1. StatusWithin(db, db', SoOfDispatch(r.d))
    <3>1. /\ r \in DraftRequest
          /\ db' = LockWrite(r, snap[t], db) \/ db' = FinalizeWrite(r, snap[t], db)
      BY <1>1, <1>3, RequestForms DEF Written, DraftOps
    <3> QED BY <1>1, <3>1, ConfirmBooks DEF Ships
  <2>2. Doing(t, DraftOps, 3)
    BY <1>1, <1>3 DEF Doing, DraftOps
  <2> QED BY <2>1, <2>2 DEF StatusWithin, IInv, HoldsOrder
<1>4. CASE r.op = "delete"
  <2>1. db'.status = db.status
    BY <1>1, <1>4, RequestForms, DeleteBooks DEF Written, DraftOps
  <2> QED BY <2>1
<1>5. CASE r.op = "reverse"
  <2>1. StatusWithin(db, db', SoOfRequest(r))
    <3>1. StatusWithin(db, db', SoOfDispatch(r.d))
      BY <1>1, <1>5, RequestForms, ReverseBooks DEF Written
    <3> QED BY <1>5, <3>1 DEF SoOfRequest, LineOfRequest, SoOfDispatch
  <2>2. Doing(t, {"reverse", "status", "cancel"}, 2)
    BY <1>1, <1>5 DEF Doing
  <2> QED BY <1>1, <2>1, <2>2 DEF StatusWithin, QTx
<1>6. CASE r.op \in {"status", "cancel"}
  <2>1. StatusWithin(db, db', SoOfRequest(r))
    <3>1. /\ r.op = "status" => r \in StatusRequest
          /\ r.op = "cancel" => r \in CancelRequest
      BY <1>1, RequestForms
    <3>2. r.so \in SO
      BY <1>6, <3>1 DEF StatusRequest, CancelRequest
    <3>3. \E s \in Status : db' = SetStatus(db, r.so, s)
      BY <1>1, <1>6, <3>1, TablesAssumption
         DEF Written, StatusWrite, CancelWrite, StatusRequest, Status
    <3> QED BY <1>1, <1>6, <3>2, <3>3, StatusBooks DEF SoOfRequest
  <2>2. Doing(t, {"reverse", "status", "cancel"}, 2)
    BY <1>1, <1>6 DEF Doing
  <2> QED BY <1>1, <2>1, <2>2 DEF StatusWithin, QTx
<1>7. CASE r.op = "qcPost"
  <2>1. StatusWithin(db, db', BatchSo(r.q)) /\ (db'.status # db.status => QcPostCloses(r, snap[t]))
    BY <1>1, <1>7, RequestForms, QcPostBooks DEF Written
  <2>2. Doing(t, {"qcPost"}, 4)
    BY <1>1, <1>7 DEF Doing
  <2> QED BY <1>1, <2>1, <2>2 DEF StatusWithin, QTx
<1>8. CASE r.op = "qcReverse"
  <2>1. db'.status = db.status
    BY <1>1, <1>8, RequestForms, QcReverseBooks DEF Written
  <2> QED BY <2>1
<1> QED BY <1>1, <1>2, <1>3, <1>4, <1>5, <1>6, <1>7, <1>8 DEF Operation

\* A write touches no QC entry but the one its request names, and removes none.
LEMMA EntryEffect ==
    ASSUME IInv, QInv, NEW t \in Tx, Writes(t), NEW q \in QcEntry
    PROVE  /\ db.qc[q] # "absent" => db'.qc[q] # "absent"
           /\ db.qc[q] = "absent" /\ db'.qc[q] # "absent" =>
                Doing(t, {"qcPost"}, 0) /\ q = req[t].q
<1> DEFINE r == req[t]
<1>1. /\ ~Idle(t) /\ r \in Request /\ r.op \in Operation /\ Viewed(t)
      /\ snap[t] \in Tables /\ db \in Tables /\ QTx(t)
      /\ db' = Written(r, snap[t], db)
      /\ Allowed(r, snap[t])
      /\ req[t].op \in {"post", "reverse", "lock", "finalize", "qcPost"} => at[t] = 5
  BY AtWrite
<1>2. CASE r.op = "post"
  BY <1>1, <1>2, RequestForms, PostBooks DEF Written, SameBooks
<1>3. CASE r.op \in {"lock", "finalize"}
  <2>1. /\ r \in DraftRequest
        /\ db' = LockWrite(r, snap[t], db) \/ db' = FinalizeWrite(r, snap[t], db)
    BY <1>1, <1>3, RequestForms DEF Written, DraftOps
  <2> QED BY <1>1, <2>1, ConfirmBooks DEF Ships
<1>4. CASE r.op = "delete"
  BY <1>1, <1>4, RequestForms, DeleteBooks DEF Written, DraftOps, SameBooks
<1>5. CASE r.op = "reverse"
  BY <1>1, <1>5, RequestForms, ReverseBooks DEF Written
<1>6. CASE r.op \in {"status", "cancel"}
  <2>1. \E s : db' = SetStatus(db, r.so, s)
    BY <1>1, <1>6 DEF Written, StatusWrite, CancelWrite
  <2> QED BY <1>1, <2>1 DEF SetStatus, Tables
<1>7. CASE r.op = "qcPost"
  <2>0. r \in QcRequest /\ db' = QcPostWrite(r, snap[t], db) /\ r.q \in QcEntry
    BY <1>1, <1>7, RequestForms DEF Written, QcRequest
  <2>1. db'.qc[q] = IF q = r.q THEN "active" ELSE db.qc[q]
    BY <1>1, <2>0, QcPostBooks
  <2>2. Doing(t, {"qcPost"}, 0)
    BY <1>1, <1>7 DEF Doing, Idle
  <2> QED BY <2>1, <2>2
<1>8. CASE r.op = "qcReverse"
  <2>0. r \in QcRequest /\ db' = QcReverseWrite(r, snap[t], db) /\ r.q \in QcEntry
    BY <1>1, <1>8, RequestForms DEF Written, QcRequest
  <2>1. db'.qc[q] = IF q = r.q THEN "reversed" ELSE db.qc[q]
    BY <1>1, <2>0, QcReverseBooks
  <2>2. snap[t].qc[r.q] = "active"
    BY <1>1, <1>8 DEF Allowed, QcReverseAllowed
  <2>3. db.qc[r.q] # "absent"
    BY <1>1, <2>0, <2>2 DEF QTx
  <2> QED BY <2>1, <2>3
<1> QED BY <1>1, <1>2, <1>3, <1>4, <1>5, <1>6, <1>7, <1>8 DEF Operation

\* The parts of a row in its states.
LEMMA PartForms ==
    ASSUME NEW x \in DispatchRow
    PROVE  /\ Part(x) \in Int /\ FirmPart(x) \in Int /\ BookPart(x) \in Int
           /\ x.qty \in Nat /\ x.reversed \in Nat
           /\ x.state = "UNLOCKED" => Part(x) = x.qty - x.reversed /\ FirmPart(x) = 0
           /\ x.state = "LOCKED" => Part(x) = x.qty - x.reversed /\ FirmPart(x) = x.qty - x.reversed
           /\ x.state \notin {"UNLOCKED", "LOCKED"} => Part(x) = 0 /\ FirmPart(x) = 0
           /\ x.state = "LOCKED" => BookPart(x) = x.qty - x.reversed
           /\ x.state # "LOCKED" => BookPart(x) = 0 - x.reversed
BY DEF DispatchRow, Part, FirmPart, BookPart

\* Room found on a view is room in the tables, when the tables have no more than
\* the view on the other rows of the line (canPost, getSoItemDispatchNet).
LEMMA RoomKept ==
    ASSUME NEW v \in Tables, NEW w \in Tables, NEW y \in Tables,
           NEW e \in Dispatch, NEW x \in DispatchRow,
           y.disp = [w.disp EXCEPT ![e] = x],
           \A d \in DispatchesOf(LineOf[e]) \ {e} : Part(w.disp[d]) <= Part(v.disp[d]),
           Part(v.disp[e]) >= 0
    PROVE  OperationalNet(y, LineOf[e]) <= OperationalNet(v, LineOf[e]) + Part(x)
<1> DEFINE l == LineOf[e]
           z == PutRow(v, e, x)
<1>1. l \in Line /\ LineOf[e] = l
  BY TablesAssumption
<1>2. z \in Tables /\ z.disp = [v.disp EXCEPT ![e] = x]
  BY RowChange
<1>3. OneRow(v, z, e) /\ z.disp[e] = x /\ y.disp[e] = x
      /\ \A d \in Dispatch \ {e} : z.disp[d] = v.disp[d] /\ y.disp[d] = w.disp[d]
  <2> HIDE DEF z
  <2> QED BY <1>2 DEF OneRow, Tables
<1>4. OperationalNet(z, l) = OperationalNet(v, l) - Part(v.disp[e]) + Part(x)
  <2> HIDE DEF z, l
  <2>1. OperationalNet(z, l) = OperationalNet(v, l) - Part(v.disp[e]) + Part(z.disp[e])
    <3>1. z \in Tables /\ OneRow(v, z, e)
      BY <1>2, <1>3
    <3>2. /\ LineOf[e] # l => /\ OperationalNet(z, l) = OperationalNet(v, l)
                              /\ ConfirmedNet(z, l) = ConfirmedNet(v, l)
          /\ LineOf[e] = l =>
               /\ OperationalNet(z, l) = OperationalNet(v, l) - Part(v.disp[e]) + Part(z.disp[e])
               /\ ConfirmedNet(z, l) = ConfirmedNet(v, l) - FirmPart(v.disp[e]) + FirmPart(z.disp[e])
      BY <1>1, <3>1, NetRowChange
    <3> QED BY <1>1, <3>2
  <2> QED BY <1>3, <2>1
<1>5. OperationalNet(y, l) <= OperationalNet(z, l)
  <2> HIDE DEF z, l
  <2>1. Part(x) \in Int
    BY PartForms
  <2>2. \A d \in DispatchesOf(l) : Part(y.disp[d]) <= Part(z.disp[d])
    BY <1>3, <2>1 DEF l, DispatchesOf
  <2> QED BY <1>1, <1>2, <2>2, NetCompare
<1>6. /\ OperationalNet(z, l) \in Int /\ OperationalNet(v, l) \in Int /\ OperationalNet(y, l) \in Int
      /\ Part(v.disp[e]) \in Int /\ Part(x) \in Int
  <2> HIDE DEF z, l
  <2> QED BY <1>1, <1>2, NetForm, PartTypes, PartForms
<1> HIDE DEF z
<1> QED BY <1>4, <1>5, <1>6

\* Preparing a draft keeps the quantities in order.
LEMMA PostQuantities ==
    ASSUME IInv, QInv, NEW t \in Tx, PostDispatch(t)
    PROVE  InOrder(db')
<1> DEFINE r == req[t]
           l == LineOf[r.d]
           v == snap[t]
<1>1. /\ Writes(t) /\ r.op = "post"
  BY DEF Writes, PostDispatch, Write
<1>2. /\ ~Idle(t) /\ r \in Request /\ v \in Tables /\ db \in Tables /\ db' \in Tables /\ Viewed(t)
      /\ db' = Written(r, v, db) /\ Allowed(r, v) /\ PostedWell(db) /\ PostedWell(db')
      /\ InOrder(db) /\ Unreversed(v) /\ QTx(t) /\ at[t] = 5
  BY <1>1, AtWrite
<1>3. /\ r \in PostRequest /\ r.d \in Dispatch /\ l \in Line /\ r.qty \in Nat
      /\ db' = PostWrite(r, v, db) /\ PostAllowed(r, v)
  BY <1>1, <1>2, RequestForms, TablesAssumption DEF Written, Allowed, PostRequest, Positive
<1>4. /\ \A d \in DispatchesOf(l) : v.disp[d].state = db.disp[d].state
      /\ \A d \in Dispatch : RowMove(v.disp[d], db.disp[d])
      /\ db.disp[r.d].state = "absent"
  <2>1. TxOK(t)
    BY Parts
  <2>2. Doing(t, {"post"}, 0) /\ Doing(t, {"post"}, 3)
    BY <1>1, <1>2 DEF Doing
  <2> QED BY <1>2, <2>1, <2>2 DEF TxOK
<1>5. PICK e \in DispatchesOf(l), x \in DispatchRow :
        /\ db'.disp = [db.disp EXCEPT ![e] = x]
        /\ x.state = "UNLOCKED" /\ x.qty = r.qty /\ x.reversed = 0
        /\ db.disp[e].state \in {"absent", "UNLOCKED"}
        /\ \A d \in DispatchesOf(l) \ {e} : db.disp[d].state # "UNLOCKED"
  <2>1. PICK e \in DispatchesOf(l), x \in DispatchRow :
          /\ db'.disp = [db.disp EXCEPT ![e] = x] /\ RowEffect(t, e, x)
          /\ db.disp[e].state \in {"absent", "UNLOCKED"}
          /\ x.state = "UNLOCKED" /\ x.qty = r.qty
          /\ x.reversed = 0 \/ x.reversed = db.disp[e].reversed
    BY PostEffect
  <2>2. e \in Dispatch /\ LineOf[e] = l
    BY DEF DispatchesOf
  <2>3. x.reversed = 0
    BY <1>2, <2>1, <2>2 DEF InOrder, Unreversed
  <2>4. \A d \in DispatchesOf(l) \ {e} : db.disp[d].state # "UNLOCKED"
    <3>1. db.disp[e].state = "UNLOCKED" \/ Drafts(db, l) = {}
      BY <2>1, <2>2 DEF RowEffect
    <3> QED BY <1>3, <3>1 DEF IInv, OneDraftPerLine, Drafts
  <2> QED BY <2>1, <2>3, <2>4
<1>6. e \in Dispatch /\ LineOf[e] = l
  BY <1>5 DEF DispatchesOf
<1>7. /\ db.disp[e] \in DispatchRow /\ v.disp[e] \in DispatchRow
      /\ \A d \in Dispatch : db.disp[d] \in DispatchRow /\ v.disp[d] \in DispatchRow
  BY <1>2, <1>6, PartTypes
<1>8. Part(x) = r.qty /\ FirmPart(x) = 0 /\ BookPart(x) = 0
  BY <1>3, <1>5, PartForms
<1>9. /\ Part(v.disp[e]) >= 0 /\ BookPart(db.disp[e]) = 0 /\ FirmPart(db.disp[e]) = 0
  <2>1. v.disp[e].state \in {"absent", "UNLOCKED"}
    BY <1>4, <1>5
  <2>2. v.disp[e].reversed = 0 /\ db.disp[e].reversed = 0
    BY <1>2, <1>5, <1>6, <2>1 DEF InOrder, Unreversed
  <2> QED BY <1>5, <1>7, <2>1, <2>2, PartForms
<1>10. \A d \in DispatchesOf(l) \ {e} : Part(db.disp[d]) <= Part(v.disp[d])
  <2> SUFFICES ASSUME NEW d \in DispatchesOf(l) \ {e} PROVE Part(db.disp[d]) <= Part(v.disp[d])
    OBVIOUS
  <2>1. /\ d \in Dispatch /\ db.disp[d].state # "UNLOCKED" /\ v.disp[d].state = db.disp[d].state
        /\ RowMove(v.disp[d], db.disp[d])
    BY <1>4, <1>5 DEF DispatchesOf
  <2> QED BY <1>7, <2>1, PartForms DEF RowMove
<1>11. OperationalNet(db', l) <= Ordered[l]
  <2>1. OperationalNet(db', LineOf[e]) <= OperationalNet(v, LineOf[e]) + Part(x)
    <3> HIDE DEF l, r, v
    <3> QED BY <1>2, <1>5, <1>6, <1>9, <1>10, RoomKept
  <2>2. r.qty <= Ordered[l] - OperationalNet(v, l)
    BY <1>3 DEF PostAllowed
  <2>3. /\ OperationalNet(v, l) \in Int /\ OperationalNet(db', l) \in Int /\ Ordered[l] \in Int
    BY <1>2, <1>3, NetForm, TablesAssumption DEF Positive
  <2> QED BY <1>3, <1>6, <1>8, <2>1, <2>2, <2>3
<1>12. /\ db'.qc = db.qc /\ db'.seen = db.seen /\ db'.fg = db.fg
  BY <1>2, <1>3, PostBooks DEF SameBooks
<1>13. ConfirmedNet(db', l) <= Received(db', l)
  <2>1. OneRow(db, db', e) /\ db'.disp[e] = x
    <3>1. db.disp \in [Dispatch -> DispatchRow] /\ db'.disp = [db.disp EXCEPT ![e] = x]
      BY <1>2, <1>5 DEF Tables
    <3> QED BY <1>6, <3>1 DEF OneRow
  <2>2. ConfirmedNet(db', l) = ConfirmedNet(db, l) - FirmPart(db.disp[e]) + FirmPart(db'.disp[e])
    <3> HIDE DEF l
    <3> QED BY <1>2, <1>3, <1>6, <2>1, NetRowChange
  <2>3. ConfirmedNet(db, l) \in Int /\ ConfirmedNet(db, l) <= Received(db, l)
    BY <1>2, <1>3, NetForm DEF InOrder, Covered
  <2>4. Received(db', l) = Received(db, l)
    BY <1>2, <1>3, <1>12, SameEntries
  <2> QED BY <1>8, <1>9, <2>1, <2>2, <2>3, <2>4
<1>14. \A i \in Item : db'.fg[i] =
         db.fg[i] - IF ItemOfDispatch(e) = i THEN BookPart(x) - BookPart(db.disp[e]) ELSE 0
  BY <1>2, <1>8, <1>9, <1>12 DEF Tables
<1> HIDE DEF r, l, v
<1> QED BY <1>2, <1>5, <1>6, <1>11, <1>12, <1>13, <1>14, RowKeepsOrder

\* Confirming a draft keeps the quantities in order: what the order lock has not
\* yet excluded when the handler read, the lock of the draft has.
LEMMA ConfirmQuantities ==
    ASSUME IInv, QInv, NEW t \in Tx, LockDispatch(t) \/ FinalizeDraft(t)
    PROVE  InOrder(db')
<1> DEFINE r == req[t]
           d == r.d
           l == LineOf[d]
           v == snap[t]
           y == db.disp[d]
           x == ConfirmedRow(y)
<1>1. Writes(t) /\ r.op \in {"lock", "finalize"}
  BY DEF Writes, LockDispatch, FinalizeDraft, Write
<1>2. /\ ~Idle(t) /\ r \in Request /\ v \in Tables /\ db \in Tables /\ db' \in Tables /\ Viewed(t)
      /\ db' = Written(r, v, db) /\ Allowed(r, v) /\ PostedWell(db) /\ PostedWell(db')
      /\ InOrder(db) /\ Unreversed(v) /\ QTx(t) /\ at[t] = 5
  BY <1>1, AtWrite
<1>3. /\ r \in DraftRequest /\ d \in Dispatch /\ l \in Line
      /\ db' = LockWrite(r, v, db) \/ db' = FinalizeWrite(r, v, db)
      /\ ConfirmAllowed(r, v)
  BY <1>1, <1>2, RequestForms, TablesAssumption DEF Written, Allowed, DraftOps
<1>4. /\ v.disp[d] = y /\ y.state = "UNLOCKED" /\ y.reversed = 0
      /\ \A e \in DispatchesOf(l) : db.disp[e].state = "LOCKED" => v.disp[e].state = "LOCKED"
      /\ \A e \in Dispatch : RowMove(v.disp[e], db.disp[e])
  <2>1. TxOK(t)
    BY Parts
  <2>2. Doing(t, DraftOps, 2) /\ Doing(t, {"lock", "finalize"}, 2)
    BY <1>1, <1>2 DEF Doing, DraftOps
  <2> QED BY <1>2, <1>3, <2>1, <2>2 DEF TxOK, QTx, InOrder, Unreversed
<1>5. /\ y \in DispatchRow /\ x \in DispatchRow
      /\ x.state = "LOCKED" /\ x.qty = y.qty /\ x.reversed = 0
  <2>1. y \in DispatchRow
    BY <1>2, <1>3, PartTypes
  <2> QED BY <1>4, <2>1, RowTypes DEF ConfirmedRow, DispatchRow
<1>6. /\ y.qty \in Nat
      /\ Part(x) = y.qty /\ FirmPart(x) = y.qty /\ BookPart(x) = y.qty
      /\ Part(y) = y.qty /\ FirmPart(y) = 0 /\ BookPart(y) = 0
  <2> HIDE DEF x, y
  <2> QED BY <1>4, <1>5, PartForms
<1>7. /\ db'.disp = [db.disp EXCEPT ![d] = x]
      /\ Ships(db, db', d, y.qty)
  <2>1. /\ LockWrite(r, v, db).disp = [db.disp EXCEPT ![r.d] = ConfirmedRow(@)]
        /\ FinalizeWrite(r, v, db).disp = [db.disp EXCEPT ![r.d] = ConfirmedRow(@)]
    <3>1. v \in Tables /\ db \in Tables /\ r \in DraftRequest
      BY <1>2, <1>3
    <3> HIDE DEF v, r, d, l, y, x
    <3> QED BY <3>1, ConfirmWrites
  <2>2. /\ Ships(db, LockWrite(r, v, db), r.d, v.disp[r.d].qty)
        /\ Ships(db, FinalizeWrite(r, v, db), r.d, v.disp[r.d].qty)
    BY <1>2, <1>3, ConfirmBooks
  <2> QED BY <1>3, <1>4, <2>1, <2>2
<1>8. /\ OneRow(db, db', d) /\ db'.disp[d] = x
      /\ \A e \in Dispatch \ {d} : db'.disp[e] = db.disp[e]
  <2>1. db.disp \in [Dispatch -> DispatchRow]
    BY <1>2 DEF Tables
  <2> HIDE DEF x, d
  <2> QED BY <1>3, <1>7, <2>1 DEF OneRow
<1>9. OperationalNet(db', l) <= Ordered[l]
  <2>1. OperationalNet(db', l) = OperationalNet(db, l) - Part(db.disp[d]) + Part(db'.disp[d])
    <3> HIDE DEF l, d
    <3> QED BY <1>2, <1>3, <1>8, NetRowChange DEF l
  <2>2. OperationalNet(db, l) \in Int /\ OperationalNet(db, l) <= Ordered[l]
    BY <1>2, <1>3, NetForm DEF InOrder, Within
  <2> HIDE DEF l, x
  <2> QED BY <1>6, <1>8, <2>1, <2>2
<1>10. ConfirmedNet(db', l) <= Received(db', l)
  <2>1. \A e \in DispatchesOf(l) : FirmPart(db'.disp[e]) <= Part(v.disp[e])
    <3> SUFFICES ASSUME NEW e \in DispatchesOf(l) PROVE FirmPart(db'.disp[e]) <= Part(v.disp[e])
      OBVIOUS
    <3>1. e \in Dispatch /\ v.disp[e] \in DispatchRow /\ db.disp[e] \in DispatchRow
      BY <1>2, PartTypes DEF DispatchesOf
    <3>2. CASE e = d
      BY <1>4, <1>6, <1>8, <3>2
    <3>3. CASE e # d
      <4>1. db'.disp[e] = db.disp[e]
        BY <1>8, <3>1, <3>3
      <4>2. CASE db.disp[e].state = "LOCKED"
        <5>1. v.disp[e].state = "LOCKED" /\ RowMove(v.disp[e], db.disp[e])
          BY <1>4, <3>1, <4>2
        <5> QED BY <3>1, <4>1, <4>2, <5>1, PartForms DEF RowMove
      <4>3. CASE db.disp[e].state # "LOCKED"
        <5>1. v.disp[e].state # "LOCKED"
          BY <1>4, <3>1, <4>3 DEF RowMove
        <5>2. v.disp[e].reversed = 0
          BY <1>2, <3>1, <5>1 DEF Unreversed
        <5>3. FirmPart(db.disp[e]) = 0
          BY <4>3 DEF FirmPart
        <5>4. Part(v.disp[e]) >= 0
          BY <3>1, <5>1, <5>2, PartForms DEF Part
        <5> QED BY <4>1, <5>3, <5>4
      <4> QED BY <4>2, <4>3
    <3> QED BY <3>2, <3>3
  <2>2. ConfirmedNet(db', l) <= OperationalNet(v, l)
    <3> HIDE DEF l, v
    <3> QED BY <1>2, <1>3, <2>1, NetCompare
  <2>3. OperationalNet(v, l) <= Accepted(v, l)
    <3>1. y.qty <= Accepted(v, l) - (OperationalNet(v, l) - (y.qty - 0))
      BY <1>3, <1>4 DEF ConfirmAllowed, ShipCap, NetOfOthers, Net
    <3>2. OperationalNet(v, l) \in Int /\ Accepted(v, l) \in Int
      BY <1>2, <1>3, NetForm, ReceivedCovers
    <3> HIDE DEF y, l, v
    <3> QED BY <1>6, <3>1, <3>2
  <2>4. Accepted(v, l) <= Received(db, l) /\ Accepted(v, l) \in Int /\ Received(db, l) \in Int
    <3>1. \A q \in QcEntry : v.qc[q] # "absent" => db.qc[q] # "absent"
      BY <1>2 DEF QTx
    <3> QED BY <1>2, <1>3, <3>1, ReceivedCovers
  <2>5. Received(db', l) = Received(db, l)
    BY <1>2, <1>3, <1>7, SameEntries DEF Ships
  <2>6. ConfirmedNet(db', l) \in Int /\ OperationalNet(v, l) \in Int
    BY <1>2, <1>3, NetForm
  <2> HIDE DEF l, v
  <2> QED BY <2>2, <2>3, <2>4, <2>5, <2>6
<1>11. \A i \in Item : db'.fg[i] =
         db.fg[i] - IF ItemOfDispatch(d) = i THEN BookPart(x) - BookPart(db.disp[d]) ELSE 0
  <2>1. BookPart(x) - BookPart(y) = y.qty
    <3> HIDE DEF x, y
    <3> QED BY <1>6
  <2> HIDE DEF x, d
  <2> QED BY <1>7, <2>1 DEF Ships
<1>12. db'.qc = db.qc /\ db'.seen = db.seen
  BY <1>7 DEF Ships
<1> HIDE DEF r, d, l, v, x, y
<1>13. OperationalNet(db', LineOf[d]) <= Ordered[LineOf[d]]
       /\ ConfirmedNet(db', LineOf[d]) <= Received(db', LineOf[d])
  BY <1>9, <1>10 DEF l
<1> QED BY <1>2, <1>3, <1>5, <1>7, <1>11, <1>12, <1>13, RowKeepsOrder

\* Deleting a draft keeps the quantities in order.
LEMMA DeleteQuantities ==
    ASSUME IInv, QInv, NEW t \in Tx, DeleteDispatch(t)
    PROVE  InOrder(db')
<1> DEFINE r == req[t]
           d == r.d
           l == LineOf[d]
           y == db.disp[d]
           x == DeletedRow(y)
<1>1. Writes(t) /\ r.op = "delete"
  BY DEF Writes, DeleteDispatch, Write
<1>2. /\ ~Idle(t) /\ r \in Request /\ db \in Tables /\ db' \in Tables /\ Viewed(t)
      /\ db' = Written(r, snap[t], db) /\ PostedWell(db) /\ PostedWell(db')
      /\ InOrder(db) /\ at[t] \in Nat
  BY <1>1, AtWrite DEF IInv, TypeOK
<1>3. /\ r \in DraftRequest /\ d \in Dispatch /\ l \in Line
      /\ db' = DeleteWrite(r, snap[t], db)
  BY <1>1, <1>2, RequestForms, TablesAssumption DEF Written, DraftOps
<1>4. y.state = "UNLOCKED" /\ y.reversed = 0
  <2>1. TxOK(t)
    BY Parts
  <2>2. Doing(t, DraftOps, 2)
    <3>1. at[t] > 2
      BY <1>1, <1>2 DEF Viewed, ReadAt
    <3> QED BY <1>1, <1>2, <3>1 DEF Doing, DraftOps
  <2> QED BY <1>2, <1>3, <2>1, <2>2 DEF TxOK, InOrder, Unreversed
<1>5. /\ y \in DispatchRow /\ x \in DispatchRow
      /\ x.state = "deleted" /\ x.qty = y.qty /\ x.reversed = 0
  <2>1. y \in DispatchRow
    BY <1>2, <1>3, PartTypes
  <2> QED BY <1>4, <2>1, RowTypes DEF DeletedRow, DispatchRow
<1>6. /\ y.qty \in Nat
      /\ Part(x) = 0 /\ FirmPart(x) = 0 /\ BookPart(x) = 0
      /\ Part(y) = y.qty /\ FirmPart(y) = 0 /\ BookPart(y) = 0
  <2> HIDE DEF x, y
  <2> QED BY <1>4, <1>5, PartForms
<1>7. db'.disp = [db.disp EXCEPT ![d] = x]
  BY <1>2, <1>3, DeleteWrites
<1>8. db'.qc = db.qc /\ db'.seen = db.seen /\ db'.fg = db.fg
  BY <1>2, <1>3, DeleteBooks DEF SameBooks
<1>9. OneRow(db, db', d) /\ db'.disp[d] = x
  <2>1. db.disp \in [Dispatch -> DispatchRow]
    BY <1>2 DEF Tables
  <2> HIDE DEF x, d
  <2> QED BY <1>3, <1>7, <2>1 DEF OneRow
<1>10. /\ OperationalNet(db', l) = OperationalNet(db, l) - Part(db.disp[d]) + Part(db'.disp[d])
       /\ ConfirmedNet(db', l) = ConfirmedNet(db, l) - FirmPart(db.disp[d]) + FirmPart(db'.disp[d])
  <2> HIDE DEF l, d
  <2> QED BY <1>2, <1>3, <1>9, NetRowChange DEF l
<1>11. /\ OperationalNet(db, l) \in Int /\ OperationalNet(db, l) <= Ordered[l]
       /\ ConfirmedNet(db, l) \in Int /\ ConfirmedNet(db, l) <= Received(db, l)
       /\ Received(db', l) = Received(db, l) /\ Ordered[l] \in Int
  BY <1>2, <1>3, <1>8, NetForm, SameEntries, TablesAssumption DEF InOrder, Within, Covered, Positive
<1>12. OperationalNet(db', l) <= Ordered[l] /\ ConfirmedNet(db', l) <= Received(db', l)
  <2> HIDE DEF l, x
  <2> QED BY <1>6, <1>9, <1>10, <1>11
<1>13. \A i \in Item : db'.fg[i] =
         db.fg[i] - IF ItemOfDispatch(d) = i THEN BookPart(x) - BookPart(db.disp[d]) ELSE 0
  <2> HIDE DEF x
  <2> QED BY <1>2, <1>6, <1>8 DEF Tables
<1> HIDE DEF r, d, l, x, y
<1>14. OperationalNet(db', LineOf[d]) <= Ordered[LineOf[d]]
       /\ ConfirmedNet(db', LineOf[d]) <= Received(db', LineOf[d])
  BY <1>12 DEF l
<1> QED BY <1>2, <1>3, <1>5, <1>7, <1>8, <1>13, <1>14, RowKeepsOrder

\* A reversal, also one that validated on an old view, keeps the quantities in order.
LEMMA ReverseQuantities ==
    ASSUME IInv, QInv, NEW t \in Tx, ReverseDispatch(t)
    PROVE  InOrder(db')
<1> DEFINE r == req[t]
           d == r.d
           l == LineOf[d]
           v == snap[t]
           y == db.disp[d]
           b == Covers(r, v)
           x == ReversedRow(y, r.qty, b)
<1>1. Writes(t) /\ r.op = "reverse"
  BY DEF Writes, ReverseDispatch, Write
<1>2. /\ ~Idle(t) /\ r \in Request /\ v \in Tables /\ db \in Tables /\ db' \in Tables /\ Viewed(t)
      /\ db' = Written(r, v, db) /\ Allowed(r, v) /\ PostedWell(db) /\ PostedWell(db')
      /\ InOrder(db)
  BY <1>1, AtWrite
<1>3. /\ r \in ReverseRequest /\ d \in Dispatch /\ l \in Line /\ r.qty \in Nat
      /\ db' = ReverseWrite(r, v, db) /\ v.disp[d].state = "LOCKED"
  BY <1>1, <1>2, RequestForms, TablesAssumption
     DEF Written, Allowed, ReverseAllowed, ReverseRequest, Positive
<1>4. y.state = "LOCKED"
  BY <1>2, <1>3 DEF IInv, ViewOlder, RowMove
<1>5. /\ y \in DispatchRow /\ x \in DispatchRow
      /\ x.state = "LOCKED" /\ x.qty = y.qty /\ x.reversed = y.reversed + r.qty
  <2>1. y \in DispatchRow /\ b \in BOOLEAN
    BY <1>2, <1>3, PartTypes DEF Covers
  <2> HIDE DEF b, y
  <2>2. ReversedRow(y, r.qty, b) \in DispatchRow
    BY <1>3, <1>4, <2>1, RowTypes
  <2>3. ReversedRow(y, r.qty, b) = [y EXCEPT !.reversed = @ + r.qty, !.stamped = @ \/ b]
    BY DEF ReversedRow
  <2> QED BY <1>3, <1>4, <2>1, <2>2, <2>3 DEF DispatchRow
<1>6. /\ Part(y) \in Int /\ FirmPart(y) \in Int /\ BookPart(y) \in Int
      /\ Part(x) = Part(y) - r.qty /\ FirmPart(x) = FirmPart(y) - r.qty
      /\ BookPart(x) = BookPart(y) - r.qty
  <2> HIDE DEF x, y
  <2> QED BY <1>3, <1>4, <1>5, PartForms
<1>7. db'.disp = [db.disp EXCEPT ![d] = x]
  <2>1. v \in Tables /\ db \in Tables /\ r \in ReverseRequest /\ db' = ReverseWrite(r, v, db)
    BY <1>2, <1>3
  <2>2. ReverseWrite(r, v, db).disp = [db.disp EXCEPT ![r.d] = ReversedRow(@, r.qty, Covers(r, v))]
    <3> HIDE DEF r, v, d, l, y, b, x
    <3> QED BY <2>1, ReverseWrites
  <2> QED BY <2>1, <2>2
<1>8. /\ db'.qc = db.qc /\ db'.seen = db.seen
      /\ \A i \in Item : db'.fg[i] = db.fg[i] + IF ItemOfDispatch(d) = i THEN r.qty ELSE 0
  BY <1>2, <1>3, ReverseBooks
<1>9. OneRow(db, db', d) /\ db'.disp[d] = x
  <2>1. db.disp \in [Dispatch -> DispatchRow]
    BY <1>2 DEF Tables
  <2> HIDE DEF x, d
  <2> QED BY <1>3, <1>7, <2>1 DEF OneRow
<1>10. /\ OperationalNet(db', l) = OperationalNet(db, l) - Part(db.disp[d]) + Part(db'.disp[d])
       /\ ConfirmedNet(db', l) = ConfirmedNet(db, l) - FirmPart(db.disp[d]) + FirmPart(db'.disp[d])
  <2> HIDE DEF l, d
  <2> QED BY <1>2, <1>3, <1>9, NetRowChange DEF l
<1>11. /\ OperationalNet(db, l) \in Int /\ OperationalNet(db, l) <= Ordered[l]
       /\ ConfirmedNet(db, l) \in Int /\ ConfirmedNet(db, l) <= Received(db, l)
       /\ Received(db', l) = Received(db, l) /\ Ordered[l] \in Int /\ Received(db, l) \in Int
  <2>1. Received(db, l) \in Int
    BY <1>2, <1>3, ReceivedCovers
  <2> QED BY <1>2, <1>3, <1>8, <2>1, NetForm, SameEntries, TablesAssumption
          DEF InOrder, Within, Covered, Positive
<1>12. OperationalNet(db', l) <= Ordered[l] /\ ConfirmedNet(db', l) <= Received(db', l)
  <2> HIDE DEF l, x
  <2> QED BY <1>3, <1>6, <1>9, <1>10, <1>11
<1>13. \A i \in Item : db'.fg[i] =
         db.fg[i] - IF ItemOfDispatch(d) = i THEN BookPart(x) - BookPart(db.disp[d]) ELSE 0
  <2> SUFFICES ASSUME NEW i \in Item
               PROVE  db'.fg[i] = db.fg[i] - IF ItemOfDispatch(d) = i
                                             THEN BookPart(x) - BookPart(db.disp[d]) ELSE 0
    OBVIOUS
  <2>1. db.fg[i] \in Int
    BY <1>2 DEF Tables
  <2>2. db'.fg[i] = db.fg[i] + IF ItemOfDispatch(d) = i THEN r.qty ELSE 0
    BY <1>8
  <2> HIDE DEF x
  <2> QED BY <1>3, <1>6, <2>1, <2>2
<1> HIDE DEF r, d, l, x, y
<1>14. OperationalNet(db', LineOf[d]) <= Ordered[LineOf[d]]
       /\ ConfirmedNet(db', LineOf[d]) <= Received(db', LineOf[d])
  BY <1>12 DEF l
<1> QED BY <1>2, <1>3, <1>5, <1>7, <1>8, <1>13, <1>14, RowKeepsOrder

\* Status and QC handlers keep the quantities in order.
LEMMA OtherQuantities ==
    ASSUME IInv, QInv, NEW t \in Tx, PutStatus(t) \/ CancelApproval(t) \/ PostQc(t) \/ ReverseQc(t)
    PROVE  InOrder(db')
<1> DEFINE r == req[t]
           v == snap[t]
<1>1. Writes(t) /\ r.op \in {"status", "cancel", "qcPost", "qcReverse"}
  BY DEF Writes, PutStatus, CancelApproval, PostQc, ReverseQc, Write
<1>2. /\ ~Idle(t) /\ r \in Request /\ v \in Tables /\ db \in Tables /\ db' \in Tables /\ Viewed(t)
      /\ db' = Written(r, v, db) /\ Allowed(r, v) /\ Insertable(r, db)
      /\ PostedWell(db) /\ InOrder(db) /\ QTx(t)
      /\ r.op = "qcPost" => at[t] = 5
  BY <1>1, AtWrite
<1>3. CASE r.op \in {"status", "cancel"}
  <2>1. r.so \in SO /\ \E s \in Status : db' = SetStatus(db, r.so, s)
    BY <1>2, <1>3, RequestForms, TablesAssumption
       DEF Written, StatusWrite, CancelWrite, StatusRequest, CancelRequest, Status
  <2>2. db'.disp = db.disp
    BY <1>2, <2>1, StatusChange
  <2>3. SameBooks(db, db')
    BY <1>2, <2>1, StatusBooks
  <2> QED BY <1>2, <2>2, <2>3, StatusKeepsOrder
<1>4. CASE r.op = "qcPost"
  <2>1. r \in QcRequest /\ r.q \in QcEntry /\ db' = QcPostWrite(r, v, db)
    BY <1>2, <1>4, RequestForms DEF Written, QcRequest
  <2>2. db.qc[r.q] = "absent"
    BY <1>2, <1>4 DEF QTx, Doing
  <2>3. db'.disp = db.disp
    <3>1. v \in Tables /\ db \in Tables /\ r \in QcRequest
      BY <1>2, <2>1
    <3>2. QcPostWrite(r, v, db).disp = db.disp
      <4> HIDE DEF r, v
      <4> QED BY <3>1, OtherWrites
    <3> QED BY <2>1, <3>2
  <2>4. /\ \A q \in QcEntry : db'.qc[q] = IF q = r.q THEN "active" ELSE db.qc[q]
        /\ \A i \in Item : db'.fg[i] = db.fg[i] + IF BatchItem(r.q) = i THEN QcQty[r.q] ELSE 0
        /\ db'.seen = db.seen
    BY <1>2, <2>1, QcPostBooks
  <2>5. \A i \in Item : db'.fg[i] + db'.seen[i] =
          db.fg[i] + db.seen[i] + (IF BatchItem(r.q) = i
                                   THEN IF "active" = "active" THEN QcQty[r.q] ELSE 0 - QcQty[r.q]
                                   ELSE 0)
    <3>1. \A i \in Item : db.fg[i] \in Int /\ db.seen[i] \in Int
      BY <1>2 DEF Tables
    <3>2. QcQty[r.q] \in Int
      BY <2>1, TablesAssumption DEF Positive
    <3> HIDE DEF r
    <3> QED BY <2>4, <3>1, <3>2
  <2> HIDE DEF r
  <2>6. \A p \in QcEntry : db'.qc[p] = IF p = r.q THEN "active" ELSE db.qc[p]
    BY <2>4
  <2> QED BY <1>2, <2>1, <2>2, <2>3, <2>5, <2>6, EntryKeepsOrder
<1>5. CASE r.op = "qcReverse"
  <2>1. r \in QcRequest /\ r.q \in QcEntry /\ db' = QcReverseWrite(r, v, db)
    BY <1>2, <1>5, RequestForms DEF Written, QcRequest
  <2>2. db.qc[r.q] = "active"
    <3>1. v.qc[r.q] = "active" /\ db.qc[r.q] # "reversed"
      BY <1>2, <1>5 DEF Allowed, QcReverseAllowed, Insertable, QcReversalInsertable
    <3>2. db.qc[r.q] # "absent"
      BY <1>2, <2>1, <3>1 DEF QTx
    <3>3. db.qc[r.q] \in {"absent", "active", "reversed"}
      BY <1>2, <2>1 DEF Tables
    <3> QED BY <3>1, <3>2, <3>3
  <2>3. db'.disp = db.disp
    <3>1. v \in Tables /\ db \in Tables /\ r \in QcRequest
      BY <1>2, <2>1
    <3>2. QcReverseWrite(r, v, db).disp = db.disp
      <4> HIDE DEF r, v
      <4> QED BY <3>1, OtherWrites
    <3> QED BY <2>1, <3>2
  <2>4. /\ \A q \in QcEntry : db'.qc[q] = IF q = r.q THEN "reversed" ELSE db.qc[q]
        /\ \A j \in Item : db'.fg[j] + db'.seen[j] =
             db.fg[j] + db.seen[j] - IF j = BatchItem(r.q) THEN QcQty[r.q] ELSE 0
    BY <1>2, <2>1, QcReverseBooks
  <2>5. \A i \in Item : db'.fg[i] + db'.seen[i] =
          db.fg[i] + db.seen[i] + (IF BatchItem(r.q) = i
                                   THEN IF "reversed" = "active" THEN QcQty[r.q] ELSE 0 - QcQty[r.q]
                                   ELSE 0)
    <3>1. \A i \in Item : db.fg[i] \in Int /\ db.seen[i] \in Int
      BY <1>2 DEF Tables
    <3>2. QcQty[r.q] \in Int
      BY <2>1, TablesAssumption DEF Positive
    <3> HIDE DEF r
    <3> QED BY <2>4, <3>1, <3>2
  <2> HIDE DEF r
  <2>6. \A p \in QcEntry : db'.qc[p] = IF p = r.q THEN "reversed" ELSE db.qc[p]
    BY <2>4
  <2> QED BY <1>2, <2>1, <2>2, <2>3, <2>5, <2>6, EntryKeepsOrder
<1> QED BY <1>1, <1>3, <1>4, <1>5

\* Every write keeps the quantities in order.
LEMMA QuantityEffect ==
    ASSUME IInv, QInv, NEW t \in Tx, Writes(t)
    PROVE  InOrder(db')
BY PostQuantities, ConfirmQuantities, DeleteQuantities, ReverseQuantities, OtherQuantities DEF Writes

\* A write leaves what other transactions know and hold true.
LEMMA QOthers ==
    ASSUME IInv, QInv, NEW t \in Tx, Writes(t), NEW u \in Tx \ {t}
    PROVE  QTx(u)'
<1>1. /\ UNCHANGED <<held[u], req[u], at[u], snap[u]>> /\ QTx(u) /\ TxOK(u) /\ Finish(t, "done")
      /\ db \in Tables
  BY AtWrite, QParts, Parts DEF Finish, IInv, TypeOK
<1>2. \A ops, n : UNCHANGED <<Idle(u), Viewed(u), Doing(u, ops, n)>>
  BY <1>1 DEF Idle, Viewed, Doing
<1>3. ~Idle(u) => req[u] \in Request
  BY <1>1 DEF TxOK
<1>4. \A r \in Row : held[t][r] = "X" => held[u][r] = "-"
  BY DEF IInv, LocksExclusive
<1>5. Viewed(u) => \A q \in QcEntry : snap[u].qc[q] # "absent" => db'.qc[q] # "absent"
  BY <1>1, EntryEffect DEF QTx
<1>6. Doing(u, {"qcPost"}, 0) => db'.qc[req[u].q] = "absent"
  <2> SUFFICES ASSUME Doing(u, {"qcPost"}, 0) PROVE db'.qc[req[u].q] = "absent"
    OBVIOUS
  <2>1. req[u].q \in QcEntry /\ db.qc[req[u].q] = "absent"
    BY <1>1, <1>3, RequestForms DEF Doing, QTx, QcRequest
  <2>2. Doing(t, {"qcPost"}, 0) => req[t].q # req[u].q
    BY QParts DEF DistinctEntries
  <2> QED BY <2>1, <2>2, EntryEffect
<1>7. Doing(u, {"lock", "finalize"}, 2) =>
        \A e \in DispatchesOf(LineOf[req[u].d]) :
          db'.disp[e].state = "LOCKED" => snap[u].disp[e].state = "LOCKED"
  <2> SUFFICES ASSUME Doing(u, {"lock", "finalize"}, 2), NEW e \in DispatchesOf(LineOf[req[u].d]),
                      db'.disp[e].state = "LOCKED", db.disp[e].state # "LOCKED"
               PROVE  FALSE
    BY <1>1 DEF QTx
  <2>1. e \in Dispatch /\ db.disp \in [Dispatch -> DispatchRow]
    BY <1>1 DEF DispatchesOf, Tables
  <2>2. PICK f \in Dispatch, x \in DispatchRow :
          db'.disp = [db.disp EXCEPT ![f] = x] /\ RowEffect(t, f, x)
    BY WriteEffect
  <2>3. f = e /\ x.state = "LOCKED"
    BY <2>1, <2>2
  <2>4. db.disp[e].state = "UNLOCKED" /\ held[t][e] = "X"
    BY <2>2, <2>3 DEF RowEffect
  <2>5. /\ req[u].d \in Dispatch /\ LineOf[req[u].d] = LineOf[e]
        /\ db.disp[req[u].d].state = "UNLOCKED" /\ held[u][req[u].d] = "X"
    <3>1. Doing(u, DraftOps, 2)
      BY DEF Doing, DraftOps
    <3>2. Doing(u, DraftOps, 1)
      <4>1. at[u] \in 0 .. 5
        BY DEF IInv, TypeOK
      <4> QED BY <3>1, <4>1 DEF Doing
    <3>3. req[u].d \in Dispatch
      BY <1>3, <3>1, RequestForms DEF Doing
    <3> QED BY <1>1, <3>1, <3>2, <3>3 DEF TxOK, DispatchesOf
  <2>6. req[u].d = e
    BY <2>1, <2>4, <2>5, TablesAssumption DEF IInv, OneDraftPerLine, Drafts, DispatchesOf
  <2> QED BY <1>4, <2>1, <2>4, <2>5, <2>6, RowAssumption
<1>8. Doing(u, {"post"}, 3) =>
        snap[u].status[SoOfDispatch(req[u].d)] = db'.status[SoOfDispatch(req[u].d)]
  <2> SUFFICES ASSUME Doing(u, {"post"}, 3)
               PROVE  db'.status[SoOfDispatch(req[u].d)] = db.status[SoOfDispatch(req[u].d)]
    BY <1>1 DEF QTx
  <2>1. SoOfDispatch(req[u].d) \in SO
    BY <1>3, RequestForms, TablesAssumption DEF Doing, SoOfDispatch
  <2>2. held[u][SoOfDispatch(req[u].d)] = "X"
    <3>1. at[u] \in 0 .. 5
      BY DEF IInv, TypeOK
    <3>2. Doing(u, {"post"}, 1)
      BY <3>1 DEF Doing
    <3> QED BY <1>1, <3>2 DEF TxOK
  <2> QED BY <1>4, <2>1, <2>2, StatusEffect, RowAssumption
<1> QED BY <1>1, <1>2, <1>5, <1>6, <1>7, <1>8 DEF QTx

\* The validation, writes and COMMIT of any handler.
LEMMA QWrite ==
    ASSUME IInv, QInv, NEW t \in Tx, Writes(t)
    PROVE  QInv'
<1>1. InOrder(db')
  BY QuantityEffect
<1>2. DistinctEntries' /\ QTx(t)'
  BY AtWrite, QFinish DEF Answer
<1>3. \A u \in Tx : QTx(u)'
  BY <1>2, QOthers
<1> QED BY <1>1, <1>2, <1>3, QParts

(***************************************************************************)
(* The invariant and what it says of the quantities.                       *)
(***************************************************************************)

\* Nothing is dispatched at first, and the legacy stock is what its entries brought in.
LEMMA QInit == Init => QInv
<1> SUFFICES ASSUME Init PROVE QInv
  OBVIOUS
<1>1. PICK first \in FirstStatus : db = TablesInit(first)
  BY DEF Init
<1>2. db \in Tables
  BY InitHolds DEF IInv, TypeOK
<1>3. /\ \A d \in Dispatch : db.disp[d] = NoDispatch
      /\ \A q \in QcEntry : db.qc[q] = IF q \in Legacy THEN "active" ELSE "absent"
      /\ \A i \in Item : db.fg[i] = 0 /\ db.seen[i] = LegacyStock[i]
  BY <1>1 DEF TablesInit
<1>4. \A l \in Line : OperationalNet(db, l) = 0 /\ ConfirmedNet(db, l) = 0
  <2> TAKE l \in Line
  <2>1. Rows(db, l) = {} /\ Confirmations(db, l) = {}
    BY <1>3 DEF Rows, Drafts, Confirmations, DispatchesOf, NoDispatch
  <2>2. SumFunctionOnSet(Nets(db), {}) = 0
    BY FS_EmptySet, SumUnfold
  <2> QED BY <2>1, <2>2 DEF OperationalNet, ConfirmedNet
<1>5. \A l \in Line : Ordered[l] \in Nat /\ Received(db, l) \in Int /\ 0 <= Received(db, l)
  <2> TAKE l \in Line
  <2> DEFINE Q == {q \in QcEntry : BatchOf[q] = l /\ db.qc[q] # "absent"}
  <2>1. IsFiniteSet(Q) /\ \A q \in Q : QcQty[q] \in Nat
    BY TablesAssumption, FS_Subset DEF Positive
  <2>2. SumFunctionOnSet(QcQty, Q) \in Nat
    <3> HIDE DEF Q
    <3> QED BY <2>1, SumType
  <2> QED BY <2>2, TablesAssumption DEF Received, Positive
<1>6. \A i \in Item : db.fg[i] + db.seen[i] = BroughtIn(db, i) - TakenOut(db, i)
  <2> TAKE i \in Item
  <2>1. {q \in QcEntry : BatchItem(q) = i /\ db.qc[q] = "active"}
          = {q \in Legacy : ItemOf[BatchOf[q]] = i}
    BY <1>3, TablesAssumption DEF BatchItem
  <2>2. BroughtIn(db, i) = LegacyStock[i] /\ LegacyStock[i] \in Int
    BY <2>1, LegacyAssumption DEF BroughtIn
  <2>3. TakenOut(db, i) = 0
    <3> DEFINE f == [d \in Dispatch |-> Posting(db, d)]
               D == {d \in Dispatch : ItemOfDispatch(d) = i}
               none == [d \in Dispatch |-> 0]
    <3>1. IsFiniteSet(D) /\ \A d \in D : f[d] = 0 /\ f[d] \in Int
      BY <1>3, TablesAssumption, FS_Subset DEF Posting, NoDispatch
    <3>2. SumFunctionOnSet(f, D) = SumFunctionOnSet([d \in D |-> 0], D)
      <4> HIDE DEF f, D
      <4> QED BY <3>1, SumSame
    <3>3. SumFunctionOnSet([d \in D |-> 0], D) = 0
      <4> HIDE DEF f, D
      <4> QED BY <3>1, SumZero
    <3> QED BY <3>2, <3>3 DEF TakenOut
  <2> QED BY <1>3, <2>2, <2>3
<1>7. InOrder(db)
  <2>1. Unreversed(db)
    BY <1>3 DEF Unreversed, NoDispatch
  <2>2. Within(db) /\ Balanced(db) /\ Covered(db)
    BY <1>4, <1>5, <1>6 DEF Within, Balanced, Covered
  <2> QED BY <2>1, <2>2 DEF InOrder
<1>8. \A t \in Tx : Idle(t)
  <2>1. EngineInit
    BY DEF Init
  <2> QED BY <2>1 DEF EngineInit, Idle
<1>9. DistinctEntries /\ \A t \in Tx : QTx(t)
  BY <1>8 DEF DistinctEntries, QTx, Viewed, Doing
<1> QED BY <1>7, <1>9, QParts

\* Every step keeps the invariant.
LEMMA QStep ==
    ASSUME IInv, QInv, [Next]_vars
    PROVE  QInv'
<1>1. CASE UNCHANGED vars
  <2>1. \A t \in Tx : QTx(t)'
    BY <1>1, QParts, QBystander DEF vars
  <2>2. InOrder(db') /\ DistinctEntries'
    BY <1>1, QParts DEF vars, DistinctEntries, Doing, Idle
  <2> QED BY <2>1, <2>2, QParts
<1>2. ASSUME NEW t \in Tx, Run(t) PROVE QInv'
  <2>1. CASE NotFound(t) \/ RefuseAtRead(t) \/ RefuseAtWrite(t) \/ KeepStatus(t)
    <3>1. db' = db /\ (Finish(t, "refused") \/ Finish(t, "done"))
      BY <2>1 DEF NotFound, RefuseAtRead, RefuseAtWrite, KeepStatus, Refuse, Commit
    <3> QED BY <3>1, QEnd DEF Answer
  <2> QED BY <1>2, <2>1, QPass, QRead, QWrite DEF Run
<1>3. ASSUME NEW t \in Tx, DeadlockVictim(t) \/ Expire(t) PROVE QInv'
  <2>1. db' = db /\ (Finish(t, "done") \/ Finish(t, "failed"))
    BY <1>3 DEF DeadlockVictim, Expire, Rollback
  <2> QED BY <2>1, QEnd DEF Answer
<1> QED BY <1>1, <1>2, <1>3, QArrive, QLock DEF Next

(***************************************************************************)
(* What a transaction has read and holds bounds what it may ship, take     *)
(* back or bring in (QInv), for any number of orders and connections.      *)
(***************************************************************************)
THEOREM QuantityInvariance == Spec => []QInv
<1>1. Init => IInv /\ QInv
  BY InitHolds, QInit
<1>2. IInv /\ QInv /\ [Next]_vars => IInv' /\ QInv'
  BY StepHolds, QStep
<1> QED BY <1>1, <1>2, PTL DEF Spec

(***************************************************************************)
(* Drafts and confirmed dispatches of a line never exceed what it ordered, *)
(* although confirming validates before it holds the order (dispatch.js    *)
(* 2925-2960, 3045).                                                       *)
(***************************************************************************)
THEOREM LineWithinOrdered == Spec => []NetWithinOrdered
<1>1. QInv => NetWithinOrdered
  BY DEF QInv
<1> QED BY <1>1, QuantityInvariance, PTL

(***************************************************************************)
(* The two ledger scopes of an item are what QC brought in less what was   *)
(* dispatched, plus reversals: stale views lose and repeat no posting.     *)
(***************************************************************************)
THEOREM LedgerBalanced == Spec => []BooksBalance
<1>1. QInv => BooksBalance
  BY DEF QInv
<1> QED BY <1>1, QuantityInvariance, PTL

(***************************************************************************)
(* A line none of whose QC entries is reversed never ships more than QC    *)
(* accepted for it (dispatchQcCap.js 175).                                 *)
(***************************************************************************)
THEOREM ShippedWithinAccepted == Spec => []ConfirmedWithinAccepted
<1>1. IInv /\ QInv => ConfirmedWithinAccepted
  <2> SUFFICES ASSUME IInv, QInv, NEW l \in Line,
                      \A q \in QcEntry : BatchOf[q] = l => db.qc[q] # "reversed"
               PROVE  ConfirmedNet(db, l) <= Accepted(db, l)
    BY DEF ConfirmedWithinAccepted
  <2>1. \A q \in QcEntry : db.qc[q] \in {"absent", "active", "reversed"}
    BY DEF IInv, TypeOK, Tables
  <2>2. ActiveEntries(db, l) = {q \in QcEntry : BatchOf[q] = l /\ db.qc[q] # "absent"}
    BY <2>1 DEF ActiveEntries
  <2> QED BY <2>2 DEF QInv, ConfirmedWithinReceived, Received, Accepted
<1> QED BY <1>1, Invariance, QuantityInvariance, PTL

(***************************************************************************)
(* Completed orders.  Whoever completes an order has seen confirmed        *)
(* dispatches fill its lines.  The view may be old, but unless one of them *)
(* was reversed they still do, and then a draft would exceed what was      *)
(* ordered, which QInv excludes.                                           *)
(***************************************************************************)

\* The rows of w are those of an older v, as far as handlers may have moved them.
Moved(v, w) == \A d \in Dispatch : RowMove(v.disp[d], w.disp[d])

\* Confirmed quantity stays on the line, and a draft adds to it (getSoItemDispatchNet).
LEMMA DraftAdds ==
    ASSUME NEW v \in Tables, NEW w \in Tables, NEW l \in Line, NEW e \in DispatchesOf(l),
           Moved(v, w), w.disp[e].state = "UNLOCKED", w.disp[e].qty > 0,
           \A d \in DispatchesOf(l) : w.disp[d].reversed = 0
    PROVE  ConfirmedNet(v, l) < OperationalNet(w, l)
<1> DEFINE z == PutRow(w, e, NoDispatch)
<1>0. e \in Dispatch /\ LineOf[e] = l /\ NoDispatch \in DispatchRow
  BY DEF DispatchesOf, NoDispatch, DispatchRow, DispatchState
<1>1. z \in Tables /\ z.disp = [w.disp EXCEPT ![e] = NoDispatch]
  BY <1>0, RowChange
<1>2. OneRow(w, z, e) /\ z.disp[e] = NoDispatch
      /\ \A d \in Dispatch \ {e} : z.disp[d] = w.disp[d]
  <2> HIDE DEF z
  <2> QED BY <1>0, <1>1 DEF OneRow, Tables
<1>3. OperationalNet(z, l) = OperationalNet(w, l) - Part(w.disp[e]) + Part(z.disp[e])
  <2> HIDE DEF z
  <2>1. e \in Dispatch /\ z \in Tables /\ OneRow(w, z, e)
    BY <1>0, <1>1, <1>2
  <2>2. /\ LineOf[e] # l => /\ OperationalNet(z, l) = OperationalNet(w, l)
                            /\ ConfirmedNet(z, l) = ConfirmedNet(w, l)
        /\ LineOf[e] = l =>
             /\ OperationalNet(z, l) = OperationalNet(w, l) - Part(w.disp[e]) + Part(z.disp[e])
             /\ ConfirmedNet(z, l) = ConfirmedNet(w, l) - FirmPart(w.disp[e]) + FirmPart(z.disp[e])
    BY <2>1, NetRowChange
  <2> QED BY <1>0, <2>2
<1>4. Part(z.disp[e]) = 0 /\ Part(w.disp[e]) \in Int /\ Part(w.disp[e]) > 0
  <2>1. w.disp[e] \in DispatchRow /\ w.disp[e].reversed = 0
    BY <1>0, PartTypes
  <2>2. Part(w.disp[e]) = w.disp[e].qty - 0 /\ w.disp[e].qty \in Nat
    BY <2>1, PartForms
  <2> HIDE DEF z
  <2> QED BY <1>2, <2>2 DEF Part, NoDispatch
<1>5. \A d \in DispatchesOf(l) : FirmPart(v.disp[d]) <= Part(z.disp[d])
  <2> SUFFICES ASSUME NEW d \in DispatchesOf(l) PROVE FirmPart(v.disp[d]) <= Part(z.disp[d])
    OBVIOUS
  <2>1. /\ d \in Dispatch /\ v.disp[d] \in DispatchRow /\ w.disp[d] \in DispatchRow
        /\ RowMove(v.disp[d], w.disp[d]) /\ w.disp[d].reversed = 0
    BY PartTypes DEF DispatchesOf, Moved
  <2> HIDE DEF z
  <2>2. CASE v.disp[d].state = "LOCKED"
    <3>1. /\ w.disp[d].state = "LOCKED" /\ w.disp[d].qty = v.disp[d].qty
          /\ v.disp[d].reversed \in Nat /\ v.disp[d].reversed <= 0 /\ v.disp[d].qty \in Nat
      BY <2>1, <2>2 DEF RowMove, DispatchRow
    <3>2. d # e /\ z.disp[d] = w.disp[d]
      BY <1>2, <2>1, <3>1
    <3> QED BY <2>1, <2>2, <3>1, <3>2 DEF Part, FirmPart
  <2>3. CASE v.disp[d].state # "LOCKED"
    <3>1. FirmPart(v.disp[d]) = 0
      BY <2>3 DEF FirmPart
    <3>2. CASE d = e
      BY <1>4, <3>1, <3>2
    <3>3. CASE d # e
      <4>1. z.disp[d] = w.disp[d] /\ w.disp[d].qty \in Nat
        BY <1>2, <2>1, <3>3 DEF DispatchRow
      <4>2. Part(w.disp[d]) >= 0
        BY <2>1, <4>1 DEF Part
      <4> QED BY <3>1, <4>1, <4>2
    <3> QED BY <3>2, <3>3
  <2> QED BY <2>2, <2>3
<1>6. ConfirmedNet(v, l) <= OperationalNet(z, l)
  <2> HIDE DEF z
  <2> QED BY <1>1, <1>5, NetCompare
<1>7. /\ ConfirmedNet(v, l) \in Int /\ OperationalNet(z, l) \in Int /\ OperationalNet(w, l) \in Int
  <2> HIDE DEF z
  <2> QED BY <1>1, NetForm
<1> HIDE DEF z
<1> QED BY <1>3, <1>4, <1>6, <1>7

\* An order that was seen filled has no draft, unless it was reversed meanwhile
\* (computeSoDispatchClosureMetrics).
LEMMA FilledHasNoDraft ==
    ASSUME NEW v \in Tables, NEW w \in Tables, NEW d \in Dispatch,
           ConfirmedDispatchComplete(v, SoOfDispatch(d)), Moved(v, w), Within(w),
           NeverReversed(w, SoOfDispatch(d)),
           w.disp[d].state = "UNLOCKED" => w.disp[d].qty > 0
    PROVE  w.disp[d].state # "UNLOCKED"
<1> DEFINE l == LineOf[d]
<1> SUFFICES ASSUME w.disp[d].state = "UNLOCKED" PROVE FALSE
  OBVIOUS
<1>1. l \in Line /\ l \in LinesOf(SoOfDispatch(d)) /\ d \in DispatchesOf(l)
  BY TablesAssumption DEF LinesOf, SoOfDispatch, DispatchesOf
<1>2. \A e \in DispatchesOf(l) : w.disp[e].reversed = 0
  BY DEF DispatchesOf, NeverReversed, SoOfDispatch
<1>3. ConfirmedNet(v, l) >= Ordered[l] /\ OperationalNet(w, l) <= Ordered[l]
  BY <1>1 DEF ConfirmedDispatchComplete, Within
<1>4. ConfirmedNet(v, l) < OperationalNet(w, l)
  <2> HIDE DEF l
  <2> QED BY <1>1, <1>2, DraftAdds
<1>5. ConfirmedNet(v, l) \in Int /\ OperationalNet(w, l) \in Int /\ Ordered[l] \in Int
  BY <1>1, NetForm, TablesAssumption DEF Positive
<1> HIDE DEF l
<1> QED BY <1>3, <1>4, <1>5

(***************************************************************************)
(* Who sets COMPLETED, and what it has seen.                               *)
(***************************************************************************)

\* w is what t writes and o an order that it completes: on the tables v that it
\* validated on, its own writes in them, confirmed dispatches fill o.
SeenFilled(o, w) ==
    \E v \in Tables : ConfirmedDispatchComplete(v, o) /\ Moved(v, w)

\* What an automatic close has looked at (autoCloseSalesOrder...).
LEMMA CloseSeen ==
    ASSUME NEW v, NEW w \in Tables, NEW o \in SO, NEW p \in SO,
           AutoClose(v, w, o).status[p] = "COMPLETED", w.status[p] # "COMPLETED"
    PROVE  p = o /\ CloseDue(v, o) /\ ConfirmedDispatchComplete(v, o)
<1>1. CloseDue(v, o)
  BY DEF AutoClose
<1>2. p = o
  BY <1>1 DEF AutoClose, SetStatus, Tables
<1> QED BY <1>1, <1>2 DEF CloseDue, ConfirmedDispatchComplete

\* POST /dispatches, with the draft it has just written, completes nothing.
LEMMA PostCompletesNothing ==
    ASSUME NEW v \in Tables, NEW w \in Tables, NEW r \in PostRequest
    PROVE  PostWrite(r, v, w).status = w.status
<1> DEFINE l == LineOf[r.d]
           z == PrepareDraft(r, v, v)
<1>1. r.d \in Dispatch /\ l \in LinesOf(SoOfDispatch(r.d)) /\ l \in Line
  BY TablesAssumption DEF PostRequest, LinesOf, SoOfDispatch
<1>2. Drafts(z, l) # {}
  <2>1. CASE Drafts(v, l) = {}
    <3>1. z.disp[r.d].state = "UNLOCKED"
      BY <1>1, <2>1 DEF PrepareDraft, NewDraft, NoDispatch, Tables
    <3> HIDE DEF z
    <3> QED BY <1>1, <3>1 DEF Drafts, DispatchesOf
  <2>2. CASE Drafts(v, l) # {}
    <3> DEFINE e == DraftOf(v, l)
    <3>1. e \in Dispatch /\ LineOf[e] = l /\ v.disp[e].state = "UNLOCKED" /\ v.disp[e] \in DispatchRow
      BY <1>1, <2>2, DraftChosen, PartTypes
    <3>2. z.disp[e] = RequantifiedRow(v.disp[e], r.qty)
      BY <2>2, <3>1 DEF PrepareDraft, Tables
    <3>3. RequantifiedRow(v.disp[e], r.qty).state = "UNLOCKED"
      BY <3>1 DEF RequantifiedRow, DispatchRow
    <3> HIDE DEF z, e, l
    <3> QED BY <3>1, <3>2, <3>3 DEF Drafts, DispatchesOf
  <2> QED BY <2>1, <2>2
<1>3. ~CloseDue(z, SoOfDispatch(r.d))
  <2> HIDE DEF z, l
  <2> QED BY <1>1, <1>2 DEF CloseDue
<1>4. PrepareDraft(r, v, w).status = w.status
  BY DEF PrepareDraft, Tables
<1> QED BY <1>3, <1>4 DEF PostWrite, AutoClose

\* What /:id/finalize-draft sees filled has its own confirmation in it.
LEMMA FinalizeSeen ==
    ASSUME IInv, QInv, NEW t \in Tx, FinalizeDraft(t), NEW o \in SO,
           db'.status[o] = "COMPLETED", db.status[o] # "COMPLETED"
    PROVE  SeenFilled(o, db')
<1> DEFINE r == req[t]
           d == r.d
           v == snap[t]
           x == ConfirmedRow(v.disp[d])
           n == v.fg[ItemOfDispatch(d)] - v.disp[d].qty
           z == Confirm(r, v, v)
<1>1. Writes(t) /\ r.op = "finalize"
  BY DEF Writes, FinalizeDraft, Write
<1>2. /\ ~Idle(t) /\ r \in Request /\ v \in Tables /\ db \in Tables /\ db' \in Tables /\ Viewed(t)
      /\ db' = Written(r, v, db) /\ at[t] = 5
  BY <1>1, AtWrite
<1>3. /\ r \in DraftRequest /\ d \in Dispatch /\ ItemOfDispatch(d) \in Item /\ SoOfDispatch(d) \in SO
      /\ db' = FinalizeWrite(r, v, db)
  BY <1>1, <1>2, RequestForms, TablesAssumption DEF Written, DraftOps, ItemOfDispatch, SoOfDispatch
<1>4. v.disp[d] = db.disp[d] /\ \A e \in Dispatch : RowMove(v.disp[e], db.disp[e])
  <2>1. TxOK(t)
    BY Parts
  <2>2. Doing(t, DraftOps, 2)
    BY <1>1, <1>2 DEF Doing, DraftOps
  <2> QED BY <1>2, <2>1, <2>2 DEF TxOK
<1>5. x \in DispatchRow /\ n \in Int
  <2>1. v.disp[d] \in DispatchRow /\ v.disp[d].qty \in Int /\ v.fg[ItemOfDispatch(d)] \in Int
    BY <1>2, <1>3 DEF Tables, DispatchRow
  <2>2. n \in Int
    BY <2>1
  <2>3. ConfirmedRow(v.disp[d]) \in DispatchRow
    <3> HIDE DEF v, d
    <3> QED BY <2>1, RowTypes
  <2> QED BY <2>2, <2>3
<1>6. z \in Tables /\ z.disp = [v.disp EXCEPT ![d] = x]
  <2>1. z = PutRowAndStock(v, d, x, ItemOfDispatch(d), n)
    BY <1>2, <1>3 DEF Confirm, PutRowAndStock, Tables
  <2> HIDE DEF z, x, n, v, d
  <2> QED BY <1>2, <1>3, <1>5, <2>1, RowAndStockChange
<1>7. ConfirmedDispatchComplete(z, o)
  <2> DEFINE y == Confirm(r, v, db)
             m == db.fg[ItemOfDispatch(d)] - v.disp[d].qty
  <2>1. y = PutRowAndStock(db, d, x, ItemOfDispatch(d), m)
    BY <1>2, <1>3, <1>4 DEF Confirm, PutRowAndStock, Tables
  <2>2. m \in Int
    BY <1>2, <1>3 DEF Tables, DispatchRow
  <2>3. y \in Tables /\ y.status = db.status
    <3> DEFINE i == ItemOfDispatch(d)
    <3>1. db \in Tables /\ d \in Dispatch /\ x \in DispatchRow /\ i \in Item /\ m \in Int
          /\ y = PutRowAndStock(db, d, x, i, m)
      BY <1>2, <1>3, <1>5, <2>1, <2>2
    <3> HIDE DEF y, x, m, v, d, i, n, z, r
    <3>2. PutRowAndStock(db, d, x, i, m) \in Tables
      BY <3>1, RowAndStockChange
    <3>3. PutRowAndStock(db, d, x, i, m).status = db.status
      BY <3>1 DEF PutRowAndStock, Tables
    <3> QED BY <3>1, <3>2, <3>3
  <2>4. db' = AutoClose(z, y, SoOfDispatch(d))
    BY <1>3 DEF FinalizeWrite
  <2> HIDE DEF y, z, v, d
  <2> QED BY <1>3, <2>3, <2>4, CloseSeen
<1>8. Moved(z, db')
  <2> SUFFICES ASSUME NEW e \in Dispatch PROVE RowMove(z.disp[e], db'.disp[e])
    BY DEF Moved
  <2>1. z.disp[e] = IF e = d THEN x ELSE v.disp[e]
    <3> HIDE DEF z, x, v, d
    <3> QED BY <1>2, <1>3, <1>6 DEF Tables
  <2>2. db'.disp[e] = IF e = d THEN x ELSE db.disp[e]
    <3>1. FinalizeWrite(r, v, db).disp = [db.disp EXCEPT ![r.d] = ConfirmedRow(@)]
      <4>1. v \in Tables /\ db \in Tables /\ r \in DraftRequest
        BY <1>2, <1>3
      <4> HIDE DEF v, r, d, x, z, n
      <4> QED BY <4>1, ConfirmWrites
    <3>2. db.disp \in [Dispatch -> DispatchRow]
      BY <1>2 DEF Tables
    <3> QED BY <1>3, <1>4, <3>1, <3>2
  <2>3. RowMove(v.disp[e], db.disp[e])
    BY <1>4
  <2>4. RowMove(x, x)
    <3> HIDE DEF x
    <3> QED BY <1>5 DEF RowMove, DispatchRow
  <2> HIDE DEF z, x, v, d
  <2> QED BY <2>1, <2>2, <2>3, <2>4
<1> HIDE DEF z
<1> QED BY <1>6, <1>7, <1>8 DEF SeenFilled

\* Whoever completes an order has seen confirmed dispatches fill it.
LEMMA CompletedSeen ==
    ASSUME IInv, QInv, NEW t \in Tx, Writes(t), NEW o \in SO,
           db'.status[o] = "COMPLETED", db.status[o] # "COMPLETED"
    PROVE  SeenFilled(o, db')
<1> DEFINE r == req[t]
           v == snap[t]
<1>1. /\ ~Idle(t) /\ r \in Request /\ r.op \in Operation /\ v \in Tables /\ db \in Tables
      /\ db' = Written(r, v, db) /\ Allowed(r, v) /\ Viewed(t)
  BY AtWrite
<1>2. Moved(v, db)
  BY <1>1, Parts DEF TxOK, Moved
<1>3. CASE r.op = "post"
  <2>1. db' = PostWrite(r, v, db) /\ r \in PostRequest
    BY <1>1, <1>3, RequestForms DEF Written
  <2>2. PostWrite(r, v, db).status = db.status
    <3>1. v \in Tables /\ db \in Tables /\ r \in PostRequest
      BY <1>1, <2>1
    <3> HIDE DEF v, r
    <3> QED BY <3>1, PostCompletesNothing
  <2> QED BY <2>1, <2>2
<1>4. CASE r.op = "lock"
  <2>1. r \in DraftRequest /\ db' = Confirm(r, v, db)
    BY <1>1, <1>4, RequestForms DEF Written, LockWrite, DraftOps
  <2>2. db'.status = db.status
    BY <1>1, <2>1 DEF Confirm, Tables
  <2> QED BY <2>2
<1>5. CASE r.op = "finalize"
  <2>1. FinalizeDraft(t)
    BY <1>5 DEF Writes, FinalizeDraft, PostDispatch, LockDispatch, DeleteDispatch, ReverseDispatch,
                PutStatus, CancelApproval, PostQc, ReverseQc, Write
  <2> QED BY <2>1, FinalizeSeen
<1>6. CASE r.op \in {"delete", "qcReverse"}
  <2>1. /\ r.op = "delete" => r \in DraftRequest /\ db' = DeleteWrite(r, v, db)
        /\ r.op = "qcReverse" => r \in QcRequest /\ db' = QcReverseWrite(r, v, db)
    BY <1>1, <1>6, RequestForms DEF Written, DraftOps
  <2>2. db'.status = db.status
    BY <1>1, <1>6, <2>1, DeleteBooks, QcReverseBooks
  <2> QED BY <2>2
<1>7. CASE r.op = "reverse"
  <2> DEFINE y == PostReversal(r, v, db)
  <2>1. r \in ReverseRequest /\ SoOfDispatch(r.d) \in SO
    BY <1>1, <1>7, RequestForms, TablesAssumption DEF SoOfDispatch
  <2>2. db' = Reopen(PostReversal(r, v, v), y, SoOfDispatch(r.d))
    BY <1>1, <1>7 DEF Written, ReverseWrite
  <2>3. y.status = db.status
    BY <1>1 DEF PostReversal, Tables
  <2>4. db.status \in [SO -> Status]
    BY <1>1 DEF Tables
  <2>5. db' = y \/ db' = [y EXCEPT !.status[SoOfDispatch(r.d)] = "IN_PROCESS"]
    BY <2>2 DEF Reopen, SetStatus
  <2>6. db'.status = db.status \/ db'.status = [db.status EXCEPT ![SoOfDispatch(r.d)] = "IN_PROCESS"]
    <3>1. y.status = db.status /\ y \in [DOMAIN y -> {y[f] : f \in DOMAIN y}] /\ "status" \in DOMAIN y
      BY <1>1 DEF PostReversal, Tables
    <3> HIDE DEF y
    <3> QED BY <2>5, <3>1
  <2> QED BY <2>1, <2>4, <2>6
<1>8. CASE r.op = "status"
  <2>1. r \in StatusRequest /\ r.so \in SO /\ db' = SetStatus(db, r.so, r.to)
    BY <1>1, <1>8, RequestForms DEF Written, StatusWrite, StatusRequest
  <2>2. o = r.so /\ r.to = "COMPLETED"
    BY <1>1, <2>1 DEF SetStatus, Tables
  <2>3. ConfirmedDispatchComplete(v, o)
    BY <1>1, <1>8, <2>2 DEF Allowed, StatusAllowed
  <2>4. db'.disp = db.disp
    BY <1>1, <2>1 DEF SetStatus, Tables
  <2>5. Moved(v, db')
    BY <1>2, <2>4 DEF Moved
  <2> QED BY <1>1, <2>3, <2>5 DEF SeenFilled
<1>9. CASE r.op = "cancel"
  <2>1. r \in CancelRequest /\ r.so \in SO /\ db' = SetStatus(db, r.so, "DRAFT")
    BY <1>1, <1>9, RequestForms DEF Written, CancelWrite, CancelRequest
  <2>2. db'.status[o] \in {"DRAFT", db.status[o]}
    BY <1>1, <2>1 DEF SetStatus, Tables
  <2> QED BY <2>2
<1>10. CASE r.op = "qcPost"
  <2> DEFINE y == AcceptBatch(r, db)
             z == AcceptBatch(r, v)
  <2>1. r \in QcRequest /\ r.q \in QcEntry /\ BatchSo(r.q) \in SO
    BY <1>1, <1>10, RequestForms, TablesAssumption DEF QcRequest, BatchSo
  <2>2. db' = AutoClose(z, y, BatchSo(r.q))
    BY <1>1, <1>10 DEF Written, QcPostWrite
  <2>3. y \in Tables /\ y.status = db.status /\ y.disp = db.disp
        /\ z \in Tables /\ z.disp = v.disp
    <3>1. ASSUME NEW w \in Tables
          PROVE  /\ AcceptBatch(r, w) \in Tables
                 /\ AcceptBatch(r, w).status = w.status /\ AcceptBatch(r, w).disp = w.disp
      <4> DEFINE Q == [w.qc EXCEPT ![r.q] = "active"]
                 F == [w.fg EXCEPT ![BatchItem(r.q)] = @ + QcQty[r.q]]
      <4>1. AcceptBatch(r, w) = [w EXCEPT !.qc = Q, !.fg = F]
        BY <2>1 DEF AcceptBatch, Tables
      <4>2. Q \in [QcEntry -> {"absent", "active", "reversed"}] /\ F \in [Item -> Int]
        BY <2>1, TablesAssumption DEF Tables, BatchItem, Positive
      <4> HIDE DEF Q, F
      <4> QED BY <4>1, <4>2 DEF Tables
    <3> QED BY <1>1, <3>1
  <2>4. ConfirmedDispatchComplete(z, o)
    <3> HIDE DEF y, z
    <3> QED BY <2>1, <2>2, <2>3, CloseSeen
  <2>5. db'.disp = db.disp
    <3> HIDE DEF y, z
    <3> QED BY <2>1, <2>2, <2>3, CloseChange
  <2>6. Moved(z, db')
    <3> HIDE DEF y, z
    <3> QED BY <1>2, <2>3, <2>5 DEF Moved
  <2> HIDE DEF z
  <2> QED BY <2>3, <2>4, <2>6 DEF SeenFilled
<1> QED BY <1>1, <1>3, <1>4, <1>5, <1>6, <1>7, <1>8, <1>9, <1>10 DEF Operation

(***************************************************************************)
(* The invariant.                                                          *)
(***************************************************************************)

\* A reversal is never undone, so what is not reversed has not been.
LEMMA NeverReversedBefore ==
    ASSUME IInv, QInv, NEW t \in Tx, Writes(t), NEW o \in SO, NeverReversed(db', o)
    PROVE  NeverReversed(db, o)
<1> SUFFICES ASSUME NEW d \in Dispatch, SoOfDispatch(d) = o PROVE db.disp[d].reversed = 0
  BY DEF NeverReversed
<1>1. db \in Tables /\ Unreversed(db) /\ db'.disp[d].reversed = 0
  BY QParts DEF IInv, TypeOK, InOrder, NeverReversed
<1>2. db.disp[d].reversed \in Nat
  BY <1>1, PartTypes
<1>3. CASE db.disp[d].state # "LOCKED"
  BY <1>1, <1>3 DEF Unreversed
<1>4. CASE db.disp[d].state = "LOCKED"
  <2>1. CASE db'.disp = db.disp
    BY <1>1, <2>1
  <2>2. ASSUME NEW e \in Dispatch, NEW x \in DispatchRow,
               db'.disp = [db.disp EXCEPT ![e] = x], RowEffect(t, e, x)
        PROVE  db.disp[d].reversed = 0
    <3>1. db'.disp[d] = IF d = e THEN x ELSE db.disp[d]
      BY <1>1, <2>2 DEF Tables
    <3>2. CASE d = e
      BY <1>1, <1>2, <1>4, <2>2, <3>1, <3>2 DEF RowEffect, RowMove
    <3>3. CASE d # e
      BY <1>1, <3>1, <3>3
    <3> QED BY <3>2, <3>3
  <2> QED BY <2>1, <2>2, WriteEffect
<1> QED BY <1>3, <1>4

\* A draft that a write leaves was there, or is the one a POST has just prepared on
\* an order that is not completed.
LEMMA DraftsWritten ==
    ASSUME IInv, QInv, NEW t \in Tx, Writes(t), NEW d \in Dispatch,
           db'.disp[d].state = "UNLOCKED"
    PROVE  \/ db.disp[d].state = "UNLOCKED" /\ db'.disp[d].qty = db.disp[d].qty
           \/ db'.disp[d].qty > 0 /\ db.status[SoOfDispatch(d)] # "COMPLETED"
<1>0. db \in Tables /\ db.disp \in [Dispatch -> DispatchRow]
  BY AtWrite DEF Tables
<1>1. CASE ~PostDispatch(t)
  <2>1. CASE db'.disp = db.disp
    BY <2>1
  <2>2. ASSUME NEW e \in Dispatch, NEW x \in DispatchRow,
               db'.disp = [db.disp EXCEPT ![e] = x], RowEffect(t, e, x)
        PROVE  db'.disp[d] = db.disp[d]
    <3>1. db'.disp[d] = IF d = e THEN x ELSE db.disp[d]
      BY <1>0, <2>2
    <3>2. x.state # "UNLOCKED"
      BY <1>1, <2>2 DEF RowEffect
    <3> QED BY <3>1, <3>2
  <2> QED BY <2>1, <2>2, WriteEffect
<1>2. CASE PostDispatch(t)
  <2> DEFINE r == req[t]
  <2>1. PICK e \in DispatchesOf(LineOf[r.d]), x \in DispatchRow :
          db'.disp = [db.disp EXCEPT ![e] = x] /\ x.qty = r.qty
    BY <1>2, PostEffect
  <2>2. /\ r.op = "post" /\ r \in Request /\ Allowed(r, snap[t]) /\ ~Idle(t) /\ at[t] = 5 /\ QTx(t)
    BY <1>2, AtWrite DEF PostDispatch, Write
  <2>3. r.qty > 0 /\ PostAllowed(r, snap[t])
    BY <2>2, RequestForms, TablesAssumption DEF PostRequest, Positive, Allowed
  <2>4. snap[t].status[SoOfDispatch(r.d)] = db.status[SoOfDispatch(r.d)]
    BY <2>2 DEF QTx, Doing
  <2>5. db.status[SoOfDispatch(r.d)] # "COMPLETED"
    BY <2>3, <2>4 DEF PostAllowed, SoOfDispatch
  <2>6. e \in Dispatch /\ SoOfDispatch(e) = SoOfDispatch(r.d)
    BY DEF DispatchesOf, SoOfDispatch
  <2>7. db'.disp[d] = IF d = e THEN x ELSE db.disp[d]
    BY <1>0, <2>1, <2>6
  <2> HIDE DEF r
  <2> QED BY <2>1, <2>3, <2>5, <2>6, <2>7
<1> QED BY <1>1, <1>2

\* A write keeps drafts positive, and completed orders without any.
LEMMA CWrite ==
    ASSUME IInv, QInv, CInv, NEW t \in Tx, Writes(t)
    PROVE  CInv'
<1>1. db' \in Tables /\ Within(db')
  BY AtWrite, QuantityEffect DEF InOrder
<1>2. DraftsPositive'
  BY DraftsWritten DEF CInv, DraftsPositive
<1>3. ASSUME NEW d \in Dispatch,
             db'.status[SoOfDispatch(d)] = "COMPLETED", NeverReversed(db', SoOfDispatch(d))
      PROVE  db'.disp[d].state # "UNLOCKED"
  <2> DEFINE o == SoOfDispatch(d)
  <2>1. o \in SO
    BY TablesAssumption DEF SoOfDispatch
  <2>2. NeverReversed(db, o)
    BY <1>3, <2>1, NeverReversedBefore
  <2>3. CASE db.status[o] = "COMPLETED"
    <3>1. db.disp[d].state # "UNLOCKED"
      BY <2>2, <2>3 DEF CInv, CompletedHasNoDraft
    <3> QED BY <2>3, <3>1, DraftsWritten
  <2>4. CASE db.status[o] # "COMPLETED"
    <3>1. PICK v \in Tables : ConfirmedDispatchComplete(v, o) /\ Moved(v, db')
      BY <1>3, <2>1, <2>4, CompletedSeen DEF SeenFilled
    <3>2. db'.disp[d].state = "UNLOCKED" => db'.disp[d].qty > 0
      BY <1>2 DEF DraftsPositive
    <3> QED BY <1>1, <1>3, <3>1, <3>2, FilledHasNoDraft
  <2> QED BY <2>3, <2>4
<1>4. CompletedHasNoDraft'
  BY <1>3 DEF CompletedHasNoDraft
<1> QED BY <1>2, <1>4 DEF CInv

\* Nothing is completed or drafted at first, and every step keeps the invariant.
LEMMA CInit == Init => CInv
<1> SUFFICES ASSUME Init PROVE CInv
  OBVIOUS
<1>1. PICK first \in FirstStatus : db = TablesInit(first)
  BY DEF Init
<1>2. \A d \in Dispatch : db.disp[d].state = "absent"
  BY <1>1 DEF TablesInit, NoDispatch
<1> QED BY <1>2 DEF CInv, DraftsPositive, CompletedHasNoDraft

\* Only writes change the tables.
LEMMA CStep ==
    ASSUME IInv, QInv, CInv, [Next]_vars
    PROVE  CInv'
<1>1. CASE db' = db
  BY <1>1 DEF CInv, DraftsPositive, CompletedHasNoDraft
<1>2. CASE \E t \in Tx : Writes(t)
  BY <1>2, CWrite
<1> QED BY <1>1, <1>2, StepHolds

(***************************************************************************)
(* An order completed by hand or automatically, on whatever view, has no   *)
(* draft left, unless a dispatch of it was reversed                        *)
(* (salesOrderOperationalAutoClose.js, salesOrders.js 1604).               *)
(***************************************************************************)
THEOREM CompletionInvariance == Spec => []CInv
<1>1. Init => IInv /\ QInv /\ CInv
  BY InitHolds, QInit, CInit
<1>2. IInv /\ QInv /\ CInv /\ [Next]_vars => IInv' /\ QInv' /\ CInv'
  BY StepHolds, QStep, CStep
<1> QED BY <1>1, <1>2, PTL DEF Spec

(***************************************************************************)
(* No dispatch of such an order is created, confirmed or deleted, also not *)
(* by a handler that read the order before it was completed                *)
(* (salesOrderDispatchHelpers.js 42).                                      *)
(***************************************************************************)
THEOREM CompletedOrdersRest == Spec => NothingMovesOnceCompleted
<1> DEFINE Rests == \A d \in Dispatch :
                      db.status[SoOfDispatch(d)] = "COMPLETED" /\ NeverReversed(db, SoOfDispatch(d)) =>
                        db'.disp[d].state = db.disp[d].state
<1>1. IInv /\ QInv /\ CInv /\ [Next]_vars => [Rests]_vars
  <2> SUFFICES ASSUME IInv, QInv, CInv, [Next]_vars, NEW d \in Dispatch,
                      db.status[SoOfDispatch(d)] = "COMPLETED", NeverReversed(db, SoOfDispatch(d))
               PROVE  db'.disp[d].state = db.disp[d].state
    OBVIOUS
  <2>1. db.disp \in [Dispatch -> DispatchRow] /\ db.disp[d].state # "UNLOCKED"
    BY DEF IInv, TypeOK, Tables, CInv, CompletedHasNoDraft
  <2>2. CASE db' = db
    BY <2>2
  <2>3. ASSUME NEW t \in Tx, Writes(t) PROVE db'.disp[d].state = db.disp[d].state
    <3>1. db'.disp[d].state # "UNLOCKED"
      BY <2>1, <2>3, DraftsWritten
    <3>2. CASE db'.disp = db.disp
      BY <3>2
    <3>3. ASSUME NEW e \in Dispatch, NEW x \in DispatchRow,
                 db'.disp = [db.disp EXCEPT ![e] = x], RowEffect(t, e, x)
          PROVE  db'.disp[d].state = db.disp[d].state
      <4>1. db'.disp[d] = IF d = e THEN x ELSE db.disp[d]
        BY <2>1, <3>3
      <4> QED BY <2>1, <3>1, <3>3, <4>1 DEF RowEffect
    <3> QED BY <2>3, <3>2, <3>3, WriteEffect
  <2> QED BY <2>2, <2>3, StepHolds
<1>2. [][Rests]_vars => NothingMovesOnceCompleted
  BY DEF NothingMovesOnceCompleted
<1> QED BY <1>1, <1>2, Invariance, QuantityInvariance, CompletionInvariance, PTL DEF Spec
==============================================================================
