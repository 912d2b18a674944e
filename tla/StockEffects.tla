---------------------------- MODULE StockEffects -----------------------------
(***************************************************************************)
(* What each handler of the Stock family writes, as lemmas about two       *)
(* values of the tables: which rows differ, how a row that differs came    *)
(* about, and that what lies in a scope changes by what those rows say.    *)
(***************************************************************************)
EXTENDS StockInvariant, SumTheorems

(***************************************************************************)
(* Requests.                                                               *)
(***************************************************************************)

Operation ==
    LotOps \cup ReturnOps \cup
    {"queue", "qcPost", "qcReverse", "classify", "return", "transfer", "completeRework",
     "adjust", "reverseAdjust", "qcAdjust", "openApprove", "openReverse"}

\* What a request of each kind carries.
LEMMA RequestForms ==
    ASSUME NEW r \in Request
    PROVE  /\ r.op \in Operation
           /\ r.op = "decide" => r \in DecideRequest
           /\ r.op = "mark" => r \in MarkRequest
           /\ r.op = "hold" => r \in HoldRequest
           /\ r.op = "recheck" => r \in RecheckRequest
           /\ r.op = "qcPost" => r \in QcPostRequest
           /\ r.op = "qcReverse" => r \in QcReverseRequest
           /\ r.op = "classify" => r \in ClassifyRequest
           /\ r.op = "return" => r \in ReturnRequest
           /\ r.op \in {"approve", "reworked", "approveRework", "replace"} => r \in ReturnQcRequest
           /\ r.op = "scrapReturn" => r \in ReturnScrapRequest
           /\ r.op = "transfer" => r \in TransferRequest
           /\ r.op = "completeRework" => r \in ReworkQcRequest
           /\ r.op = "adjust" => r \in AdjustRequest
           /\ r.op = "reverseAdjust" => r \in ReverseAdjustRequest
           /\ r.op = "qcAdjust" => r \in AdjustQcRequest
           /\ r.op \in {"openApprove", "openReverse"} => r \in OpeningRequest
<1>1. r \in AnyRequest
  BY DEF Request
<1>2. CASE r \in DecideRequest \cup MarkRequest \cup QueueRequest \cup RecheckRequest
  BY <1>2 DEF Operation, LotOps, ReturnOps, DecideRequest, MarkRequest, QueueRequest, RecheckRequest
<1>3. CASE r \in HoldRequest \cup QcPostRequest \cup QcReverseRequest \cup ClassifyRequest
  BY <1>3 DEF Operation, LotOps, ReturnOps, HoldRequest, QcPostRequest, QcReverseRequest,
              ClassifyRequest
<1>4. CASE r \in ReturnRequest \cup ReturnQcRequest \cup ReturnScrapRequest
  BY <1>4 DEF Operation, LotOps, ReturnOps, ReturnRequest, ReturnQcRequest, ReturnScrapRequest
<1>5. CASE r \in TransferRequest \cup ReworkQcRequest \cup AdjustRequest
  BY <1>5 DEF Operation, LotOps, ReturnOps, TransferRequest, ReworkQcRequest, AdjustRequest
<1>6. CASE r \in ReverseAdjustRequest \cup AdjustQcRequest \cup OpeningRequest
  BY <1>6 DEF Operation, LotOps, ReturnOps, ReverseAdjustRequest, AdjustQcRequest, OpeningRequest
<1> QED BY <1>1, <1>2, <1>3, <1>4, <1>5, <1>6 DEF AnyRequest

\* The row identifiers and quantities it carries are what they should be.
LEMMA RequestFields ==
    ASSUME NEW r \in Request
    PROVE  /\ r.op \in LotOps => r.d \in Lot
           /\ r.op = "hold" => /\ r.new \in Lot \cup {NoLot}
                               /\ r.rework \in Nat /\ r.scrap \in Nat /\ r.usable \in Nat
                               /\ r.rework > 0 <=> r.new # NoLot
           /\ r.op = "recheck" => r.rejected \in Nat
           /\ r.op \in {"qcPost", "qcReverse", "classify"} => r.q \in Entry
           /\ r.op \in ReturnOps \cup {"return"} => r.c \in Return
           /\ r.op \in {"return", "scrapReturn"} => r.qty \in Nat \ {0}
           /\ r.op \in {"adjust", "reverseAdjust", "qcAdjust"} => r.a \in Adjustment
           /\ r.op \in {"openApprove", "openReverse"} => r.e \in Opening
           /\ r.op \in {"transfer", "qcAdjust"} => r.qty \in Nat
           /\ r.op = "adjust" => r.delta \in Int
<1>0. /\ \A n \in Qty \cup {0} : n \in Nat
      /\ Qty \subseteq Nat /\ ReturnQty \subseteq Nat \ {0}
  BY StockAssumption
<1>1. CASE r.op \in {"decide", "mark"}
  BY <1>0, <1>1, RequestForms DEF LotOps, ReturnOps, DecideRequest, MarkRequest
<1>6. CASE r.op = "hold"
  <2>1. /\ r.d \in Lot /\ r.new \in Lot \cup {NoLot}
        /\ r.rework \in Qty \cup {0} /\ r.scrap \in Qty \cup {0} /\ r.usable \in Qty \cup {0}
        /\ r.rework > 0 <=> r.new # NoLot
    BY <1>6, RequestForms DEF HoldRequest
  <2>2. r.rework \in Nat /\ r.scrap \in Nat /\ r.usable \in Nat
    BY <1>0, <2>1
  <2> QED BY <1>6, <2>1, <2>2 DEF ReturnOps
<1>7. CASE r.op = "recheck"
  <2>1. r.d \in Lot /\ r.rejected \in Qty \cup {0}
    BY <1>7, RequestForms DEF RecheckRequest
  <2> QED BY <1>0, <1>7, <2>1 DEF LotOps, ReturnOps
<1>2. CASE r.op \in {"qcPost", "qcReverse", "classify"}
  BY <1>0, <1>2, RequestForms DEF LotOps, ReturnOps, QcPostRequest, QcReverseRequest,
                                  ClassifyRequest
<1>3. CASE r.op \in ReturnOps \cup {"return"}
  BY <1>0, <1>3, RequestForms DEF LotOps, ReturnOps, ReturnRequest, ReturnQcRequest,
                                  ReturnScrapRequest
<1>4. CASE r.op \in {"adjust", "reverseAdjust", "qcAdjust"}
  BY <1>0, <1>4, RequestForms DEF LotOps, ReturnOps, AdjustRequest, ReverseAdjustRequest,
                                  AdjustQcRequest
<1>5. CASE r.op \in {"queue", "openApprove", "openReverse", "transfer", "completeRework"}
  BY <1>0, <1>5, RequestForms DEF LotOps, ReturnOps, OpeningRequest, TransferRequest
<1> QED BY <1>1, <1>2, <1>3, <1>4, <1>5, <1>6, <1>7, RequestForms DEF Operation, LotOps

(***************************************************************************)
(* What a stock row changes.                                               *)
(***************************************************************************)

\* Everything on hand in scope p.
Goods(w, p) == SumFunction(w.pool[p])

\* x differs from w in the pooled balances only; in the balances of lots, too.
OnlyPool(w, x) ==
    /\ x \in Tables /\ x.own = w.own /\ x.lot = w.lot /\ x.entry = w.entry
    /\ x.ret = w.ret /\ x.adj = w.adj /\ x.opening = w.opening

OnlyStock(w, x) ==
    /\ x \in Tables /\ x.lot = w.lot /\ x.entry = w.entry
    /\ x.ret = w.ret /\ x.adj = w.adj /\ x.opening = w.opening

\* Tables with other pooled balances of the right type are tables.
PutPool(w, B) == [w EXCEPT !.pool = B]

LEMMA PutBalances ==
    ASSUME NEW w \in Tables, NEW B \in Balance
    PROVE  PutPool(w, B).pool = B /\ OnlyPool(w, PutPool(w, B))
BY DEF PutPool, OnlyPool, Tables

\* There are five buckets.
LEMMA BucketsFinite == IsFiniteSet(Bucket)
<1>1. Bucket = {"USABLE"} \cup {"QC_HOLD"} \cup {"REWORK"} \cup {"QC_PENDING"} \cup {"SCRAP"}
  BY DEF Bucket
<1> QED BY <1>1, FS_Singleton, FS_Union

\* A balance with n added in one bucket of one scope.
Plus(B, p, b, n) == [B EXCEPT ![p][b] = @ + n]

\* It is a balance, and the goods of that scope are n more.
LEMMA BalanceAdd ==
    ASSUME NEW B \in Balance, NEW p \in Scope, NEW b \in Bucket, NEW n \in Int
    PROVE  LET C == Plus(B, p, b, n)
           IN  /\ C \in Balance
               /\ \A q \in Scope, c \in Bucket :
                    C[q][c] = IF q = p /\ c = b THEN B[q][c] + n ELSE B[q][c]
               /\ \A q \in Scope :
                    SumFunction(C[q]) = IF q = p THEN SumFunction(B[q]) + n ELSE SumFunction(B[q])
<1> DEFINE C == Plus(B, p, b, n)
<1>1. C \in Balance
  BY DEF Balance, Plus
<1>2. \A q \in Scope, c \in Bucket :
        C[q][c] = IF q = p /\ c = b THEN B[q][c] + n ELSE B[q][c]
  BY DEF Balance, Plus
<1>3. ASSUME NEW q \in Scope
      PROVE  SumFunction(C[q]) = IF q = p THEN SumFunction(B[q]) + n ELSE SumFunction(B[q])
  <2> HIDE DEF C
  <2>1. B[q] \in [Bucket -> Int] /\ C[q] \in [Bucket -> Int]
    BY <1>1 DEF Balance
  <2>2. CASE q = p
    <3>1. C[q][b] = B[q][b] + n /\ \A y \in Bucket \ {b} : C[q][y] = B[q][y]
      BY <1>2, <2>2
    <3>2. SumFunction(C[q]) = SumFunction(B[q]) + n
      BY <2>1, <3>1, BucketsFinite, SumPlus
    <3> QED BY <2>2, <3>2
  <2>3. CASE q # p
    <3>1. C[q] = B[q]
      BY <1>2, <2>1, <2>3
    <3> QED BY <2>3, <3>1
  <2> QED BY <2>2, <2>3
<1> QED BY <1>1, <1>2, <1>3

\* Goods are numbers.
LEMMA GoodsType == ASSUME NEW w \in Tables, NEW p \in Scope PROVE Goods(w, p) \in Int
<1>1. w.pool \in Balance
  BY DEF Tables
<1>2. w.pool[p] \in [Bucket -> Int] /\ DOMAIN w.pool[p] = Bucket
  BY <1>1 DEF Balance
<1>3. IsFiniteSet(Bucket)
  BY BucketsFinite
<1>4. SumFunctionOnSet(w.pool[p], Bucket) \in Int
  BY <1>2, <1>3, SumType
<1> QED BY <1>2, <1>4 DEF Goods, SumFunction

\* A stock row without an owner (stockTransaction.create).
LEMMA PostChange ==
    ASSUME NEW w \in Tables, NEW p \in Scope, NEW b \in Bucket, NEW n \in Int
    PROVE  /\ OnlyPool(w, Post(w, p, b, n))
           /\ \A q \in Scope :
                Goods(Post(w, p, b, n), q) = IF q = p THEN Goods(w, q) + n ELSE Goods(w, q)
<1> DEFINE C == Plus(w.pool, p, b, n)
<1>1. w.pool \in Balance /\ w.own \in [Lot -> Balance]
  BY DEF Tables
<1>2. /\ C \in Balance
      /\ \A q \in Scope :
           SumFunction(C[q]) = IF q = p THEN SumFunction(w.pool[q]) + n ELSE SumFunction(w.pool[q])
  BY <1>1, BalanceAdd
<1>3. Post(w, p, b, n) = PutPool(w, C)
  BY DEF Post, PutPool, Tables, Plus
<1> HIDE DEF C
<1>4. PutPool(w, C).pool = C /\ OnlyPool(w, PutPool(w, C))
  BY <1>1, <1>2, PutBalances
<1> QED BY <1>2, <1>3, <1>4 DEF Goods

\* The balances of lots with n added in one bucket of one scope of one of them.
PlusOwn(F, d, p, b, n) == [F EXCEPT ![d][p][b] = @ + n]

\* They are balances of lots, and no other differs.
LEMMA OwnAdd ==
    ASSUME NEW F \in [Lot -> Balance], NEW d \in Lot, NEW p \in Scope, NEW b \in Bucket,
           NEW n \in Int
    PROVE  LET G == PlusOwn(F, d, p, b, n)
           IN  /\ G \in [Lot -> Balance]
               /\ \A e \in Lot, q \in Scope, c \in Bucket :
                    G[e][q][c] = IF e = d /\ q = p /\ c = b THEN F[e][q][c] + n ELSE F[e][q][c]
BY DEF Balance, PlusOwn

\* x is w with a stock row of n that carries disposition d.
OwnPosted(w, x, d, p, b, n) ==
    /\ OnlyStock(w, x)
    /\ \A q \in Scope : Goods(x, q) = IF q = p THEN Goods(w, q) + n ELSE Goods(w, q)
    /\ \A e \in Lot, q \in Scope, c \in Bucket :
         x.own[e][q][c] = IF e = d /\ q = p /\ c = b THEN w.own[e][q][c] + n
                          ELSE w.own[e][q][c]

\* PostOwned.
LEMMA PostOwnedChange ==
    ASSUME NEW w \in Tables, NEW d \in Lot, NEW p \in Scope, NEW b \in Bucket, NEW n \in Int
    PROVE  OwnPosted(w, PostOwned(w, d, p, b, n), d, p, b, n)
<1> DEFINE y == Post(w, p, b, n)
           O == PlusOwn(w.own, d, p, b, n)
<1>1. w.own \in [Lot -> Balance]
  BY DEF Tables
<1>2. /\ OnlyPool(w, y)
      /\ \A q \in Scope : Goods(y, q) = IF q = p THEN Goods(w, q) + n ELSE Goods(w, q)
  BY PostChange
<1>3. /\ O \in [Lot -> Balance]
      /\ \A e \in Lot, q \in Scope, c \in Bucket :
           O[e][q][c] = IF e = d /\ q = p /\ c = b THEN w.own[e][q][c] + n ELSE w.own[e][q][c]
  BY <1>1, OwnAdd
<1> HIDE DEF y
<1>4. PostOwned(w, d, p, b, n) = [y EXCEPT !.own = O]
  BY <1>2 DEF PostOwned, OnlyPool, y, PlusOwn
<1> HIDE DEF O
<1>5. LET x == [y EXCEPT !.own = O]
      IN  OnlyStock(w, x) /\ x.pool = y.pool /\ x.own = O
  BY <1>2, <1>3 DEF OnlyPool, OnlyStock, Tables
<1> QED BY <1>2, <1>3, <1>4, <1>5 DEF Goods, OwnPosted

(***************************************************************************)
(* Corrections: transfers, pooled final QC, adjustments, opening stock.    *)
(***************************************************************************)

\* Paired BUCKET_TRANSFER rows change no scope's goods.
LEMMA TransferChange ==
    ASSUME NEW w \in Tables, NEW from \in Bucket, NEW to \in Bucket, NEW n \in Int
    PROVE  /\ OnlyPool(w, Transfer(w, from, to, n))
           /\ \A q \in Scope : Goods(Transfer(w, from, to, n), q) = Goods(w, q)
<1> DEFINE y == Post(w, "read", from, -n)
<1>1. "read" \in Scope /\ -n \in Int
  BY DEF Scope
<1>2. /\ OnlyPool(w, y)
      /\ \A q \in Scope : Goods(y, q) = IF q = "read" THEN Goods(w, q) + -n ELSE Goods(w, q)
  BY <1>1, PostChange
<1> HIDE DEF y
<1>3. y \in Tables
  BY <1>2 DEF OnlyPool
<1>4. /\ OnlyPool(y, Post(y, "read", to, n))
      /\ \A q \in Scope : Goods(Post(y, "read", to, n), q) =
           IF q = "read" THEN Goods(y, q) + n ELSE Goods(y, q)
  BY <1>1, <1>3, PostChange
<1>5. Transfer(w, from, to, n) = Post(y, "read", to, n)
  BY DEF Transfer, y
<1>6. \A q \in Scope : Goods(w, q) \in Int
  BY GoodsType
<1> QED BY <1>2, <1>4, <1>5, <1>6 DEF OnlyPool

\* complete-rework-qc books in as much as it takes out.
LEMMA ReworkQcChange ==
    ASSUME NEW w \in Tables, NEW r \in Request, r.op = "completeRework"
    PROVE  /\ OnlyPool(w, ReworkQcWrite(r, w))
           /\ \A q \in Scope : Goods(ReworkQcWrite(r, w), q) = Goods(w, q)
<1> DEFINE n == -r.checked
           m == r.checked - r.rejected
           k == r.rejected
           b == r.to
<1>1. /\ n \in Int /\ m \in Int /\ k \in Int /\ b \in Bucket /\ n + m + k = 0
  <2>1. /\ r.checked \in Qty /\ r.rejected \in Qty \cup {0} /\ r.to \in Bucket \ {"QC_PENDING"}
    BY RequestForms DEF ReworkQcRequest
  <2>2. \A i \in Qty \cup {0} : i \in Int
    BY StockAssumption
  <2> QED BY <2>1, <2>2
<1>2. "read" \in Scope /\ "QC_PENDING" \in Bucket /\ "USABLE" \in Bucket
  BY DEF Scope, Bucket
<1> DEFINE x == Post(w, "read", "QC_PENDING", n)
           y == Post(x, "read", "USABLE", m)
           z == Post(y, "read", b, k)
<1>4. z = ReworkQcWrite(r, w)
  BY DEF ReworkQcWrite
<1> HIDE DEF n, m, k, b
<1>3. /\ OnlyPool(w, x)
      /\ \A q \in Scope : Goods(x, q) = IF q = "read" THEN Goods(w, q) + n ELSE Goods(w, q)
  BY <1>1, <1>2, PostChange
<1> HIDE DEF x
<1>5. x \in Tables
  BY <1>3 DEF OnlyPool
<1>6. /\ OnlyPool(x, y)
      /\ \A q \in Scope : Goods(y, q) = IF q = "read" THEN Goods(x, q) + m ELSE Goods(x, q)
  BY <1>1, <1>2, <1>5, PostChange
<1> HIDE DEF y
<1>7. y \in Tables
  BY <1>6 DEF OnlyPool
<1>8. /\ OnlyPool(y, z)
      /\ \A q \in Scope : Goods(z, q) = IF q = "read" THEN Goods(y, q) + k ELSE Goods(y, q)
  BY <1>1, <1>2, <1>7, PostChange
<1> HIDE DEF z
<1>9. \A q \in Scope : Goods(z, q) = Goods(w, q)
  <2>1. \A q \in Scope : Goods(w, q) \in Int
    BY GoodsType
  <2> QED BY <1>1, <1>3, <1>6, <1>8, <2>1
<1>10. OnlyPool(w, z)
  BY <1>3, <1>6, <1>8 DEF OnlyPool
<1> QED BY <1>4, <1>9, <1>10

\* x differs from w in the pooled balances and the row of adjustment a only.
OnlyAdjustment(w, x, a) ==
    /\ x \in Tables /\ x.own = w.own /\ x.lot = w.lot /\ x.entry = w.entry
    /\ x.ret = w.ret /\ x.opening = w.opening
    /\ \A b \in Adjustment \ {a} : x.adj[b] = w.adj[b]

PutAdjustment(w, a, row) == [w EXCEPT !.adj[a] = row]

\* The row of an adjustment replaced by another.
LEMMA PutAdjustments ==
    ASSUME NEW w \in Tables, NEW a \in Adjustment, NEW row \in AdjustmentRow
    PROVE  LET x == PutAdjustment(w, a, row)
           IN  OnlyAdjustment(w, x, a) /\ x.adj[a] = row /\ x.pool = w.pool
<1> DEFINE A == [w.adj EXCEPT ![a] = row]
<1>1. A \in [Adjustment -> AdjustmentRow] /\ A[a] = row /\ \A b \in Adjustment \ {a} : A[b] = w.adj[b]
  BY DEF Tables
<1>2. PutAdjustment(w, a, row) = [w EXCEPT !.adj = A]
  BY DEF PutAdjustment, Tables
<1> HIDE DEF A
<1> QED BY <1>1, <1>2 DEF OnlyAdjustment, Tables

\* POST /stock/adjustment and its reversal: a row that differs and goods in the FG Store.
LEMMA AdjustmentPosting ==
    ASSUME NEW w \in Tables, NEW a \in Adjustment, NEW row \in AdjustmentRow, NEW n \in Int
    PROVE  LET x == PutAdjustment(Post(w, "fg", "USABLE", n), a, row)
           IN  /\ OnlyAdjustment(w, x, a) /\ x.adj[a] = row
               /\ \A q \in Scope : Goods(x, q) = IF q = "fg" THEN Goods(w, q) + n ELSE Goods(w, q)
<1> DEFINE y == Post(w, "fg", "USABLE", n)
           x == PutAdjustment(y, a, row)
<1>1. "fg" \in Scope /\ "USABLE" \in Bucket
  BY DEF Scope, Bucket
<1>2. /\ OnlyPool(w, y)
      /\ \A q \in Scope : Goods(y, q) = IF q = "fg" THEN Goods(w, q) + n ELSE Goods(w, q)
  BY <1>1, PostChange
<1> HIDE DEF y
<1>3. y \in Tables
  BY <1>2 DEF OnlyPool
<1>4. OnlyAdjustment(y, x, a) /\ x.adj[a] = row /\ x.pool = y.pool
  BY <1>3, PutAdjustments
<1> HIDE DEF x
<1>5. OnlyAdjustment(w, x, a)
  BY <1>2, <1>4 DEF OnlyPool, OnlyAdjustment
<1>6. \A q \in Scope : Goods(x, q) = IF q = "fg" THEN Goods(w, q) + n ELSE Goods(w, q)
  BY <1>2, <1>4 DEF Goods
<1> QED BY <1>4, <1>5, <1>6 DEF x, y

\* What the handlers of adjustments write.
LEMMA AdjustWrites ==
    ASSUME NEW w \in Tables, NEW r \in Request, r.op = "adjust"
    PROVE  LET x == AdjustWrite(r, w)
           IN  /\ OnlyAdjustment(w, x, r.a)
               /\ x.adj[r.a] = [state |-> "posted", delta |-> r.delta, reversals |-> 0,
                                inspected |-> 0]
               /\ \A q \in Scope :
                    Goods(x, q) = IF q = "fg" THEN Goods(w, q) + r.delta ELSE Goods(w, q)
<1> DEFINE row == [state |-> "posted", delta |-> r.delta, reversals |-> 0, inspected |-> 0]
<1>1. r.a \in Adjustment /\ r.delta \in Int
  BY RequestFields
<1>2. row \in AdjustmentRow
  BY <1>1 DEF AdjustmentRow
<1>3. AdjustWrite(r, w) = PutAdjustment(Post(w, "fg", "USABLE", r.delta), r.a, row)
  BY DEF AdjustWrite, PutAdjustment
<1> HIDE DEF row
<1>4. LET x == PutAdjustment(Post(w, "fg", "USABLE", r.delta), r.a, row)
      IN  /\ OnlyAdjustment(w, x, r.a) /\ x.adj[r.a] = row
          /\ \A q \in Scope :
               Goods(x, q) = IF q = "fg" THEN Goods(w, q) + r.delta ELSE Goods(w, q)
  BY <1>1, <1>2, AdjustmentPosting
<1> QED BY <1>3, <1>4 DEF row

\* The reversal adds a reversal row for what the view says was posted.
LEMMA ReverseAdjustWrites ==
    ASSUME NEW v \in Tables, NEW w \in Tables, NEW r \in Request, r.op = "reverseAdjust"
    PROVE  LET x == ReverseAdjustWrite(r, v, w)
           IN  /\ OnlyAdjustment(w, x, r.a)
               /\ x.adj[r.a].state = "reversed"
               /\ x.adj[r.a].delta = w.adj[r.a].delta
               /\ x.adj[r.a].reversals = w.adj[r.a].reversals + 1
               /\ \A q \in Scope :
                    Goods(x, q) = IF q = "fg" THEN Goods(w, q) + -v.adj[r.a].delta ELSE Goods(w, q)
<1> DEFINE n == -v.adj[r.a].delta
           y == Post(w, "fg", "USABLE", n)
           row == ReversedAdjustment(w.adj[r.a])
<1>1. /\ r.a \in Adjustment /\ w.adj[r.a] \in AdjustmentRow /\ v.adj[r.a] \in AdjustmentRow
      /\ n \in Int
  BY RequestFields DEF Tables, AdjustmentRow
<1>2. /\ row \in AdjustmentRow /\ row.state = "reversed" /\ row.delta = w.adj[r.a].delta
      /\ row.reversals = w.adj[r.a].reversals + 1
  <2> DEFINE old == w.adj[r.a]
  <2>1. old \in AdjustmentRow /\ row = ReversedAdjustment(old)
    BY <1>1
  <2> HIDE DEF old, row
  <2>2. /\ ReversedAdjustment(old).state = "reversed"
        /\ ReversedAdjustment(old).delta = old.delta
        /\ ReversedAdjustment(old).reversals = old.reversals + 1
    BY <2>1 DEF ReversedAdjustment, AdjustmentRow
  <2>3. old.reversals + 1 \in Nat
    BY <2>1 DEF AdjustmentRow
  <2>4. ReversedAdjustment(old) \in AdjustmentRow
    BY <2>1, <2>3 DEF ReversedAdjustment, AdjustmentRow
  <2> QED BY <2>1, <2>2, <2>4 DEF old
<1>3. ReverseAdjustWrite(r, v, w) = PutAdjustment(y, r.a, row)
  <2>1. y.adj = w.adj
    BY DEF Post
  <2> QED BY <2>1 DEF ReverseAdjustWrite, PutAdjustment
<1> HIDE DEF row, n
<1>4. LET x == PutAdjustment(y, r.a, row)
      IN  /\ OnlyAdjustment(w, x, r.a) /\ x.adj[r.a] = row
          /\ \A q \in Scope : Goods(x, q) = IF q = "fg" THEN Goods(w, q) + n ELSE Goods(w, q)
  BY <1>1, <1>2, AdjustmentPosting
<1> QED BY <1>2, <1>3, <1>4 DEF n

\* QC of an adjustment counts what it inspected and posts nothing.
LEMMA AdjustQcWrites ==
    ASSUME NEW w \in Tables, NEW r \in Request, r.op = "qcAdjust"
    PROVE  LET x == AdjustQcWrite(r, w)
           IN  /\ OnlyAdjustment(w, x, r.a) /\ x.pool = w.pool
               /\ x.adj[r.a].state = w.adj[r.a].state
               /\ x.adj[r.a].delta = w.adj[r.a].delta
               /\ x.adj[r.a].reversals = w.adj[r.a].reversals
<1> DEFINE row == [w.adj[r.a] EXCEPT !.inspected = @ + r.qty]
<1>1. r.a \in Adjustment /\ w.adj[r.a] \in AdjustmentRow /\ r.qty \in Nat
  BY RequestFields DEF Tables
<1>2. /\ row \in AdjustmentRow /\ row.state = w.adj[r.a].state
      /\ row.delta = w.adj[r.a].delta /\ row.reversals = w.adj[r.a].reversals
  BY <1>1 DEF AdjustmentRow
<1>3. AdjustQcWrite(r, w) = PutAdjustment(w, r.a, row)
  BY DEF AdjustQcWrite, PutAdjustment
<1> HIDE DEF row
<1> QED BY <1>1, <1>2, <1>3, PutAdjustments

\* x differs from w in the pooled balances and the row of opening entry e only.
OnlyOpening(w, x, e) ==
    /\ x \in Tables /\ x.own = w.own /\ x.lot = w.lot /\ x.entry = w.entry
    /\ x.ret = w.ret /\ x.adj = w.adj
    /\ \A f \in Opening \ {e} : x.opening[f] = w.opening[f]

PutOpening(w, e, row) == [w EXCEPT !.opening[e] = row]

\* Approval and reversal of opening stock: a row that differs, goods in the FG Store.
LEMMA OpeningPosting ==
    ASSUME NEW w \in Tables, NEW e \in Opening, NEW row \in OpeningRow, NEW n \in Int
    PROVE  LET x == PutOpening(Post(w, "fg", "USABLE", n), e, row)
           IN  /\ OnlyOpening(w, x, e) /\ x.opening[e] = row
               /\ \A q \in Scope : Goods(x, q) = IF q = "fg" THEN Goods(w, q) + n ELSE Goods(w, q)
<1> DEFINE y == Post(w, "fg", "USABLE", n)
           O == [y.opening EXCEPT ![e] = row]
           x == PutOpening(y, e, row)
<1>1. "fg" \in Scope /\ "USABLE" \in Bucket
  BY DEF Scope, Bucket
<1>2. /\ OnlyPool(w, y)
      /\ \A q \in Scope : Goods(y, q) = IF q = "fg" THEN Goods(w, q) + n ELSE Goods(w, q)
  BY <1>1, PostChange
<1> HIDE DEF y
<1>3. y \in Tables /\ y.opening = w.opening
  BY <1>2 DEF OnlyPool
<1>4. /\ O \in [Opening -> OpeningRow] /\ O[e] = row
      /\ \A f \in Opening \ {e} : O[f] = w.opening[f]
  BY <1>3 DEF Tables
<1>5. x = [y EXCEPT !.opening = O]
  BY DEF PutOpening
<1> HIDE DEF O, x
<1>6. /\ x \in Tables /\ x.opening = O /\ x.pool = y.pool /\ x.own = y.own
      /\ x.lot = y.lot /\ x.entry = y.entry /\ x.ret = y.ret /\ x.adj = y.adj
  BY <1>3, <1>4, <1>5 DEF Tables
<1>7. OnlyOpening(w, x, e)
  BY <1>2, <1>4, <1>6 DEF OnlyPool, OnlyOpening
<1>8. \A q \in Scope : Goods(x, q) = IF q = "fg" THEN Goods(w, q) + n ELSE Goods(w, q)
  BY <1>2, <1>6 DEF Goods
<1> QED BY <1>4, <1>6, <1>7, <1>8 DEF x, y

\* What the handlers of opening stock write.
LEMMA OpeningWrites ==
    ASSUME NEW w \in Tables, NEW r \in Request, r.op \in {"openApprove", "openReverse"}
    PROVE  LET x == IF r.op = "openApprove" THEN OpenApproveWrite(r, w) ELSE OpenReverseWrite(r, w)
               n == IF r.op = "openApprove" THEN OpeningQty ELSE -OpeningQty
           IN  /\ OnlyOpening(w, x, r.e)
               /\ OpeningQty * (x.opening[r.e].posted - x.opening[r.e].reversed) =
                    OpeningQty * (w.opening[r.e].posted - w.opening[r.e].reversed) + n
               /\ \A q \in Scope : Goods(x, q) = IF q = "fg" THEN Goods(w, q) + n ELSE Goods(w, q)
<1> DEFINE old == w.opening[r.e]
           e == r.e
<1>1. e \in Opening /\ old \in OpeningRow
  BY RequestFields DEF Tables
<1>2. OpeningQty \in Nat /\ -OpeningQty \in Int
  BY StockAssumption
<1>3. CASE r.op = "openApprove"
  <2> DEFINE row == ApprovedOpening(old)
             n == OpeningQty
  <2>1. OpenApproveWrite(r, w) = PutOpening(Post(w, "fg", "USABLE", n), e, row)
    BY DEF OpenApproveWrite, PutOpening, Post
  <2> HIDE DEF old, e
  <2>2. row.posted = old.posted + 1 /\ row.reversed = old.reversed /\ row.state = "APPROVED"
    BY <1>1 DEF ApprovedOpening, OpeningRow
  <2>3. row \in OpeningRow /\ old.posted \in Nat /\ old.reversed \in Nat
    <3>1. old.posted \in Nat /\ old.reversed \in Nat /\ old.posted + 1 \in Nat
      BY <1>1 DEF OpeningRow
    <3> QED BY <1>1, <3>1 DEF ApprovedOpening, OpeningRow
  <2> HIDE DEF row
  <2>4. OpeningQty * (row.posted - row.reversed) = OpeningQty * (old.posted - old.reversed) + n
    BY <1>2, <2>2, <2>3, SMTT(30)
  <2> HIDE DEF n
  <2>5. n \in Int
    BY <1>2 DEF n
  <2>6. LET x == PutOpening(Post(w, "fg", "USABLE", n), e, row)
        IN  /\ OnlyOpening(w, x, e) /\ x.opening[e] = row
            /\ \A q \in Scope : Goods(x, q) = IF q = "fg" THEN Goods(w, q) + n ELSE Goods(w, q)
    BY <1>1, <2>3, <2>5, OpeningPosting
  <2> QED BY <1>3, <2>1, <2>4, <2>6 DEF n, e, old
<1>4. CASE r.op = "openReverse"
  <2> DEFINE row == ReversedOpening(old)
             n == -OpeningQty
  <2>1. OpenReverseWrite(r, w) = PutOpening(Post(w, "fg", "USABLE", n), e, row)
    BY DEF OpenReverseWrite, PutOpening, Post
  <2> HIDE DEF old, e
  <2>2. row.posted = old.posted /\ row.reversed = old.reversed + 1
    BY <1>1 DEF ReversedOpening, OpeningRow
  <2>3. row \in OpeningRow /\ old.posted \in Nat /\ old.reversed \in Nat
    <3>1. old.posted \in Nat /\ old.reversed \in Nat /\ old.reversed + 1 \in Nat
      BY <1>1 DEF OpeningRow
    <3> QED BY <1>1, <3>1 DEF ReversedOpening, OpeningRow
  <2> HIDE DEF row
  <2>4. OpeningQty * (row.posted - row.reversed) = OpeningQty * (old.posted - old.reversed) + n
    BY <1>2, <2>2, <2>3, SMTT(30)
  <2> HIDE DEF n
  <2>5. n \in Int
    BY <1>2 DEF n
  <2>6. LET x == PutOpening(Post(w, "fg", "USABLE", n), e, row)
        IN  /\ OnlyOpening(w, x, e) /\ x.opening[e] = row
            /\ \A q \in Scope : Goods(x, q) = IF q = "fg" THEN Goods(w, q) + n ELSE Goods(w, q)
    BY <1>1, <2>3, <2>5, OpeningPosting
  <2> QED BY <1>4, <2>1, <2>4, <2>6 DEF n, e, old
<1> QED BY <1>3, <1>4

(***************************************************************************)
(* Customer returns.                                                       *)
(***************************************************************************)

\* x differs from w in the pooled balances and the row of return c only.
OnlyReturn(w, x, c) ==
    /\ x \in Tables /\ x.own = w.own /\ x.lot = w.lot /\ x.entry = w.entry
    /\ x.adj = w.adj /\ x.opening = w.opening
    /\ \A d \in Return \ {c} : x.ret[d] = w.ret[d]

\* And the goods that lie where returns post changed as the row's own balance did.
ReturnPosts(w, x, c) ==
    /\ OnlyReturn(w, x, c)
    /\ Goods(x, "fg") = Goods(w, "fg")
    /\ Goods(x, "read") - SumFunction(x.ret[c].net) = Goods(w, "read") - SumFunction(w.ret[c].net)

PutReturn(w, c, row) == [w EXCEPT !.ret[c] = row]

\* The row of a return replaced by another.
LEMMA PutReturns ==
    ASSUME NEW w \in Tables, NEW c \in Return, NEW row \in ReturnRow
    PROVE  LET x == PutReturn(w, c, row)
           IN  OnlyReturn(w, x, c) /\ x.ret[c] = row /\ x.pool = w.pool
<1> DEFINE A == [w.ret EXCEPT ![c] = row]
<1>1. A \in [Return -> ReturnRow] /\ A[c] = row /\ \A d \in Return \ {c} : A[d] = w.ret[d]
  BY DEF Tables
<1>2. PutReturn(w, c, row) = [w EXCEPT !.ret = A]
  BY DEF PutReturn, Tables
<1> HIDE DEF A
<1> QED BY <1>1, <1>2 DEF OnlyReturn, Tables

\* The sum of the balances of a return is a number.
LEMMA NetType == ASSUME NEW net \in [Bucket -> Int] PROVE SumFunction(net) \in Int
<1>1. DOMAIN net = Bucket
  OBVIOUS
<1>2. SumFunctionOnSet(net, Bucket) \in Int
  BY BucketsFinite, SumType
<1> QED BY <1>1, <1>2 DEF SumFunction

\* A row with other columns but the same balances changes nothing that lies anywhere.
LEMMA RowOnly ==
    ASSUME NEW w \in Tables, NEW c \in Return, NEW row \in ReturnRow, row.net = w.ret[c].net
    PROVE  LET x == PutReturn(w, c, row)
           IN  ReturnPosts(w, x, c) /\ x.ret[c] = row
<1> DEFINE x == PutReturn(w, c, row)
<1>1. OnlyReturn(w, x, c) /\ x.ret[c] = row /\ x.pool = w.pool
  BY PutReturns
<1> HIDE DEF x
<1>2. Goods(x, "fg") = Goods(w, "fg") /\ Goods(x, "read") = Goods(w, "read")
  BY <1>1 DEF Goods
<1>3. ReturnPosts(w, x, c)
  BY <1>1, <1>2 DEF ReturnPosts
<1> QED BY <1>1, <1>3 DEF x

\* A stock row of a return changes one balance of the return.
LEMMA PostedRow ==
    ASSUME NEW row \in ReturnRow, NEW b \in Bucket, NEW n \in Int
    PROVE  LET x == PostedReturn(row, b, n)
           IN  /\ x \in ReturnRow
               /\ x.state = row.state /\ x.qty = row.qty /\ x.bucket = row.bucket
               /\ x.replaced = row.replaced
               /\ \A e \in Bucket : x.net[e] = IF e = b THEN row.net[e] + n ELSE row.net[e]
               /\ SumFunction(x.net) = SumFunction(row.net) + n
<1> DEFINE m == [row.net EXCEPT ![b] = @ + n]
           x == PostedReturn(row, b, n)
<1>1. row.net \in [Bucket -> Int] /\ m \in [Bucket -> Int]
  BY DEF ReturnRow
<1>2. /\ m[b] = row.net[b] + n /\ \A e \in Bucket \ {b} : m[e] = row.net[e]
      /\ \A e \in Bucket : m[e] = IF e = b THEN row.net[e] + n ELSE row.net[e]
  BY <1>1
<1>3. x = [row EXCEPT !.net = m]
  BY DEF PostedReturn, ReturnRow
<1> HIDE DEF m, x
<1>4. /\ x \in ReturnRow /\ x.net = m
      /\ x.state = row.state /\ x.qty = row.qty /\ x.bucket = row.bucket
      /\ x.replaced = row.replaced
  BY <1>1, <1>3 DEF ReturnRow
<1>5. SumFunction(m) = SumFunction(row.net) + n
  <2> DEFINE f == row.net
  <2>1. f \in [Bucket -> Int] /\ m[b] = f[b] + n /\ \A e \in Bucket \ {b} : m[e] = f[e]
    BY <1>1, <1>2
  <2> HIDE DEF f
  <2>2. SumFunction(m) = SumFunction(f) + n
    BY <1>1, <2>1, BucketsFinite, SumPlus
  <2> QED BY <2>2 DEF f
<1> QED BY <1>2, <1>4, <1>5 DEF x

\* PostReturn.
LEMMA ReturnPosting ==
    ASSUME NEW w \in Tables, NEW c \in Return, NEW b \in Bucket, NEW n \in Int
    PROVE  LET x == PostReturn(w, c, b, n)
           IN  ReturnPosts(w, x, c) /\ x.ret[c] = PostedReturn(w.ret[c], b, n)
<1> DEFINE y == Post(w, "read", b, n)
           old == w.ret[c]
           row == PostedReturn(old, b, n)
           x == PutReturn(y, c, row)
<1>0. x = PostReturn(w, c, b, n)
  BY DEF PostReturn, PutReturn, Post
<1>1. "read" \in Scope /\ "fg" \in Scope
  BY DEF Scope
<1>2. /\ OnlyPool(w, y)
      /\ \A q \in Scope : Goods(y, q) = IF q = "read" THEN Goods(w, q) + n ELSE Goods(w, q)
  BY <1>1, PostChange
<1> HIDE DEF y
<1>3. old \in ReturnRow /\ y \in Tables
  BY <1>2 DEF Tables, OnlyPool
<1> HIDE DEF old
<1>4. row \in ReturnRow /\ SumFunction(row.net) = SumFunction(old.net) + n
  BY <1>3, PostedRow
<1> HIDE DEF row
<1>5. OnlyReturn(y, x, c) /\ x.ret[c] = row /\ x.pool = y.pool
  BY <1>3, <1>4, PutReturns
<1> HIDE DEF x
<1>6. OnlyReturn(w, x, c)
  BY <1>2, <1>5 DEF OnlyPool, OnlyReturn
<1>7. Goods(x, "fg") = Goods(w, "fg") /\ Goods(x, "read") = Goods(w, "read") + n
  BY <1>1, <1>2, <1>5 DEF Goods
<1>8. SumFunction(old.net) \in Int /\ Goods(w, "read") \in Int
  <2>1. old.net \in [Bucket -> Int]
    BY <1>3 DEF ReturnRow
  <2> QED BY <1>1, <2>1, NetType, GoodsType
<1>9. ReturnPosts(w, x, c)
  BY <1>4, <1>5, <1>6, <1>7, <1>8 DEF ReturnPosts, old
<1> QED BY <1>0, <1>5, <1>9 DEF row, old

\* The columns of the row that a posting leaves.
PostedAs(w, x, c, b, n) ==
    /\ x \in Tables /\ ReturnPosts(w, x, c) /\ x.ret[c] \in ReturnRow
    /\ x.ret[c].state = w.ret[c].state /\ x.ret[c].qty = w.ret[c].qty
    /\ x.ret[c].bucket = w.ret[c].bucket /\ x.ret[c].replaced = w.ret[c].replaced
    /\ \A e \in Bucket :
         x.ret[c].net[e] = IF e = b THEN w.ret[c].net[e] + n ELSE w.ret[c].net[e]

\* PostReturn, column by column.
LEMMA ReturnPosted ==
    ASSUME NEW w \in Tables, NEW c \in Return, NEW b \in Bucket, NEW n \in Int
    PROVE  PostedAs(w, PostReturn(w, c, b, n), c, b, n)
<1> DEFINE x == PostReturn(w, c, b, n)
           old == w.ret[c]
           row == PostedReturn(old, b, n)
<1>1. ReturnPosts(w, x, c) /\ x.ret[c] = row
  BY ReturnPosting
<1>2. old \in ReturnRow /\ x \in Tables
  BY <1>1 DEF Tables, ReturnPosts, OnlyReturn
<1> HIDE DEF x, old
<1>3. /\ row \in ReturnRow
      /\ row.state = old.state /\ row.qty = old.qty /\ row.bucket = old.bucket
      /\ row.replaced = old.replaced
      /\ \A e \in Bucket : row.net[e] = IF e = b THEN old.net[e] + n ELSE old.net[e]
  BY <1>2, PostedRow
<1> QED BY <1>1, <1>2, <1>3 DEF x, old, PostedAs

\* One posting after the other.
LEMMA ReturnPostsChain ==
    ASSUME NEW w, NEW y, NEW x, NEW c, ReturnPosts(w, y, c), ReturnPosts(y, x, c)
    PROVE  ReturnPosts(w, x, c)
BY DEF ReturnPosts, OnlyReturn

\* The row of a return agrees with itself and with its stock rows.
ReturnRowOK(row) ==
    /\ row.state = "IN_QC_HOLD" => row.bucket = "QC_HOLD"
    /\ row.state = "IN_REWORK" => row.bucket = "REWORK"
    /\ row.replaced > 0 => row.state = "APPROVED_TO_STOCK"
    /\ row.replaced \in {0, row.qty}
    /\ row.state # "SCRAPPED" => row.net = NetOfReturn(row)
    /\ \A b \in Bucket : row.net[b] >= 0

\* Where the goods of a return in some state are.
Places == {<<"IN_QC_HOLD", "QC_HOLD">>, <<"IN_REWORK", "REWORK">>, <<"APPROVED_TO_STOCK", "USABLE">>}
NetAt(row, b) == IF <<row.state, b>> \in Places THEN row.qty ELSE 0

LEMMA NetOf ==
    ASSUME NEW row \in ReturnRow
    PROVE  row.net = NetOfReturn(row) <=> \A b \in Bucket : row.net[b] = NetAt(row, b)
<1>1. /\ row.net \in [Bucket -> Int] /\ row.state \in ReturnState
  BY DEF ReturnRow
<1>2. /\ NetOfReturn(row) = [b \in Bucket |-> NetOfReturn(row)[b]]
      /\ \A b \in Bucket : NetOfReturn(row)[b] = NetAt(row, b)
  BY <1>1 DEF NetOfReturn, Nothing, NetAt, Places, ReturnState, Bucket
<1> DEFINE f == NetOfReturn(row)
           g == row.net
<1>3. f = [b \in Bucket |-> f[b]] /\ g = [b \in Bucket |-> g[b]]
  BY <1>1, <1>2
<1> HIDE DEF f, g
<1>4. g = f <=> \A b \in Bucket : g[b] = f[b]
  BY <1>3
<1> QED BY <1>2, <1>4 DEF f, g

\* Creation of a return.
LEMMA ReturnWrites ==
    ASSUME NEW w \in Tables, NEW r \in Request, r.op = "return",
           w.ret[r.c].state = "absent", ReturnRowOK(w.ret[r.c])
    PROVE  LET x == ReturnWrite(r, w)
           IN  /\ ReturnPosts(w, x, r.c) /\ ReturnRowOK(x.ret[r.c])
               /\ x.ret[r.c].qty = r.qty /\ x.ret[r.c].state # "absent"
<1> DEFINE c == r.c
           n == r.qty
           b == ReturnBucket(r)
           s == FirstState(r)
           row == [state |-> s, qty |-> n, bucket |-> b, net |-> Nothing, replaced |-> 0]
           y == PutReturn(w, c, row)
           in == PostReturn(y, c, b, n)
           twice == PostReturn(in, c, "QC_HOLD", n)
           out == PostReturn(twice, c, "QC_HOLD", -n)
           x == ReturnWrite(r, w)
<1>1. c \in Return /\ n \in Nat \ {0} /\ n \in Int /\ -n \in Int
  BY RequestFields
<1>2. /\ r.disposition \in Disposition
      /\ b \in Bucket /\ s \in ReturnState
      /\ s = "IN_QC_HOLD" => b = "QC_HOLD"
      /\ s = "IN_REWORK" => b = "REWORK"
      /\ s = "APPROVED_TO_STOCK" => b = "USABLE"
      /\ s = "SCRAPPED" <=> r.disposition = "SCRAP"
      /\ s # "absent"
  <2>1. r.disposition \in Disposition
    BY RequestForms DEF ReturnRequest
  <2> QED BY <2>1 DEF ReturnBucket, FirstState, Disposition, Bucket, ReturnState
<1>3. x = IF r.disposition # "SCRAP" THEN in ELSE out
  BY DEF ReturnWrite, PutReturn
<1>4. Nothing \in [Bucket -> Int] /\ \A e \in Bucket : Nothing[e] = 0
  BY DEF Nothing
<1>5. w.ret[c] \in ReturnRow /\ w.ret[c].net = Nothing
  BY <1>1 DEF Tables, ReturnRowOK, NetOfReturn
<1> HIDE DEF b, s, c, n
<1>6. row \in ReturnRow
  BY <1>1, <1>2, <1>4 DEF ReturnRow
<1>7. row.net = Nothing /\ row.state = s /\ row.qty = n /\ row.bucket = b /\ row.replaced = 0
  OBVIOUS
<1> HIDE DEF row
<1>8. ReturnPosts(w, y, c) /\ y.ret[c] = row
  BY <1>1, <1>5, <1>6, <1>7, RowOnly
<1> HIDE DEF y
<1>9. y \in Tables
  BY <1>8 DEF ReturnPosts, OnlyReturn
<1>10. PostedAs(y, in, c, b, n)
  BY <1>1, <1>2, <1>9, ReturnPosted
<1> HIDE DEF in
<1>11. ReturnPosts(w, in, c)
  BY <1>8, <1>10, ReturnPostsChain DEF PostedAs
<1>12. /\ in.ret[c].state = s /\ in.ret[c].qty = n /\ in.ret[c].bucket = b
       /\ in.ret[c].replaced = 0
       /\ \A e \in Bucket : in.ret[c].net[e] = IF e = b THEN n ELSE 0
  BY <1>1, <1>4, <1>7, <1>8, <1>10 DEF PostedAs
<1>13. CASE r.disposition # "SCRAP"
  <2>1. x = in
    BY <1>3, <1>13
  <2>2. \A e \in Bucket : in.ret[c].net[e] = NetAt(in.ret[c], e)
    BY <1>2, <1>12, <1>13 DEF NetAt, Places, ReturnState
  <2>3. in.ret[c].net = NetOfReturn(in.ret[c])
    BY <1>10, <2>2, NetOf DEF PostedAs
  <2>4. \A e \in Bucket : in.ret[c].net[e] >= 0
    BY <1>1, <1>12
  <2>5. ReturnRowOK(in.ret[c])
    BY <1>2, <1>12, <1>13, <2>3, <2>4 DEF ReturnRowOK
  <2> QED BY <1>2, <1>11, <1>12, <2>1, <2>5 DEF c, n
<1>14. CASE r.disposition = "SCRAP"
  <2>0. x = out /\ "QC_HOLD" \in Bucket
    BY <1>3, <1>14 DEF Bucket
  <2>a. in \in Tables
    BY <1>10 DEF PostedAs
  <2>1. PostedAs(in, twice, c, "QC_HOLD", n)
    BY <1>1, <2>0, <2>a, ReturnPosted
  <2> HIDE DEF twice
  <2> DEFINE m == -n
  <2>2. m \in Int /\ out = PostReturn(twice, c, "QC_HOLD", m) /\ twice \in Tables
    BY <1>1, <2>1 DEF PostedAs
  <2> HIDE DEF m
  <2>3. PostedAs(twice, out, c, "QC_HOLD", m)
    BY <1>1, <2>0, <2>2, ReturnPosted
  <2> HIDE DEF out
  <2>4. ReturnPosts(w, out, c)
    BY <1>11, <2>1, <2>3, ReturnPostsChain DEF PostedAs
  <2>7. /\ out.ret[c].state = s /\ out.ret[c].qty = n /\ out.ret[c].replaced = 0
        /\ \A e \in Bucket : out.ret[c].net[e] = in.ret[c].net[e]
    <3>1. \A e \in Bucket : in.ret[c].net[e] \in Int
      BY <1>10 DEF ReturnRow, PostedAs
    <3> QED BY <1>1, <1>12, <2>1, <2>3, <3>1 DEF m, PostedAs
  <2>8. \A e \in Bucket : out.ret[c].net[e] >= 0
    BY <1>1, <1>12, <2>7
  <2>9. ReturnRowOK(out.ret[c])
    BY <1>2, <1>14, <2>7, <2>8 DEF ReturnRowOK
  <2> QED BY <1>2, <2>0, <2>4, <2>7, <2>9 DEF c, n
<1> QED BY <1>13, <1>14

\* Final QC of a return.
LEMMA ReturnQcWrites ==
    ASSUME NEW v \in Tables, NEW w \in Tables, NEW r \in Request,
           r.op \in {"approve", "reworked", "approveRework"},
           v.ret[r.c] = w.ret[r.c], ReturnQcReadable(r, v), ReturnRowOK(w.ret[r.c])
    PROVE  LET x == ReturnQcWrite(r, v, w)
           IN  /\ ReturnPosts(w, x, r.c) /\ ReturnRowOK(x.ret[r.c])
               /\ x.ret[r.c].qty = w.ret[r.c].qty
               /\ x.ret[r.c].state # "absent" /\ w.ret[r.c].state # "absent"
<1> DEFINE c == r.c
           n == v.ret[r.c].qty
           m == -n
           from == Source(r.op)
           to == Target(r.op)
           s == Reached(r.op)
           old == w.ret[r.c]
           y == PostReturn(w, c, from, m)
           z == PostReturn(y, c, to, n)
           row == ReturnInspected(z.ret[c], r.op)
           x == PutReturn(z, c, row)
<1>1. c \in Return /\ n \in Nat /\ n \in Int /\ m \in Int /\ old \in ReturnRow /\ n = old.qty
  <2>1. c \in Return
    BY RequestFields DEF ReturnOps
  <2> QED BY <2>1 DEF Tables, ReturnRow
<1>2. /\ from \in Bucket /\ to \in Bucket /\ from # to /\ s \in ReturnState
      /\ old.state = Awaiting(r.op)
      /\ <<old.state, from>> \in Places /\ <<s, to>> \in Places
      /\ s # "absent" /\ old.state # "absent" /\ old.state # "SCRAPPED" /\ old.state # "APPROVED_TO_STOCK"
  BY DEF Source, Target, Reached, Awaiting, Bucket, ReturnState, Places, ReturnQcReadable
<1>3. /\ \A b \in Bucket : <<old.state, b>> \in Places <=> b = from
      /\ \A b \in Bucket : <<s, b>> \in Places <=> b = to
  BY <1>2 DEF Places
<1>4. ReturnQcWrite(r, v, w) = x
  BY DEF ReturnQcWrite, PutReturn
<1>5. /\ old.replaced = 0
      /\ \A b \in Bucket : old.net[b] = IF b = from THEN n ELSE 0
  <2>1. \A b \in Bucket : old.net[b] = NetAt(old, b)
    BY <1>1, <1>2, NetOf DEF ReturnRowOK
  <2>2. old.replaced = 0
    BY <1>1, <1>2 DEF ReturnRowOK, ReturnRow
  <2> QED BY <1>1, <1>3, <2>1, <2>2 DEF NetAt
<1>6. /\ s = "IN_QC_HOLD" => to = "QC_HOLD"
      /\ s # "IN_REWORK" /\ s # "SCRAPPED"
  BY DEF Reached, Target
<1> HIDE DEF n, m, from, to, s, c, old
<1>7. PostedAs(w, y, c, from, m)
  BY <1>1, <1>2, ReturnPosted
<1>a. y \in Tables
  BY <1>7 DEF PostedAs
<1> HIDE DEF y
<1>8. PostedAs(y, z, c, to, n)
  BY <1>1, <1>2, <1>a, ReturnPosted
<1>b. z \in Tables /\ z.ret[c] \in ReturnRow
  BY <1>8 DEF PostedAs
<1> HIDE DEF z
<1>9. /\ row \in ReturnRow /\ row.net = z.ret[c].net
      /\ row.qty = z.ret[c].qty /\ row.replaced = z.ret[c].replaced
      /\ row.state = s /\ row.bucket = to
  BY <1>2, <1>b DEF ReturnRow, ReturnInspected, to, s
<1> HIDE DEF row
<1>10. ReturnPosts(z, x, c) /\ x.ret[c] = row
  BY <1>1, <1>b, <1>9, RowOnly
<1> HIDE DEF x
<1>11. ReturnPosts(w, x, c)
  BY <1>7, <1>8, <1>10, ReturnPostsChain DEF PostedAs
<1>12. /\ row.qty = n /\ row.replaced = 0
       /\ \A e \in Bucket : row.net[e] = IF e = to THEN n ELSE 0
  <2>1. w.ret[c] = old
    BY DEF c, old
  <2>2. m = -n
    BY DEF m
  <2> QED BY <1>1, <1>2, <1>5, <1>7, <1>8, <1>9, <2>1, <2>2 DEF PostedAs
<1>13. row.net = NetOfReturn(row)
  <2>1. \A e \in Bucket : row.net[e] = NetAt(row, e)
    BY <1>3, <1>9, <1>12 DEF NetAt
  <2> QED BY <1>9, <2>1, NetOf
<1>14. ReturnRowOK(row)
  <2>1. \A e \in Bucket : row.net[e] >= 0
    BY <1>1, <1>12
  <2> QED BY <1>2, <1>6, <1>9, <1>12, <1>13, <2>1 DEF ReturnRowOK
<1> QED BY <1>1, <1>2, <1>4, <1>9, <1>10, <1>11, <1>12, <1>14 DEF c, old

\* Scrapping takes out of the return no more than it holds.
LEMMA ScrapWrites ==
    ASSUME NEW v \in Tables, NEW w \in Tables, NEW r \in Request, r.op = "scrapReturn",
           v.ret[r.c] = w.ret[r.c], ScrapReadable(r, v), ReturnRowOK(w.ret[r.c])
    PROVE  LET x == ScrapWrite(r, v, w)
           IN  /\ ReturnPosts(w, x, r.c) /\ ReturnRowOK(x.ret[r.c])
               /\ x.ret[r.c].qty = w.ret[r.c].qty
               /\ x.ret[r.c].state # "absent" /\ w.ret[r.c].state # "absent"
<1> DEFINE c == r.c
           m == -r.qty
           old == w.ret[r.c]
           from == v.ret[r.c].bucket
           y == PostReturn(w, c, from, m)
           row == [y.ret[c] EXCEPT !.state = "SCRAPPED"]
           x == PutReturn(y, c, row)
<1>1. c \in Return /\ r.qty \in Nat /\ m \in Int /\ old \in ReturnRow /\ from = old.bucket
  <2>1. c \in Return /\ r.qty \in Nat
    BY RequestFields DEF ReturnOps
  <2> QED BY <2>1 DEF Tables, ReturnRow
<1>2. /\ from \in Bucket /\ r.qty <= old.qty
      /\ <<old.state, from>> \in Places /\ \A b \in Bucket : <<old.state, b>> \in Places <=> b = from
      /\ old.state # "absent" /\ old.state # "SCRAPPED" /\ old.state # "APPROVED_TO_STOCK"
  BY <1>1 DEF ScrapReadable, Places, Bucket, ReturnRowOK
<1>3. ScrapWrite(r, v, w) = x
  BY DEF ScrapWrite, PutReturn
<1>4. /\ old.replaced = 0
      /\ \A b \in Bucket : old.net[b] = IF b = from THEN old.qty ELSE 0
  <2>1. \A b \in Bucket : old.net[b] = NetAt(old, b)
    BY <1>1, <1>2, NetOf DEF ReturnRowOK
  <2>2. old.replaced = 0
    BY <1>1, <1>2 DEF ReturnRowOK, ReturnRow
  <2> QED BY <1>2, <2>1, <2>2 DEF NetAt
<1>5. "SCRAPPED" \in ReturnState /\ old.qty \in Nat
  BY <1>1 DEF ReturnState, ReturnRow
<1> HIDE DEF m, from, c, old
<1>6. PostedAs(w, y, c, from, m)
  BY <1>1, <1>2, ReturnPosted
<1>a. y \in Tables /\ y.ret[c] \in ReturnRow
  BY <1>6 DEF PostedAs
<1> HIDE DEF y
<1>7. /\ row \in ReturnRow /\ row.net = y.ret[c].net
      /\ row.qty = y.ret[c].qty /\ row.replaced = y.ret[c].replaced /\ row.state = "SCRAPPED"
  BY <1>5, <1>a DEF ReturnRow
<1> HIDE DEF row
<1>8. ReturnPosts(y, x, c) /\ x.ret[c] = row
  BY <1>1, <1>a, <1>7, RowOnly
<1> HIDE DEF x
<1>9. ReturnPosts(w, x, c)
  BY <1>6, <1>8, ReturnPostsChain DEF PostedAs
<1>10. /\ row.qty = old.qty /\ row.replaced = 0
       /\ \A e \in Bucket : row.net[e] >= 0
  <2>1. w.ret[c] = old
    BY DEF c, old
  <2>2. m = -r.qty
    BY DEF m
  <2> QED BY <1>1, <1>2, <1>4, <1>5, <1>6, <1>7, <2>1, <2>2 DEF PostedAs
<1>11. ReturnRowOK(row)
  BY <1>7, <1>10 DEF ReturnRowOK
<1> QED BY <1>2, <1>3, <1>7, <1>8, <1>9, <1>10, <1>11 DEF c, old

\* The replacement order covers the whole return, once.
LEMMA ReplaceWrites ==
    ASSUME NEW v \in Tables, NEW w \in Tables, NEW r \in Request, r.op = "replace",
           v.ret[r.c] = w.ret[r.c], ReplaceReadable(r, v), ReturnRowOK(w.ret[r.c])
    PROVE  LET x == ReplaceWrite(r, v, w)
           IN  /\ ReturnPosts(w, x, r.c) /\ ReturnRowOK(x.ret[r.c])
               /\ x.ret[r.c].qty = w.ret[r.c].qty
               /\ x.ret[r.c].state # "absent" /\ w.ret[r.c].state # "absent"
<1> DEFINE c == r.c
           old == w.ret[r.c]
           n == v.ret[r.c].qty - v.ret[r.c].replaced
           row == [old EXCEPT !.replaced = n]
           x == PutReturn(w, c, row)
<1>1. c \in Return /\ old \in ReturnRow /\ old.qty \in Nat /\ old.replaced \in Nat
  <2>1. c \in Return
    BY RequestFields DEF ReturnOps
  <2> QED BY <2>1 DEF Tables, ReturnRow
<1>2. n = old.qty /\ n \in Nat /\ old.state = "APPROVED_TO_STOCK"
  BY <1>1 DEF ReplaceReadable, ReturnRowOK
<1>3. ReplaceWrite(r, v, w) = x
  BY DEF ReplaceWrite, PutReturn
<1>4. ReturnRowOK(old) /\ w.ret[c] = old
  OBVIOUS
<1> HIDE DEF n, c, old
<1>5. /\ row \in ReturnRow /\ row.net = old.net /\ row.state = old.state
      /\ row.bucket = old.bucket /\ row.qty = old.qty /\ row.replaced = n
  BY <1>1, <1>2 DEF ReturnRow
<1>6. NetOfReturn(row) = NetOfReturn(old)
  BY <1>5 DEF NetOfReturn
<1> HIDE DEF row
<1>7. ReturnPosts(w, x, c) /\ x.ret[c] = row
  BY <1>1, <1>4, <1>5, RowOnly
<1>8. ReturnRowOK(row)
  BY <1>2, <1>4, <1>5, <1>6 DEF ReturnRowOK
<1> QED BY <1>2, <1>3, <1>4, <1>5, <1>7, <1>8 DEF c

(***************************************************************************)
(* Lots of rejected goods.                                                 *)
(***************************************************************************)

\* x differs from w in the rows of lots, their balances and the pooled balances only,
\* and no scope holds more or less.
LotMove(w, x) ==
    /\ x \in Tables /\ x.entry = w.entry /\ x.ret = w.ret /\ x.adj = w.adj
    /\ x.opening = w.opening
    /\ \A q \in Scope : Goods(x, q) = Goods(w, q)

\* As far as the balances of lots are concerned: only those of d, and of e, may differ.
Waiting == {"REWORK", "QC_PENDING"}

OwnedSame(w, x, ds) ==
    \A f \in Lot \ ds : \A b \in Waiting : Owned(x, f, b) = Owned(w, f, b)

\* One after the other.
LEMMA LotMoveChain ==
    ASSUME NEW w, NEW y, NEW x, LotMove(w, y), LotMove(y, x)
    PROVE  LotMove(w, x)
BY DEF LotMove

\* Rows of lots replaced by others.
PutLots(w, L) == [w EXCEPT !.lot = L]

LEMMA LotsOnly ==
    ASSUME NEW w \in Tables, NEW L \in [Lot -> LotRow]
    PROVE  LotMove(w, PutLots(w, L)) /\ PutLots(w, L).own = w.own
BY DEF LotMove, PutLots, Tables, Goods

\* One row of a lot replaced by another.
PutLot(w, d, row) == [w EXCEPT !.lot[d] = row]

LEMMA LotOnly ==
    ASSUME NEW w \in Tables, NEW d \in Lot, NEW row \in LotRow
    PROVE  LotMove(w, PutLot(w, d, row)) /\ PutLot(w, d, row).own = w.own
<1> DEFINE L == [w.lot EXCEPT ![d] = row]
<1>1. L \in [Lot -> LotRow]
  BY DEF Tables
<1>2. PutLot(w, d, row) = PutLots(w, L)
  BY DEF PutLot, PutLots, Tables
<1> HIDE DEF L
<1> QED BY <1>1, <1>2, LotsOnly

\* Rows of lots that handlers write.
LEMMA LotRows ==
    ASSUME NEW row \in LotRow, NEW s \in LotState, NEW n \in Nat
    PROVE  Left(row, s, n) \in LotRow /\ NewLotRow(s, n) \in LotRow
BY DEF Left, NewLotRow, NoLotRow, LotRow

\* A new state.
LEMMA StateOnly ==
    ASSUME NEW w \in Tables, NEW d \in Lot, NEW s \in LotState
    PROVE  LotMove(w, SetState(w, d, s)) /\ SetState(w, d, s).own = w.own
<1> DEFINE row == [w.lot[d] EXCEPT !.state = s]
<1>1. row \in LotRow
  BY DEF Tables, LotRow
<1>2. SetState(w, d, s) = PutLot(w, d, row)
  BY DEF SetState, PutLot
<1> HIDE DEF row
<1> QED BY <1>1, <1>2, LotOnly

\* The promotion of lots.
LEMMA PromoteOnly ==
    ASSUME NEW w \in Tables, NEW ds
    PROVE  LotMove(w, Promote(w, ds)) /\ Promote(w, ds).own = w.own
<1> DEFINE L == [d \in Lot |-> IF d \in ds THEN [w.lot[d] EXCEPT !.state = "REWORK_READY_FOR_QC"]
                               ELSE w.lot[d]]
<1>1. L \in [Lot -> LotRow]
  BY DEF Tables, LotRow, LotState
<1>2. Promote(w, ds) = PutLots(w, L)
  BY DEF Promote, PutLots
<1> HIDE DEF L
<1> QED BY <1>1, <1>2, LotsOnly

\* Paired rows with owners.
MovedOwned(w, x, d, e, from, to, n) ==
    /\ LotMove(w, x) /\ x.lot = w.lot
    /\ \A f \in Lot, b \in Bucket :
         Owned(x, f, b) = Owned(w, f, b) + (IF f = d /\ b = from THEN -n ELSE 0)
                                         + (IF f = e /\ b = to THEN n ELSE 0)

\* TransferOwned.
LEMMA OwnedTransfer ==
    ASSUME NEW w \in Tables, NEW d \in Lot, NEW e \in Lot,
           NEW from \in Bucket, NEW to \in Bucket, NEW n \in Int
    PROVE  MovedOwned(w, TransferOwned(w, d, e, from, to, n), d, e, from, to, n)
<1> DEFINE m == -n
           y == PostOwned(w, d, "read", from, m)
           x == PostOwned(y, e, "read", to, n)
<1>0. x = TransferOwned(w, d, e, from, to, n)
  BY DEF TransferOwned
<1>1. m \in Int /\ "read" \in Scope /\ m = -n
  BY DEF Scope
<1> HIDE DEF m
<1>2. OwnPosted(w, y, d, "read", from, m)
  BY <1>1, PostOwnedChange
<1> HIDE DEF y
<1>3. y \in Tables
  BY <1>2 DEF OwnPosted, OnlyStock
<1>4. OwnPosted(y, x, e, "read", to, n)
  BY <1>1, <1>3, PostOwnedChange
<1> HIDE DEF x
<1>5. LotMove(w, x) /\ x.lot = w.lot
  <2>1. \A q \in Scope : Goods(w, q) \in Int
    BY GoodsType
  <2> QED BY <1>1, <1>2, <1>4, <2>1 DEF LotMove, OnlyStock, OwnPosted
<1>6. ASSUME NEW f \in Lot, NEW b \in Bucket
      PROVE  Owned(x, f, b) = Owned(w, f, b) + (IF f = d /\ b = from THEN -n ELSE 0)
                                             + (IF f = e /\ b = to THEN n ELSE 0)
  <2>1. w.own[f]["read"][b] \in Int
    BY <1>1 DEF Tables, Balance
  <2>2. /\ y.own[f]["read"][b] = IF f = d /\ b = from THEN w.own[f]["read"][b] + m
                                 ELSE w.own[f]["read"][b]
        /\ x.own[f]["read"][b] = IF f = e /\ b = to THEN y.own[f]["read"][b] + n
                                 ELSE y.own[f]["read"][b]
    BY <1>1, <1>2, <1>4 DEF OwnPosted
  <2> QED BY <1>1, <2>1, <2>2 DEF Owned
<1> QED BY <1>0, <1>5, <1>6 DEF MovedOwned

\* What a lot owns are numbers.
LEMMA OwnedType ==
    ASSUME NEW w \in Tables, NEW d \in Lot, NEW b \in Bucket PROVE Owned(w, d, b) \in Int
BY DEF Owned, Tables, Balance, Scope

\* The smallest and the largest of two.
LEMMA Extremes ==
    ASSUME NEW m \in Int, NEW n \in Int
    PROVE  Min({m, n}) = (IF m <= n THEN m ELSE n) /\ Max({m, n}) = (IF m <= n THEN n ELSE m)
BY DEF Min, Max

\* A write that leaves the stock of the lots outside ds alone and no lot in debt.
LotWrite(w, x, ds) ==
    /\ LotMove(w, x) /\ OwnedSame(w, x, ds)
    /\ \A d \in Lot : \A b \in Waiting : Owned(w, d, b) >= 0 => Owned(x, d, b) >= 0

\* A write that moves no stock of any lot.
LEMMA RowsAlone ==
    ASSUME NEW w, NEW x, LotMove(w, x), x.own = w.own, NEW ds
    PROVE  LotWrite(w, x, ds)
BY DEF LotWrite, OwnedSame, Owned

\* One after the other.
LEMMA LotWriteChain ==
    ASSUME NEW w, NEW y, NEW x, NEW ds, LotWrite(w, y, ds), LotWrite(y, x, ds)
    PROVE  LotWrite(w, x, ds)
<1>1. LotMove(w, x)
  BY LotMoveChain DEF LotWrite
<1> QED BY <1>1 DEF LotWrite, OwnedSame

\* Goods leave QC_HOLD for their own lot or a new one.
LEMMA OutOfHold ==
    ASSUME NEW w \in Tables, NEW d \in Lot, NEW e \in Lot, NEW to \in Bucket, NEW n \in Nat
    PROVE  LotWrite(w, TransferOwned(w, d, e, "QC_HOLD", to, n), {d, e})
<1> DEFINE x == TransferOwned(w, d, e, "QC_HOLD", to, n)
<1>1. MovedOwned(w, x, d, e, "QC_HOLD", to, n)
  BY OwnedTransfer DEF Bucket
<1> HIDE DEF x
<1>2. \A f \in Lot, b \in Waiting :
        Owned(w, f, b) \in Int /\ Owned(x, f, b) = Owned(w, f, b) + IF f = e /\ b = to THEN n ELSE 0
  <2> SUFFICES ASSUME NEW f \in Lot, NEW b \in Waiting
               PROVE  Owned(w, f, b) \in Int /\
                      Owned(x, f, b) = Owned(w, f, b) + IF f = e /\ b = to THEN n ELSE 0
    OBVIOUS
  <2>1. b \in Bucket /\ b # "QC_HOLD"
    BY DEF Waiting, Bucket
  <2>2. Owned(w, f, b) \in Int
    BY <2>1, OwnedType
  <2>3. Owned(x, f, b) = Owned(w, f, b) + (IF f = d /\ b = "QC_HOLD" THEN -n ELSE 0)
                                        + (IF f = e /\ b = to THEN n ELSE 0)
    BY <1>1, <2>1 DEF MovedOwned
  <2> QED BY <2>1, <2>2, <2>3
<1>3. LotWrite(w, x, {d, e})
  BY <1>1, <1>2 DEF LotWrite, OwnedSame, MovedOwned
<1> QED BY <1>3 DEF x

\* A row with what is left written after the stock rows.
LEMMA LeftWrite ==
    ASSUME NEW w \in Tables, NEW y \in Tables, NEW d \in Lot, NEW ds, LotWrite(w, y, ds),
           NEW s \in LotState, NEW n \in Nat
    PROVE  LotWrite(w, PutLot(y, d, Left(y.lot[d], s, n)), ds)
<1> DEFINE row == Left(y.lot[d], s, n)
           x == PutLot(y, d, row)
<1>1. row \in LotRow
  BY LotRows DEF Tables
<1> HIDE DEF row
<1>2. LotMove(y, x) /\ x.own = y.own
  BY <1>1, LotOnly
<1> HIDE DEF x
<1>3. LotWrite(y, x, ds)
  BY <1>2, RowsAlone
<1>4. LotWrite(w, x, ds)
  BY <1>3, LotWriteChain
<1> QED BY <1>4 DEF x, row

\* What a lot has in QC_HOLD of what is left of it.
LEMMA MovableType ==
    ASSUME NEW v \in Tables, NEW d \in Lot PROVE Movable(v, d) \in Int
<1>1. v.lot[d].rem \in Int /\ Owned(v, d, "QC_HOLD") \in Int
  BY OwnedType DEF Tables, LotRow, Bucket
<1> QED BY <1>1, Extremes DEF Movable

\* The decision of the supervisor.
LEMMA DecideWrites ==
    ASSUME NEW v \in Tables, NEW w \in Tables, NEW r \in Request, r.op = "decide",
           DecideAllowed(r, v)
    PROVE  LotWrite(w, DecideWrite(r, v, w), {r.d})
<1> DEFINE d == r.d
           ds == {r.d}
           n == Movable(v, r.d)
           p == Promote(w, Stale(v))
           x == DecideWrite(r, v, w)
           ready == AlreadyReady(r, Promote(v, Stale(v)))
<1>1. d \in Lot /\ r.decision \in {"APPROVE", "HOLD", "SCRAP"} /\ ds = {d, d} /\ n \in Int
  BY RequestForms, MovableType DEF DecideRequest
<1>2. ~ready /\ r.decision # "HOLD" => n > 0
  BY DEF DecideAllowed
<1>3. x = IF ready THEN p ELSE Decided(r, v, p)
  BY DEF DecideWrite
<1>4. Decided(r, v, p) =
        CASE r.decision = "APPROVE" ->
               SetState(TransferOwned(p, d, d, "QC_HOLD", "REWORK", n), d, "REWORK_READY_FOR_QC")
          [] r.decision = "HOLD" -> SetState(p, d, "HOLD")
          [] r.decision = "SCRAP" ->
               LET y == TransferOwned(p, d, d, "QC_HOLD", "SCRAP", n)
               IN  PutLot(y, d, Left(y.lot[d], "SCRAP", 0))
  BY DEF Decided, PutLot
<1>5. /\ {"REWORK_READY_FOR_QC", "HOLD", "SCRAP"} \subseteq LotState
      /\ {"REWORK", "SCRAP"} \subseteq Bucket
  BY DEF LotState, Bucket
<1> HIDE DEF d, n, x, ready, ds
<1>6. p \in Tables /\ LotWrite(w, p, ds)
  BY PromoteOnly, RowsAlone DEF LotMove
<1> HIDE DEF p
<1>7. CASE ready \/ r.decision = "HOLD"
  <2>1. LotWrite(p, SetState(p, d, "HOLD"), ds)
    BY <1>1, <1>5, <1>6, StateOnly, RowsAlone
  <2>2. LotWrite(w, SetState(p, d, "HOLD"), ds)
    BY <1>6, <2>1, LotWriteChain
  <2>3. x = p \/ x = SetState(p, d, "HOLD")
    BY <1>3, <1>4, <1>7
  <2> QED BY <1>6, <2>2, <2>3 DEF x, ds
<1>8. CASE ~ready /\ r.decision = "APPROVE"
  <2> DEFINE y == TransferOwned(p, d, d, "QC_HOLD", "REWORK", n)
             z == SetState(y, d, "REWORK_READY_FOR_QC")
  <2>0. x = z
    BY <1>3, <1>4, <1>8
  <2>1. LotWrite(p, y, ds)
    BY <1>1, <1>2, <1>5, <1>6, <1>8, OutOfHold
  <2> HIDE DEF y
  <2>2. y \in Tables
    BY <2>1 DEF LotWrite, LotMove
  <2>3. LotWrite(y, z, ds)
    BY <1>1, <1>5, <2>2, StateOnly, RowsAlone
  <2> HIDE DEF z
  <2>4. LotWrite(w, z, ds)
    BY <1>6, <2>1, <2>3, LotWriteChain
  <2> QED BY <2>0, <2>4 DEF x, ds
<1>9. CASE ~ready /\ r.decision = "SCRAP"
  <2> DEFINE y == TransferOwned(p, d, d, "QC_HOLD", "SCRAP", n)
             z == PutLot(y, d, Left(y.lot[d], "SCRAP", 0))
  <2>0. x = z
    BY <1>3, <1>4, <1>9
  <2>1. LotWrite(p, y, ds)
    BY <1>1, <1>2, <1>5, <1>6, <1>9, OutOfHold
  <2> HIDE DEF y
  <2>2. y \in Tables
    BY <2>1 DEF LotWrite, LotMove
  <2>3. LotWrite(p, z, ds)
    BY <1>1, <1>5, <1>6, <2>1, <2>2, LeftWrite
  <2> HIDE DEF z
  <2>4. LotWrite(w, z, ds)
    BY <1>6, <2>3, LotWriteChain
  <2> QED BY <2>0, <2>4 DEF x, ds
<1> QED BY <1>1, <1>7, <1>8, <1>9

\* mark-rework-executed moves no stock.
LEMMA MarkWrites ==
    ASSUME NEW v \in Tables, NEW w \in Tables, NEW r \in Request, r.op = "mark"
    PROVE  LotWrite(w, MarkWrite(r, v, w), {})
<1>1. r.d \in Lot /\ "REWORK_READY_FOR_QC" \in LotState
  BY RequestFields DEF LotOps, LotState
<1> QED BY <1>1, StateOnly, RowsAlone DEF MarkWrite

\* Neither do the queues.
LEMMA QueueWrites ==
    ASSUME NEW v \in Tables, NEW w \in Tables, NEW r \in Request, r.op = "queue"
    PROVE  LotWrite(w, QueueWrite(r, v, w), {})
BY PromoteOnly, RowsAlone DEF QueueWrite

\* The decisions on held goods.
LEMMA HoldWrites ==
    ASSUME NEW v \in Tables, NEW w \in Tables, NEW r \in Request, r.op = "hold"
    PROVE  LotWrite(w, HoldWrite(r, v, w), {r.d} \cup Draws(r))
<1> DEFINE d == r.d
           e == r.new
           ds == {r.d} \cup Draws(r)
           i == r.rework
           j == r.scrap
           k == r.usable
           rem == v.lot[r.d].rem - Parts(r)
           n == Max({0, rem})
           s == HeldState(r, rem)
           a == SplitOff(r, w)
           b == TransferOwned(a, d, d, "QC_HOLD", "SCRAP", j)
           c == TransferOwned(b, d, d, "QC_HOLD", "USABLE", k)
           x == PutLot(c, d, Left(c.lot[d], s, n))
<1>1. /\ d \in Lot /\ e \in Lot \cup {NoLot} /\ i \in Nat /\ j \in Nat /\ k \in Nat
      /\ i > 0 <=> e # NoLot
      /\ ds = {d} \cup ({e} \ {NoLot})
  <2>1. d \in Lot
    BY RequestFields DEF LotOps
  <2> QED BY <2>1, RequestFields DEF Draws
<1>2. n \in Nat /\ s \in LotState
  <2>1. rem \in Int
    BY <1>1 DEF Tables, LotRow, Parts
  <2> HIDE DEF rem
  <2>2. n \in Nat
    BY <2>1, Extremes
  <2>3. s \in LotState
    BY DEF HeldState, LotState
  <2> QED BY <2>2, <2>3
<1>3. HoldWrite(r, v, w) = x
  BY DEF HoldWrite, PutLot
<1>4. a = IF i = 0 THEN w
          ELSE PutLot(TransferOwned(w, d, e, "QC_HOLD", "REWORK", i), e,
                      NewLotRow("REWORK_READY_FOR_QC", i))
  BY DEF SplitOff, PutLot
<1>5. "REWORK_READY_FOR_QC" \in LotState /\ {"REWORK", "SCRAP", "USABLE"} \subseteq Bucket
  BY DEF LotState, Bucket
<1> HIDE DEF n, s, d, e, i, j, k, ds
<1>6. LotWrite(w, a, ds) /\ a \in Tables
  <2>1. CASE i = 0
    <3>1. LotMove(w, w)
      BY DEF LotMove
    <3> QED BY <1>4, <2>1, <3>1, RowsAlone
  <2>2. CASE i # 0
    <3> DEFINE y == TransferOwned(w, d, e, "QC_HOLD", "REWORK", i)
               row == NewLotRow("REWORK_READY_FOR_QC", i)
               z == PutLot(y, e, row)
    <3>1. e \in Lot /\ ds = {d, e}
      BY <1>1, <2>2
    <3>2. LotWrite(w, y, {d, e})
      BY <1>1, <1>5, <3>1, OutOfHold
    <3> HIDE DEF y
    <3>3. y \in Tables /\ row \in LotRow
      <4>1. y.lot[e] \in LotRow
        BY <3>1, <3>2 DEF LotWrite, LotMove, Tables
      <4> QED BY <1>1, <1>5, <3>2, <4>1, LotRows DEF LotWrite, LotMove
    <3> HIDE DEF row
    <3>4. LotMove(y, z) /\ z.own = y.own
      BY <3>1, <3>3, LotOnly
    <3> HIDE DEF z
    <3>5. LotWrite(y, z, ds)
      BY <3>4, RowsAlone
    <3>6. LotWrite(w, z, ds)
      BY <3>1, <3>2, <3>5, LotWriteChain
    <3>7. a = z
      BY <1>4, <2>2 DEF z, y, row
    <3> QED BY <3>6, <3>7 DEF LotWrite, LotMove
  <2> QED BY <2>1, <2>2
<1> HIDE DEF a
<1>7. LotWrite(a, b, {d, d})
  BY <1>1, <1>5, <1>6, OutOfHold
<1> HIDE DEF b
<1>8. b \in Tables
  BY <1>7 DEF LotWrite, LotMove
<1>9. LotWrite(b, c, {d, d})
  BY <1>1, <1>5, <1>8, OutOfHold
<1> HIDE DEF c
<1>10. c \in Tables
  BY <1>9 DEF LotWrite, LotMove
<1>11. LotWrite(a, b, ds) /\ LotWrite(b, c, ds)
  BY <1>1, <1>7, <1>9 DEF LotWrite, OwnedSame
<1>12. LotWrite(w, c, ds)
  <2>1. LotWrite(w, b, ds)
    BY <1>6, <1>11, LotWriteChain
  <2> QED BY <1>11, <2>1, LotWriteChain
<1>13. LotWrite(w, x, ds)
  BY <1>1, <1>2, <1>10, <1>12, LeftWrite
<1> QED BY <1>3, <1>13 DEF ds

\* The final QC takes out what the lot has, since it knows what that is.
LEMMA RecheckWrites ==
    ASSUME NEW v \in Tables, NEW w \in Tables, NEW r \in Request, r.op = "recheck",
           \A b \in Waiting : Owned(v, r.d, b) = Owned(w, r.d, b) /\ Owned(w, r.d, b) >= 0
    PROVE  LotWrite(w, RecheckWrite(r, v, w), {r.d})
<1> DEFINE d == r.d
           i == -Positive(Owned(v, r.d, "REWORK"))
           j == -Positive(Owned(v, r.d, "QC_PENDING"))
           k == (Owned(v, r.d, "REWORK") + Owned(v, r.d, "QC_PENDING")) - r.rejected
           m == r.rejected
           a == PostOwned(w, d, "read", "REWORK", i)
           b == PostOwned(a, d, "read", "QC_PENDING", j)
           c == PostOwned(b, d, "read", "USABLE", k)
           e == PostOwned(c, d, "read", "SCRAP", m)
           x == PutLot(e, d, Left(e.lot[d], "CLOSED", 0))
<1>1. d \in Lot /\ m \in Nat
  BY RequestFields DEF LotOps
<1>2. /\ Owned(v, d, "REWORK") \in Int /\ Owned(v, d, "QC_PENDING") \in Int
      /\ Owned(v, d, "REWORK") >= 0 /\ Owned(v, d, "QC_PENDING") >= 0
  BY <1>1, OwnedType DEF Bucket, Waiting
<1>3. i = -Owned(w, d, "REWORK") /\ j = -Owned(w, d, "QC_PENDING")
  <2>1. \A h \in Int : h >= 0 => Positive(h) = h
    BY Extremes DEF Positive
  <2>2. Owned(v, d, "REWORK") = Owned(w, d, "REWORK") /\ Owned(v, d, "QC_PENDING") = Owned(w, d, "QC_PENDING")
    BY DEF Waiting
  <2> QED BY <1>2, <2>1, <2>2
<1>4. i \in Int /\ j \in Int /\ k \in Int /\ m \in Int /\ i + j + k + m = 0
  BY <1>1, <1>2, <1>3 DEF Waiting
<1>5. RecheckWrite(r, v, w) = x
  <2>1. RecheckWrite(r, v, w) = [e EXCEPT !.lot[d] = Left(@, "CLOSED", 0)]
    BY DEF RecheckWrite
  <2> HIDE DEF e
  <2> QED BY <2>1 DEF PutLot
<1>6. /\ "read" \in Scope /\ {"REWORK", "QC_PENDING", "USABLE", "SCRAP"} \subseteq Bucket
      /\ "CLOSED" \in LotState
  BY DEF Scope, Bucket, LotState
<1> HIDE DEF d, i, j, k, m
<1>7. OwnPosted(w, a, d, "read", "REWORK", i)
  BY <1>1, <1>4, <1>6, PostOwnedChange
<1> HIDE DEF a
<1>8. a \in Tables
  BY <1>7 DEF OwnPosted, OnlyStock
<1>9. OwnPosted(a, b, d, "read", "QC_PENDING", j)
  BY <1>1, <1>4, <1>6, <1>8, PostOwnedChange
<1> HIDE DEF b
<1>10. b \in Tables
  BY <1>9 DEF OwnPosted, OnlyStock
<1>11. OwnPosted(b, c, d, "read", "USABLE", k)
  BY <1>1, <1>4, <1>6, <1>10, PostOwnedChange
<1> HIDE DEF c
<1>12. c \in Tables
  BY <1>11 DEF OwnPosted, OnlyStock
<1>13. OwnPosted(c, e, d, "read", "SCRAP", m)
  BY <1>1, <1>4, <1>6, <1>12, PostOwnedChange
<1> HIDE DEF e
<1>14. e \in Tables
  BY <1>13 DEF OwnPosted, OnlyStock
<1>15. LotMove(w, e)
  <2>1. \A q \in Scope : Goods(w, q) \in Int
    BY GoodsType
  <2>2. \A q \in Scope : Goods(e, q) = Goods(w, q)
    BY <1>4, <1>7, <1>9, <1>11, <1>13, <2>1 DEF OwnPosted
  <2> QED BY <1>7, <1>9, <1>11, <1>13, <1>14, <2>2 DEF LotMove, OnlyStock, OwnPosted
<1>16. \A f \in Lot, g \in Waiting : Owned(e, f, g) = IF f = d THEN 0 ELSE Owned(w, f, g)
  <2> SUFFICES ASSUME NEW f \in Lot, NEW g \in Waiting
               PROVE  Owned(e, f, g) = IF f = d THEN 0 ELSE Owned(w, f, g)
    OBVIOUS
  <2>1. /\ a.own[f]["read"][g] = IF f = d /\ g = "REWORK" THEN w.own[f]["read"][g] + i
                                 ELSE w.own[f]["read"][g]
        /\ b.own[f]["read"][g] = IF f = d /\ g = "QC_PENDING" THEN a.own[f]["read"][g] + j
                                 ELSE a.own[f]["read"][g]
        /\ c.own[f]["read"][g] = b.own[f]["read"][g]
        /\ e.own[f]["read"][g] = c.own[f]["read"][g]
    BY <1>6, <1>7, <1>9, <1>11, <1>13 DEF Waiting, OwnPosted
  <2>2. w.own[f]["read"][g] \in Int
    BY DEF Tables, Balance, Waiting, Bucket, Scope
  <2> QED BY <1>3, <2>1, <2>2 DEF Owned, Waiting
<1>17. LotWrite(w, e, {d})
  BY <1>15, <1>16 DEF LotWrite, OwnedSame
<1>18. LotWrite(w, x, {d})
  BY <1>1, <1>6, <1>14, <1>17, LeftWrite
<1> QED BY <1>5, <1>18 DEF d

(***************************************************************************)
(* QC entries.                                                             *)
(***************************************************************************)

\* x is w with n more in scope p; no lot waits for more or less than before.
Booked(w, x, p, n) ==
    /\ x \in Tables /\ x.entry = w.entry /\ x.ret = w.ret /\ x.adj = w.adj
    /\ x.opening = w.opening
    /\ OwnedSame(w, x, {})
    /\ \A q \in Scope : Goods(x, q) = IF q = p THEN Goods(w, q) + n ELSE Goods(w, q)

\* One after the other.
LEMMA BookedChain ==
    ASSUME NEW w \in Tables, NEW y, NEW x, NEW p, NEW m \in Int, NEW n \in Int, NEW k,
           Booked(w, y, p, m), Booked(y, x, p, n), k = m + n
    PROVE  Booked(w, x, p, k)
<1>1. \A q \in Scope : Goods(w, q) \in Int
  BY GoodsType
<1>2. \A q \in Scope : Goods(x, q) = IF q = p THEN Goods(w, q) + k ELSE Goods(w, q)
  BY <1>1 DEF Booked
<1> QED BY <1>2 DEF Booked, OwnedSame

\* Post.
LEMMA PostBooks ==
    ASSUME NEW w \in Tables, NEW p \in Scope, NEW b \in Bucket, NEW n \in Int
    PROVE  Booked(w, Post(w, p, b, n), p, n)
BY PostChange DEF Booked, OnlyPool, OwnedSame, Owned

\* PostOwned, but for the balances that wait.
LEMMA PostOwnedBooks ==
    ASSUME NEW w \in Tables, NEW d \in Lot, NEW p \in Scope, NEW b \in Bucket, NEW n \in Int,
           p = "read" => b \notin Waiting
    PROVE  Booked(w, PostOwned(w, d, p, b, n), p, n)
<1> DEFINE x == PostOwned(w, d, p, b, n)
<1>1. OwnPosted(w, x, d, p, b, n)
  BY PostOwnedChange
<1> HIDE DEF x
<1>2. OwnedSame(w, x, {})
  BY <1>1 DEF OwnPosted, OwnedSame, Owned, Waiting, Scope, Bucket
<1>3. Booked(w, x, p, n)
  BY <1>1, <1>2 DEF OwnPosted, OnlyStock, Booked
<1> QED BY <1>3 DEF x

\* Rows of lots.
LEMMA LotBooks ==
    ASSUME NEW w \in Tables, NEW x, LotMove(w, x), x.own = w.own, NEW p, NEW n, n = 0
    PROVE  Booked(w, x, p, n)
<1>1. \A q \in Scope : Goods(w, q) \in Int
  BY GoodsType
<1> QED BY <1>1 DEF LotMove, Booked, OwnedSame, Owned

\* The part of rejects that gets a lot.
LEMMA PostLotBooks ==
    ASSUME NEW w \in Tables, NEW q \in Entry, NEW k \in {"rework", "hold"},
           NEW s \in LotState, NEW n \in Nat, n > 0 => PartLot[q][k] # NoLot
    PROVE  Booked(w, PostLot(w, q, k, s, n), "fg", n)
<1> DEFINE d == PartLot[q][k]
           y == PostOwned(w, d, "fg", PartBucket(k), n)
           row == NewLotRow(s, n)
           x == PutLot(y, d, row)
<1>0. PostLot(w, q, k, s, n) = IF n = 0 THEN w ELSE x
  BY DEF PostLot, QcScope, PutLot
<1>1. "fg" \in Scope /\ PartBucket(k) \in Bucket /\ n \in Int
  BY DEF Scope, PartBucket, Bucket
<1>2. CASE n = 0
  <2>1. LotMove(w, w)
    BY DEF LotMove
  <2> QED BY <1>0, <1>2, <2>1, LotBooks
<1>3. CASE n # 0
  <2>1. d \in Lot
    BY <1>3, StockAssumption DEF LotKind, Part
  <2> HIDE DEF d
  <2>2. Booked(w, y, "fg", n)
    BY <1>1, <2>1, PostOwnedBooks
  <2> HIDE DEF y
  <2>3. y \in Tables /\ row \in LotRow
    <3>1. y \in Tables /\ y.lot[d] \in LotRow
      BY <2>1, <2>2 DEF Booked, Tables
    <3> QED BY <3>1, LotRows
  <2> HIDE DEF row
  <2>4. LotMove(y, x) /\ x.own = y.own
    BY <2>1, <2>3, LotOnly
  <2> HIDE DEF x
  <2> DEFINE o == 0
  <2>5. o \in Int /\ n = n + o /\ o = 0
    BY <1>1
  <2> HIDE DEF o
  <2>6. Booked(y, x, "fg", o)
    BY <2>3, <2>4, <2>5, LotBooks
  <2>7. Booked(w, x, "fg", n)
    BY <1>1, <2>2, <2>5, <2>6, BookedChain
  <2> QED BY <1>0, <1>3, <2>7 DEF x, y, d, row
<1> QED BY <1>2, <1>3

\* The scrapped part gets a lot without stock.
LEMMA PostScrapBooks ==
    ASSUME NEW w \in Tables, NEW q \in Entry, NEW n \in Nat,
           n > 0 => PartLot[q]["scrap"] # NoLot
    PROVE  Booked(w, PostScrap(w, q, n), "fg", n)
<1> DEFINE d == PartLot[q]["scrap"]
           y == Post(w, "fg", "SCRAP", n)
           row == [NewLotRow("SCRAP", n) EXCEPT !.rem = 0]
           x == PutLot(y, d, row)
<1>0. PostScrap(w, q, n) = IF n = 0 THEN w ELSE x
  BY DEF PostScrap, QcScope, PutLot
<1>1. "fg" \in Scope /\ "SCRAP" \in Bucket /\ n \in Int
  BY DEF Scope, Bucket
<1>2. CASE n = 0
  <2>1. LotMove(w, w)
    BY DEF LotMove
  <2> QED BY <1>0, <1>2, <2>1, LotBooks
<1>3. CASE n # 0
  <2>1. d \in Lot
    BY <1>3, StockAssumption DEF LotKind, Part
  <2> HIDE DEF d
  <2>2. Booked(w, y, "fg", n)
    BY <1>1, PostBooks
  <2> HIDE DEF y
  <2>3. y \in Tables /\ row \in LotRow
    BY <2>2 DEF Booked, NewLotRow, NoLotRow, LotRow, LotState
  <2> HIDE DEF row
  <2>4. LotMove(y, x) /\ x.own = y.own
    BY <2>1, <2>3, LotOnly
  <2> HIDE DEF x
  <2> DEFINE o == 0
  <2>5. o \in Int /\ n = n + o /\ o = 0
    BY <1>1
  <2> HIDE DEF o
  <2>6. Booked(y, x, "fg", o)
    BY <2>3, <2>4, <2>5, LotBooks
  <2>7. Booked(w, x, "fg", n)
    BY <1>1, <2>2, <2>5, <2>6, BookedChain
  <2> QED BY <1>0, <1>3, <2>7 DEF x, y, d, row
<1> QED BY <1>2, <1>3

\* What an entry explains in scope p: what it inspected, while it is active.
Counted(row, p) == IF row.state = "active" /\ row.scope = p THEN row.acc + row.rej ELSE 0

\* x differs from w in the row of entry q, lots and pooled balances, and each scope holds
\* what the row explains more or less.
EntryPosts(w, x, q) ==
    /\ x \in Tables /\ x.ret = w.ret /\ x.adj = w.adj /\ x.opening = w.opening
    /\ \A e \in Entry \ {q} : x.entry[e] = w.entry[e]
    /\ OwnedSame(w, x, {})
    /\ \A p \in Scope :
         Goods(x, p) - Counted(x.entry[q], p) = Goods(w, p) - Counted(w.entry[q], p)

PutEntry(w, q, row) == [w EXCEPT !.entry[q] = row]

\* The row of an entry replaced after goods were booked in scope p.
LEMMA EntryPosting ==
    ASSUME NEW w \in Tables, NEW y, NEW q \in Entry, NEW row \in EntryRow, NEW s \in Scope,
           NEW n \in Int, Booked(w, y, s, n),
           \A p \in Scope : Counted(row, p) = IF p = s THEN Counted(w.entry[q], p) + n
                                              ELSE Counted(w.entry[q], p)
    PROVE  LET x == PutEntry(y, q, row)
           IN  EntryPosts(w, x, q) /\ x.entry[q] = row
<1> DEFINE x == PutEntry(y, q, row)
           E == [y.entry EXCEPT ![q] = row]
<1>1. y \in Tables /\ y.entry = w.entry
  BY DEF Booked
<1>2. E \in [Entry -> EntryRow] /\ E[q] = row /\ \A e \in Entry \ {q} : E[e] = w.entry[e]
  BY <1>1 DEF Tables
<1>3. x = [y EXCEPT !.entry = E]
  BY <1>1 DEF PutEntry, Tables
<1> HIDE DEF x, E
<1>4. /\ x \in Tables /\ x.entry = E /\ x.pool = y.pool /\ x.own = y.own
      /\ x.ret = y.ret /\ x.adj = y.adj /\ x.opening = y.opening
  BY <1>1, <1>2, <1>3 DEF Tables
<1>5. ASSUME NEW p \in Scope
      PROVE  Goods(x, p) - Counted(x.entry[q], p) = Goods(w, p) - Counted(w.entry[q], p)
  <2>1. Goods(x, p) = Goods(y, p) /\ x.entry[q] = row
    BY <1>2, <1>4 DEF Goods
  <2>2. Goods(y, p) = IF p = s THEN Goods(w, p) + n ELSE Goods(w, p)
    BY DEF Booked
  <2>3. Goods(w, p) \in Int
    BY GoodsType
  <2>4. Counted(w.entry[q], p) \in Int
    BY DEF Counted, Tables, EntryRow
  <2> QED BY <2>1, <2>2, <2>3, <2>4
<1>6. EntryPosts(w, x, q)
  <2>1. OwnedSame(w, x, {})
    BY <1>4 DEF Booked, OwnedSame, Owned
  <2> QED BY <1>2, <1>4, <1>5, <2>1 DEF EntryPosts, Booked
<1> QED BY <1>2, <1>4, <1>6 DEF x

\* QC posting books what was inspected in the FG Store, under a new entry.
LEMMA QcPostWrites ==
    ASSUME NEW w \in Tables, NEW r \in Request, r.op = "qcPost",
           w.entry[r.q].state = "absent"
    PROVE  LET x == QcPosted(r, w)
           IN  /\ EntryPosts(w, x, r.q)
               /\ x.entry[r.q].state # "absent"
               /\ x.entry[r.q].bucket = "none" => x.entry[r.q].rej = 0
<1> DEFINE q == r.q
           i == r.part["rework"]
           j == r.part["hold"]
           k == r.part["scrap"]
           u == r.usable
           m == r.acc + r.usable
           ij == i + j
           ijk == ij + k
           n == ijk + m
           a == PostLot(w, q, "rework", "REWORK_READY_FOR_QC", i)
           b == PostLot(a, q, "hold", "HOLD", j)
           c == PostScrap(b, q, k)
           d == Post(c, "fg", "USABLE", m)
           row == [state |-> "active", scope |-> "fg", acc |-> r.acc, rej |-> Rejected(r),
                   bucket |-> RejectedBucket(r), sorted |-> FALSE]
           x == PutEntry(d, q, row)
<1>0. QcPosted(r, w) = x
  BY DEF QcPosted, QcScope, PutEntry
<1>1. /\ q \in Entry /\ r.acc \in Nat /\ u \in Nat /\ i \in Nat /\ j \in Nat /\ k \in Nat
      /\ i > 0 => PartLot[q]["rework"] # NoLot
      /\ j > 0 => PartLot[q]["hold"] # NoLot
      /\ k > 0 => PartLot[q]["scrap"] # NoLot
  <2>1. /\ r \in QcPostRequest /\ \A h \in Qty \cup {0} : h \in Nat
    BY RequestForms, StockAssumption
  <2>2. /\ q \in Entry /\ r.acc \in Qty \cup {0} /\ u \in Qty \cup {0}
        /\ r.part \in [Part -> Qty \cup {0}]
        /\ \A h \in Part : r.part[h] > 0 => PartLot[q][h] # NoLot
    BY <2>1 DEF QcPostRequest
  <2> QED BY <2>1, <2>2 DEF Part
<1>2. /\ m \in Int /\ ij \in Int /\ ijk \in Int /\ n \in Int
      /\ Rejected(r) \in Nat /\ r.acc + Rejected(r) = n
  BY <1>1 DEF Rejected
<1>3. /\ RejectedBucket(r) \in Bucket \cup {"none"}
      /\ RejectedBucket(r) = "none" => Rejected(r) = 0
  <2>1. RejectedBucket(r) \in Bucket \cup {"none"}
    BY DEF RejectedBucket, Bucket
  <2>2. RejectedBucket(r) = "none" => i = 0 /\ j = 0 /\ k = 0 /\ u = 0
    BY <1>1 DEF RejectedBucket
  <2> QED BY <1>1, <2>1, <2>2 DEF Rejected
<1>4. /\ row \in EntryRow /\ row.state = "active" /\ row.scope = "fg"
      /\ row.bucket = RejectedBucket(r) /\ row.rej = Rejected(r) /\ row.acc = r.acc
  BY <1>1, <1>2, <1>3 DEF EntryRow, Scope
<1> HIDE DEF row
<1>5. \A p \in Scope : Counted(row, p) = IF p = "fg" THEN Counted(w.entry[q], p) + n
                                         ELSE Counted(w.entry[q], p)
  BY <1>1, <1>2, <1>4 DEF Counted
<1>6. /\ {"REWORK_READY_FOR_QC", "HOLD"} \subseteq LotState /\ "fg" \in Scope
      /\ "USABLE" \in Bucket
  BY DEF LotState, Scope, Bucket
<1> HIDE DEF q, i, j, k, m, u
<1>7. Booked(w, a, "fg", i)
  BY <1>1, <1>6, PostLotBooks
<1> HIDE DEF a
<1>8. a \in Tables
  BY <1>7 DEF Booked
<1>9. Booked(a, b, "fg", j)
  BY <1>1, <1>6, <1>8, PostLotBooks
<1> HIDE DEF b
<1>10. b \in Tables
  BY <1>9 DEF Booked
<1>11. Booked(b, c, "fg", k)
  BY <1>1, <1>10, PostScrapBooks
<1> HIDE DEF c
<1>12. c \in Tables
  BY <1>11 DEF Booked
<1>13. Booked(c, d, "fg", m)
  BY <1>2, <1>6, <1>12, PostBooks
<1> HIDE DEF d
<1>14. Booked(w, d, "fg", n)
  <2>1. i \in Int /\ j \in Int /\ k \in Int
    BY <1>1
  <2>2. Booked(w, b, "fg", ij)
    BY <1>2, <1>7, <1>9, <2>1, BookedChain
  <2>3. Booked(w, c, "fg", ijk)
    BY <1>2, <1>11, <2>1, <2>2, BookedChain
  <2> QED BY <1>2, <1>13, <2>3, BookedChain
<1> HIDE DEF n
<1>15. EntryPosts(w, x, q) /\ x.entry[q] = row
  BY <1>1, <1>2, <1>4, <1>5, <1>6, <1>14, EntryPosting
<1> HIDE DEF x
<1> QED BY <1>0, <1>3, <1>4, <1>15 DEF q

\* The reversal takes out of the scope of the entry what the entry booked there.
LEMMA QcReverseWrites ==
    ASSUME NEW w \in Tables, NEW r \in Request, r.op = "qcReverse",
           w.entry[r.q].state = "active",
           w.entry[r.q].bucket = "none" => w.entry[r.q].rej = 0
    PROVE  LET x == QcReverseWrite(r, w)
           IN  /\ EntryPosts(w, x, r.q)
               /\ x.entry[r.q].state # "absent"
               /\ x.entry[r.q].bucket = "none" => x.entry[r.q].rej = 0
<1> DEFINE q == r.q
           e == w.entry[r.q]
           s == e.scope
           m == -e.acc
           k == -e.rej
           n == m + k
           out == Post(w, s, "USABLE", m)
           back == IF e.bucket = "none" THEN out ELSE Post(out, s, e.bucket, k)
           L == [d \in Lot |-> [w.lot[d] EXCEPT
                   !.void = @ \/ (EntryOf[d] = r.q /\ w.lot[d].state # "absent")]]
           y == PutLots(back, L)
           row == [e EXCEPT !.state = "reversed"]
           x == PutEntry(y, q, row)
<1>1. q \in Entry /\ e \in EntryRow /\ e.state = "active"
  BY RequestFields DEF Tables
<1>2. /\ s \in Scope /\ e.acc \in Nat /\ e.rej \in Nat
      /\ m \in Int /\ k \in Int /\ n \in Int /\ n = -(e.acc + e.rej)
      /\ e.bucket = "none" \/ e.bucket \in Bucket
  BY <1>1 DEF EntryRow
<1>3. L \in [Lot -> LotRow]
  BY DEF Tables, LotRow
<1>4. QcReverseWrite(r, w) = x
  <2>1. QcReverseWrite(r, w) = [back EXCEPT !.entry[q].state = "reversed", !.lot = L]
    BY DEF QcReverseWrite
  <2>2. back.entry[q] = e
    BY DEF Post
  <2> HIDE DEF back, L, e
  <2> QED BY <2>1, <2>2 DEF PutLots, PutEntry
<1>5. /\ row \in EntryRow /\ row.state = "reversed" /\ row.bucket = e.bucket
      /\ row.rej = e.rej /\ row.acc = e.acc
  BY <1>1 DEF EntryRow
<1>6. \A p \in Scope : Counted(row, p) = IF p = s THEN Counted(e, p) + n ELSE Counted(e, p)
  BY <1>1, <1>2, <1>5 DEF Counted
<1>7. w.entry[q] = e /\ "USABLE" \in Bucket /\ (e.bucket = "none" => e.rej = 0)
  BY DEF Bucket
<1> HIDE DEF q, e, s, m, k, L, row
<1>8. Booked(w, out, s, m)
  BY <1>2, <1>7, PostBooks
<1> HIDE DEF out
<1>9. Booked(w, back, s, n)
  <2>1. CASE e.bucket = "none"
    BY <1>2, <1>7, <1>8, <2>1 DEF k
  <2>2. CASE e.bucket # "none"
    <3>1. out \in Tables /\ e.bucket \in Bucket
      BY <1>2, <1>8, <2>2 DEF Booked
    <3>2. back = Post(out, s, e.bucket, k)
      BY <2>2
    <3>3. Booked(out, back, s, k)
      BY <1>2, <3>1, <3>2, PostBooks
    <3> QED BY <1>2, <1>8, <3>3, BookedChain
  <2> QED BY <2>1, <2>2
<1> HIDE DEF back
<1>10. Booked(w, y, s, n)
  <2> DEFINE o == 0
  <2>0. o = 0 /\ o \in Int /\ n = n + o
    BY <1>2
  <2> HIDE DEF o, n
  <2>1. back \in Tables
    BY <1>9 DEF Booked
  <2>2. LotMove(back, y) /\ y.own = back.own
    BY <1>3, <2>1, LotsOnly
  <2> HIDE DEF y
  <2>3. Booked(back, y, s, o)
    BY <2>0, <2>1, <2>2, LotBooks
  <2>4. n \in Int
    BY <1>2
  <2> QED BY <1>9, <2>0, <2>3, <2>4, BookedChain
<1> HIDE DEF y, n
<1>11. EntryPosts(w, x, q) /\ x.entry[q] = row
  BY <1>1, <1>2, <1>5, <1>6, <1>7, <1>10, EntryPosting
<1> HIDE DEF x
<1> QED BY <1>4, <1>5, <1>7, <1>11 DEF q

\* The classification moves goods between buckets.
LEMMA MovedBooks ==
    ASSUME NEW v \in Tables, NEW w \in Tables, NEW r \in Request, r.op = "classify"
    PROVE  Booked(w, Moved(r, v, w), "read", 0)
<1> DEFINE n == v.entry[r.q].rej
           m == -n
           from == FromBucket(v.entry[r.q])
           to == r.to
           y == Post(w, "read", from, m)
           x == Post(y, "read", to, n)
           o == 0
<1>1. Moved(r, v, w) = IF from = to THEN w ELSE x
  BY DEF Moved, Transfer
<1>2. /\ n \in Int /\ m \in Int /\ o \in Int /\ o = m + n /\ o = 0
      /\ from \in Bucket /\ to \in Bucket /\ "read" \in Scope
  <2>1. r.q \in Entry /\ r.to \in Bucket
    BY RequestForms DEF ClassifyRequest, Bucket
  <2>2. v.entry[r.q] \in EntryRow
    BY <2>1 DEF Tables
  <2> QED BY <2>1, <2>2 DEF EntryRow, FromBucket, Bucket, Scope
<1> HIDE DEF n, m, from, to, o
<1>3. Booked(w, y, "read", m)
  BY <1>2, PostBooks
<1> HIDE DEF y
<1>4. y \in Tables
  BY <1>3 DEF Booked
<1>5. Booked(y, x, "read", n)
  BY <1>2, <1>4, PostBooks
<1> HIDE DEF x
<1>6. Booked(w, x, "read", o)
  BY <1>2, <1>3, <1>5, BookedChain
<1>7. LotMove(w, w)
  BY DEF LotMove
<1>8. Booked(w, w, "read", o)
  BY <1>2, <1>7, LotBooks
<1> QED BY <1>1, <1>2, <1>6, <1>8

\* Its row stays what it was but for the mark that it is sorted.
LEMMA ClassifyWrites ==
    ASSUME NEW v \in Tables, NEW w \in Tables, NEW r \in Request, r.op = "classify"
    PROVE  LET x == ClassifyWrite(r, v, w)
           IN  /\ EntryPosts(w, x, r.q)
               /\ x.entry[r.q].state = w.entry[r.q].state
               /\ x.entry[r.q].bucket = w.entry[r.q].bucket
               /\ x.entry[r.q].rej = w.entry[r.q].rej
<1> DEFINE q == r.q
           d == PartLot[r.q]["classified"]
           n == v.entry[r.q].rej
           m == -n
           o == 0
           e == w.entry[r.q]
           a == Moved(r, v, w)
           b == Post(a, "read", "QC_HOLD", m)
           c == PostOwned(b, d, "read", "QC_HOLD", n)
           lot == NewLotRow("HOLD", n)
           h == PutLot(c, d, lot)
           y == IF r.to = "QC_HOLD" THEN h ELSE a
           row == [e EXCEPT !.sorted = TRUE]
           x == PutEntry(y, q, row)
<1>1. q \in Entry /\ (r.to = "QC_HOLD" => d \in Lot)
  <2>1. q \in Entry /\ (r.to = "QC_HOLD" => d # NoLot)
    BY RequestForms DEF ClassifyRequest
  <2>2. d \in Lot \cup {NoLot}
    BY <2>1, StockAssumption DEF LotKind
  <2> QED BY <2>1, <2>2
<1>2. /\ n \in Nat /\ n \in Int /\ m \in Int /\ o = m + n /\ o \in Int /\ o = 0 /\ o = o + o
      /\ e \in EntryRow
      /\ "read" \in Scope /\ "QC_HOLD" \in Bucket /\ "QC_HOLD" \notin Waiting
      /\ "HOLD" \in LotState
  <2>1. v.entry[q] \in EntryRow /\ e \in EntryRow
    BY <1>1 DEF Tables
  <2> QED BY <2>1 DEF EntryRow, Bucket, Scope, Waiting, LotState
<1>3. ClassifyWrite(r, v, w) = [y EXCEPT !.entry[q].sorted = TRUE]
  BY DEF ClassifyWrite, PutLot
<1>4. Booked(w, a, "read", o)
  BY MovedBooks
<1>5. lot \in LotRow
  BY <1>2 DEF NewLotRow, NoLotRow, LotRow
<1> HIDE DEF q, d, n, m, o, e, a, lot
<1>6. a \in Tables
  BY <1>4 DEF Booked
<1>7. Booked(w, y, "read", o)
  <2>1. CASE r.to # "QC_HOLD"
    BY <1>4, <2>1
  <2>2. CASE r.to = "QC_HOLD"
    <3>1. Booked(a, b, "read", m)
      BY <1>2, <1>6, PostBooks
    <3> HIDE DEF b
    <3>2. b \in Tables /\ d \in Lot
      BY <1>1, <2>2, <3>1 DEF Booked
    <3>3. Booked(b, c, "read", n)
      BY <1>2, <3>2, PostOwnedBooks
    <3> HIDE DEF c
    <3>4. c \in Tables
      BY <3>3 DEF Booked
    <3>5. LotMove(c, h) /\ h.own = c.own
      BY <1>5, <3>2, <3>4, LotOnly
    <3> HIDE DEF h
    <3>6. Booked(c, h, "read", o)
      BY <1>2, <3>4, <3>5, LotBooks
    <3>7. Booked(a, c, "read", o)
      BY <1>2, <1>6, <3>1, <3>3, BookedChain
    <3>8. Booked(a, h, "read", o)
      BY <1>2, <1>6, <3>6, <3>7, BookedChain
    <3>9. Booked(w, h, "read", o)
      BY <1>2, <1>4, <3>8, BookedChain
    <3> QED BY <2>2, <3>9
  <2> QED BY <2>1, <2>2
<1> HIDE DEF y
<1>8. /\ row \in EntryRow /\ row.state = e.state /\ row.scope = e.scope
      /\ row.bucket = e.bucket /\ row.rej = e.rej /\ row.acc = e.acc
  BY <1>2 DEF EntryRow
<1>9. w.entry[q] = e
  BY DEF e, q
<1> HIDE DEF row
<1>10. ClassifyWrite(r, v, w) = x
  <2>1. y.entry[q] = w.entry[q] /\ w.entry[q] = e
    BY <1>7, <1>9 DEF Booked
  <2> QED BY <1>3, <2>1 DEF PutEntry, row
<1>11. \A p \in Scope : Counted(row, p) = IF p = "read" THEN Counted(w.entry[q], p) + o
                                          ELSE Counted(w.entry[q], p)
  BY <1>2, <1>8, <1>9 DEF Counted, EntryRow
<1>12. EntryPosts(w, x, q) /\ x.entry[q] = row
  BY <1>1, <1>2, <1>7, <1>8, <1>11, EntryPosting
<1> HIDE DEF x
<1> QED BY <1>8, <1>9, <1>10, <1>12 DEF q
==============================================================================
