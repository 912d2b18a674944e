---------------------------- MODULE StockTables ------------------------------
(***************************************************************************)
(* The tables behind the stock buckets of one finished good (items do not  *)
(* share rows), as operators on one database value v:                      *)
(*   v.pool[p][b]    ledger balance of bucket b as scope p sees it         *)
(*   v.own[d][p][b]  the part of it whose rows carry disposition d         *)
(*   v.lot[d]        a QcRejectedDisposition row, a lot of rejected goods  *)
(*   v.entry[q]      a QcEntry row                                         *)
(*   v.ret[c]        a CustomerReturn row, with the balance of its stock   *)
(*                   rows per bucket and its replacement order             *)
(*   v.adj[a]        an ADJUSTMENT stock row, its reversal rows, its QC    *)
(*   v.opening[e]    an OpeningStockEntry row with its OPENING stock rows  *)
(* Scope "read" is the default of every read: RM Store and rows without a  *)
(* location.  Scope "fg" is the FG Store and the scrap location, where QC  *)
(* and adjustments of finished goods post, and which no such read sees.    *)
(***************************************************************************)
EXTENDS Integers, FiniteSets, FiniteSetsExt, Functions

CONSTANTS
    Lot, Entry, Return, Shipment, Adjustment, Opening,  \* row identifiers
    Good,               \* the finished good
    NoLot,              \* no disposition
    EntryOf,            \* the QC entry of a lot identifier
    PartLot,            \* the lot that each kind of reject of a QC entry draws
    ShipmentOf,         \* the dispatch of a return identifier
    FirstLot,           \* lots from before stock had locations
    LooseEntry,         \* QC entries from before there were lots
    OldQty,             \* the quantity that each of both rejected
    Shipped,            \* quantity of a confirmed dispatch
    OpeningQty,         \* quantity of an opening stock entry
    Qty, ReturnQty      \* quantities a request, and one about a return, may carry

Bucket == {"USABLE", "QC_HOLD", "REWORK", "QC_PENDING", "SCRAP"}
Scope == {"read", "fg"}

\* Where rejected goods go besides USABLE: the three parts of a split.
Part == {"rework", "hold", "scrap"}
LotKind == Part \cup {"classified"}

LotState == {"absent", "HOLD", "REWORK_PENDING_SUPERVISOR",
             "REWORK_APPROVED_PENDING_EXECUTION", "REWORK_READY_FOR_QC",
             "SCRAP", "CLOSED"}

ReturnState == {"absent", "IN_QC_HOLD", "IN_REWORK", "APPROVED_TO_STOCK", "SCRAPPED"}

\* The lots that come with the posting or the classification of an entry.
DrawnByEntries == {PartLot[q][k] : q \in Entry, k \in LotKind} \ {NoLot}

ASSUME StockAssumption ==
    /\ NoLot \notin Lot
    /\ EntryOf \in [Lot -> Entry]
    /\ PartLot \in [Entry -> [LotKind -> Lot \cup {NoLot}]]
    /\ ShipmentOf \in [Return -> Shipment]
    /\ FirstLot \subseteq Lot
    /\ LooseEntry \subseteq Entry
    /\ IsFiniteSet(FirstLot) /\ IsFiniteSet(Entry)
    /\ IsFiniteSet(Return) /\ IsFiniteSet(Adjustment) /\ IsFiniteSet(Opening)
    /\ \A d \in FirstLot : EntryOf[d] \notin LooseEntry
    /\ \A d, e \in FirstLot : EntryOf[d] = EntryOf[e] => d = e
    /\ DrawnByEntries \subseteq Lot \ FirstLot
    /\ \A q \in Entry : \A k \in LotKind : PartLot[q][k] # NoLot =>
         /\ EntryOf[PartLot[q][k]] = q
         /\ \A j \in LotKind : PartLot[q][j] = PartLot[q][k] => j = k
    /\ OldQty \in Nat \ {0} /\ OpeningQty \in Nat \ {0}
    /\ Shipped \in [Shipment -> Nat \ {0}]
    /\ Qty \subseteq Nat \ {0} /\ ReturnQty \subseteq Nat \ {0}

Balance == [Scope -> [Bucket -> Int]]

LotRow == [state : LotState, qty : Nat, rem : Nat, void : BOOLEAN]

\* bucket is rejectedStockBucket, sorted the row of its legacy classification.
EntryRow == [state : {"absent", "active", "reversed"}, scope : Scope, acc : Nat,
             rej : Nat, bucket : Bucket \cup {"none"}, sorted : BOOLEAN]

\* replaced is the quantity of the replacement order, 0 without one.
ReturnRow == [state : ReturnState, qty : Nat, bucket : Bucket,
              net : [Bucket -> Int], replaced : Nat]

AdjustmentRow == [state : {"absent", "posted", "reversed"}, delta : Int,
                  reversals : Nat, inspected : Nat]

OpeningRow == [state : {"DRAFT", "APPROVED"}, posted : Nat, reversed : Nat]

Tables == [pool : Balance, own : [Lot -> Balance], lot : [Lot -> LotRow],
           entry : [Entry -> EntryRow], ret : [Return -> ReturnRow],
           adj : [Adjustment -> AdjustmentRow], opening : [Opening -> OpeningRow]]

(***************************************************************************)
(* Reads and postings.                                                     *)
(***************************************************************************)

OnHand(v, b) == v.pool["read"][b]
Owned(v, d, b) == v.own[d]["read"][b]

Post(w, p, b, n) == [w EXCEPT !.pool[p][b] = @ + n]

PostOwned(w, d, p, b, n) == [Post(w, p, b, n) EXCEPT !.own[d][p][b] = @ + n]

\* Paired BUCKET_TRANSFER rows, without an owner and between owners d and e.
Transfer(w, from, to, n) == Post(Post(w, "read", from, -n), "read", to, n)

TransferOwned(w, d, e, from, to, n) ==
    PostOwned(PostOwned(w, d, "read", from, -n), e, "read", to, n)

(***************************************************************************)
(* The first tables.  A lot of the first kind is in any state the older    *)
(* versions left it in, its stock where that state has it; the migration   *)
(* put all stock of that time into the read scope.                         *)
(***************************************************************************)
FirstPlace ==
    {<<"HOLD", "QC_HOLD">>, <<"REWORK_PENDING_SUPERVISOR", "QC_HOLD">>} \cup
    ({"REWORK_PENDING_SUPERVISOR", "REWORK_APPROVED_PENDING_EXECUTION",
      "REWORK_READY_FOR_QC"} \X {"REWORK", "QC_PENDING"})

Nothing == [b \in Bucket |-> 0]
Empty == [p \in Scope |-> Nothing]
InBucket(b, n) == [Empty EXCEPT !["read"][b] = n]

FirstPool(place) ==
    [Empty EXCEPT !["read"] =
       [b \in Bucket |->
          OldQty * (Cardinality({d \in FirstLot : place[d][2] = b}) +
                    IF b = "QC_HOLD" THEN Cardinality(LooseEntry) ELSE 0)]]

NoLotRow == [state |-> "absent", qty |-> 0, rem |-> 0, void |-> FALSE]
NewLotRow(state, n) == [NoLotRow EXCEPT !.state = state, !.qty = n, !.rem = n]

NoEntry == [state |-> "absent", scope |-> "fg", acc |-> 0, rej |-> 0,
            bucket |-> "none", sorted |-> FALSE]
OldEntry == [state |-> "active", scope |-> "read", acc |-> 0, rej |-> OldQty,
             bucket |-> "QC_HOLD", sorted |-> FALSE]

FirstEntries == LooseEntry \cup {EntryOf[d] : d \in FirstLot}

NoReturn == [state |-> "absent", qty |-> 0, bucket |-> "USABLE", net |-> Nothing,
             replaced |-> 0]

TablesInit(place) ==
    [pool |-> FirstPool(place),
     own |-> [d \in Lot |-> IF d \in FirstLot THEN InBucket(place[d][2], OldQty) ELSE Empty],
     lot |-> [d \in Lot |-> IF d \in FirstLot THEN NewLotRow(place[d][1], OldQty)
                            ELSE NoLotRow],
     entry |-> [q \in Entry |-> IF q \in FirstEntries THEN OldEntry ELSE NoEntry],
     ret |-> [c \in Return |-> NoReturn],
     adj |-> [a \in Adjustment |->
                [state |-> "absent", delta |-> 0, reversals |-> 0, inspected |-> 0]],
     opening |-> [e \in Opening |-> [state |-> "DRAFT", posted |-> 0, reversed |-> 0]]]
==============================================================================
