----------------------------- MODULE OrderTables -----------------------------
(***************************************************************************)
(* The tables that regular (NORMAL) sales orders, their QC entries, their  *)
(* dispatches and the finished-goods ledger share, as operators on one     *)
(* database value v:                                                       *)
(*   v.status[o]   SalesOrder.internalStatus                               *)
(*   v.disp[d]     a forward Dispatch row with what was posted for it      *)
(*   v.qc[q]       a QcEntry row                                           *)
(*   v.fg[i]       USABLE ledger balance of item i at the FG Store         *)
(*   v.seen[i]     USABLE balance the default read scope sees: RM Store    *)
(*                 plus rows without a location                            *)
(* A Line stands for all lines of one order that share an item, because    *)
(* Dispatch rows carry only (soId, itemId) and every cap sums by them.     *)
(***************************************************************************)
EXTENDS Integers, FiniteSets, Functions

CONSTANTS
    SO, Item, Line, Dispatch, QcEntry,  \* row identifiers, finite pools
    SoOf, ItemOf,                       \* the order and the item of a line
    Ordered,                            \* ordered quantity of a line
    Produced,                           \* approved production of a line, 0 without a work order
    LineOf,                             \* the line a dispatch id belongs to
    BatchOf, QcQty,                     \* line and accepted quantity of a QC entry
    Legacy,                             \* QC entries posted before stock had locations
    LegacyStock,                        \* the stock of an item that they brought in
    Qty, Targets                        \* quantities and statuses a request may carry

Positive == Nat \ {0}

\* OPEN is handled as IN_PROCESS and MANUALLY_CLOSED as CLOSED on a regular order.
Status == {"DRAFT", "APPROVED", "IN_PROCESS", "COMPLETED", "CLOSED"}

ASSUME TablesAssumption ==
    /\ IsFiniteSet(Dispatch) /\ IsFiniteSet(QcEntry)
    /\ SoOf \in [Line -> SO]
    /\ ItemOf \in [Line -> Item]
    /\ Ordered \in [Line -> Positive]
    /\ Produced \in [Line -> Nat]
    /\ LineOf \in [Dispatch -> Line]
    /\ BatchOf \in [QcEntry -> Line]
    /\ QcQty \in [QcEntry -> Positive]
    /\ Legacy \subseteq QcEntry
    /\ Qty \subseteq Positive
    /\ Targets \subseteq Status
    /\ \A k, l \in Line : SoOf[k] = SoOf[l] /\ ItemOf[k] = ItemOf[l] => k = l

\* workflowStatus, with the two ends of a row's life.
DispatchState == {"absent", "UNLOCKED", "LOCKED", "deleted"}

(***************************************************************************)
(* posted counts the DISPATCH stock rows of the dispatch, reversed adds up *)
(* its reversal rows, stamped is reversedAt of its first DISPATCH row.     *)
(***************************************************************************)
DispatchRow == [state : DispatchState, qty : Nat, posted : Nat,
                reversed : Nat, stamped : BOOLEAN]

Tables == [status : [SO -> Status],
           disp : [Dispatch -> DispatchRow],
           qc : [QcEntry -> {"absent", "active", "reversed"}],
           fg : [Item -> Int],
           seen : [Item -> Int]]

NoDispatch == [state |-> "absent", qty |-> 0, posted |-> 0,
               reversed |-> 0, stamped |-> FALSE]

ASSUME LegacyAssumption ==
    /\ LegacyStock \in [Item -> Nat]
    /\ \A i \in Item :
         LegacyStock[i] = SumFunctionOnSet(QcQty, {q \in Legacy : ItemOf[BatchOf[q]] = i})

\* Legacy stock was moved to the RM Store when locations were introduced.
TablesInit(first) ==
    [status |-> first,
     disp |-> [d \in Dispatch |-> NoDispatch],
     qc |-> [q \in QcEntry |-> IF q \in Legacy THEN "active" ELSE "absent"],
     fg |-> [i \in Item |-> 0],
     seen |-> LegacyStock]

LinesOf(o) == {l \in Line : SoOf[l] = o}
DispatchesOf(l) == {d \in Dispatch : LineOf[d] = l}
SoOfDispatch(d) == SoOf[LineOf[d]]
ItemOfDispatch(d) == ItemOf[LineOf[d]]

\* Mutant: confirmed rows taken for drafts.
DraftsAnyState(v, l) == {d \in DispatchesOf(l) : v.disp[d].state \in {"UNLOCKED", "LOCKED"}}

Drafts(v, l) == {d \in DispatchesOf(l) : v.disp[d].state = "UNLOCKED"}
Confirmations(v, l) == {d \in DispatchesOf(l) : v.disp[d].state = "LOCKED"}
Rows(v, l) == Drafts(v, l) \cup Confirmations(v, l)

\* Forward quantity less its reversal rows, which carry negative quantities.
Net(v, d) == v.disp[d].qty - v.disp[d].reversed

Nets(v) == [d \in Dispatch |-> Net(v, d)]

\* Operational mode counts every row, confirmed mode leaves the drafts out.
OperationalNet(v, l) == SumFunctionOnSet(Nets(v), Rows(v, l))
ConfirmedNet(v, l) == SumFunctionOnSet(Nets(v), Confirmations(v, l))

ActiveEntries(v, l) == {q \in QcEntry : BatchOf[q] = l /\ v.qc[q] = "active"}
Accepted(v, l) == SumFunctionOnSet(QcQty, ActiveEntries(v, l))

\* Approved production that no active QC entry has inspected yet.
QcPending(v, l) == Produced[l] - Accepted(v, l)
==============================================================================
