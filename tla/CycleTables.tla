----------------------------- MODULE CycleTables ------------------------------
(***************************************************************************)
(* The tables of one NO_QTY sales order: the order and its close           *)
(* snapshots, its cycles, its requirement sheets, and what was placed,     *)
(* made and shipped against them.  A view is a value of these tables.      *)
(*   - A cycle is its cycleNo: the key (salesOrderId, cycleNo) is unique   *)
(*     and no route deletes a cycle of a live order.                       *)
(*   - A sheet has one item; its quantity stands for its lines.            *)
(***************************************************************************)
EXTENDS Naturals, FiniteSets, FiniteSetsExt, Functions

CONSTANTS
    MaxCycle,   \* bound on the number of cycles
    MaxSheet,   \* bound on the number of sheets ever created
    MaxClose,   \* bound on the number of times the order is closed
    MaxQty,     \* bound on the quantity of a sheet
    Period      \* planning periods

ASSUME CycleBounds ==
    /\ MaxCycle \in Nat \ {0}
    /\ MaxSheet \in Nat \ {0}
    /\ MaxClose \in Nat
    /\ MaxQty \in Nat \ {0}
    /\ Period # {}

Cycle == 1..MaxCycle
Sheet == 1..MaxSheet
Version == 1..MaxSheet
Qty == 1..MaxQty

OrderStatus == {"OPEN", "IN_PROCESS", "MANUALLY_CLOSED"}
CycleStatus == {"absent", "ACTIVE", "CLOSED"}
SheetStatus == {"absent", "deleted", "DRAFT", "LOCKED", "CANCELLED"}
SnapshotStatus == {"absent", "ACTIVE", "ARCHIVED", "REOPENED"}

\* qty is requirementQty, plan the suggestedWoQtySnapshot that locking writes.
SheetRow == [state : SheetStatus, cycle : Cycle, period : Period, version : Version,
             qty : 0..MaxQty, plan : 0..MaxQty]

Tables == [status   : OrderStatus,
           cur      : 0..MaxCycle,       \* currentCycleId, 0 for null
           close    : [1..MaxClose -> SnapshotStatus],
           cycle    : [Cycle -> CycleStatus],
           sheet    : [Sheet -> SheetRow],
           placed   : [Sheet -> [Cycle -> Nat]],
           made     : [Cycle -> Nat],       \* accepted by QC
           prepared : [Cycle -> Nat],       \* quantity of the UNLOCKED dispatch
           shipped  : [Cycle -> Nat],
           released : SUBSET Period]     \* periods whose monthly plan is released

\* A row that is not there.
NoSheet(state) ==
    [state |-> state, cycle |-> 1, version |-> 1, qty |-> 0, plan |-> 0,
     period |-> CHOOSE p \in Period : TRUE]

\* The order as it is created, with cycle 1.
TablesInit ==
    [status   |-> "OPEN",
     cur      |-> 1,
     close    |-> [k \in 1..MaxClose |-> "absent"],
     cycle    |-> [c \in Cycle |-> IF c = 1 THEN "ACTIVE" ELSE "absent"],
     sheet    |-> [s \in Sheet |-> NoSheet("absent")],
     placed   |-> [s \in Sheet |-> [c \in Cycle |-> 0]],
     made     |-> [c \in Cycle |-> 0],
     prepared |-> [c \in Cycle |-> 0],
     shipped  |-> [c \in Cycle |-> 0],
     released |-> {}]

(***************************************************************************)
(* What handlers read.                                                     *)
(***************************************************************************)
Closed(v) == v.status = "MANUALLY_CLOSED"
Known(v) == {c \in Cycle : v.cycle[c] # "absent"}
Actives(v) == {c \in Cycle : v.cycle[c] = "ACTIVE"}

\* The highest cycleNo of a set of cycles, 0 if there is none.
Newest(C) == IF C = {} THEN 0 ELSE CHOOSE c \in C : \A d \in C : d <= c

Exists(v, s) == v.sheet[s].state \notin {"absent", "deleted"}
SheetsOn(v, c) == {s \in Sheet : Exists(v, s) /\ v.sheet[s].cycle = c}
SameDemand(v, c, p) == {s \in SheetsOn(v, c) : v.sheet[s].period = p}

PlacedFor(v, s) == SumFunction(v.placed[s])
PlacedOn(v, c) == MapThenSumSet(LAMBDA s : v.placed[s][c], Sheet)

\* Work orders count once they are placed, whatever became of their sheet.
HasWork(v, c) == \E s \in Sheet : v.placed[s][c] > 0

\* orderBy version desc, id desc.
Latest(v, S) ==
    CHOOSE s \in S : \A u \in S :
      \/ v.sheet[u].version < v.sheet[s].version
      \/ v.sheet[u].version = v.sheet[s].version /\ u <= s

NextVersion(v, c, p) == 1 + Max({0} \cup {v.sheet[s].version : s \in SameDemand(v, c, p)})

\* The unique key (salesOrderId, cycleId, periodKey, version).
KeyFree(v, s, c, p, n) ==
    \A u \in SameDemand(v, c, p) \ {s} : v.sheet[u].version # n
==============================================================================
