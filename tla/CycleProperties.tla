---------------------------- MODULE CycleProperties ---------------------------
(***************************************************************************)
(* What the cycles and requirement sheets of a NO_QTY order must keep.     *)
(***************************************************************************)
EXTENDS CycleFlow

\* Every variable keeps to its domain.
TypeOK ==
    /\ db \in Tables
    /\ held \in [Tx -> [Row -> LockMode]]
    /\ req \in [Tx -> Request \cup {NoReq}]
    /\ at \in [Tx -> 0..4]
    /\ snap \in [Tx -> Tables \cup {NoView}]
    /\ answer \in [Tx -> Answer]

(***************************************************************************)
(* The cycles.                                                             *)
(***************************************************************************)

\* Cycles are numbered without a gap, and only the newest may be ACTIVE, whatever
\* requests create, repair, advance and close cycles on views that others have
\* outdated: the routes take the number for the order of the cycles and the ACTIVE
\* cycle for the one to plan on.
Sound(v) ==
    /\ Newest(Known(v)) \in Cycle
    /\ Known(v) = 1..Newest(Known(v))
    /\ \A c \in Actives(v) : c = Newest(Known(v))

CyclesInOrder == Sound(db)

\* What makes it inductive: the view of an open request is an earlier state of the
\* same sequence, whose cycles are still there, the closed ones closed.
Shaped(v) ==
    /\ DOMAIN v = DOMAIN TablesInit
    /\ v.cycle \in [Cycle -> CycleStatus]
    /\ v.cur = 0 \/ v.cur \in Known(v)

Behind(v, w) ==
    /\ Known(v) \subseteq Known(w)
    /\ \A c \in Cycle : v.cycle[c] = "CLOSED" => w.cycle[c] = "CLOSED"

HasRead(t) == \E i \in 1..(at[t] - 1) : Plan(req[t])[i] = "read"

Running ==
    /\ at \in [Tx -> Nat] /\ DOMAIN req = Tx /\ DOMAIN snap = Tx
    /\ \A t \in Tx : at[t] # 0 => at[t] <= Len(Plan(req[t]))

IInv ==
    /\ Shaped(db) /\ CyclesInOrder
    /\ Running
    /\ \A t \in Tx : HasRead(t) => Shaped(snap[t]) /\ Sound(snap[t]) /\ Behind(snap[t], db)

\* A cycle that was closed never becomes ACTIVE again, nor does one vanish.
Sequence == INSTANCE CycleSequence
              WITH newest <- Newest(Known(db)), open <- Actives(db) # {}
ImplementsSequence == Sequence!Spec

(***************************************************************************)
(* Sheets and work orders, with one planner at work.                       *)
(***************************************************************************)

\* The work orders placed from a sheet never exceed its quantity, also after the
\* sheet's cycle or its version has moved on.
PlacedWithinDemand ==
    \A s \in Sheet : Exists(db, s) => PlacedFor(db, s) <= db.sheet[s].qty

\* Placed work keeps its locked sheet: cancel, void, delete and edit see the work.
WorkHasItsSheet ==
    \A s \in Sheet : PlacedFor(db, s) > 0 => db.sheet[s].state = "LOCKED"

\* The operations that write sheets or work orders are one user's.  Create-wo sums the
\* work orders of a sheet before it holds the sheet's row, so two such users could
\* place the same balance twice.
SheetOps == {"create", "lines", "recalc", "lock", "createWo", "deleteDraft", "deleteAll",
             "cancel", "void"}

OnePlanner == \E p \in Tx : \A t \in Tx \ {p} : OpsOf[t] \cap SheetOps = {}

\* What makes the two inductive: ids are drawn in order, a version is no higher than
\* the id of its sheet, and the planner's view shows the sheets and the work orders
\* as they are, whatever happened to the cycles since.
Numbered(v) ==
    /\ \A s, u \in Sheet : s < u /\ v.sheet[s].state = "absent" => v.sheet[u].state = "absent"
    /\ \A s \in Sheet : v.sheet[s].version <= s

NextSheet(v, s) ==
    /\ v.sheet[s].state = "absent"
    /\ \A u \in Sheet : u < s => v.sheet[u].state # "absent"

SameSheets(v, w) == v.sheet = w.sheet /\ v.placed = w.placed

Serves(t) ==
    /\ req[t] \in Request /\ MaySend(t, req[t])
    /\ HasRead(t) => snap[t] \in Tables
    /\ HasRead(t) /\ req[t].op \in SheetOps => SameSheets(snap[t], db)
    /\ req[t].op = "create" => NextSheet(db, req[t].s)
    /\ req[t].op = "recalc" => db.sheet[req[t].s].state = "DRAFT"

SheetInv ==
    /\ TypeOK /\ Numbered(db)
    /\ PlacedWithinDemand /\ WorkHasItsSheet
    /\ \A t \in Tx : ~Idle(t) => Serves(t)

\* A cycle has one sheet of a period past DRAFT, as the comment of the check in front
\* of a new sheet says (requirementSheetLifecycleService.js:78).  Locking does not
\* repeat that check, so two drafts of one cycle and period are both locked.
OneTerminalSheet ==
    \A s, u \in Sheet :
      /\ db.sheet[s].state \in {"LOCKED", "CANCELLED"} /\ u \in SameDemand(db, db.sheet[s].cycle, db.sheet[s].period)
      /\ db.sheet[u].state \in {"LOCKED", "CANCELLED"}
      => s = u
==============================================================================
