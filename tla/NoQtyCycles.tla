----------------------------- MODULE NoQtyCycles ------------------------------
(***************************************************************************)
(* The cycles of a NO_QTY order: their repair, the advance to the next     *)
(* one, their closing, and the closing and reopening of the order.  Each   *)
(* operator gives the tables as the transaction sees them afterwards:      *)
(* its view with its own writes.                                           *)
(***************************************************************************)
EXTENDS CycleTables

\* Mutant: make the newest cycle ACTIVE again when none is.
RepairedReactivates(v) ==
    [v EXCEPT !.cycle[Newest(Known(v))] = "ACTIVE", !.cur = Newest(Known(v))]

\* repairNoQtyCycleIntegrity: one ACTIVE cycle, and the pointer on it.
Repaired(v) ==
    LET A == Actives(v)
        keep == Newest(A)
    IN  [v EXCEPT
          !.cycle = [c \in Cycle |-> IF c \in A \ {keep} THEN "CLOSED" ELSE @[c]],
          !.cur = IF Closed(v) /\ @ = 0 /\ A \subseteq {keep} THEN 0 ELSE keep]

\* Mutant: number after the cycles that have sheets.
NextNoAfterSheets(v) == Newest({c \in Cycle : SheetsOn(v, c) # {}}) + 1

\* A new ACTIVE cycle gets the next number.
NextNo(v) == Newest(Known(v)) + 1

Opened(v) ==
    [v EXCEPT !.cycle = [c \in Cycle |-> IF c = NextNo(v) THEN "ACTIVE" ELSE @[c]],
              !.cur = NextNo(v)]

Ended(v, c) == [v EXCEPT !.cycle = [d \in Cycle |-> IF d = c THEN "CLOSED" ELSE @[d]]]

\* computeNoQtyCreateNextRsEligibility: the cycle's latest sheet is locked, with
\* work placed on the cycle, or cancelled, and nothing is planned ahead of it.
NextSheetEligible(v, c) ==
    /\ ~Closed(v)
    /\ SheetsOn(v, c) # {}
    /\ LET latest == v.sheet[Latest(v, SheetsOn(v, c))].state
       IN  latest = "CANCELLED" \/ (latest = "LOCKED" /\ HasWork(v, c))
    /\ \A d \in Actives(v) : d > c =>
         \A s \in SheetsOn(v, d) : v.sheet[s].state \notin {"LOCKED", "DRAFT"}

\* advanceNoQtyCycleForNextRequirementSheetIfEligible
Advanced(v) ==
    LET u == Repaired(v)
        active == Newest(Actives(u))
    IN  IF ~Closed(u) /\ active # 0 /\ NextSheetEligible(u, active)
        THEN Opened(Ended(u, active))
        ELSE u

\* resolveNoQtyActiveCycleIdForPlanning
\* Mutant: number the new cycle after the ones that are closed.
ResolvedAnew(v) ==
    LET u == Repaired(v) IN Opened(u)

Resolved(v) ==
    LET u == Repaired(v)
    IN  IF Actives(u) = {} THEN Opened(u) ELSE [u EXCEPT !.cur = Newest(Actives(u))]

\* maybeAutoCloseNoQtyCycle, for the cycle that was dispatched from.
LockedOn(v, c) == {s \in SheetsOn(v, c) : v.sheet[s].state = "LOCKED"}

\* The quantity a cycle has to ship: that of the locked sheet created last.
CycleCap(v, c) ==
    LET s == Max(LockedOn(v, c)) IN Max({v.sheet[s].plan, v.sheet[s].qty})

CapMet(v, c) ==
    /\ LockedOn(v, c) # {}
    /\ v.shipped[c] > 0
    /\ v.shipped[c] >= CycleCap(v, c)

\* Mutant: move the pointer on instead of clearing it.
AutoClosedMovesOn(v, c) ==
    IF v.cur = c /\ c # 0 /\ CapMet(v, c) THEN [Ended(v, c) EXCEPT !.cur = c + 1] ELSE v

AutoClosed(v, c) ==
    IF ~Closed(v) /\ c # 0 /\ v.cur = c /\ CapMet(v, c) /\ CycleCap(v, c) > 0
    THEN [Ended(v, c) EXCEPT !.cur = 0]
    ELSE v

\* closeEmptyNoQtyActiveCycle
EmptyCloseAllowed(v) ==
    /\ ~Closed(v)
    /\ v.cur # 0
    /\ v.cycle[v.cur] = "ACTIVE"
    /\ SheetsOn(v, v.cur) = {}
    /\ ~HasWork(v, v.cur)
    /\ v.shipped[v.cur] + v.prepared[v.cur] = 0

EmptyClosed(v) == [Ended(v, v.cur) EXCEPT !.cur = 0]

(***************************************************************************)
(* Closing the order itself.                                               *)
(***************************************************************************)

\* computeNoQtyManualCloseEligibility
CloseEligible(v) ==
    LET active == Newest(Actives(v))
    IN  /\ \A c \in Cycle : v.prepared[c] = 0
        /\ active # 0 =>
             /\ PlacedOn(v, active) <= v.made[active]
             /\ \A s \in SheetsOn(v, active) : v.sheet[s].state # "DRAFT"
             /\ IF LockedOn(v, active) = {} THEN ~HasWork(v, active)
                ELSE HasWork(v, active) /\ (CapMet(v, active) \/ CycleCap(v, active) = 0)

NextClose(v) == 1 + Max({0} \cup {k \in 1..MaxClose : v.close[k] # "absent"})

\* createNoQtyCloseSnapshot, and the order MANUALLY_CLOSED without a current cycle.
\* What is written depends on the tables w as they are, not only on the view v.
ManuallyClosed(v, w) ==
    [w EXCEPT !.status = "MANUALLY_CLOSED",
              !.cur = 0,
              !.close = [k \in 1..MaxClose |->
                           IF k = NextClose(v) THEN "ACTIVE"
                           ELSE IF @[k] = "ACTIVE" THEN "ARCHIVED" ELSE @[k]]]

ActiveCloses(v) == {k \in 1..MaxClose : v.close[k] = "ACTIVE"}

ReopenAllowed(v) == Closed(v) /\ ActiveCloses(v) # {}

\* markSnapshotReopened; the cycles and the pointer stay as they are.
Reopened(v, w) ==
    [w EXCEPT !.status = "OPEN",
              !.close = [k \in 1..MaxClose |->
                           IF k = Max(ActiveCloses(v)) THEN "REOPENED"
                           ELSE IF @[k] = "ACTIVE" THEN "ARCHIVED" ELSE @[k]]]
==============================================================================
