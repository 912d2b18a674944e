------------------------- MODULE FulfilmentInvariant -------------------------
(***************************************************************************)
(* The inductive invariant behind the theorems of FulfilmentProofs: what a *)
(* transaction that has come so far in its handler holds and knows.        *)
(***************************************************************************)
EXTENDS FulfilmentProperties

\* The place of the first plain SELECT in a handler.
ReadAt(op) ==
    CASE op = "post" -> 3
      [] op \in {"lock", "finalize", "delete", "qcPost"} -> 2
      [] op \in {"reverse", "status", "cancel", "qcReverse"} -> 1

DraftOps == {"lock", "finalize", "delete"}

Doing(t, ops, n) == ~Idle(t) /\ req[t].op \in ops /\ at[t] > n
Viewed(t) == ~Idle(t) /\ at[t] > ReadAt(req[t].op)

\* A busy connection is at a step of the plan of its request.
InPlan ==
    \A t \in Tx :
      IF Idle(t) THEN req[t] = NoReq
      ELSE req[t] \in Request /\ at[t] \in 1 .. Len(Plan(req[t].op))

ViewTyped == \A t \in Tx : Viewed(t) => snap[t] \in Tables

LocksExclusive ==
    \A t, u \in Tx : \A r \in Row :
      t # u /\ held[t][r] = "X" => held[u][r] = "-"

\* The dispatch row a handler is about to write is its own.
HoldsDispatch ==
    \A t \in Tx :
      /\ Doing(t, DraftOps, 1) => held[t][req[t].d] = "X"
      /\ Doing(t, {"reverse"}, 4) => held[t][req[t].d] = "X"
      /\ Doing(t, {"post"}, 4) /\ Drafts(snap[t], LineOf[req[t].d]) # {} =>
           held[t][DraftOf(snap[t], LineOf[req[t].d])] = "X"

HoldsOrder ==
    \A t \in Tx :
      Doing(t, {"post"}, 1) \/ Doing(t, DraftOps, 3) =>
        held[t][SoOfDispatch(req[t].d)] = "X"

\* Having locked the row before reading it, these handlers know it.
DraftStable ==
    \A t \in Tx :
      Doing(t, DraftOps, 2) =>
        /\ snap[t].disp[req[t].d] = db.disp[req[t].d]
        /\ db.disp[req[t].d].state = "UNLOCKED"

\* Having locked the order before reading, a POST knows which rows are drafts.
LineStable ==
    \A t \in Tx :
      Doing(t, {"post"}, 3) =>
        \A e \in DispatchesOf(LineOf[req[t].d]) :
          snap[t].disp[e].state = db.disp[e].state

\* How a dispatch row may differ from what it was before.
RowMove(x, y) ==
    /\ x.state # "absent" => y.state # "absent"
    /\ x.state = "LOCKED" => /\ y.state = "LOCKED"
                             /\ y.qty = x.qty
                             /\ y.reversed >= x.reversed

\* A stale view is off by such moves and no others.
ViewOlder ==
    \A t \in Tx :
      Viewed(t) => \A d \in Dispatch : RowMove(snap[t].disp[d], db.disp[d])

FreshIds ==
    \A t \in Tx :
      Doing(t, {"post"}, 0) =>
        /\ db.disp[req[t].d].state = "absent"
        /\ \A u \in Tx : u # t /\ Doing(u, {"post"}, 0) => req[u].d # req[t].d

StampedLocked ==
    \A d \in Dispatch : db.disp[d].stamped => db.disp[d].state = "LOCKED"

IInv ==
    /\ TypeOK /\ InPlan /\ ViewTyped /\ LocksExclusive
    /\ HoldsDispatch /\ HoldsOrder /\ DraftStable /\ LineStable
    /\ ViewOlder /\ FreshIds /\ StampedLocked
    /\ PostedOnce /\ OneDraftPerLine /\ StampMeansFullyReversed

(***************************************************************************)
(* What the quantities rest on besides: the views a handler validates on,  *)
(* the rows of its line that it cannot miss, identifiers of QC entries.    *)
(***************************************************************************)

\* Only a confirmed row has been reversed.
Unreversed(v) == \A d \in Dispatch : v.disp[d].state # "LOCKED" => v.disp[d].reversed = 0

SoundTables == Unreversed(db) /\ \A t \in Tx : Viewed(t) => Unreversed(snap[t])

\* QC entries are never removed.
EntriesOlder ==
    \A t \in Tx :
      Viewed(t) => \A q \in QcEntry : snap[t].qc[q] # "absent" => db.qc[q] # "absent"

FreshEntries ==
    \A t \in Tx :
      Doing(t, {"qcPost"}, 0) =>
        /\ db.qc[req[t].q] = "absent"
        /\ \A u \in Tx : u # t /\ Doing(u, {"qcPost"}, 0) => req[u].q # req[t].q

\* While a draft waits to be confirmed no other row of its line is.
ConfirmationsKnown ==
    \A t \in Tx :
      Doing(t, {"lock", "finalize"}, 2) =>
        \A e \in DispatchesOf(LineOf[req[t].d]) :
          db.disp[e].state = "LOCKED" => snap[t].disp[e].state = "LOCKED"

\* Whoever is about to set the status of an order holds it.
HoldsOrderToSet ==
    \A t \in Tx :
      /\ Doing(t, {"reverse", "status", "cancel"}, 2) => held[t][SoOfRequest(req[t])] = "X"
      /\ Doing(t, {"qcPost"}, 4) /\ QcPostCloses(req[t], snap[t]) =>
           held[t][BatchSo(req[t].q)] = "X"

\* A POST, which reads with the order locked, knows its status.
StatusKnown ==
    \A t \in Tx :
      Doing(t, {"post"}, 3) =>
        snap[t].status[SoOfDispatch(req[t].d)] = db.status[SoOfDispatch(req[t].d)]

\* What QC ever accepted for a line, reversed or not.
Received(v, l) == SumFunctionOnSet(QcQty, {q \in QcEntry : BatchOf[q] = l /\ v.qc[q] # "absent"})

ConfirmedWithinReceived == \A l \in Line : ConfirmedNet(db, l) <= Received(db, l)

QInv ==
    /\ SoundTables /\ EntriesOlder /\ FreshEntries /\ ConfirmationsKnown
    /\ HoldsOrderToSet /\ StatusKnown
    /\ NetWithinOrdered /\ BooksBalance /\ ConfirmedWithinReceived

(***************************************************************************)
(* What completion rests on: what was confirmed by then fills every line,  *)
(* unless it was reversed meanwhile, and a draft is never empty.           *)
(***************************************************************************)

DraftsPositive == \A d \in Dispatch : db.disp[d].state = "UNLOCKED" => db.disp[d].qty > 0

CompletedHasNoDraft ==
    \A d \in Dispatch :
      db.status[SoOfDispatch(d)] = "COMPLETED" /\ NeverReversed(db, SoOfDispatch(d)) =>
        db.disp[d].state # "UNLOCKED"

CInv == DraftsPositive /\ CompletedHasNoDraft

(***************************************************************************)
(* What the freedom from cycles rests on: rows are locked by rank.         *)
(***************************************************************************)

Rank(r) == IF r \in SO THEN 1 ELSE IF r \in Item THEN 2 ELSE 3

\* The rank that a handler has locked up to when it comes to step i.
Reached(op, i) ==
    IF op = "post" THEN IF i < 4 THEN i - 1 ELSE i - 2
    ELSE IF i = 1 THEN 0 ELSE i - 2

LockedByRank ==
    \A t \in Tx : \A r \in Row :
      held[t][r] # "-" =>
        /\ ~Idle(t)
        /\ req[t].op \in OrderFirstOps => Rank(r) <= Reached(req[t].op, at[t])

(***************************************************************************)
(* What the serial equivalence rests on: while dispatches are prepared,    *)
(* confirmed and deleted and nothing else happens, the view on which a     *)
(* handler validates is current in all that it looks at.                   *)
(***************************************************************************)

\* Only such requests, and an order of one line: what one line shows of the others
\* of its order is then the same for every view.
DispatchOnly ==
    /\ Ops \subseteq {"post"} \cup DraftOps
    /\ \A k, l \in Line : SoOf[k] = SoOf[l] => k = l

\* What the handlers of line l look at.
AgreeOn(v, w, l) ==
    /\ \A d \in DispatchesOf(l) : v.disp[d] = w.disp[d]
    /\ v.status[SoOf[l]] = w.status[SoOf[l]]
    /\ v.qc = w.qc /\ v.seen = w.seen

ViewsCurrent ==
    \A t \in Tx : Viewed(t) => AgreeOn(snap[t], db, LineOf[req[t].d])
==============================================================================
