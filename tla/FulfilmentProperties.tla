------------------------ MODULE FulfilmentProperties -------------------------
(***************************************************************************)
(* What is claimed of the concurrent order-to-dispatch handlers.           *)
(***************************************************************************)
EXTENDS Fulfilment

\* The type invariant of the tables and of the engine.
TypeOK ==
    /\ db \in Tables
    /\ held \in [Tx -> [Row -> LockMode]]
    /\ req \in [Tx -> Request \cup {NoReq}]
    /\ at \in [Tx -> 0 .. 5]
    /\ snap \in [Tx -> Tables \cup {NoView}]
    /\ answer \in [Tx -> Answer]

(***************************************************************************)
(* Dispatch rows and their postings.                                       *)
(***************************************************************************)

(***************************************************************************)
(* A confirmed dispatch has exactly one DISPATCH row in the ledger and any *)
(* other dispatch none, although /:id/lock and finalize-draft may both run *)
(* on a row, be repeated after a rollback, and read its state before they  *)
(* hold the order (dispatch.js 2910, 3182).                                *)
(***************************************************************************)
PostedOnce ==
    \A d \in Dispatch :
      db.disp[d].posted = IF db.disp[d].state = "LOCKED" THEN 1 ELSE 0

(***************************************************************************)
(* POST /dispatches reuses the draft of the same order and item: two       *)
(* simultaneous POSTs never leave overlapping drafts (dispatch.js 2840).   *)
(***************************************************************************)
OneDraftPerLine ==
    \A l \in Line : \A d, e \in Drafts(db, l) : d = e

(***************************************************************************)
(* No interleaving of preparing, confirming, deleting and reversing lets   *)
(* drafts and confirmed dispatches together exceed the ordered quantity.   *)
(* Confirming validates on a view read before it holds the order           *)
(* (dispatch.js 2925-2960), so this rests on what the row lock excludes.   *)
(***************************************************************************)
NetWithinOrdered ==
    \A l \in Line : OperationalNet(db, l) <= Ordered[l]

(***************************************************************************)
(* What was confirmed for a line is covered by its active QC acceptance    *)
(* (dispatchQcCap.js 175), as long as no QC entry of it is reversed:       *)
(* confirming validates on a view taken before the order was locked.       *)
(***************************************************************************)
ConfirmedWithinAccepted ==
    \A l \in Line :
      (\A q \in QcEntry : BatchOf[q] = l => db.qc[q] # "reversed") =>
        ConfirmedNet(db, l) <= Accepted(db, l)

(***************************************************************************)
(* The two ledger scopes of an item together equal what active QC entries  *)
(* brought in, less what was posted for dispatches, plus reversals: no     *)
(* rollback, stale view or lost update makes the books drift.              *)
(***************************************************************************)
BroughtIn(v, i) ==
    SumFunctionOnSet(QcQty, {q \in QcEntry : BatchItem(q) = i /\ v.qc[q] = "active"})

Posting(v, d) == v.disp[d].posted * v.disp[d].qty - v.disp[d].reversed

TakenOut(v, i) ==
    SumFunctionOnSet([d \in Dispatch |-> Posting(v, d)], {d \in Dispatch : ItemOfDispatch(d) = i})

BooksBalance ==
    \A i \in Item : db.fg[i] + db.seen[i] = BroughtIn(db, i) - TakenOut(db, i)

(***************************************************************************)
(* reversedAt on the forward stock row means that its reversals cover it   *)
(* (dispatch.js 3682): reversals that validated on stale views included.   *)
(***************************************************************************)
StampMeansFullyReversed ==
    \A d \in Dispatch :
      db.disp[d].stamped => db.disp[d].reversed >= db.disp[d].qty

(***************************************************************************)
(* A confirmed dispatch is final: it stays confirmed with the quantity it  *)
(* was posted with, and reversed quantity is never taken back.  A POST     *)
(* that found the row as a draft must not rewrite it once it is locked.    *)
(***************************************************************************)
FrozenOnceLocked ==
    [][\A d \in Dispatch :
         db.disp[d].state = "LOCKED" =>
           /\ db'.disp[d].state = "LOCKED"
           /\ db'.disp[d].qty = db.disp[d].qty
           /\ db'.disp[d].reversed >= db.disp[d].reversed]_vars

\* None of its dispatches has been reversed.
NeverReversed(v, o) == \A d \in Dispatch : SoOfDispatch(d) = o => v.disp[d].reversed = 0

(***************************************************************************)
(* "This sales order is completed. No further dispatch is allowed."        *)
(* (salesOrderDispatchHelpers.js 42): of a completed order none of whose   *)
(* dispatches was reversed no dispatch is created, confirmed or deleted,   *)
(* also not by a handler that read the order before it was completed.      *)
(***************************************************************************)
NothingMovesOnceCompleted ==
    [][\A d \in Dispatch :
         db.status[SoOfDispatch(d)] = "COMPLETED" /\ NeverReversed(db, SoOfDispatch(d)) =>
           db'.disp[d].state = db.disp[d].state]_vars

(***************************************************************************)
(* The concurrent handlers implement the serial ones.                      *)
(***************************************************************************)
Serial == INSTANCE SerialFulfilment
ImplementsSerial == Serial!Spec

(***************************************************************************)
(* Waiting.                                                                *)
(***************************************************************************)

\* The handlers that lock the order first, then the item, then one more row.
OrderFirstOps == {"post", "reverse", "status", "cancel", "qcReverse"}

(***************************************************************************)
(* "Lock order ...: SalesOrder -> Item -> Dispatch ... to reduce deadlock  *)
(* risk" (dispatchWriteLocks.js 5): of transactions that wait for one      *)
(* another in a cycle one runs a handler that does not keep this order.    *)
(***************************************************************************)
NoWaitCycle ==
    \A S \in SUBSET Tx : Cycle(S) => \E t \in S : req[t].op \notin OrderFirstOps

\* Every request is answered: deadlocks are broken and no wait is for ever.
EveryRequestEnds == \A t \in Tx : ~Idle(t) ~> Idle(t)

(***************************************************************************)
(* A claim of the repository that its code does not keep.                  *)
(***************************************************************************)

\* "Cannot reverse more than dispatched quantity" (dispatch.js 3624).
ReversedWithinForward ==
    \A d \in Dispatch : db.disp[d].reversed <= db.disp[d].qty
==============================================================================
