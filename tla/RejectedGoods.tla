---------------------------- MODULE RejectedGoods ----------------------------
(***************************************************************************)
(* What the lots of rejected goods promise.  The goods of a lot wait until *)
(* they are decided on.  Decisions take them away for good or hand some of *)
(* them to a lot split off; none ever come back, and none of a lot that    *)
(* goes with its QC entry.                                                 *)
(***************************************************************************)
EXTENDS Integers

CONSTANTS Lot, Entry, EntryOf

VARIABLES
    stage,      \* of each lot: "none" yet, "open", "done", or "void"
    waiting     \* the goods of each lot that wait for a decision

Init ==
    /\ stage \in [Lot -> {"none", "open"}]
    /\ waiting \in [Lot -> Nat]
    /\ \A d \in Lot : waiting[d] > 0 <=> stage[d] = "open"

Same(d) == stage'[d] = stage[d] /\ waiting'[d] = waiting[d]

\* A lot is open as long as goods of it wait.
OpenOrDone(d) ==
    /\ waiting'[d] >= 0
    /\ stage'[d] = IF waiting'[d] > 0 THEN "open" ELSE "done"

\* Inspection finds rejects of entry q: lots that wait, and scrap that does not.
Come(q) ==
    \A d \in Lot : Same(d) \/ (EntryOf[d] = q /\ stage[d] = "none" /\ OpenOrDone(d))

\* Some or all goods of lot d are scrapped, released or reworked.
Decide(d) ==
    /\ stage[d] = "open"
    /\ OpenOrDone(d)
    /\ waiting'[d] <= waiting[d]
    /\ \A f \in Lot \ {d} : Same(f)

\* A new lot e takes over goods of d.
Split(d, e) ==
    /\ stage[d] = "open" /\ stage[e] = "none" /\ EntryOf[e] = EntryOf[d]
    /\ OpenOrDone(d) /\ OpenOrDone(e)
    /\ waiting'[d] + waiting'[e] <= waiting[d]
    /\ \A f \in Lot \ {d, e} : Same(f)

\* Entry q goes with all lots it has.
Void(q) ==
    \A d \in Lot :
      IF EntryOf[d] = q /\ stage[d] # "none"
      THEN stage'[d] = "void" /\ waiting'[d] = 0
      ELSE Same(d)

Next ==
    \/ \E q \in Entry : Come(q) \/ Void(q)
    \/ \E d \in Lot : Decide(d)
    \/ \E d, e \in Lot : Split(d, e)

Spec == Init /\ [][Next]_<<stage, waiting>>
==============================================================================
