----------------------------- MODULE CycleSequence ----------------------------
(***************************************************************************)
(* What the cycles of a NO_QTY order promise: they are numbered without a  *)
(* gap, one at most is open, it is the newest, and a closed one stays so.  *)
(***************************************************************************)
EXTENDS Naturals

VARIABLES
    newest,     \* the number of the newest cycle
    open        \* whether it is open

Init == newest = 1 /\ open = TRUE

\* The next cycle, in place of the open one if there is one.
Open == newest' = newest + 1 /\ open' = TRUE

Close == open /\ open' = FALSE /\ UNCHANGED newest

Next == Open \/ Close

Spec == Init /\ [][Next]_<<newest, open>>
==============================================================================
