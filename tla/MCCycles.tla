------------------------------- MODULE MCCycles -------------------------------
(***************************************************************************)
(* Small instances of one NO_QTY order.                                    *)
(***************************************************************************)
EXTENDS CycleProperties, TLC

CONSTANTS p1, t1, t2

MCRow == CycleRows

\* No property looks at the answers.
MCView == <<db, held, req, at, snap>>

\* A planner, and the office; a planner who is also the office, and the store.
MCPlannerAndOffice ==
    [t \in Tx |-> IF t = t1
       THEN {"create", "lines", "recalc", "lock", "createWo", "deleteDraft", "deleteAll",
             "cancel", "void", "closeEmpty"}
       ELSE {"prepareNext", "repair", "release"}]
MCOfficeAndStore ==
    [t \in Tx |-> IF t = t1
       THEN {"create", "lines", "lock", "createWo", "closeEmpty", "closeOrder", "reopen"}
       ELSE {"prepareNext", "repair", "release", "autoClose", "make", "prepare", "finalize"}]

\* A planner who creates, edits and locks sheets, and the office that plans the month.
MCSheetsOnly ==
    [t \in Tx |-> IF t = t1 THEN {"create", "lines", "lock"} ELSE {"repair", "release"}]
==============================================================================
