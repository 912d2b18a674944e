-------------------------- MODULE SerialFulfilment ---------------------------
(***************************************************************************)
(* What the handlers promise together: each request is served as if it     *)
(* were alone, validating the current tables and writing in one step.      *)
(* "LOCK -> RE-READ -> VALIDATE -> WRITE" (dispatchWriteLocks.js) is meant *)
(* to give exactly this.                                                   *)
(***************************************************************************)
EXTENDS Handlers

VARIABLE db

Init == \E first \in FirstStatus : db = TablesInit(first)

Serve(r) ==
    /\ Fresh(r, db)
    /\ Readable(r, db)
    /\ Allowed(r, db)
    /\ Insertable(r, db)
    /\ db' = Written(r, db, db)

Next == \E r \in Request : Serve(r)

Spec == Init /\ [][Next]_db
==============================================================================
