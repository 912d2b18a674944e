-------------------------------- MODULE RowTx --------------------------------
(***************************************************************************)
(* The database engine under the backend: interactive Prisma transactions  *)
(* on MySQL 8 InnoDB.  It is external code, modelled from how the routes   *)
(* use it: every handler runs inside one prisma.$transaction, locks rows   *)
(* with SELECT ... FOR UPDATE, reads the rest with plain SELECTs, and      *)
(* commits at its end.  No handler sets an isolation level, so InnoDB's    *)
(* default REPEATABLE READ applies:                                        *)
(*   - the first plain SELECT of a transaction fixes its read view (snap), *)
(*     which later SELECTs of the same transaction keep using;             *)
(*   - a locking read neither creates nor moves that view;                 *)
(*   - row locks are held until the transaction ends;                      *)
(*   - InnoDB rolls back one transaction of a cycle of lock waits, and     *)
(*     Prisma one that outlives its 5 second limit.                        *)
(* A handler's writes reach db only when it commits: until then the rows   *)
(* it writes are invisible to plain SELECTs and locked against the rest.   *)
(***************************************************************************)
EXTENDS Naturals

CONSTANTS
    Tx,         \* connections, each running one request at a time
    Row,        \* the rows that handlers lock
    NoReq,      \* the request of an idle connection
    NoView      \* the read view of a transaction that has read nothing

VARIABLES
    db,         \* the committed tables
    held,       \* held[t][r]: the lock transaction t has on row r
    req,        \* the request each connection is serving
    at,         \* the step of its handler it has reached, 0 when idle
    snap,       \* its read view
    answer      \* what the last request of the connection was told

engine == <<held, req, at, snap, answer>>
vars == <<db, held, req, at, snap, answer>>

LockMode == {"-", "S", "X"}
Answer == {"none", "done", "refused", "failed"}

Idle(t) == at[t] = 0
Unlocked == [r \in Row |-> "-"]

Conflict(m, n) == m # "-" /\ n # "-" /\ (m = "X" \/ n = "X")

\* The transactions whose lock on row r keeps t from taking it in mode m.
Blockers(t, r, m) == {u \in Tx \ {t} : Conflict(held[u][r], m)}

EngineInit ==
    /\ held = [t \in Tx |-> Unlocked]
    /\ req = [t \in Tx |-> NoReq]
    /\ at = [t \in Tx |-> 0]
    /\ snap = [t \in Tx |-> NoView]
    /\ answer = [t \in Tx |-> "none"]

(***************************************************************************)
(* Moves of one transaction.                                               *)
(***************************************************************************)

Begin(t, r) ==
    /\ Idle(t)
    /\ req' = [req EXCEPT ![t] = r]
    /\ at' = [at EXCEPT ![t] = 1]
    /\ answer' = [answer EXCEPT ![t] = "none"]
    /\ UNCHANGED <<db, held, snap>>

\* The same for a request whose first statement is a plain SELECT.
BeginReading(t, r) ==
    /\ Idle(t)
    /\ req' = [req EXCEPT ![t] = r]
    /\ at' = [at EXCEPT ![t] = 2]
    /\ snap' = [snap EXCEPT ![t] = db]
    /\ answer' = [answer EXCEPT ![t] = "none"]
    /\ UNCHANGED <<db, held>>

\* SELECT ... FOR UPDATE, or the implicit lock of an UPDATE or an INSERT.
Take(t, r, m) ==
    /\ Blockers(t, r, m) = {}
    /\ held' = [held EXCEPT ![t][r] = m]
    /\ at' = [at EXCEPT ![t] = @ + 1]
    /\ UNCHANGED <<db, req, snap, answer>>

\* The same for a step that has more rows to lock.
Grab(t, r, m) ==
    /\ Blockers(t, r, m) = {}
    /\ held' = [held EXCEPT ![t][r] = m]
    /\ UNCHANGED <<db, req, at, snap, answer>>

\* The first plain SELECT.
ReadView(t) ==
    /\ snap' = [snap EXCEPT ![t] = db]
    /\ at' = [at EXCEPT ![t] = @ + 1]
    /\ UNCHANGED <<db, held, req, answer>>

\* A step that has nothing to do for this request.
Pass(t) ==
    /\ at' = [at EXCEPT ![t] = @ + 1]
    /\ UNCHANGED <<db, held, req, snap, answer>>

\* COMMIT or ROLLBACK: the locks go, the connection is free, a is answered.
Finish(t, a) ==
    /\ held' = [held EXCEPT ![t] = Unlocked]
    /\ req' = [req EXCEPT ![t] = NoReq]
    /\ at' = [at EXCEPT ![t] = 0]
    /\ snap' = [snap EXCEPT ![t] = NoView]
    /\ answer' = [answer EXCEPT ![t] = a]

Commit(t, tables) == Finish(t, "done") /\ db' = tables
Refuse(t) == Finish(t, "refused") /\ UNCHANGED db
Rollback(t, a) == Finish(t, a) /\ UNCHANGED db
==============================================================================
