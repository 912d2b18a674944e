------------------------------ MODULE CycleProofs -----------------------------
(***************************************************************************)
(* Theorems about the cycles of a NO_QTY order for every value of the      *)
(* constants, in particular for any number of connections and cycles.      *)
(* The cycles: a request works on a view that is an earlier state of the   *)
(* same sequence of cycles (Behind).  Whatever it does to its view is one  *)
(* move of that sequence (Moves), and merging that move into the           *)
(* committed tables is one move of theirs, because a new number is         *)
(* refused by the unique key once it is taken (NumbersFree).               *)
(* Sheets and work orders: while one planner writes them, that planner's   *)
(* view shows them as they are (Serves), so that what a handler checks on  *)
(* its view holds of the tables it writes to (PlannerWrites), and nobody   *)
(* else touches them (OthersWrite).                                        *)
(***************************************************************************)
EXTENDS CycleProperties, SumTheorems

\* One move from v to u: cycles close, or the next number becomes the ACTIVE one.
Becomes(v, u, c) ==
    \/ u.cycle[c] = v.cycle[c]
    \/ v.cycle[c] = "ACTIVE" /\ u.cycle[c] = "CLOSED"
    \/ /\ c = Newest(Known(v)) + 1
       /\ v.cycle[c] = "absent" /\ u.cycle[c] = "ACTIVE"
       /\ \A d \in Cycle : d # c => u.cycle[d] # "ACTIVE"

Moves(v, u) == Shaped(u) /\ \A c \in Cycle : Becomes(v, u, c)

(***************************************************************************)
(* The newest cycle (orderBy cycleNo desc, _max cycleNo).                  *)
(***************************************************************************)
LEMMA NewestOf ==
    ASSUME NEW C, NEW n \in C, C \subseteq Nat, \A c \in C : c <= n
    PROVE  Newest(C) = n
<1>1. C # {}
  OBVIOUS
<1>2. PICK m \in C : m = Newest(C) /\ \A d \in C : d <= m
  BY <1>1 DEF Newest
<1> QED BY <1>2

LEMMA NewestOfNone == Newest({}) = 0
BY DEF Newest

LEMMA CycleType == Cycle \subseteq Nat /\ 0 \notin Cycle /\ MaxCycle \in Nat /\ 1 \in Cycle
BY CycleBounds DEF Cycle

\* At most one cycle is ACTIVE, the newest.
LEMMA OneActive ==
    ASSUME NEW v, Sound(v)
    PROVE  \/ Actives(v) = {} /\ Newest(Actives(v)) = 0
           \/ /\ Actives(v) = {Newest(Known(v))}
              /\ Newest(Actives(v)) = Newest(Known(v))
<1> DEFINE n == Newest(Known(v))
<1>1. n \in Nat /\ \A c \in Actives(v) : c = n
  BY CycleType DEF Sound
<1>2. CASE Actives(v) = {}
  BY <1>2, NewestOfNone
<1>3. CASE Actives(v) # {}
  <2>1. Actives(v) = {n}
    BY <1>1, <1>3
  <2>2. n \in {n} /\ {n} \subseteq Nat /\ \A c \in {n} : c <= n
    BY <1>1
  <2>3. Newest({n}) = n
    BY <2>2, NewestOf
  <2> QED BY <2>1, <2>3
<1> QED BY <1>2, <1>3

(***************************************************************************)
(* What a handler does to the view it has read.                            *)
(***************************************************************************)

\* v with some ACTIVE cycles CLOSED.
Closes(v, u) ==
    /\ DOMAIN u = DOMAIN TablesInit
    /\ u.cycle \in [Cycle -> CycleStatus]
    /\ \A c \in Cycle : u.cycle[c] = v.cycle[c] \/ (v.cycle[c] = "ACTIVE" /\ u.cycle[c] = "CLOSED")

LEMMA Fields == {"cycle", "cur", "sheet", "status"} \subseteq DOMAIN TablesInit
BY DEF TablesInit

LEMMA ClosesKnown ==
    ASSUME NEW v, NEW u, Closes(v, u) PROVE Known(u) = Known(v)
BY DEF Closes, Known

\* Opening the next cycle once none is ACTIVE.
LEMMA OpenedMoves ==
    ASSUME NEW v, NEW u, Sound(v), Closes(v, u), Actives(u) = {}, NextNo(u) \in Cycle
    PROVE  /\ Moves(v, Opened(u))
           /\ Opened(u).cur = NextNo(u)
           /\ Actives(Opened(u)) = {NextNo(u)}
<1> DEFINE n == NextNo(u)
           x == Opened(u)
<1>1. n = Newest(Known(v)) + 1
  BY ClosesKnown DEF NextNo
<1>2. DOMAIN x = DOMAIN TablesInit /\ x.cur = n
  BY Fields DEF Opened, Closes
<1>3. x.cycle = [c \in Cycle |-> IF c = n THEN "ACTIVE" ELSE u.cycle[c]]
  BY Fields DEF Opened, Closes
<1>4. x.cycle \in [Cycle -> CycleStatus]
  BY <1>3 DEF Closes, CycleStatus
<1>5. \A c \in Cycle : c # n => x.cycle[c] = u.cycle[c] /\ u.cycle[c] # "ACTIVE"
  BY <1>3 DEF Actives
<1>6. v.cycle[n] = "absent"
  <2>1. Newest(Known(v)) \in Nat /\ Known(v) = 1..Newest(Known(v))
    BY CycleType DEF Sound
  <2>2. n \notin Known(v)
    BY <1>1, <2>1
  <2> QED BY <2>2 DEF Known
<1>7. x.cycle[n] = "ACTIVE"
  BY <1>3
<1>8. Actives(x) = {n}
  BY <1>5, <1>7 DEF Actives
<1>9. n \in Known(x)
  BY <1>7 DEF Known
<1>10. \A c \in Cycle : Becomes(v, x, c)
  BY <1>1, <1>5, <1>6, <1>7 DEF Closes, Becomes
<1> QED BY <1>2, <1>4, <1>8, <1>9, <1>10 DEF Moves, Shaped

LEMMA StaysMoves ==
    ASSUME NEW v, NEW u, Closes(v, u), u.cur = 0 \/ u.cur \in Known(v)
    PROVE  Moves(v, u)
BY ClosesKnown DEF Closes, Moves, Becomes, Shaped

\* repairNoQtyCycleIntegrity finds one ACTIVE cycle at most.
LEMMA RepairedStays ==
    ASSUME NEW v, Shaped(v), Sound(v)
    PROVE  /\ Closes(v, Repaired(v)) /\ Repaired(v).cycle = v.cycle
           /\ Repaired(v).cur \in {0} \cup Actives(v)
           /\ Moves(v, Repaired(v))
<1> DEFINE A == Actives(v)
           u == Repaired(v)
<1>1. A \ {Newest(A)} = {} /\ Newest(A) \in {0} \cup A
  BY OneActive
<1>2. u.cycle = [c \in Cycle |-> IF c \in A \ {Newest(A)} THEN "CLOSED" ELSE v.cycle[c]]
  BY Fields DEF Repaired, Shaped
<1>3. u.cycle = v.cycle
  BY <1>1, <1>2 DEF Shaped
<1>4. DOMAIN u = DOMAIN TablesInit /\ u.cur \in {0, Newest(A)}
  BY Fields DEF Repaired, Shaped
<1>5. Closes(v, u)
  BY <1>3, <1>4 DEF Closes, Shaped
<1>6. A \subseteq Known(v)
  BY DEF Actives, Known
<1> QED BY <1>1, <1>3, <1>4, <1>5, <1>6, StaysMoves

\* advanceNoQtyCycleForNextRequirementSheetIfEligible closes the ACTIVE cycle and
\* opens the next, or leaves the cycles alone.
LEMMA AdvancedMoves ==
    ASSUME NEW v, Shaped(v), Sound(v)
    PROVE  \/ Advanced(v) = Repaired(v)
           \/ /\ Closes(v, Advanced(v)) /\ Actives(Advanced(v)) = {}
              /\ Advanced(v).cur = NextNo(Advanced(v)) /\ Advanced(v).cur \notin Cycle
           \/ /\ Moves(v, Advanced(v))
              /\ Actives(Advanced(v)) = {Advanced(v).cur}
              /\ Advanced(v).cur \in Cycle
<1> DEFINE u == Repaired(v)
           a == Newest(Actives(u))
           e == Ended(u, a)
<1>1. Closes(v, u) /\ u.cycle = v.cycle
  BY RepairedStays
<1>2. SUFFICES ASSUME a # 0, Advanced(v) = Opened(e)
               PROVE  \/ /\ Closes(v, Opened(e)) /\ Actives(Opened(e)) = {}
                         /\ Opened(e).cur = NextNo(Opened(e)) /\ Opened(e).cur \notin Cycle
                      \/ /\ Moves(v, Opened(e)) /\ Actives(Opened(e)) = {Opened(e).cur}
                         /\ Opened(e).cur \in Cycle
  BY DEF Advanced
<1>3. Actives(u) = Actives(v)
  BY <1>1 DEF Actives
<1>4. Actives(v) = {a}
  BY <1>2, <1>3, OneActive
<1>5. DOMAIN e = DOMAIN TablesInit
  BY <1>1, Fields DEF Ended, Closes
<1>6. e.cycle = [d \in Cycle |-> IF d = a THEN "CLOSED" ELSE v.cycle[d]]
  BY <1>1, Fields DEF Ended, Closes
<1>7. Closes(v, e)
  BY <1>4, <1>5, <1>6 DEF Closes, Shaped, CycleStatus, Actives
<1>8. Actives(e) = {}
  BY <1>4, <1>6 DEF Actives
<1>9. CASE NextNo(e) \in Cycle
  BY <1>7, <1>8, <1>9, OpenedMoves
<1>10. CASE NextNo(e) \notin Cycle
  <2>1. Opened(e).cycle = e.cycle
    BY <1>7, <1>10, Fields DEF Opened, Closes
  <2>2. Opened(e).cur = NextNo(e) /\ DOMAIN Opened(e) = DOMAIN TablesInit
    BY <1>7, Fields DEF Opened, Closes
  <2>3. Closes(v, Opened(e)) /\ Actives(Opened(e)) = {}
    BY <1>7, <1>8, <2>1, <2>2 DEF Closes, Actives
  <2>4. NextNo(Opened(e)) = NextNo(e)
    BY <2>1 DEF NextNo, Known
  <2> QED BY <1>10, <2>2, <2>3, <2>4
<1> QED BY <1>9, <1>10

\* A move leaves the cycles in order, newer than any view they were newer than, and
\* is a step of the sequence or none.
LEMMA MovesKeep ==
    ASSUME NEW v, NEW u, Sound(v), Moves(v, u)
    PROVE  /\ Sound(u)
           /\ \/ Newest(Known(u)) = Newest(Known(v)) + 1 /\ Actives(u) # {}
              \/ /\ Newest(Known(u)) = Newest(Known(v))
                 /\ Actives(u) \subseteq Actives(v)
<1> DEFINE n == Newest(Known(v))
<1>1. n \in Nat /\ n \in Cycle /\ Known(v) = 1..n /\ \A c \in Actives(v) : c = n
  BY CycleType DEF Sound
<1>2. CASE \E c \in Cycle : c = n + 1 /\ u.cycle[c] = "ACTIVE" /\ \A d \in Cycle : d # c => u.cycle[d] # "ACTIVE"
  <2>1. n + 1 \in Cycle /\ Actives(u) = {n + 1}
    BY <1>2 DEF Actives
  <2>2. n + 1 \in Known(u)
    BY <2>1 DEF Actives, Known
  <2>3. Known(u) = Known(v) \cup {n + 1}
    BY <2>2 DEF Moves, Becomes, Known
  <2>4. Known(u) = 1..(n + 1)
    BY <1>1, <2>3
  <2>5. Newest(Known(u)) = n + 1
    <3>1. n + 1 \in Known(u) /\ Known(u) \subseteq Nat /\ \A c \in Known(u) : c <= n + 1
      BY <1>1, <2>4
    <3> QED BY <3>1, NewestOf
  <2> QED BY <2>1, <2>4, <2>5 DEF Sound
<1>3. CASE \A c \in Cycle : \/ u.cycle[c] = v.cycle[c]
                            \/ v.cycle[c] = "ACTIVE" /\ u.cycle[c] = "CLOSED"
  <2>1. Known(u) = Known(v) /\ Actives(u) \subseteq Actives(v)
    BY <1>3 DEF Known, Actives
  <2> QED BY <1>1, <2>1 DEF Sound
<1> QED BY <1>2, <1>3 DEF Moves, Becomes

LEMMA MovesBehind ==
    ASSUME NEW s, NEW v, NEW u, Behind(s, v), Moves(v, u)
    PROVE  Behind(s, u)
BY DEF Behind, Moves, Becomes, Known

\* Moves look at the cycles only.
LEMMA SameCycles ==
    ASSUME NEW v, NEW w, v.cycle = w.cycle
    PROVE  /\ Known(v) = Known(w) /\ Actives(v) = Actives(w)
           /\ NextNo(v) = NextNo(w)
           /\ Sound(v) <=> Sound(w)
           /\ \A u : Moves(v, u) <=> Moves(w, u)
<1>1. Known(v) = Known(w) /\ Actives(v) = Actives(w)
  BY DEF Known, Actives
<1> QED BY <1>1 DEF NextNo, Sound, Moves, Becomes

\* resolveNoQtyActiveCycleIdForPlanning leaves one ACTIVE cycle, the current one.
LEMMA ResolvedMoves ==
    ASSUME NEW v, Shaped(v), Sound(v), Resolved(v).cur <= MaxCycle
    PROVE  Moves(v, Resolved(v)) /\ Actives(Resolved(v)) = {Resolved(v).cur}
<1> DEFINE u == Repaired(v)
           a == Newest(Actives(u))
<1>1. Closes(v, u) /\ u.cycle = v.cycle
  BY RepairedStays
<1>2. NextNo(u) \in Nat /\ NextNo(u) >= 1
  <2>1. NextNo(u) = Newest(Known(v)) + 1 /\ Newest(Known(v)) \in Nat
    BY <1>1, SameCycles, CycleType DEF NextNo, Sound
  <2> QED BY <2>1
<1>3. CASE Actives(u) = {}
  <2>1. Resolved(v) = Opened(u)
    BY <1>3 DEF Resolved
  <2>2. Opened(u).cur = NextNo(u)
    BY <1>1, Fields DEF Opened, Closes
  <2>3. NextNo(u) \in Cycle
    BY <1>2, <2>1, <2>2, CycleType DEF Cycle
  <2> QED BY <1>1, <1>3, <2>1, <2>3, OpenedMoves
<1>4. CASE Actives(u) # {}
  <2> DEFINE x == [u EXCEPT !.cur = a]
  <2>1. Resolved(v) = x
    BY <1>4 DEF Resolved
  <2>2. x.cycle = v.cycle /\ x.cur = a /\ DOMAIN x = DOMAIN TablesInit
    BY <1>1, Fields DEF Closes
  <2>3. Actives(v) = {a}
    BY <1>1, <1>4, OneActive, SameCycles
  <2>4. Closes(v, x) /\ a \in Known(v) /\ Actives(x) = {a}
    BY <2>2, <2>3 DEF Closes, Shaped, Actives, Known
  <2> QED BY <2>1, <2>2, <2>4, StaysMoves
<1> QED BY <1>3, <1>4

\* ensureActive after an advance, as a new sheet does.
LEMMA ForNewSheetMoves ==
    ASSUME NEW v, Shaped(v), Sound(v), ForNewSheet(v).cur <= MaxCycle
    PROVE  Moves(v, ForNewSheet(v))
<1> DEFINE x == Advanced(v)
<1>1. CASE x = Repaired(v)
  <2>1. x.cycle = v.cycle /\ Shaped(x)
    BY <1>1, RepairedStays DEF Moves
  <2>2. Sound(x)
    BY <2>1, SameCycles
  <2>3. Moves(x, Resolved(x))
    BY <2>1, <2>2, ResolvedMoves DEF ForNewSheet
  <2> QED BY <2>1, <2>3, SameCycles DEF ForNewSheet
<1>2. CASE Closes(v, x) /\ Actives(x) = {} /\ x.cur = NextNo(x) /\ x.cur \notin Cycle
  <2> DEFINE u == Repaired(x)
  <2>1. u.cycle = x.cycle
    <3>1. u.cycle = [c \in Cycle |-> x.cycle[c]]
      BY <1>2, Fields DEF Repaired, Closes
    <3> QED BY <1>2, <3>1 DEF Closes
  <2>2. DOMAIN u = DOMAIN TablesInit
    BY <1>2, Fields DEF Repaired, Closes
  <2>3. Actives(u) = {} /\ NextNo(u) = NextNo(x)
    BY <1>2, <2>1, SameCycles
  <2>4. ForNewSheet(v) = Opened(u)
    BY <2>3 DEF ForNewSheet, Resolved
  <2>5. Opened(u).cur = NextNo(x)
    BY <2>2, <2>3, Fields DEF Opened
  <2>6. NextNo(x) = Newest(Known(v)) + 1 /\ Newest(Known(v)) \in Nat
    BY <1>2, ClosesKnown, CycleType DEF NextNo, Sound
  <2> QED BY <1>2, <2>4, <2>5, <2>6, CycleType DEF Cycle
<1>3. CASE Moves(v, x) /\ Actives(x) = {x.cur} /\ x.cur \in Cycle
  <2> DEFINE u == Repaired(x)
             a == Newest(Actives(u))
  <2>1. Shaped(x) /\ Sound(x)
    BY <1>3, MovesKeep DEF Moves
  <2>2. Closes(x, u) /\ u.cycle = x.cycle
    BY <2>1, RepairedStays
  <2>3. Actives(u) = {x.cur}
    BY <1>3, <2>2, SameCycles
  <2>4. a \in Actives(x)
    BY <1>3, <2>1, <2>3, OneActive
  <2>5. Resolved(x) = [u EXCEPT !.cur = a]
    BY <2>3 DEF Resolved
  <2>6. Resolved(x).cycle = x.cycle /\ Resolved(x).cur = a
        /\ DOMAIN Resolved(x) = DOMAIN TablesInit
    BY <2>2, <2>5, Fields DEF Closes
  <2>7. a \in Known(Resolved(x))
    BY <2>4, <2>6 DEF Actives, Known
  <2> QED BY <1>3, <2>6, <2>7 DEF Moves, Becomes, Shaped, ForNewSheet
<1> QED BY <1>1, <1>2, <1>3, AdvancedMoves

\* maybeAutoCloseNoQtyCycle and closeEmptyNoQtyActiveCycle close the current cycle.
LEMMA EndedMoves ==
    ASSUME NEW v, Shaped(v), v.cur # 0
    PROVE  /\ Moves(v, [Ended(v, v.cur) EXCEPT !.cur = 0])
           /\ Known([Ended(v, v.cur) EXCEPT !.cur = 0]) = Known(v)
<1> DEFINE x == [Ended(v, v.cur) EXCEPT !.cur = 0]
<1>1. v.cur \in Cycle /\ v.cycle[v.cur] \in {"ACTIVE", "CLOSED"}
  BY DEF Shaped, Known, CycleStatus
<1>2. x.cycle = [d \in Cycle |-> IF d = v.cur THEN "CLOSED" ELSE v.cycle[d]]
  BY Fields DEF Ended, Shaped
<1>3. x.cur = 0 /\ DOMAIN x = DOMAIN TablesInit
  BY Fields DEF Ended, Shaped
<1>4. \A d \in Cycle : \/ x.cycle[d] = v.cycle[d]
                       \/ v.cycle[d] = "ACTIVE" /\ x.cycle[d] = "CLOSED"
  BY <1>1, <1>2
<1>5. x.cycle \in [Cycle -> CycleStatus]
  BY <1>2 DEF Shaped, CycleStatus
<1>6. Closes(v, x)
  BY <1>3, <1>4, <1>5 DEF Closes
<1> QED BY <1>3, <1>6, StaysMoves, ClosesKnown

LEMMA AutoClosedMoves ==
    ASSUME NEW v, NEW c, Shaped(v)
    PROVE  Moves(v, AutoClosed(v, c)) /\ Known(AutoClosed(v, c)) = Known(v)
<1>1. CASE AutoClosed(v, c) = v
  BY <1>1 DEF Moves, Becomes
<1>2. CASE AutoClosed(v, c) = [Ended(v, v.cur) EXCEPT !.cur = 0] /\ v.cur # 0
  BY <1>2, EndedMoves
<1> QED BY <1>1, <1>2 DEF AutoClosed

(***************************************************************************)
(* What a handler leaves in the committed tables.                          *)
(***************************************************************************)

\* The move made on the view v is one move of the tables w that v has become: a
\* cycle closed meanwhile stays closed, and a number taken meanwhile is refused.
LEMMA MergedMoves ==
    ASSUME NEW v, NEW u, NEW w, Shaped(v), Sound(v), Shaped(w), Sound(w),
           Behind(v, w), Moves(v, u), NumbersFree(v, u, w)
    PROVE  Moves(w, Merged(v, u, w)) /\ Known(u) \subseteq Known(Merged(v, u, w))
<1> DEFINE m == Merged(v, u, w)
<1>1. m.cycle = [c \in Cycle |-> IF u.cycle[c] # v.cycle[c] THEN u.cycle[c] ELSE w.cycle[c]]
  BY Fields DEF Merged, Shaped
<1>2. DOMAIN m = DOMAIN TablesInit /\ m.cur = IF u.cur # v.cur THEN u.cur ELSE w.cur
  BY Fields DEF Merged, Shaped
<1>3. m.cycle \in [Cycle -> CycleStatus]
  BY <1>1 DEF Moves, Shaped
<1>4. ASSUME NEW c \in Cycle PROVE Becomes(w, m, c)
  <2>1. Becomes(v, u, c)
    BY DEF Moves
  <2>2. CASE u.cycle[c] = v.cycle[c]
    BY <1>1, <2>2 DEF Becomes
  <2>3. CASE v.cycle[c] = "ACTIVE" /\ u.cycle[c] = "CLOSED"
    <3>1. m.cycle[c] = "CLOSED"
      BY <1>1, <2>3
    <3>2. c \in Known(w)
      BY <2>3 DEF Behind, Known
    <3>3. w.cycle[c] \in {"ACTIVE", "CLOSED"}
      BY <3>2 DEF Known, Shaped, CycleStatus
    <3> QED BY <3>1, <3>3 DEF Becomes
  <2>4. CASE /\ c = Newest(Known(v)) + 1 /\ v.cycle[c] = "absent" /\ u.cycle[c] = "ACTIVE"
             /\ \A d \in Cycle : d # c => u.cycle[d] # "ACTIVE"
    <3>1. c \in Known(u) \ Known(v)
      BY <2>4 DEF Known
    <3>2. w.cycle[c] = "absent" /\ c \notin Known(w)
      BY <3>1 DEF NumbersFree, Known
    <3>3. Newest(Known(w)) = Newest(Known(v))
      <4>1. /\ Newest(Known(v)) \in Nat /\ Known(v) = 1..Newest(Known(v))
            /\ Newest(Known(w)) \in Nat /\ Known(w) = 1..Newest(Known(w))
            /\ Newest(Known(v)) \in Cycle /\ 0 \notin Cycle
        BY CycleType DEF Sound
      <4>2. Newest(Known(v)) \in Known(w)
        BY <4>1 DEF Behind
      <4> QED BY <2>4, <3>2, <4>1, <4>2
    <3>4. m.cycle[c] = "ACTIVE"
      BY <1>1, <2>4
    <3>5. ASSUME NEW d \in Cycle, d # c, m.cycle[d] = "ACTIVE" PROVE FALSE
      <4>1. u.cycle[d] # "ACTIVE"
        BY <2>4, <3>5
      <4>2. u.cycle[d] = v.cycle[d] /\ w.cycle[d] = "ACTIVE"
        BY <1>1, <3>5, <4>1
      <4>3. d \in Actives(w)
        BY <4>2 DEF Actives
      <4>4. d = Newest(Known(v))
        BY <3>3, <4>3 DEF Sound
      <4>5. d \in Known(v)
        BY <4>4, CycleType DEF Sound
      <4>6. v.cycle[d] = "CLOSED"
        BY <4>1, <4>2, <4>5 DEF Known, Shaped, CycleStatus
      <4> QED BY <4>2, <4>6 DEF Behind
    <3> QED BY <2>4, <3>2, <3>3, <3>4, <3>5 DEF Becomes
  <2> QED BY <2>1, <2>2, <2>3, <2>4 DEF Becomes
<1>5. Known(w) \subseteq Known(m)
  BY <1>4 DEF Becomes, Known
<1>6. Known(u) \subseteq Known(m)
  BY <1>1, <1>5 DEF Behind, Known
<1>7. m.cur = 0 \/ m.cur \in Known(m)
  BY <1>2, <1>5, <1>6 DEF Moves, Shaped
<1> QED BY <1>2, <1>3, <1>4, <1>6, <1>7 DEF Moves, Shaped

\* A write that leaves the cycles alone, and the pointer or clears it.
LEMMA CyclesStay ==
    ASSUME NEW w, NEW x, Shaped(w), DOMAIN x = DOMAIN w, x.cycle = w.cycle,
           x.cur \in {0, w.cur}
    PROVE  Moves(w, x)
BY DEF Moves, Becomes, Shaped, Known

\* The rest of a write is outside the cycles.
LEMMA OnlyCycles ==
    ASSUME NEW w, NEW x, NEW y, Moves(w, x), DOMAIN y = DOMAIN x, y.cycle = x.cycle,
           y.cur = x.cur \/ y.cur \in Known(x)
    PROVE  Moves(w, y)
BY DEF Moves, Becomes, Shaped, Known

LEMMA MergedStays ==
    ASSUME NEW v, NEW u, NEW w, Shaped(v), Sound(v), Shaped(w), Sound(w),
           Behind(v, w), Moves(v, u), Known(u) = Known(v)
    PROVE  Moves(w, Merged(v, u, w))
<1>1. NumbersFree(v, u, w)
  BY DEF NumbersFree
<1> QED BY <1>1, MergedMoves

LEMMA RepointedMoves ==
    ASSUME NEW r, NEW v, NEW w, NEW from, Shaped(v), Sound(v), Shaped(w), Sound(w), Behind(v, w),
           Resolved(v).cur <= MaxCycle, RepointInsertable(r, v, w, from)
    PROVE  /\ Moves(w, Repointed(r, v, w, from))
           /\ DOMAIN Repointed(r, v, w, from) = DOMAIN TablesInit
           /\ ActiveOf(Resolved(v)) \in Known(Repointed(r, v, w, from))
<1> DEFINE u == Resolved(v)
           m == Merged(v, u, w)
           x == Repointed(r, v, w, from)
<1>1. Moves(v, u) /\ Actives(u) = {u.cur}
  BY ResolvedMoves
<1>2. Moves(w, m) /\ Known(u) \subseteq Known(m)
  BY <1>1, MergedMoves DEF RepointInsertable
<1>3. DOMAIN x = DOMAIN m /\ x.cycle = m.cycle /\ x.cur = m.cur
  BY <1>2, Fields DEF Repointed, Moves, Shaped
<1>4. ActiveOf(u) \in Known(u)
  <2>1. Sound(u)
    BY <1>1, MovesKeep
  <2>2. ActiveOf(u) \in Actives(u)
    BY <1>1, <2>1, OneActive DEF ActiveOf
  <2> QED BY <2>2 DEF Actives, Known
<1>5. Known(x) = Known(m)
  BY <1>3 DEF Known
<1> QED BY <1>2, <1>3, <1>4, <1>5, OnlyCycles DEF Moves, Shaped

Elsewhere == {"make", "release"}
Ops == {"create", "lines", "recalc", "lock", "createWo", "deleteDraft", "deleteAll", "cancel",
        "void", "prepareNext", "repair", "autoClose", "closeEmpty", "closeOrder", "reopen",
        "prepare", "finalize"} \cup Elsewhere

\* Every handler's write is one move of the committed tables.
LEMMA WrittenMoves ==
    ASSUME NEW r, NEW v, NEW w, Shaped(w), Sound(w),
           r.op \notin Elsewhere => Shaped(v) /\ Sound(v) /\ Behind(v, w),
           Allowed(r, v), Insertable(r, v, w),
           r.op \in Ops
    PROVE  Moves(w, Written(r, v, w))
<1> DEFINE x == Written(r, v, w)
<1>0. DOMAIN w = DOMAIN TablesInit
  BY DEF Shaped
<1>1. CASE r.op = "create"
  <2> DEFINE u == ForNewSheet(v)
             m == Merged(v, u, w)
  <2>1. CreateAllowed(r, v) /\ CreateInsertable(r, v, w) /\ x = CreateWrite(r, v, w)
    BY <1>1 DEF Allowed, Insertable, Written, OnSheet
  <2>2. Moves(w, m)
    BY <1>1, <2>1, ForNewSheetMoves, MergedMoves DEF CreateAllowed, CreateInsertable, Elsewhere
  <2>3. DOMAIN x = DOMAIN m /\ x.cycle = m.cycle /\ x.cur = m.cur
    BY <2>1, <2>2, Fields DEF CreateWrite, Moves, Shaped
  <2> QED BY <2>2, <2>3, OnlyCycles
<1>2. CASE r.op = "lines"
  <2> DEFINE m == Repointed(r, v, w, v.sheet[r.s].cycle)
  <2>1. LinesAllowed(r, v) /\ RepointInsertable(r, v, w, v.sheet[r.s].cycle) /\ x = LinesWrite(r, v, w)
    BY <1>2 DEF Allowed, Insertable, Written, OnSheet
  <2>2. Moves(w, m) /\ DOMAIN m = DOMAIN TablesInit
    BY <1>2, <2>1, RepointedMoves DEF LinesAllowed, Elsewhere
  <2>3. DOMAIN x = DOMAIN m /\ x.cycle = m.cycle /\ x.cur = m.cur
    BY <2>1, <2>2, Fields DEF LinesWrite
  <2> QED BY <2>2, <2>3, OnlyCycles
<1>3. CASE r.op = "recalc"
  <2> DEFINE m == Repointed(r, v, w, r.from)
  <2>1. Resolved(v).cur <= MaxCycle /\ RecalculateInsertable(r, v, w) /\ x = RecalculateWrite(r, v, w)
    BY <1>3 DEF Allowed, Insertable, Written, OnSheet
  <2>2. Moves(w, m) /\ DOMAIN m = DOMAIN TablesInit
    BY <1>3, <2>1, RepointedMoves DEF RecalculateInsertable, Elsewhere
  <2>3. DOMAIN x = DOMAIN m /\ x.cycle = m.cycle /\ x.cur = m.cur
    BY <2>1, <2>2, Fields DEF RecalculateWrite
  <2> QED BY <2>2, <2>3, OnlyCycles
<1>4. CASE r.op = "lock"
  <2> DEFINE m == Repointed(r, v, w, v.sheet[r.s].cycle)
  <2>1. LockAllowed(r, v) /\ LockInsertable(r, v, w) /\ x = LockWrite(r, v, w)
    BY <1>4 DEF Allowed, Insertable, Written, OnSheet
  <2>2. Moves(w, m) /\ DOMAIN m = DOMAIN TablesInit /\ ActiveOf(Resolved(v)) \in Known(m)
    BY <1>4, <2>1, RepointedMoves DEF LockAllowed, LockInsertable, Elsewhere
  <2>3. DOMAIN x = DOMAIN m /\ x.cycle = m.cycle /\ x.cur = ActiveOf(Resolved(v))
    BY <2>1, <2>2, Fields DEF LockWrite
  <2> QED BY <2>2, <2>3, OnlyCycles
<1>5. CASE r.op = "prepareNext"
  <2>1. Advanced(v).cur <= MaxCycle /\ NumbersFree(v, Advanced(v), w) /\ x = Merged(v, Advanced(v), w)
    BY <1>5 DEF Allowed, Insertable, Written, After, OnSheet
  <2>2. Shaped(v) /\ Sound(v) /\ Behind(v, w)
    BY <1>5 DEF Elsewhere
  <2>3. ~(/\ Closes(v, Advanced(v))
          /\ Advanced(v).cur = NextNo(Advanced(v)) /\ Advanced(v).cur \notin Cycle)
    <3> SUFFICES ASSUME Closes(v, Advanced(v)), Advanced(v).cur = NextNo(Advanced(v)),
                        Advanced(v).cur \notin Cycle
                 PROVE FALSE
      OBVIOUS
    <3>1. Advanced(v).cur = Newest(Known(v)) + 1 /\ Newest(Known(v)) \in Nat
      BY <2>2, ClosesKnown, CycleType DEF NextNo, Sound
    <3> QED BY <2>1, <3>1, CycleType DEF Cycle
  <2>4. Moves(v, Advanced(v))
    BY <2>2, <2>3, AdvancedMoves, RepairedStays
  <2> QED BY <2>1, <2>2, <2>4, MergedMoves
<1>6. CASE r.op = "repair"
  <2>1. Known(Repaired(v)) = Known(v) /\ Moves(v, Repaired(v))
    BY <1>6, RepairedStays, SameCycles DEF Elsewhere
  <2>2. x = Merged(v, Repaired(v), w)
    BY <1>6 DEF Written, After
  <2> QED BY <1>6, <2>1, <2>2, MergedStays DEF Elsewhere
<1>7. CASE r.op = "autoClose"
  <2>1. x = Merged(v, AutoClosed(v, v.cur), w)
    BY <1>7 DEF Written, After
  <2> QED BY <1>7, <2>1, AutoClosedMoves, MergedStays DEF Elsewhere
<1>8. CASE r.op = "closeEmpty"
  <2>1. v.cur # 0 /\ x = Merged(v, EmptyClosed(v), w)
    BY <1>8 DEF Written, After, Allowed, EmptyCloseAllowed
  <2> QED BY <1>8, <2>1, EndedMoves, MergedStays DEF Elsewhere, EmptyClosed
<1>9. CASE r.op = "prepare"
  <2> DEFINE m == Merged(v, AutoClosed(v, r.c), w)
  <2>1. x = [m EXCEPT !.prepared[r.c] = r.q]
    BY <1>9 DEF Written, PrepareWrite
  <2>2. Moves(w, m)
    BY <1>9, AutoClosedMoves, MergedStays DEF Elsewhere
  <2>3. DOMAIN x = DOMAIN m /\ x.cycle = m.cycle /\ x.cur = m.cur
    BY <2>1, <2>2, Fields DEF Moves, Shaped
  <2> QED BY <2>2, <2>3, OnlyCycles
<1>10. CASE r.op = "finalize"
  <2> DEFINE s == Shipped(v, r.c)
             u == AutoClosed(s, r.c)
             m == Merged(v, u, w)
  <2>1. x = [m EXCEPT !.shipped[r.c] = @ + v.prepared[r.c], !.prepared[r.c] = 0]
    BY <1>10 DEF Written, FinalizeWrite
  <2>2. Shaped(v) /\ Sound(v) /\ Behind(v, w)
    BY <1>10 DEF Elsewhere
  <2>3. DOMAIN s = DOMAIN TablesInit /\ s.cycle = v.cycle /\ s.cur = v.cur
    BY <2>2, Fields DEF Shipped, Shaped
  <2>4. Shaped(s)
    BY <2>2, <2>3, SameCycles DEF Shaped
  <2>5. Moves(v, u) /\ Known(u) = Known(v)
    BY <2>3, <2>4, AutoClosedMoves, SameCycles
  <2>6. Moves(w, m)
    BY <2>2, <2>5, MergedStays
  <2>7. DOMAIN x = DOMAIN m /\ x.cycle = m.cycle /\ x.cur = m.cur
    BY <2>1, <2>6, Fields DEF Moves, Shaped
  <2> QED BY <2>6, <2>7, OnlyCycles
<1>11. CASE r.op \in {"createWo", "deleteDraft", "deleteAll", "cancel", "void", "closeOrder",
                     "reopen", "release", "make"}
  <2>1. x.cycle = w.cycle /\ DOMAIN x = DOMAIN w /\ x.cur \in {0, w.cur}
    <3>1. CASE r.op = "createWo"
      BY <1>0, <3>1, Fields DEF Written, CreateWoWrite
    <3>2. CASE r.op \in {"deleteDraft", "void", "deleteAll"}
      <4>1. PICK S : x = Deleted(S, w)
        BY <3>2 DEF Written
      <4> QED BY <1>0, <4>1, Fields DEF Deleted
    <3>3. CASE r.op = "cancel"
      BY <1>0, <3>3, Fields DEF Written, CancelWrite
    <3>4. CASE r.op = "closeOrder"
      BY <1>0, <3>4, Fields DEF Written, ManuallyClosed
    <3>5. CASE r.op = "reopen"
      BY <1>0, <3>5, Fields DEF Written, Reopened
    <3>6. CASE r.op = "release"
      BY <1>0, <3>6, Fields DEF Written
    <3>7. CASE r.op = "make"
      BY <1>0, <3>7, Fields DEF Written
    <3> QED BY <1>11, <3>1, <3>2, <3>3, <3>4, <3>5, <3>6, <3>7
  <2> QED BY <2>1, CyclesStay
<1> QED BY <1>1, <1>2, <1>3, <1>4, <1>5, <1>6, <1>7, <1>8, <1>9, <1>10, <1>11 DEF Ops, Elsewhere

(***************************************************************************)
(* Where a handler is.                                                     *)
(***************************************************************************)
Plans == {FinalizePlan, PreparePlan, RecalculatePlan, OrdinaryPlan, ElsewherePlan}

\* "write" is the last step of every handler, and all but ElsewherePlan read before it.
LEMMA PlanSteps ==
    ASSUME NEW p \in Plans
    PROVE  /\ Len(p) \in Nat /\ Len(p) >= 1
           /\ \A i \in 1..Len(p) : p[i] # "write" => i + 1 <= Len(p)
           /\ p # ElsewherePlan => \A i \in 1..Len(p) : p[i] = "write" => \E j \in 1..(i - 1) : p[j] = "read"
           /\ p[1] = "read" => Len(p) = 2
<1>1. CASE p = FinalizePlan
  <2>1. Len(p) = 4 /\ p[1] = "draft" /\ p[2] = "read" /\ p[3] = "order" /\ p[4] = "write"
    BY <1>1 DEF FinalizePlan
  <2>2. \A i \in 1..4 : i # 4 => i + 1 <= 4
    OBVIOUS
  <2>3. 2 \in 1..(4 - 1) /\ \A i \in 1..4 : i \in {1, 2, 3, 4}
    OBVIOUS
  <2> QED BY <2>1, <2>2, <2>3
<1>2. CASE p = PreparePlan
  <2>1. Len(p) = 3 /\ p[1] = "order" /\ p[2] = "read" /\ p[3] = "write"
    BY <1>2 DEF PreparePlan
  <2>2. 2 \in 1..(3 - 1) /\ \A i \in 1..3 : i \in {1, 2, 3}
    OBVIOUS
  <2> QED BY <2>1, <2>2
<1>3. CASE p = RecalculatePlan
  <2>1. Len(p) = 3 /\ p[1] = "begin" /\ p[2] = "read" /\ p[3] = "write"
    BY <1>3 DEF RecalculatePlan
  <2>2. 2 \in 1..(3 - 1) /\ \A i \in 1..3 : i \in {1, 2, 3}
    OBVIOUS
  <2> QED BY <2>1, <2>2
<1>4. CASE p = OrdinaryPlan
  <2>1. Len(p) = 2 /\ p[1] = "read" /\ p[2] = "write"
    BY <1>4 DEF OrdinaryPlan
  <2>2. 1 \in 1..(2 - 1) /\ \A i \in 1..2 : i \in {1, 2}
    OBVIOUS
  <2> QED BY <2>1, <2>2
<1>5. CASE p = ElsewherePlan
  <2>1. Len(p) = 1 /\ p[1] = "write"
    BY <1>5 DEF ElsewherePlan
  <2>2. \A i \in 1..1 : i = 1
    OBVIOUS
  <2> QED BY <1>5, <2>1, <2>2
<1> QED BY <1>1, <1>2, <1>3, <1>4, <1>5 DEF Plans

LEMMA PlanOf ==
    ASSUME NEW r
    PROVE  Plan(r) \in Plans /\ (r.op \notin Elsewhere => Plan(r) # ElsewherePlan)
<1>1. FinalizePlan # ElsewherePlan /\ PreparePlan # ElsewherePlan
      /\ RecalculatePlan # ElsewherePlan /\ OrdinaryPlan # ElsewherePlan
  <2>1. Len(FinalizePlan) = 4 /\ Len(PreparePlan) = 3 /\ Len(RecalculatePlan) = 3
        /\ Len(OrdinaryPlan) = 2 /\ Len(ElsewherePlan) = 1
    BY DEF FinalizePlan, PreparePlan, RecalculatePlan, OrdinaryPlan, ElsewherePlan
  <2> QED BY <2>1
<1>2. r.op \in Elsewhere => Plan(r) = ElsewherePlan
  BY DEF Elsewhere, Plan
<1>3. r.op \notin Elsewhere => Plan(r) \in {FinalizePlan, PreparePlan, RecalculatePlan, OrdinaryPlan}
  BY DEF Elsewhere, Plan
<1> QED BY <1>1, <1>2, <1>3 DEF Plans

(***************************************************************************)
(* The invariant.                                                          *)
(***************************************************************************)

\* The view a request has read is an earlier state of the cycles.
ViewOK(t) == Shaped(snap[t]) /\ Sound(snap[t]) /\ Behind(snap[t], db)

\* A step of t that moves the cycles leaves the views of the others where they were.
LEMMA OthersKeep ==
    ASSUME IInv, Moves(db, db'), NEW t \in Tx, NEW u \in Tx \ {t},
           at'[u] = at[u], req'[u] = req[u], snap'[u] = snap[u]
    PROVE  HasRead(u)' => ViewOK(u)'
<1>1. HasRead(u)' => HasRead(u)
  BY DEF HasRead
<1>2. HasRead(u) => ViewOK(u)
  BY DEF IInv, ViewOK
<1>3. Behind(snap[u], db) => Behind(snap[u], db')
  BY MovesBehind
<1> QED BY <1>1, <1>2, <1>3 DEF ViewOK

\* COMMIT, ROLLBACK.
LEMMA FinishKeeps ==
    ASSUME IInv, NEW t \in Tx, NEW a, Finish(t, a), Moves(db, db')
    PROVE  IInv'
<1>1. Shaped(db)' /\ CyclesInOrder'
  BY MovesKeep DEF IInv, CyclesInOrder, Moves
<1>2. at'[t] = 0 /\ \A u \in Tx \ {t} : at'[u] = at[u] /\ req'[u] = req[u] /\ snap'[u] = snap[u]
  BY DEF Finish, IInv, Running
<1>3. Running'
  <2>1. at' \in [Tx -> Nat] /\ DOMAIN req' = Tx /\ DOMAIN snap' = Tx
    BY DEF Finish, IInv, Running
  <2> QED BY <1>2, <2>1 DEF IInv, Running
<1>4. ~HasRead(t)'
  BY <1>2 DEF HasRead
<1>5. ASSUME NEW u \in Tx, HasRead(u)' PROVE ViewOK(u)'
  BY <1>2, <1>4, <1>5, OthersKeep
<1> QED BY <1>1, <1>3, <1>5 DEF IInv, ViewOK

\* A request between two steps of its handler; now says whether it has just read.
LEMMA EngineKeeps ==
    ASSUME IInv, NEW t \in Tx, db' = db, NEW n \in Nat \ {0}, at' = [at EXCEPT ![t] = n],
           DOMAIN req' = Tx, DOMAIN snap' = Tx,
           n <= Len(Plan(req'[t])),
           \A u \in Tx \ {t} : req'[u] = req[u] /\ snap'[u] = snap[u],
           HasRead(t)' => ViewOK(t)'
    PROVE  IInv' /\ Moves(db, db')
<1>1. Moves(db, db')
  BY DEF IInv, Moves, Becomes
<1>2. at'[t] = n /\ \A u \in Tx \ {t} : at'[u] = at[u]
  BY DEF IInv, Running
<1>3. Shaped(db)' /\ CyclesInOrder'
  BY DEF IInv, CyclesInOrder
<1>4. Running'
  <2>1. at' \in [Tx -> Nat]
    BY DEF IInv, Running
  <2> QED BY <1>2, <2>1 DEF IInv, Running
<1>5. ASSUME NEW u \in Tx, HasRead(u)' PROVE ViewOK(u)'
  BY <1>1, <1>2, <1>5, OthersKeep
<1> QED BY <1>1, <1>3, <1>4, <1>5 DEF IInv, ViewOK

\* A view that is the committed tables.
LEMMA FreshView ==
    ASSUME IInv, NEW t \in Tx, db' = db, snap'[t] = db
    PROVE  ViewOK(t)'
BY DEF IInv, ViewOK, CyclesInOrder, Behind

LEMMA ArriveKeeps ==
    ASSUME IInv, NEW t \in Tx, NEW r \in Request, Arrive(t, r)
    PROVE  IInv' /\ Moves(db, db')
<1>1. CASE Begin(t, r)
  <2>1. at' = [at EXCEPT ![t] = 1] /\ req'[t] = r /\ db' = db /\ snap' = snap
        /\ DOMAIN req' = Tx /\ \A u \in Tx \ {t} : req'[u] = req[u]
    BY <1>1 DEF Begin, IInv, Running
  <2>2. 1 <= Len(Plan(req'[t]))
    BY <2>1, PlanOf, PlanSteps
  <2>3. at'[t] = 1
    BY <2>1 DEF IInv, Running
  <2>4. ~HasRead(t)'
    BY <2>3 DEF HasRead
  <2>5. DOMAIN snap' = Tx /\ \A u \in Tx \ {t} : snap'[u] = snap[u]
    BY <2>1 DEF IInv, Running
  <2>6. 1 \in Nat \ {0}
    OBVIOUS
  <2> QED BY <2>1, <2>2, <2>4, <2>5, <2>6, EngineKeeps
<1>2. CASE Plan(r)[1] = "read" /\ BeginReading(t, r)
  <2>1. at' = [at EXCEPT ![t] = 2] /\ req'[t] = r /\ db' = db /\ snap'[t] = db
        /\ DOMAIN req' = Tx /\ DOMAIN snap' = Tx
        /\ \A u \in Tx \ {t} : req'[u] = req[u] /\ snap'[u] = snap[u]
    BY <1>2 DEF BeginReading, IInv, Running
  <2>2. 2 <= Len(Plan(req'[t]))
    BY <1>2, <2>1, PlanOf, PlanSteps
  <2>3. ViewOK(t)'
    BY <2>1, FreshView
  <2>4. 2 \in Nat \ {0}
    OBVIOUS
  <2> QED BY <2>1, <2>2, <2>3, <2>4, EngineKeeps
<1> QED BY <1>1, <1>2 DEF Arrive

\* A step that is not the last one of its handler.
LEMMA NotLast ==
    ASSUME IInv, NEW t \in Tx, Step(t) \notin {"idle", "write"}
    PROVE  at[t] \in Nat \ {0} /\ at[t] + 1 <= Len(Plan(req[t])) /\ Step(t) = Plan(req[t])[at[t]]
<1>1. ~Idle(t) /\ Step(t) = Plan(req[t])[at[t]]
  BY DEF Step
<1>2. at[t] \in Nat \ {0} /\ at[t] <= Len(Plan(req[t]))
  BY <1>1 DEF Idle, IInv, Running
<1>3. Plan(req[t]) \in Plans
  BY PlanOf
<1>4. at[t] \in 1..Len(Plan(req[t]))
  BY <1>2, <1>3, PlanSteps
<1> QED BY <1>1, <1>2, <1>3, <1>4, PlanSteps

LEMMA MiddleKeeps ==
    ASSUME IInv, NEW t \in Tx, Step(t) \notin {"idle", "write"},
           db' = db, at' = [at EXCEPT ![t] = @ + 1], req' = req,
           \/ snap' = snap /\ Step(t) # "read"
           \/ snap' = [snap EXCEPT ![t] = db]
    PROVE  IInv' /\ Moves(db, db')
<1>1. at[t] \in Nat \ {0} /\ at[t] + 1 <= Len(Plan(req[t])) /\ Step(t) = Plan(req[t])[at[t]]
  BY NotLast
<1>2. at' = [at EXCEPT ![t] = at[t] + 1] /\ at[t] + 1 \in Nat \ {0}
  BY <1>1
<1>3. DOMAIN req' = Tx /\ DOMAIN snap' = Tx /\ \A u \in Tx \ {t} : req'[u] = req[u] /\ snap'[u] = snap[u]
  BY DEF IInv, Running
<1>4. HasRead(t)' => ViewOK(t)'
  <2>1. CASE snap' = snap /\ Step(t) # "read"
    <3>1. at'[t] = at[t] + 1
      BY <1>2 DEF IInv, Running
    <3>2. \A i \in 1..(at'[t] - 1) : i # at[t] => i \in 1..(at[t] - 1)
      BY <1>1, <3>1
    <3>3. HasRead(t)' => HasRead(t)
      BY <1>1, <2>1, <3>2 DEF HasRead
    <3> QED BY <2>1, <3>3 DEF IInv, ViewOK
  <2>2. CASE snap' = [snap EXCEPT ![t] = db]
    <3>1. snap'[t] = db
      BY <2>2 DEF IInv, Running
    <3> QED BY <3>1, FreshView
  <2> QED BY <2>1, <2>2
<1> QED BY <1>1, <1>2, <1>3, <1>4, EngineKeeps

\* A handler that writes on what it read has read.
LEMMA WriterHasRead ==
    ASSUME IInv, NEW t \in Tx, NEW op \in Ops \ Elsewhere, Write(t, op)
    PROVE  HasRead(t)
<1>1. ~Idle(t) /\ Plan(req[t])[at[t]] = "write" /\ req[t].op = op
  BY DEF Write, Step
<1>2. Plan(req[t]) \in Plans /\ Plan(req[t]) # ElsewherePlan
  BY <1>1, PlanOf
<1>3. at[t] \in 1..Len(Plan(req[t]))
  BY <1>1, <1>2, PlanSteps DEF IInv, Running, Idle
<1> QED BY <1>1, <1>2, <1>3, PlanSteps DEF HasRead

LEMMA WriteKeeps ==
    ASSUME IInv, NEW t \in Tx, NEW op \in Ops, Write(t, op)
    PROVE  IInv' /\ Moves(db, db')
<1> DEFINE x == Written(req[t], snap[t], db)
<1>1. db' = x /\ Finish(t, "done")
  BY DEF Write, Commit
<1>2. ~Idle(t) /\ Plan(req[t])[at[t]] = "write" /\ req[t].op = op
      /\ Allowed(req[t], snap[t]) /\ Insertable(req[t], snap[t], db)
  BY DEF Write, Step
<1>3. op \notin Elsewhere => HasRead(t)
  BY WriterHasRead
<1>4. Moves(db, x)
  <2>1. op \notin Elsewhere => Shaped(snap[t]) /\ Sound(snap[t]) /\ Behind(snap[t], db)
    BY <1>3 DEF IInv
  <2>2. Shaped(db) /\ Sound(db)
    BY DEF IInv, CyclesInOrder
  <2> QED BY <1>2, <2>1, <2>2, WrittenMoves
<1> QED BY <1>1, <1>4, FinishKeeps

LEMMA NextKeeps ==
    ASSUME IInv, [Next]_vars
    PROVE  IInv' /\ Moves(db, db')
<1>0. db' = db => Moves(db, db')
  BY DEF IInv, Moves, Becomes
<1>1. CASE UNCHANGED vars
  <2>1. \A t : HasRead(t)' <=> HasRead(t)
    BY <1>1 DEF HasRead, vars
  <2>2. Running'
    BY <1>1 DEF Running, IInv, vars
  <2> QED BY <1>0, <1>1, <2>1, <2>2 DEF IInv, CyclesInOrder, vars
<1>2. ASSUME NEW t \in Tx, NEW r \in Request, Arrive(t, r) PROVE IInv' /\ Moves(db, db')
  BY <1>2, ArriveKeeps
<1>3. ASSUME NEW t \in Tx, Lock(t) PROVE IInv' /\ Moves(db, db')
  BY <1>3, MiddleKeeps DEF Lock, Take
<1>4. ASSUME NEW t \in Tx, Open(t) PROVE IInv' /\ Moves(db, db')
  BY <1>4, MiddleKeeps DEF Open, Pass
<1>5. ASSUME NEW t \in Tx, Read(t) PROVE IInv' /\ Moves(db, db')
  BY <1>5, MiddleKeeps DEF Read, ReadView
<1>6. ASSUME NEW t \in Tx, Reject(t) PROVE IInv' /\ Moves(db, db')
  BY <1>0, <1>6, FinishKeeps DEF Reject, Refuse
<1>7. ASSUME NEW t \in Tx, Abort(t) PROVE IInv' /\ Moves(db, db')
  BY <1>0, <1>7, FinishKeeps DEF Abort, Rollback
<1>8. ASSUME NEW t \in Tx, SheetSteps(t) PROVE IInv' /\ Moves(db, db')
  <2>1. PICK op \in Ops : Write(t, op)
    BY <1>8 DEF SheetSteps, Ops, CreateSheet, SaveLines, Recalculate, LockSheet, DeleteDraft,
                DeleteAllSheets, CancelSheet, VoidSheet, CreateWorkOrder
  <2> QED BY <2>1, WriteKeeps
<1>9. ASSUME NEW t \in Tx, OrderSteps(t) PROVE IInv' /\ Moves(db, db')
  <2>1. PICK op \in Ops : Write(t, op)
    BY <1>9 DEF OrderSteps, Ops, PrepareNextSheet, RepairCycles, AutoCloseCycle, CloseEmptyCycle,
                CloseOrder, ReopenOrder, PrepareDispatch, FinalizeDispatch
  <2> QED BY <2>1, WriteKeeps
<1>10. ASSUME NEW t \in Tx, ReleasePlan(t) \/ MakeGoods(t) PROVE IInv' /\ Moves(db, db')
  <2>1. PICK op \in Ops : Write(t, op)
    BY <1>10 DEF Ops, Elsewhere, ReleasePlan, MakeGoods
  <2> QED BY <2>1, WriteKeeps
<1> QED BY <1>1, <1>2, <1>3, <1>4, <1>5, <1>6, <1>7, <1>8, <1>9, <1>10 DEF Next

LEMMA InitKeeps == Init => IInv
<1> SUFFICES ASSUME Init PROVE IInv
  OBVIOUS
<1>1. TablesInit.cycle = [c \in Cycle |-> IF c = 1 THEN "ACTIVE" ELSE "absent"] /\ TablesInit.cur = 1
  BY DEF TablesInit
<1>2. Known(TablesInit) = {1} /\ Actives(TablesInit) = {1}
  BY <1>1, CycleType DEF Known, Actives
<1>3. Newest({1}) = 1
  <2>1. 1 \in {1} /\ {1} \subseteq Nat /\ \A c \in {1} : c <= 1
    OBVIOUS
  <2> QED BY <2>1, NewestOf
<1>4. Sound(TablesInit)
  BY <1>2, <1>3, CycleType DEF Sound
<1>5. Shaped(TablesInit)
  BY <1>1, <1>2, CycleType DEF Shaped, CycleStatus
<1>6. Running /\ \A t \in Tx : at[t] = 0
  BY DEF Init, EngineInit, Running
<1>7. ASSUME NEW t \in Tx PROVE ~HasRead(t)
  <2>1. 1..(0 - 1) = {}
    OBVIOUS
  <2> QED BY <1>6, <2>1 DEF HasRead
<1> QED BY <1>4, <1>5, <1>6, <1>7 DEF Init, IInv, CyclesInOrder

(***************************************************************************)
(* The theorems.                                                           *)
(***************************************************************************)

\* Whatever requests do on views that others have outdated, the cycles stay in order
\* and every open request has seen an earlier state of the same sequence.
THEOREM CycleInvariance == Spec => []IInv
<1>1. Init => IInv
  BY InitKeeps
<1>2. IInv /\ [Next]_vars => IInv'
  BY NextKeeps
<1> QED BY <1>1, <1>2, PTL DEF Spec

\* repairNoQtyCycleIntegrity never has two ACTIVE cycles to choose from, and numbers
\* have no gap: the cycle created last is the one to plan on or none is.
THEOREM CyclesKeepOrder == Spec => []CyclesInOrder
<1>1. IInv => CyclesInOrder
  BY DEF IInv
<1> QED BY <1>1, CycleInvariance, PTL

\* The handlers of noQtyCycleLifecycle.js and their callers implement the sequence:
\* each commit opens the next cycle, closes the open one, or does neither.
THEOREM CyclesImplementSequence == Spec => ImplementsSequence
<1>1. Init => Sequence!Init
  <2> SUFFICES ASSUME Init PROVE Sequence!Init
    OBVIOUS
  <2>1. Known(db) = {1} /\ Actives(db) = {1}
    BY CycleType DEF Init, TablesInit, Known, Actives
  <2>2. Newest({1}) = 1
    <3>1. 1 \in {1} /\ {1} \subseteq Nat /\ \A c \in {1} : c <= 1
      OBVIOUS
    <3> QED BY <3>1, NewestOf
  <2> QED BY <2>1, <2>2 DEF Sequence!Init
<1>2. IInv /\ [Next]_vars => [Sequence!Next]_<<Newest(Known(db)), Actives(db) # {}>>
  <2> SUFFICES ASSUME IInv, [Next]_vars
               PROVE  [Sequence!Next]_<<Newest(Known(db)), Actives(db) # {}>>
    OBVIOUS
  <2>1. Sound(db) /\ Moves(db, db')
    BY NextKeeps DEF IInv, CyclesInOrder
  <2>2. CASE Newest(Known(db')) = Newest(Known(db)) + 1 /\ Actives(db') # {}
    BY <2>2 DEF Sequence!Next, Sequence!Open
  <2>3. CASE Newest(Known(db')) = Newest(Known(db)) /\ Actives(db') \subseteq Actives(db)
    <3>1. CASE Actives(db') = {} /\ Actives(db) # {}
      BY <2>3, <3>1 DEF Sequence!Next, Sequence!Close
    <3>2. CASE (Actives(db') # {}) = (Actives(db) # {})
      BY <2>3, <3>2
    <3> QED BY <2>3, <3>1, <3>2
  <2> QED BY <2>1, <2>2, <2>3, MovesKeep
<1> QED BY <1>1, <1>2, CycleInvariance, PTL DEF Spec, ImplementsSequence, Sequence!Spec

(***************************************************************************)
(* Sheets and work orders with one planner.                                *)
(***************************************************************************)

\* A finite set of numbers has a greatest one.
LEMMA MaxOf ==
    ASSUME NEW S, IsFiniteSet(S), S \subseteq Nat, S # {}
    PROVE  Max(S) \in S /\ \A y \in S : y <= Max(S)
<1> DEFINE G == {T \in SUBSET S : T # {} => \E m \in T : \A y \in T : m >= y}
<1>1. {} \in G
  OBVIOUS
<1>2. ASSUME NEW T \in SUBSET S, T # {}, \A x \in T : T \ {x} \in G PROVE T \in G
  <2>1. PICK x \in T : T \ {x} \in G
    BY <1>2
  <2>2. CASE T \ {x} = {}
    BY <2>1, <2>2
  <2>3. CASE T \ {x} # {}
    <3>1. PICK m \in T \ {x} : \A y \in T \ {x} : m >= y
      BY <2>1, <2>3
    <3>2. m \in Nat /\ x \in Nat
      OBVIOUS
    <3>3. CASE m >= x
      BY <3>1, <3>3
    <3>4. CASE ~(m >= x)
      BY <3>1, <3>2, <3>4
    <3> QED BY <3>3, <3>4
  <2> QED BY <2>2, <2>3
<1>3. S \in G
  <2> HIDE DEF G
  <2> QED BY <1>1, <1>2, SubsetInduction
<1>4. \E m \in S : \A y \in S : m >= y
  BY <1>3
<1> QED BY <1>4 DEF Max

LEMMA SheetType ==
    /\ Sheet \subseteq Nat /\ IsFiniteSet(Sheet) /\ IsFiniteSet(Cycle) /\ 1 \in Sheet
    /\ MaxSheet \in Nat /\ MaxQty \in Nat /\ Period # {}
<1>1. MaxSheet \in Nat \ {0} /\ MaxCycle \in Nat \ {0} /\ MaxQty \in Nat \ {0} /\ Period # {}
  BY CycleBounds
<1>2. IsFiniteSet(1..MaxSheet) /\ IsFiniteSet(1..MaxCycle)
  BY <1>1, FS_Interval
<1> QED BY <1>1, <1>2 DEF Sheet, Cycle

\* The work orders of a sheet are a number of pieces, and none if no cycle has any.
LEMMA PlacedType ==
    ASSUME NEW w, NEW s \in Sheet, w.placed[s] \in [Cycle -> Nat]
    PROVE  /\ PlacedFor(w, s) \in Nat
           /\ \A c \in Cycle : PlacedFor(w, s) = 0 => w.placed[s][c] = 0
<1> DEFINE f == w.placed[s]
<1>1. PlacedFor(w, s) = SumFunctionOnSet(f, Cycle) /\ \A c \in Cycle : f[c] \in Nat /\ f[c] \in Int
  BY DEF PlacedFor, SumFunction
<1>2. SumFunctionOnSet(f, Cycle) \in Nat
  BY <1>1, SheetType, SumType
<1>3. ASSUME NEW c \in Cycle PROVE f[c] <= SumFunctionOnSet(f, Cycle)
  <2>1. IsFiniteSet(Cycle \ {c})
    BY SheetType, FS_Subset
  <2>2. SumFunctionOnSet(f, Cycle) = f[c] + SumFunctionOnSet(f, Cycle \ {c})
    BY <1>1, SheetType, SumRemove
  <2>3. SumFunctionOnSet(f, Cycle \ {c}) \in Nat
    BY <1>1, <2>1, SumType
  <2> QED BY <1>1, <2>2, <2>3
<1> QED BY <1>1, <1>2, <1>3

\* Work on one cycle only.
LEMMA PlacedOnOne ==
    ASSUME NEW h \in Cycle, NEW n \in Nat
    PROVE  SumFunction([c \in Cycle |-> IF c = h THEN n ELSE 0]) = n
<1> DEFINE f == [c \in Cycle |-> 0]
           g == [c \in Cycle |-> IF c = h THEN n ELSE 0]
<1>1. f \in [Cycle -> Int] /\ g \in [Cycle -> Int] /\ g[h] = f[h] + n
      /\ \A c \in Cycle \ {h} : g[c] = f[c]
  OBVIOUS
<1>2. SumFunction(f) = 0
  BY SheetType, SumZero DEF SumFunction
<1> HIDE DEF f, g
<1>3. SumFunction(g) = SumFunction(f) + n
  BY <1>1, SheetType, SumPlus
<1> QED BY <1>2, <1>3 DEF g

\* The sheets and their work orders, as SheetInv has them.
SheetsGood(w) ==
    /\ w.sheet \in [Sheet -> SheetRow] /\ w.placed \in [Sheet -> [Cycle -> Nat]]
    /\ Numbered(w)
    /\ \A s \in Sheet : PlacedFor(w, s) > 0 =>
         w.sheet[s].state = "LOCKED" /\ PlacedFor(w, s) <= w.sheet[s].qty

LEMMA GoodSheets ==
    ASSUME db \in Tables
    PROVE  SheetsGood(db) <=> Numbered(db) /\ PlacedWithinDemand /\ WorkHasItsSheet
<1>1. db.sheet \in [Sheet -> SheetRow] /\ db.placed \in [Sheet -> [Cycle -> Nat]]
  BY DEF Tables
<1>2. \A s \in Sheet : PlacedFor(db, s) \in Nat /\ db.sheet[s].qty \in Nat
  <2>1. \A s \in Sheet : PlacedFor(db, s) \in Nat
    BY <1>1, PlacedType
  <2>2. \A s \in Sheet : db.sheet[s].qty \in 0..MaxQty
    BY <1>1 DEF SheetRow
  <2> QED BY <2>1, <2>2, SheetType
<1>3. \A s \in Sheet : db.sheet[s].state = "LOCKED" => Exists(db, s)
  BY DEF Exists
<1> QED BY <1>1, <1>2, <1>3 DEF SheetsGood, PlacedWithinDemand, WorkHasItsSheet

\* One row of a sheet is written, a new one or one that is there.
LEMMA RowWritten ==
    ASSUME NEW w, NEW x, SheetsGood(w), NEW s \in Sheet, NEW row \in SheetRow,
           x.sheet = [w.sheet EXCEPT ![s] = row], x.placed = w.placed,
           row.state # "absent", row.version <= s,
           w.sheet[s].state # "absent" \/ NextSheet(w, s),
           PlacedFor(w, s) > 0 => row.state = "LOCKED" /\ PlacedFor(w, s) <= row.qty
    PROVE  SheetsGood(x)
<1>1. x.sheet[s] = row /\ \A u \in Sheet \ {s} : x.sheet[u] = w.sheet[u]
  BY DEF SheetsGood
<1>2. \A u : PlacedFor(x, u) = PlacedFor(w, u)
  BY DEF PlacedFor
<1>3. x.sheet \in [Sheet -> SheetRow] /\ x.placed \in [Sheet -> [Cycle -> Nat]]
  BY DEF SheetsGood
<1>4. Numbered(x)
  <2>1. ASSUME NEW a \in Sheet, NEW b \in Sheet, a < b, x.sheet[a].state = "absent"
        PROVE  x.sheet[b].state = "absent"
    <3>1. a # s /\ w.sheet[a].state = "absent"
      BY <1>1, <2>1
    <3>2. w.sheet[b].state = "absent"
      BY <2>1, <3>1 DEF SheetsGood, Numbered
    <3>3. b # s
      BY <2>1, <3>1, <3>2 DEF NextSheet
    <3> QED BY <1>1, <3>2, <3>3
  <2>2. \A a \in Sheet : x.sheet[a].version <= a
    BY <1>1 DEF SheetsGood, Numbered
  <2> QED BY <2>1, <2>2 DEF Numbered
<1>5. \A u \in Sheet : PlacedFor(x, u) > 0 =>
        x.sheet[u].state = "LOCKED" /\ PlacedFor(x, u) <= x.sheet[u].qty
  BY <1>1, <1>2 DEF SheetsGood
<1> QED BY <1>3, <1>4, <1>5 DEF SheetsGood

\* Sheets without work orders are deleted.
LEMMA SheetsDeleted ==
    ASSUME NEW w, NEW x, SheetsGood(w), NEW S \in SUBSET Sheet, x.placed = w.placed,
           x.sheet = [s \in Sheet |-> IF s \in S THEN NoSheet("deleted") ELSE w.sheet[s]],
           \A s \in S : w.sheet[s].state # "absent" /\ PlacedFor(w, s) = 0
    PROVE  SheetsGood(x)
<1>1. NoSheet("deleted") \in SheetRow /\ NoSheet("deleted").version = 1
      /\ NoSheet("deleted").state = "deleted"
  <2>1. 1 \in Cycle /\ 1 \in Version /\ 0 \in 0..MaxQty /\ (CHOOSE p \in Period : TRUE) \in Period
    BY CycleType, SheetType DEF Sheet, Version
  <2> QED BY <2>1 DEF NoSheet, SheetRow, SheetStatus
<1>2. x.sheet \in [Sheet -> SheetRow] /\ x.placed \in [Sheet -> [Cycle -> Nat]]
  BY <1>1 DEF SheetsGood
<1>3. \A u \in Sheet : x.sheet[u].state = "absent" <=> w.sheet[u].state = "absent"
  BY <1>1
<1>4. \A u \in Sheet : x.sheet[u].version <= u
  <2>1. \A u \in Sheet : 1 <= u
    BY SheetType DEF Sheet
  <2> QED BY <1>1, <2>1 DEF SheetsGood, Numbered
<1>5. \A u \in Sheet : PlacedFor(x, u) = PlacedFor(w, u)
  BY DEF PlacedFor
<1>6. \A u \in Sheet : PlacedFor(x, u) > 0 =>
        x.sheet[u].state = "LOCKED" /\ PlacedFor(x, u) <= x.sheet[u].qty
  <2> SUFFICES ASSUME NEW u \in Sheet, PlacedFor(w, u) > 0
               PROVE  x.sheet[u].state = "LOCKED" /\ PlacedFor(w, u) <= x.sheet[u].qty
    BY <1>5
  <2>1. u \notin S
    OBVIOUS
  <2> QED BY <2>1 DEF SheetsGood
<1> QED BY <1>2, <1>3, <1>4, <1>6 DEF SheetsGood, Numbered

\* What a handler does to the cycles leaves the sheets of its view alone.
LEMMA ViewSheets ==
    ASSUME NEW v, Shaped(v)
    PROVE  /\ SameSheets(Repaired(v), v) /\ DOMAIN Repaired(v) = DOMAIN TablesInit
           /\ SameSheets(Advanced(v), v) /\ DOMAIN Advanced(v) = DOMAIN TablesInit
           /\ SameSheets(Resolved(v), v) /\ DOMAIN Resolved(v) = DOMAIN TablesInit
           /\ SameSheets(ForNewSheet(v), v)
<1>0. {"cycle", "cur", "sheet", "placed"} \subseteq DOMAIN TablesInit
  BY DEF TablesInit
<1>1. ASSUME NEW u, DOMAIN u = DOMAIN TablesInit
      PROVE  SameSheets(Repaired(u), u) /\ DOMAIN Repaired(u) = DOMAIN TablesInit
  BY <1>0, <1>1 DEF Repaired, SameSheets
<1>2. ASSUME NEW u, DOMAIN u = DOMAIN TablesInit
      PROVE  SameSheets(Opened(u), u) /\ DOMAIN Opened(u) = DOMAIN TablesInit
  BY <1>0, <1>2 DEF Opened, SameSheets
<1>3. ASSUME NEW u, NEW c, DOMAIN u = DOMAIN TablesInit
      PROVE  SameSheets(Ended(u, c), u) /\ DOMAIN Ended(u, c) = DOMAIN TablesInit
  BY <1>0, <1>3 DEF Ended, SameSheets
<1>4. ASSUME NEW u, DOMAIN u = DOMAIN TablesInit
      PROVE  SameSheets(Resolved(u), u) /\ DOMAIN Resolved(u) = DOMAIN TablesInit
  <2> DEFINE a == Repaired(u)
  <2>1. SameSheets(a, u) /\ DOMAIN a = DOMAIN TablesInit
    BY <1>1, <1>4
  <2>2. CASE Actives(a) = {}
    <3>1. SameSheets(Opened(a), a) /\ DOMAIN Opened(a) = DOMAIN TablesInit
      BY <1>2, <2>1
    <3> QED BY <2>1, <2>2, <3>1 DEF Resolved, SameSheets
  <2>3. CASE Actives(a) # {}
    <3>1. Resolved(u) = [a EXCEPT !.cur = Newest(Actives(a))]
      BY <2>3 DEF Resolved
    <3> QED BY <1>0, <2>1, <3>1 DEF SameSheets
  <2> QED BY <2>2, <2>3
<1>5. SameSheets(Advanced(v), v) /\ DOMAIN Advanced(v) = DOMAIN TablesInit
  <2> DEFINE a == Repaired(v)
             e == Ended(a, Newest(Actives(a)))
  <2>1. SameSheets(a, v) /\ DOMAIN a = DOMAIN TablesInit
    BY <1>1 DEF Shaped
  <2>2. SameSheets(e, a) /\ DOMAIN e = DOMAIN TablesInit
    BY <1>3, <2>1
  <2>3. SameSheets(Opened(e), e) /\ DOMAIN Opened(e) = DOMAIN TablesInit
    BY <1>2, <2>2
  <2>4. Advanced(v) = Opened(e) \/ Advanced(v) = a
    BY DEF Advanced
  <2> QED BY <2>1, <2>2, <2>3, <2>4 DEF SameSheets
<1>6. SameSheets(ForNewSheet(v), Advanced(v))
  BY <1>4, <1>5 DEF ForNewSheet
<1> QED BY <1>1, <1>4, <1>5, <1>6 DEF Shaped, SameSheets

\* The new sheet is created on a cycle that is there.
LEMMA ForNewSheetActive ==
    ASSUME NEW v, Shaped(v), Sound(v), ForNewSheet(v).cur <= MaxCycle
    PROVE  ActiveOf(ForNewSheet(v)) \in Cycle
<1> DEFINE x == Advanced(v)
           u == ForNewSheet(v)
<1>1. Actives(u) # {}
  <2>1. CASE Shaped(x) /\ Sound(x)
    BY <2>1, ResolvedMoves DEF ForNewSheet
  <2>2. CASE ~(Shaped(x) /\ Sound(x))
    <3>1. x # Repaired(v)
      <4>1. Moves(v, Repaired(v)) /\ Sound(Repaired(v))
        BY RepairedStays, MovesKeep
      <4> QED BY <2>2, <4>1 DEF Moves
    <3>2. ~Moves(v, x)
      BY <2>2, MovesKeep DEF Moves
    <3>3. Closes(v, x) /\ Actives(x) = {} /\ x.cur = NextNo(x) /\ x.cur \notin Cycle
      BY <3>1, <3>2, AdvancedMoves
    <3>4. Sound(v) /\ Known(x) = Known(v) /\ NextNo(x) \notin Cycle
      BY <3>3, ClosesKnown
    <3>5. Sound(x)
      BY <3>3, <3>4 DEF Sound
    <3>6. DOMAIN x = DOMAIN TablesInit /\ x.cycle \in [Cycle -> CycleStatus]
      BY <3>3 DEF Closes
    <3>7. Repaired(x).cycle = x.cycle
      <4>1. Repaired(x).cycle = [c \in Cycle |-> x.cycle[c]]
        BY <3>3, <3>6, Fields DEF Repaired
      <4> QED BY <3>6, <4>1
    <3>8. Actives(Repaired(x)) = {} /\ NextNo(Repaired(x)) = NextNo(x)
      BY <3>3, <3>7, SameCycles
    <3>9. DOMAIN Repaired(x) = DOMAIN TablesInit
      BY <3>6, Fields DEF Repaired
    <3>10. u.cur = NextNo(x)
      BY <3>8, <3>9, Fields DEF ForNewSheet, Resolved, Opened
    <3>11. NextNo(x) \in Nat /\ NextNo(x) >= 1
      <4>1. NextNo(x) = Newest(Known(v)) + 1 /\ Newest(Known(v)) \in Nat
        BY <3>4, CycleType DEF NextNo, Sound
      <4> QED BY <4>1
    <3> QED BY <3>4, <3>10, <3>11, CycleType DEF Cycle
  <2> QED BY <2>1, <2>2
<1>2. Sound(u)
  BY ForNewSheetMoves, MovesKeep
<1>3. ActiveOf(u) \in Actives(u)
  BY <1>1, <1>2, OneActive DEF ActiveOf
<1> QED BY <1>3 DEF Actives

\* The version of a new sheet is no higher than its id.
LEMMA NextVersionType ==
    ASSUME NEW w, SheetsGood(w), NEW s \in Sheet, NextSheet(w, s), NEW c, NEW p
    PROVE  NextVersion(w, c, p) \in Version /\ NextVersion(w, c, p) <= s
<1> DEFINE V == {w.sheet[u].version : u \in SameDemand(w, c, p)}
           A == {0} \cup V
<1>1. SameDemand(w, c, p) \subseteq Sheet /\ \A u \in SameDemand(w, c, p) : w.sheet[u].state # "absent"
  BY DEF SameDemand, SheetsOn, Exists
<1>2. s \in Nat /\ s >= 1 /\ s <= MaxSheet
  BY SheetType DEF Sheet
<1>3. ASSUME NEW u \in SameDemand(w, c, p)
      PROVE  w.sheet[u].version \in Nat /\ w.sheet[u].version <= s - 1
  <2>1. u \in Sheet /\ u \in Nat /\ w.sheet[u].state # "absent"
    BY <1>1, SheetType
  <2>2. ~(s < u) /\ u # s
    BY <2>1 DEF NextSheet, SheetsGood, Numbered
  <2>3. w.sheet[u] \in SheetRow
    BY <2>1 DEF SheetsGood
  <2>4. w.sheet[u].version \in Nat
    BY <2>3, SheetType DEF SheetRow, Version
  <2>5. w.sheet[u].version <= u
    BY <2>1 DEF SheetsGood, Numbered
  <2> QED BY <1>2, <2>1, <2>2, <2>4, <2>5
<1>4. A \subseteq Nat /\ A # {} /\ \A a \in A : a <= s - 1
  BY <1>2, <1>3
<1>5. IsFiniteSet(A)
  <2>1. A \subseteq 0..(s - 1)
    <3> HIDE DEF A
    <3> QED BY <1>2, <1>4
  <2>2. IsFiniteSet(0..(s - 1))
    BY <1>2, FS_Interval
  <2> QED BY <2>1, <2>2, FS_Subset
<1>6. Max(A) \in A
  <2> HIDE DEF A
  <2> QED BY <1>4, <1>5, MaxOf
<1>7. Max(A) \in Nat /\ Max(A) <= s - 1
  <2> HIDE DEF A
  <2> QED BY <1>4, <1>6
<1>8. NextVersion(w, c, p) = 1 + Max(A)
  BY DEF NextVersion
<1>9. 1 + Max(A) \in Nat /\ 1 + Max(A) >= 1 /\ 1 + Max(A) <= s
  <2> HIDE DEF A
  <2> QED BY <1>2, <1>7
<1> HIDE DEF A
<1> QED BY <1>2, <1>8, <1>9, SheetType DEF Version

\* Looking at the sheets gives the same in two views that show the same sheets.
LEMMA SameLook ==
    ASSUME NEW v, NEW w, SameSheets(v, w)
    PROVE  /\ \A c, p : NextVersion(v, c, p) = NextVersion(w, c, p)
           /\ \A s : PlacedFor(v, s) = PlacedFor(w, s)
           /\ SheetsThere(v) = SheetsThere(w)
<1>1. \A s : Exists(v, s) <=> Exists(w, s)
  BY DEF SameSheets, Exists
<1>2. \A c, p : SameDemand(v, c, p) = SameDemand(w, c, p)
  BY <1>1 DEF SameSheets, SameDemand, SheetsOn
<1> QED BY <1>1, <1>2 DEF SameSheets, NextVersion, PlacedFor, SheetsThere

\* Merging a view writes the cycles and the pointer only.
LEMMA MergedSheets ==
    ASSUME NEW v, NEW u, NEW w, Shaped(w)
    PROVE  SameSheets(Merged(v, u, w), w) /\ DOMAIN Merged(v, u, w) = DOMAIN TablesInit
<1>1. {"cycle", "cur", "sheet", "placed"} \subseteq DOMAIN TablesInit
  BY DEF TablesInit
<1> QED BY <1>1 DEF Merged, Shaped, SameSheets

\* Sheet s of w on another cycle, and the rest of the row written as well.
Relinked(w, m, s) ==
    \E c \in Cycle : m.sheet = [w.sheet EXCEPT ![s] = [w.sheet[s] EXCEPT !.cycle = c]]

Edited(m, x, s, state, qty, plan) ==
    x.sheet = [m.sheet EXCEPT ![s] = [m.sheet[s] EXCEPT !.state = state, !.qty = qty, !.plan = plan]]

LEMMA RepointedSheets ==
    ASSUME NEW r, NEW v, NEW w, NEW from, Shaped(w), SheetsGood(w), r.s \in Sheet,
           ActiveOf(Resolved(v)) \in Cycle
    PROVE  /\ Repointed(r, v, w, from).placed = w.placed
           /\ DOMAIN Repointed(r, v, w, from) = DOMAIN TablesInit
           /\ Relinked(w, Repointed(r, v, w, from), r.s)
<1> DEFINE m == Merged(v, Resolved(v), w)
           c == IF Repoints(r, v, from) THEN ActiveOf(Resolved(v)) ELSE w.sheet[r.s].cycle
           x == Repointed(r, v, w, from)
<1>1. m.sheet = w.sheet /\ m.placed = w.placed /\ DOMAIN m = DOMAIN TablesInit
  BY MergedSheets DEF SameSheets
<1>2. {"sheet", "placed"} \subseteq DOMAIN TablesInit
  BY DEF TablesInit
<1>3. w.sheet[r.s] \in SheetRow
  BY DEF SheetsGood
<1>4. c \in Cycle
  BY <1>3 DEF SheetRow
<1>5. x = [m EXCEPT !.sheet = [m.sheet EXCEPT ![r.s] = [m.sheet[r.s] EXCEPT !.cycle = c]]]
  BY <1>1 DEF Repointed
<1> HIDE DEF m, c, x
<1>6. x.placed = m.placed /\ DOMAIN x = DOMAIN m
      /\ x.sheet = [m.sheet EXCEPT ![r.s] = [m.sheet[r.s] EXCEPT !.cycle = c]]
  BY <1>1, <1>2, <1>5
<1> QED BY <1>1, <1>4, <1>6 DEF x, Relinked

LEMMA RequestFields ==
    ASSUME NEW r \in Request
    PROVE  /\ r.op \in Ops
           /\ r.op \in SheetOps \ {"deleteAll"} => r.s \in Sheet
           /\ r.op = "create" => r.p \in Period
           /\ r.op = "lines" => r.q \in 0..MaxQty
           /\ r.op \in {"createWo", "recalc"} => r.q \in Qty
           /\ r.op \in {"make", "finalize", "prepare"} => r.c \in Cycle
           /\ r.op = "prepare" => r.q \in Qty
           /\ r.op = "release" => r.p \in Period
BY DEF Request, AnyRequest, Ops, Elsewhere, SheetOps

LEMMA QtyEdited ==
    ASSUME NEW m, NEW x, NEW s, NEW q, m.sheet[s] \in SheetRow, m.sheet[s].state = "DRAFT",
           x.sheet = [m.sheet EXCEPT ![s] = [m.sheet[s] EXCEPT !.qty = q]]
    PROVE  Edited(m, x, s, "DRAFT", q, m.sheet[s].plan)
<1> DEFINE row == m.sheet[s]
           a == [row EXCEPT !.qty = q]
           b == [row EXCEPT !.state = "DRAFT", !.qty = q, !.plan = row.plan]
<1>1. \A f \in DOMAIN row : a[f] = b[f]
  BY DEF SheetRow
<1>2. a = b
  BY <1>1
<1> HIDE DEF a
<1> QED BY <1>2 DEF Edited

LEMMA RelinkedRow ==
    ASSUME NEW w, NEW m, NEW s \in Sheet, SheetsGood(w), Relinked(w, m, s)
    PROVE  /\ m.sheet \in [Sheet -> SheetRow] /\ m.sheet[s] \in SheetRow
           /\ m.sheet[s].state = w.sheet[s].state
<1>1. PICK c \in Cycle : m.sheet = [w.sheet EXCEPT ![s] = [w.sheet[s] EXCEPT !.cycle = c]]
  BY DEF Relinked
<1>2. w.sheet \in [Sheet -> SheetRow] /\ w.sheet[s] \in SheetRow
  BY DEF SheetsGood
<1>3. [w.sheet[s] EXCEPT !.cycle = c] \in SheetRow
      /\ [w.sheet[s] EXCEPT !.cycle = c].state = w.sheet[s].state
  BY <1>2 DEF SheetRow
<1> QED BY <1>1, <1>2, <1>3

\* A sheet that is edited, recalculated or locked was DRAFT, so nothing is placed from it.
LEMMA EditedSheets ==
    ASSUME NEW w, NEW m, NEW x, SheetsGood(w), NEW s \in Sheet, w.sheet[s].state = "DRAFT",
           Relinked(w, m, s), x.placed = w.placed,
           NEW state \in {"DRAFT", "LOCKED"}, NEW qty \in 0..MaxQty, NEW plan \in 0..MaxQty,
           Edited(m, x, s, state, qty, plan)
    PROVE  SheetsGood(x)
<1> DEFINE old == w.sheet[s]
<1>1. PICK c \in Cycle : m.sheet = [w.sheet EXCEPT ![s] = [old EXCEPT !.cycle = c]]
  BY DEF Relinked
<1> DEFINE row == [old EXCEPT !.cycle = c, !.state = state, !.qty = qty, !.plan = plan]
<1>2. old \in SheetRow /\ old.version <= s
  BY DEF SheetsGood, Numbered
<1>3. row \in SheetRow /\ row.state = state /\ row.version = old.version
  BY <1>2 DEF SheetRow, SheetStatus
<1>4. s \in DOMAIN w.sheet /\ m.sheet[s] = [old EXCEPT !.cycle = c]
  BY <1>1 DEF SheetsGood
<1>5. [m.sheet[s] EXCEPT !.state = state, !.qty = qty, !.plan = plan] = row
  BY <1>2, <1>4 DEF SheetRow
<1>6. x.sheet = [w.sheet EXCEPT ![s] = row]
  <2> HIDE DEF row, old
  <2>1. x.sheet = [m.sheet EXCEPT ![s] = row]
    BY <1>5 DEF Edited
  <2> QED BY <1>1, <2>1 DEF SheetsGood
<1>7. ~(PlacedFor(w, s) > 0)
  BY DEF SheetsGood
<1> HIDE DEF row
<1> QED BY <1>2, <1>3, <1>6, <1>7, RowWritten

\* What the planner writes keeps the sheets and their work orders sound.
LEMMA PlannerWrites ==
    ASSUME NEW r \in Request, NEW v, NEW w, Shaped(v), Sound(v), Shaped(w), Sound(w), Behind(v, w),
           SheetsGood(w), SameSheets(v, w), r.op \in SheetOps,
           r.op = "create" => NextSheet(w, r.s),
           r.op = "recalc" => w.sheet[r.s].state = "DRAFT",
           Allowed(r, v), Insertable(r, v, w)
    PROVE  SheetsGood(Written(r, v, w))
<1> DEFINE x == Written(r, v, w)
<1>0. /\ v.sheet = w.sheet /\ v.placed = w.placed
      /\ DOMAIN w = DOMAIN TablesInit /\ {"cycle", "cur", "sheet", "placed", "status"} \subseteq DOMAIN TablesInit
      /\ 0 \in 0..MaxQty
  BY SheetType DEF SameSheets, Shaped, TablesInit
<1>a. \A s : PlacedFor(v, s) = PlacedFor(w, s)
  BY SameLook
<1>b. Resolved(v).cur <= MaxCycle => ActiveOf(Resolved(v)) \in Cycle
  <2> SUFFICES ASSUME Resolved(v).cur <= MaxCycle PROVE ActiveOf(Resolved(v)) \in Cycle
    OBVIOUS
  <2>1. Moves(v, Resolved(v)) /\ Actives(Resolved(v)) = {Resolved(v).cur}
    BY ResolvedMoves
  <2>2. Sound(Resolved(v))
    BY <2>1, MovesKeep
  <2>3. ActiveOf(Resolved(v)) \in Actives(Resolved(v))
    BY <2>1, <2>2, OneActive DEF ActiveOf
  <2> QED BY <2>3 DEF Actives
<1>c. \A s \in Sheet : w.sheet[s] \in SheetRow /\ w.sheet[s].version <= s
  BY DEF SheetsGood, Numbered
<1>1. CASE r.op = "create"
  <2> DEFINE u == ForNewSheet(v)
             m == Merged(v, u, w)
             n == NextVersion(u, ActiveOf(u), r.p)
             row == [state |-> "DRAFT", cycle |-> ActiveOf(u), period |-> r.p, qty |-> 0, plan |-> 0,
                     version |-> n]
  <2>1. u.cur <= MaxCycle /\ x = [m EXCEPT !.sheet[r.s] = row]
    BY <1>1 DEF Allowed, CreateAllowed, Written, CreateWrite
  <2>2. ActiveOf(u) \in Cycle
    BY <2>1, ForNewSheetActive
  <2>3. SameSheets(u, w)
    BY ViewSheets DEF SameSheets
  <2>4. n = NextVersion(w, ActiveOf(u), r.p)
    BY <2>3, SameLook
  <2>5. r.s \in Sheet /\ r.p \in Period
    BY <1>1, RequestFields DEF SheetOps
  <2>6. n \in Version /\ n <= r.s
    BY <1>1, <2>4, <2>5, NextVersionType
  <2>7. SameSheets(m, w) /\ DOMAIN m = DOMAIN TablesInit
    BY MergedSheets
  <2> HIDE DEF u, m, n
  <2>8. row \in SheetRow /\ row.state # "absent" /\ row.version = n
    BY <1>0, <2>2, <2>5, <2>6 DEF SheetRow, SheetStatus
  <2>9. x.placed = w.placed /\ x.sheet = [w.sheet EXCEPT ![r.s] = row]
    <3> HIDE DEF row
    <3> QED BY <1>0, <2>1, <2>7 DEF SameSheets
  <2>10. ~(PlacedFor(w, r.s) > 0)
    BY <1>1, <2>5 DEF SheetsGood, NextSheet
  <2> HIDE DEF row
  <2> QED BY <1>1, <2>5, <2>6, <2>8, <2>9, <2>10, RowWritten
<1>2. CASE r.op = "lines"
  <2> DEFINE m == Repointed(r, v, w, v.sheet[r.s].cycle)
  <2>1. LinesAllowed(r, v) /\ x = LinesWrite(r, v, w)
    BY <1>2 DEF Allowed, Written
  <2>2. w.sheet[r.s].state = "DRAFT" /\ ActiveOf(Resolved(v)) \in Cycle
    BY <1>0, <1>b, <2>1 DEF LinesAllowed
  <2>3. r.s \in Sheet /\ r.q \in 0..MaxQty
    BY <1>2, RequestFields DEF SheetOps
  <2>4. m.placed = w.placed /\ DOMAIN m = DOMAIN TablesInit
    BY <2>2, <2>3, RepointedSheets
  <2>5. Relinked(w, m, r.s)
    BY <2>2, <2>3, RepointedSheets
  <2>6. m.sheet[r.s] \in SheetRow /\ m.sheet[r.s].state = "DRAFT"
    BY <1>c, <2>2, <2>3, <2>5, RelinkedRow
  <2>7. Exists(w, r.s)
    BY <2>2 DEF Exists
  <2>8. x = [m EXCEPT !.sheet[r.s].qty = r.q]
    BY <2>1, <2>7 DEF LinesWrite
  <2> DEFINE row == m.sheet[r.s]
  <2>9. x.placed = m.placed /\ x.sheet = [m.sheet EXCEPT ![r.s] = [row EXCEPT !.qty = r.q]]
    <3> HIDE DEF m
    <3> QED BY <1>0, <2>4, <2>8
  <2>11. row.plan \in 0..MaxQty
    <3> HIDE DEF m
    <3> QED BY <2>6 DEF SheetRow
  <2>12. Edited(m, x, r.s, "DRAFT", r.q, row.plan)
    <3> HIDE DEF m, x
    <3> QED BY <2>6, <2>9, QtyEdited
  <2>15. SheetsGood(x)
    <3> HIDE DEF m, x
    <3> QED BY <2>2, <2>3, <2>4, <2>5, <2>9, <2>11, <2>12, EditedSheets
  <2> QED BY <2>15
<1>3. CASE r.op = "recalc"
  <2> DEFINE m == Repointed(r, v, w, r.from)
             row == m.sheet[r.s]
  <2>1. Resolved(v).cur <= MaxCycle /\ x = [m EXCEPT !.sheet[r.s].qty = r.q]
    BY <1>3 DEF Allowed, Written, RecalculateWrite
  <2>2. w.sheet[r.s].state = "DRAFT" /\ ActiveOf(Resolved(v)) \in Cycle
    BY <1>3, <1>b, <2>1
  <2>3. r.s \in Sheet /\ r.q \in 0..MaxQty
    BY <1>3, RequestFields, SheetType DEF SheetOps, Qty
  <2>4. m.placed = w.placed /\ DOMAIN m = DOMAIN TablesInit
    BY <2>2, <2>3, RepointedSheets
  <2>5. Relinked(w, m, r.s)
    BY <2>2, <2>3, RepointedSheets
  <2>6. row \in SheetRow /\ row.state = "DRAFT"
    BY <1>c, <2>2, <2>3, <2>5, RelinkedRow
  <2>9. x.placed = m.placed /\ x.sheet = [m.sheet EXCEPT ![r.s] = [row EXCEPT !.qty = r.q]]
    <3> HIDE DEF m
    <3> QED BY <1>0, <2>1, <2>4
  <2>11. row.plan \in 0..MaxQty
    <3> HIDE DEF m
    <3> QED BY <2>6 DEF SheetRow
  <2>12. Edited(m, x, r.s, "DRAFT", r.q, row.plan)
    <3> HIDE DEF m, x
    <3> QED BY <2>6, <2>9, QtyEdited
  <2>15. SheetsGood(x)
    <3> HIDE DEF m, x
    <3> QED BY <2>2, <2>3, <2>4, <2>5, <2>9, <2>11, <2>12, EditedSheets
  <2> QED BY <2>15
<1>4. CASE r.op = "lock"
  <2> DEFINE m == Repointed(r, v, w, v.sheet[r.s].cycle)
             row == m.sheet[r.s]
             n == v.sheet[r.s].qty
  <2>1. LockAllowed(r, v) /\ x = LockWrite(r, v, w)
    BY <1>4 DEF Allowed, Written
  <2>2. w.sheet[r.s].state = "DRAFT" /\ ActiveOf(Resolved(v)) \in Cycle
    BY <1>0, <1>b, <2>1 DEF LockAllowed
  <2>3. r.s \in Sheet
    BY <1>4, RequestFields DEF SheetOps
  <2>4. n \in 0..MaxQty
    BY <1>0, <1>c, <2>3 DEF SheetRow
  <2>5. m.placed = w.placed /\ DOMAIN m = DOMAIN TablesInit
    BY <2>2, <2>3, RepointedSheets
  <2>6. Relinked(w, m, r.s)
    BY <2>2, <2>3, RepointedSheets
  <2>7. m.sheet \in [Sheet -> SheetRow]
    BY <2>3, <2>6, RelinkedRow
  <2>8. x = [m EXCEPT !.status = "IN_PROCESS", !.cur = ActiveOf(Resolved(v)),
                      !.sheet[r.s] = [@ EXCEPT !.state = "LOCKED", !.qty = n, !.plan = n]]
    BY <2>1 DEF LockWrite
  <2>9. x.placed = m.placed
        /\ x.sheet = [m.sheet EXCEPT ![r.s] = [row EXCEPT !.state = "LOCKED", !.qty = n, !.plan = n]]
    <3> HIDE DEF m, n
    <3>1. DOMAIN m.sheet = Sheet
      BY <2>7
    <3> QED BY <1>0, <2>3, <2>5, <2>8, <3>1
  <2>10. Edited(m, x, r.s, "LOCKED", n, n)
    BY <2>9 DEF Edited
  <2>15. SheetsGood(x)
    <3> HIDE DEF m, x
    <3> QED BY <2>2, <2>3, <2>4, <2>5, <2>6, <2>9, <2>10, EditedSheets
  <2> QED BY <2>15
<1>5. CASE r.op = "createWo"
  <2> DEFINE s == r.s
             here == w.sheet[s].cycle
             k == PlacedFor(w, s)
             f == [c \in Cycle |-> IF c = here THEN r.q + k ELSE 0]
  <2>1. CreateWoAllowed(r, v) /\ x = CreateWoWrite(r, v, w)
    BY <1>5 DEF Allowed, Written
  <2>2. s \in Sheet /\ r.q \in Nat
    BY <1>5, RequestFields, SheetType DEF SheetOps, Qty
  <2>3. w.placed[s] \in [Cycle -> Nat] /\ here \in Cycle /\ w.sheet[s].qty \in Nat
    <3>1. w.sheet[s] \in SheetRow
      BY <1>c, <2>2
    <3>2. here \in Cycle /\ w.sheet[s].qty \in 0..MaxQty
      BY <3>1 DEF SheetRow
    <3>3. w.sheet[s].qty \in Nat
      <4>1. \A a \in 0..MaxQty : a \in Nat
        OBVIOUS
      <4> QED BY <3>2, <4>1
    <3>4. w.placed[s] \in [Cycle -> Nat]
      BY <2>2 DEF SheetsGood
    <3> QED BY <3>2, <3>3, <3>4
  <2>4. k \in Nat
    BY <2>2, <2>3, PlacedType
  <2>5. w.sheet[s].state = "LOCKED" /\ r.q <= w.sheet[s].qty - k
    BY <1>0, <1>a, <2>1 DEF CreateWoAllowed, Balance
  <2>6. x.sheet = w.sheet /\ x.placed = [w.placed EXCEPT ![s] = f]
    <3> DEFINE g == [c \in Cycle |-> IF c = here THEN w.placed[s][c] + r.q + k - w.placed[s][c]
                                                 ELSE w.placed[s][c] - w.placed[s][c]]
    <3>1. x = [w EXCEPT !.placed[s] = g]
      BY <1>0, <1>a, <2>1 DEF CreateWoWrite
    <3>2. g = f
      <4> HIDE DEF k, here
      <4>1. \A c \in Cycle : w.placed[s][c] \in Nat
        BY <2>3
      <4>2. \A c \in Cycle : (w.placed[s][c] + r.q + k - w.placed[s][c] = r.q + k)
                             /\ w.placed[s][c] - w.placed[s][c] = 0
        BY <2>2, <2>4, <4>1
      <4> QED BY <4>2
    <3> HIDE DEF f, g
    <3> QED BY <1>0, <3>1, <3>2
  <2>7. r.q + k \in Nat /\ r.q + k <= w.sheet[s].qty
    <3> HIDE DEF k
    <3> QED BY <2>2, <2>3, <2>4, <2>5
  <2>8. f \in [Cycle -> Nat] /\ SumFunction(f) = r.q + k
    <3> HIDE DEF k, here
    <3> QED BY <2>3, <2>7, PlacedOnOne
  <2> HIDE DEF f, k
  <2>9. x.placed \in [Sheet -> [Cycle -> Nat]] /\ x.placed[s] = f
        /\ \A u \in Sheet \ {s} : x.placed[u] = w.placed[u]
    BY <2>2, <2>6, <2>8 DEF SheetsGood
  <2>10. PlacedFor(x, s) <= x.sheet[s].qty /\ x.sheet[s].state = "LOCKED"
    BY <2>5, <2>6, <2>7, <2>8, <2>9 DEF PlacedFor
  <2>11. \A u \in Sheet \ {s} : PlacedFor(x, u) = PlacedFor(w, u)
    BY <2>9 DEF PlacedFor
  <2>12. Numbered(x)
    BY <2>6 DEF Numbered, SheetsGood
  <2> QED BY <2>6, <2>9, <2>10, <2>11, <2>12 DEF SheetsGood
<1>6. CASE r.op \in {"deleteDraft", "void"}
  <2>1. x = Deleted({r.s}, w) /\ r.s \in Sheet
    BY <1>6, RequestFields DEF Written, SheetOps
  <2>2. PlacedFor(w, r.s) = 0 /\ w.sheet[r.s].state # "absent"
    BY <1>0, <1>6, <1>a DEF Allowed, DeleteDraftAllowed, VoidAllowed
  <2>3. x.placed = w.placed
        /\ x.sheet = [s \in Sheet |-> IF s \in {r.s} THEN NoSheet("deleted") ELSE w.sheet[s]]
    BY <1>0, <2>1 DEF Deleted
  <2> QED BY <2>1, <2>2, <2>3, SheetsDeleted
<1>7. CASE r.op = "deleteAll"
  <2>1. x = Deleted(SheetsThere(w), w) /\ SheetsThere(w) \in SUBSET Sheet
    BY <1>7, SameLook DEF Written, SheetsThere
  <2>2. \A s \in SheetsThere(w) : w.sheet[s].state # "absent" /\ PlacedFor(w, s) = 0
    BY <1>7, <1>a, SameLook DEF Allowed, DeleteAllAllowed, SheetsThere, Exists
  <2>3. x.placed = w.placed
        /\ x.sheet = [s \in Sheet |-> IF s \in SheetsThere(w) THEN NoSheet("deleted") ELSE w.sheet[s]]
    BY <1>0, <2>1 DEF Deleted
  <2> QED BY <2>1, <2>2, <2>3, SheetsDeleted
<1>8. CASE r.op = "cancel"
  <2> DEFINE row == [w.sheet[r.s] EXCEPT !.state = "CANCELLED"]
  <2>1. x = [w EXCEPT !.sheet[r.s].state = "CANCELLED"] /\ r.s \in Sheet
    BY <1>8, RequestFields DEF Written, CancelWrite, SheetOps
  <2>2. PlacedFor(w, r.s) = 0 /\ w.sheet[r.s].state = "LOCKED"
    BY <1>0, <1>8, <1>a DEF Allowed, CancelAllowed
  <2>3. row \in SheetRow /\ row.state = "CANCELLED" /\ row.version = w.sheet[r.s].version
    BY <1>c, <2>1 DEF SheetRow, SheetStatus
  <2>4. x.placed = w.placed /\ x.sheet = [w.sheet EXCEPT ![r.s] = row]
    BY <1>0, <2>1
  <2>5. row.state # "absent" /\ row.version <= r.s /\ w.sheet[r.s].state # "absent"
    BY <1>c, <2>1, <2>2, <2>3
  <2>6. ~(PlacedFor(w, r.s) > 0)
    BY <2>2
  <2>7. SheetsGood(x)
    <3> HIDE DEF row, x
    <3> QED BY <2>1, <2>3, <2>4, <2>5, <2>6, RowWritten
  <2> QED BY <2>7
<1> QED BY <1>1, <1>2, <1>3, <1>4, <1>5, <1>6, <1>7, <1>8 DEF SheetOps

\* Everybody else leaves the sheets and the work orders alone.
LEMMA OthersWrite ==
    ASSUME NEW r \in Request, NEW v, NEW w, Shaped(w), r.op \notin SheetOps
    PROVE  SameSheets(Written(r, v, w), w)
<1> DEFINE x == Written(r, v, w)
<1>0. DOMAIN w = DOMAIN TablesInit
      /\ {"cycle", "cur", "sheet", "placed", "status", "close", "released", "made",
          "prepared", "shipped"} \subseteq DOMAIN TablesInit
  BY DEF Shaped, TablesInit
<1>1. CASE r.op \in {"prepareNext", "repair", "autoClose", "closeEmpty"}
  <2>1. x = Merged(v, After(r, v), w)
    BY <1>1 DEF Written
  <2> QED BY <2>1, MergedSheets
<1>2. CASE r.op = "prepare"
  <2> DEFINE m == Merged(v, AutoClosed(v, r.c), w)
  <2>1. x = [m EXCEPT !.prepared[r.c] = r.q]
    BY <1>2 DEF Written, PrepareWrite
  <2>2. SameSheets(m, w) /\ DOMAIN m = DOMAIN TablesInit
    BY MergedSheets
  <2> HIDE DEF m
  <2> QED BY <1>0, <2>1, <2>2 DEF SameSheets
<1>3. CASE r.op = "finalize"
  <2> DEFINE m == Merged(v, AutoClosed(Shipped(v, r.c), r.c), w)
  <2>1. x = [m EXCEPT !.shipped[r.c] = @ + v.prepared[r.c], !.prepared[r.c] = 0]
    BY <1>3 DEF Written, FinalizeWrite
  <2>2. SameSheets(m, w) /\ DOMAIN m = DOMAIN TablesInit
    BY MergedSheets
  <2> HIDE DEF m
  <2> QED BY <1>0, <2>1, <2>2 DEF SameSheets
<1>4. CASE r.op = "closeOrder"
  BY <1>0, <1>4 DEF Written, ManuallyClosed, SameSheets
<1>5. CASE r.op = "reopen"
  BY <1>0, <1>5 DEF Written, Reopened, SameSheets
<1>6. CASE r.op \in {"release", "make"}
  <2>1. x = [w EXCEPT !.released = @ \cup {r.p}] \/ x = [w EXCEPT !.made[r.c] = @ + 1]
    <3>1. CASE r.op = "release"
      BY <3>1 DEF Written
    <3>2. CASE r.op = "make"
      BY <3>2 DEF Written
    <3> QED BY <1>6, <3>1, <3>2
  <2> HIDE DEF x
  <2>2. SameSheets(x, w)
    BY <1>0, <2>1 DEF SameSheets
  <2> QED BY <2>2 DEF x
<1>7. r.op \in Ops
  BY RequestFields
<1> QED BY <1>1, <1>2, <1>3, <1>4, <1>5, <1>6, <1>7 DEF Ops, Elsewhere, SheetOps

\* What a view moves or a sheet shows apart, the tables keep to their domains.
Fits(x) ==
    /\ DOMAIN x = DOMAIN TablesInit /\ x = [f \in DOMAIN x |-> x[f]]
    /\ x.status \in OrderStatus /\ x.close \in [1..MaxClose -> SnapshotStatus]
    /\ x.made \in [Cycle -> Nat] /\ x.prepared \in [Cycle -> Nat] /\ x.shipped \in [Cycle -> Nat]
    /\ x.released \in SUBSET Period

LEMMA TablesFit ==
    ASSUME NEW x
    PROVE  /\ x \in Tables => Fits(x)
           /\ /\ Fits(x) /\ x.cur \in 0..MaxCycle /\ x.cycle \in [Cycle -> CycleStatus]
              /\ x.sheet \in [Sheet -> SheetRow] /\ x.placed \in [Sheet -> [Cycle -> Nat]]
              => x \in Tables
<1>1. DOMAIN TablesInit = {"status", "cur", "close", "cycle", "sheet", "placed", "made",
                           "prepared", "shipped", "released"}
  BY DEF TablesInit
<1> QED BY <1>1 DEF Fits, Tables

\* y differs from x in the order's pointer, its cycles, its sheets or their work only.
SameRest(x, y) ==
    /\ DOMAIN y = DOMAIN TablesInit /\ y = [f \in DOMAIN y |-> y[f]]
    /\ y.status = x.status /\ y.close = x.close /\ y.released = x.released
    /\ y.made = x.made /\ y.prepared = x.prepared /\ y.shipped = x.shipped

LEMMA RestFits == ASSUME NEW x, NEW y, Fits(x), SameRest(x, y) PROVE Fits(y)
BY DEF Fits, SameRest

LEMMA MergedFits ==
    ASSUME NEW v, NEW u, NEW w, Fits(w) PROVE Fits(Merged(v, u, w))
<1>1. SameRest(w, Merged(v, u, w))
  BY DEF Fits, SameRest, Merged, TablesInit
<1> QED BY <1>1, RestFits

LEMMA SheetFits ==
    ASSUME NEW x, NEW a, Fits(x) PROVE Fits([x EXCEPT !.sheet = a])
<1>1. SameRest(x, [x EXCEPT !.sheet = a])
  BY DEF Fits, SameRest, TablesInit
<1> QED BY <1>1, RestFits

LEMMA RepointedFits ==
    ASSUME NEW r, NEW v, NEW w, NEW from, Fits(w) PROVE Fits(Repointed(r, v, w, from))
<1> DEFINE m == Merged(v, Resolved(v), w)
<1>1. Fits(m)
  BY MergedFits
<1> HIDE DEF m
<1>2. PICK a : Repointed(r, v, w, from) = [m EXCEPT !.sheet = a]
  BY DEF Repointed, m
<1> QED BY <1>1, <1>2, SheetFits

LEMMA WrittenFits ==
    ASSUME NEW r \in Request, NEW v, NEW w, Fits(w), r.op \notin Elsewhere => Fits(v)
    PROVE  Fits(Written(r, v, w))
<1> DEFINE x == Written(r, v, w)
<1>0. DOMAIN w = DOMAIN TablesInit /\ r.op \in Ops /\
      {"cycle", "cur", "sheet", "placed", "status", "close", "released", "made",
          "prepared", "shipped"} \subseteq DOMAIN TablesInit
  BY RequestFields DEF Fits, TablesInit
<1>1. CASE r.op \in {"prepareNext", "repair", "autoClose", "closeEmpty"}
  <2>1. x = Merged(v, After(r, v), w)
    BY <1>1 DEF Written
  <2> QED BY <2>1, MergedFits
<1>2. CASE r.op = "prepare"
  <2> DEFINE m == Merged(v, AutoClosed(v, r.c), w)
  <2>1. x = [m EXCEPT !.prepared[r.c] = r.q]
    BY <1>2 DEF Written, PrepareWrite
  <2>2. Fits(m)
    BY MergedFits
  <2>3. r.c \in Cycle /\ r.q \in Nat
    BY <1>2, RequestFields, SheetType DEF Qty
  <2> HIDE DEF m, x
  <2>4. Fits(x)
    BY <1>0, <2>1, <2>2, <2>3 DEF Fits
  <2> QED BY <2>4 DEF x
<1>3. CASE r.op = "finalize"
  <2> DEFINE m == Merged(v, AutoClosed(Shipped(v, r.c), r.c), w)
  <2>1. x = [m EXCEPT !.shipped[r.c] = @ + v.prepared[r.c], !.prepared[r.c] = 0]
    BY <1>3 DEF Written, FinalizeWrite
  <2>2. Fits(m)
    BY MergedFits
  <2>3. r.c \in Cycle /\ v.prepared[r.c] \in Nat
    BY <1>3, RequestFields DEF Elsewhere, Fits
  <2> DEFINE a == [m.shipped EXCEPT ![r.c] = @ + v.prepared[r.c]]
             b == [m.prepared EXCEPT ![r.c] = 0]
  <2>5. a \in [Cycle -> Nat] /\ b \in [Cycle -> Nat]
    <3> HIDE DEF m
    <3>1. m.shipped \in [Cycle -> Nat] /\ m.prepared \in [Cycle -> Nat]
      BY <2>2 DEF Fits
    <3>2. m.shipped[r.c] + v.prepared[r.c] \in Nat
      BY <2>3, <3>1
    <3> QED BY <2>3, <3>1, <3>2
  <2>6. x = [m EXCEPT !.shipped = a, !.prepared = b]
    <3> HIDE DEF m, x
    <3> QED BY <1>0, <2>1, <2>2 DEF Fits
  <2> HIDE DEF m, x, a, b
  <2>4. Fits(x)
    BY <1>0, <2>2, <2>5, <2>6 DEF Fits
  <2> QED BY <2>4 DEF x
<1>4. CASE r.op = "closeOrder"
  <2>1. CASE Closed(v)
    BY <1>4, <2>1 DEF Written
  <2>2. CASE ~Closed(v)
    <3> DEFINE a == [k \in 1..MaxClose |-> IF k = NextClose(v) THEN "ACTIVE"
                                           ELSE IF w.close[k] = "ACTIVE" THEN "ARCHIVED" ELSE w.close[k]]
    <3>1. x = [w EXCEPT !.status = "MANUALLY_CLOSED", !.cur = 0, !.close = a]
      BY <1>0, <1>4, <2>2 DEF Written, ManuallyClosed
    <3>2. a \in [1..MaxClose -> SnapshotStatus]
      BY DEF Fits, SnapshotStatus
    <3> HIDE DEF a, x
    <3>3. Fits(x)
      BY <1>0, <3>1, <3>2 DEF Fits, OrderStatus
    <3> QED BY <3>3 DEF x
  <2> QED BY <2>1, <2>2
<1>5. CASE r.op = "reopen"
  <2> DEFINE a == [k \in 1..MaxClose |-> IF k = Max(ActiveCloses(v)) THEN "REOPENED"
                                         ELSE IF w.close[k] = "ACTIVE" THEN "ARCHIVED" ELSE w.close[k]]
  <2>1. x = [w EXCEPT !.status = "OPEN", !.close = a]
    BY <1>0, <1>5 DEF Written, Reopened
  <2>2. a \in [1..MaxClose -> SnapshotStatus]
    BY DEF Fits, SnapshotStatus
  <2> HIDE DEF a, x
  <2>3. Fits(x)
    BY <1>0, <2>1, <2>2 DEF Fits, OrderStatus
  <2> QED BY <2>3 DEF x
<1>6. CASE r.op = "release"
  <2>1. x = [w EXCEPT !.released = @ \cup {r.p}] /\ r.p \in Period
    BY <1>6, RequestFields DEF Written
  <2> HIDE DEF x
  <2>2. Fits(x)
    BY <1>0, <2>1 DEF Fits
  <2> QED BY <2>2 DEF x
<1>7. CASE r.op = "make"
  <2> DEFINE a == [w.made EXCEPT ![r.c] = @ + 1]
  <2>1. x = [w EXCEPT !.made = a] /\ r.c \in Cycle
    BY <1>7, RequestFields DEF Written
  <2>3. a \in [Cycle -> Nat]
    <3>1. w.made \in [Cycle -> Nat]
      BY DEF Fits
    <3>2. w.made[r.c] + 1 \in Nat
      BY <2>1, <3>1
    <3> QED BY <2>1, <3>1, <3>2
  <2> HIDE DEF x, a
  <2>2. Fits(x)
    BY <1>0, <2>1, <2>3 DEF Fits
  <2> QED BY <2>2 DEF x
<1>8. CASE r.op = "create"
  <2> DEFINE m == Merged(v, ForNewSheet(v), w)
  <2>1. PICK a : x = [m EXCEPT !.sheet = a]
    BY <1>8 DEF Written, CreateWrite
  <2> QED BY <2>1, MergedFits, SheetFits
<1>9. CASE r.op = "lines"
  <2> DEFINE m == Repointed(r, v, w, v.sheet[r.s].cycle)
  <2>0. x = LinesWrite(r, v, w)
    BY <1>9 DEF Written
  <2>1. x = m \/ x = [m EXCEPT !.sheet[r.s].qty = r.q]
    <3>1. CASE Exists(w, r.s)
      <4>1. x = [m EXCEPT !.sheet[r.s].qty = r.q]
        BY <2>0, <3>1 DEF LinesWrite
      <4> HIDE DEF x, m
      <4> QED BY <4>1
    <3>2. CASE ~Exists(w, r.s)
      <4>1. x = m
        BY <2>0, <3>2 DEF LinesWrite
      <4> HIDE DEF x, m
      <4> QED BY <4>1
    <3> QED BY <3>1, <3>2
  <2>2. Fits(m)
    BY RepointedFits
  <2> HIDE DEF m, x
  <2>3. Fits(x)
    BY <2>1, <2>2, SheetFits
  <2> QED BY <2>3 DEF x
<1>10. CASE r.op = "recalc"
  <2> DEFINE m == Repointed(r, v, w, r.from)
  <2>1. PICK a : x = [m EXCEPT !.sheet = a]
    BY <1>10 DEF Written, RecalculateWrite
  <2> QED BY <2>1, RepointedFits, SheetFits
<1>11. CASE r.op = "lock"
  <2> DEFINE m == Repointed(r, v, w, v.sheet[r.s].cycle)
             n == ActiveOf(Resolved(v))
  <2> DEFINE a == [m.sheet EXCEPT ![r.s] = [@ EXCEPT !.state = "LOCKED", !.qty = v.sheet[r.s].qty,
                                                  !.plan = v.sheet[r.s].qty]]
  <2>0. x = LockWrite(r, v, w)
    BY <1>11 DEF Written
  <2>1. x = [m EXCEPT !.status = "IN_PROCESS", !.cur = n, !.sheet = a]
    <3>1. DOMAIN m = DOMAIN TablesInit
      <4>1. Fits(m)
        BY RepointedFits
      <4> QED BY <4>1 DEF Fits
    <3>2. x = [m EXCEPT !.status = "IN_PROCESS", !.cur = n,
                        !.sheet[r.s] = [@ EXCEPT !.state = "LOCKED", !.qty = v.sheet[r.s].qty,
                                                 !.plan = v.sheet[r.s].qty]]
      BY <2>0 DEF LockWrite
    <3> HIDE DEF m, n, x
    <3> QED BY <1>0, <3>1, <3>2
  <2>2. Fits(m)
    BY RepointedFits
  <2> HIDE DEF m, n, x, a
  <2>3. Fits(x)
    BY <1>0, <2>1, <2>2 DEF Fits, OrderStatus
  <2> QED BY <2>3 DEF x
<1>12. CASE r.op = "createWo"
  <2>1. PICK a : x = [w EXCEPT !.placed[r.s] = a]
    BY <1>12 DEF Written, CreateWoWrite
  <2> HIDE DEF x
  <2>2. SameRest(w, x)
    BY <1>0, <2>1 DEF SameRest
  <2> QED BY <2>2, RestFits DEF x
<1>13. CASE r.op \in {"deleteDraft", "void", "deleteAll"}
  <2>1. PICK a : x = [w EXCEPT !.sheet = a]
    BY <1>13 DEF Written, Deleted
  <2> QED BY <2>1, SheetFits
<1>14. CASE r.op = "cancel"
  <2>1. PICK a : x = [w EXCEPT !.sheet = a]
    BY <1>14 DEF Written, CancelWrite
  <2> QED BY <2>1, SheetFits
<1> QED BY <1>0, <1>1, <1>2, <1>3, <1>4, <1>5, <1>6, <1>7, <1>8, <1>9, <1>10, <1>11, <1>12, <1>13, <1>14
        DEF Ops, Elsewhere

\* Every write keeps the tables to their domains.
LEMMA WrittenTables ==
    ASSUME NEW r \in Request, NEW v, NEW w \in Tables, Shaped(w), Sound(w),
           r.op \notin Elsewhere => Shaped(v) /\ Sound(v) /\ Behind(v, w) /\ v \in Tables,
           r.op \in SheetOps => SheetsGood(Written(r, v, w)),
           Allowed(r, v), Insertable(r, v, w)
    PROVE  Written(r, v, w) \in Tables
<1> DEFINE x == Written(r, v, w)
<1>1. r.op \in Ops
  BY RequestFields
<1>2. Moves(w, x)
  BY <1>1, WrittenMoves
<1>3. x.cur \in 0..MaxCycle /\ x.cycle \in [Cycle -> CycleStatus]
  BY <1>2, CycleType DEF Moves, Shaped, Known, Cycle
<1>4. x.sheet \in [Sheet -> SheetRow] /\ x.placed \in [Sheet -> [Cycle -> Nat]]
  <2>1. CASE r.op \in SheetOps
    BY <2>1 DEF SheetsGood
  <2>2. CASE r.op \notin SheetOps
    <3>1. w.sheet \in [Sheet -> SheetRow] /\ w.placed \in [Sheet -> [Cycle -> Nat]]
      BY DEF Tables
    <3> QED BY <2>2, <3>1, OthersWrite DEF SameSheets
  <2> QED BY <2>1, <2>2
<1>5. Fits(w) /\ (r.op \notin Elsewhere => Fits(v))
  BY TablesFit
<1>6. Fits(x)
  BY <1>5, WrittenFits
<1> HIDE DEF x
<1>7. x \in Tables
  BY <1>3, <1>4, <1>6, TablesFit
<1> QED BY <1>7 DEF x

\* Where the handlers are, and that at most one of them is the planner's.
LEMMA PlanLength == ASSUME NEW r PROVE Len(Plan(r)) \in Nat /\ Len(Plan(r)) <= 4
<1>1. /\ Len(FinalizePlan) = 4 /\ Len(PreparePlan) = 3 /\ Len(RecalculatePlan) = 3
      /\ Len(OrdinaryPlan) = 2 /\ Len(ElsewherePlan) = 1
  BY DEF FinalizePlan, PreparePlan, RecalculatePlan, OrdinaryPlan, ElsewherePlan
<1>2. Plan(r) \in Plans
  BY PlanOf
<1>3. \A p \in Plans : Len(p) \in {1, 2, 3, 4}
  <2> TAKE p \in Plans
  <2>1. p = FinalizePlan \/ p = PreparePlan \/ p = RecalculatePlan \/ p = OrdinaryPlan \/ p = ElsewherePlan
    BY DEF Plans
  <2> QED BY <1>1, <2>1
<1>4. \A n \in {1, 2, 3, 4} : n \in Nat /\ n <= 4
  OBVIOUS
<1> QED BY <1>2, <1>3, <1>4

\* Two connections that may both write sheets are one.
LEMMA PlannerAlone ==
    ASSUME OnePlanner, NEW t \in Tx, NEW u \in Tx, NEW a, NEW b,
           MaySend(t, a), MaySend(u, b), a.op \in SheetOps, b.op \in SheetOps
    PROVE  t = u
BY DEF OnePlanner, MaySend

\* A request stays what SheetInv says of it while others leave it its sheets.
LEMMA StillServes ==
    ASSUME NEW t \in Tx, Serves(t), at'[t] = at[t], req'[t] = req[t], snap'[t] = snap[t],
           req[t].op \in SheetOps => SameSheets(db', db)
    PROVE  Serves(t)'
<1>1. HasRead(t)' <=> HasRead(t)
  BY DEF HasRead
<1>2. MaySend(t, req[t])'
  BY DEF Serves, MaySend
<1>3. req[t].op \in SheetOps => SameSheets(db', db)
  OBVIOUS
<1>4. {"create", "recalc"} \subseteq SheetOps
  BY DEF SheetOps
<1> QED BY <1>1, <1>2, <1>3, <1>4 DEF Serves, SameSheets, NextSheet

LEMMA AtType == ASSUME IInv' PROVE at' \in [Tx -> 0..4]
<1>1. at' \in [Tx -> Nat] /\ \A u \in Tx : at'[u] # 0 => at'[u] <= Len(Plan(req'[u]))
  BY DEF IInv, Running
<1>2. \A u \in Tx : at'[u] \in 0..4
  <2> TAKE u \in Tx
  <2>1. Len(Plan(req'[u])) \in Nat /\ Len(Plan(req'[u])) <= 4 /\ at'[u] \in Nat
    BY <1>1, PlanLength
  <2> QED BY <1>1, <2>1
<1> QED BY <1>1, <1>2

\* GoodSheets for the state after a step.
LEMMA GoodAfter ==
    ASSUME db' \in Tables, SheetsGood(db')
    PROVE  Numbered(db)' /\ PlacedWithinDemand' /\ WorkHasItsSheet'
<1>1. \A s \in Sheet : PlacedFor(db', s) \in Nat /\ db'.sheet[s].qty \in Nat
  <2>1. \A s \in Sheet : PlacedFor(db', s) \in Nat
    BY PlacedType DEF SheetsGood
  <2>2. \A s \in Sheet : db'.sheet[s].qty \in 0..MaxQty
    BY DEF SheetsGood, SheetRow
  <2> QED BY <2>1, <2>2, SheetType
<1> QED BY <1>1 DEF SheetsGood, PlacedWithinDemand, WorkHasItsSheet, Exists, PlacedFor

\* A step that leaves the tables alone.
LEMMA QuietStep ==
    ASSUME SheetInv, IInv', NEW t \in Tx, db' = db,
           held' \in [Tx -> [Row -> LockMode]], req' \in [Tx -> Request \cup {NoReq}],
           snap' \in [Tx -> Tables \cup {NoView}], answer' \in [Tx -> Answer],
           \A u \in Tx \ {t} : at'[u] = at[u] /\ req'[u] = req[u] /\ snap'[u] = snap[u],
           ~Idle(t)' => Serves(t)'
    PROVE  SheetInv'
<1>1. at' \in [Tx -> 0..4]
  BY AtType
<1>2. TypeOK'
  BY <1>1 DEF TypeOK, SheetInv
<1>3. Numbered(db)' /\ PlacedWithinDemand' /\ WorkHasItsSheet'
  BY DEF SheetInv, PlacedWithinDemand, WorkHasItsSheet
<1>4. ASSUME NEW u \in Tx, ~Idle(u)' PROVE Serves(u)'
  <2>1. CASE u = t
    BY <1>4, <2>1
  <2>2. CASE u # t
    <3>1. ~Idle(u) /\ Serves(u)
      BY <1>4, <2>2 DEF Idle, SheetInv
    <3>2. SameSheets(db', db)
      BY DEF SameSheets
    <3> QED BY <2>2, <3>1, <3>2, StillServes
  <2> QED BY <2>1, <2>2
<1> QED BY <1>2, <1>3, <1>4 DEF SheetInv

LEMMA ArriveSheets ==
    ASSUME OnePlanner, IInv, SheetInv, IInv', NEW t \in Tx, NEW r \in Request, Arrive(t, r)
    PROVE  SheetInv'
<1>1. MaySend(t, r) /\ Fresh(r, db) /\ Idle(t)
      /\ \A s \in Draws(r) : s \in Undrawn /\ \A u \in Undrawn : s <= u
  BY DEF Arrive, Begin, BeginReading
<1>2. /\ db' = db /\ req'[t] = r /\ held' = held
      /\ req' \in [Tx -> Request \cup {NoReq}] /\ snap' \in [Tx -> Tables \cup {NoView}]
      /\ answer' \in [Tx -> Answer]
      /\ \A u \in Tx \ {t} : at'[u] = at[u] /\ req'[u] = req[u] /\ snap'[u] = snap[u]
      /\ HasRead(t)' => snap'[t] = db
  <2>1. TypeOK /\ db \in Tables
    BY DEF SheetInv, TypeOK
  <2>2. CASE Begin(t, r)
    <3>1. at'[t] = 1
      BY <2>1, <2>2 DEF Begin, TypeOK
    <3>2. ~HasRead(t)'
      BY <3>1 DEF HasRead
    <3> QED BY <2>1, <2>2, <3>2 DEF Begin, TypeOK, Answer
  <2>3. CASE BeginReading(t, r)
    BY <2>1, <2>3 DEF BeginReading, TypeOK, Answer
  <2> QED BY <2>2, <2>3 DEF Arrive
<1>3. r.op = "create" => NextSheet(db, r.s)
  <2> SUFFICES ASSUME r.op = "create" PROVE NextSheet(db, r.s)
    OBVIOUS
  <2>1. ASSUME NEW u \in Tx, ~Idle(u) PROVE Draws(req[u]) = {}
    <3>1. Serves(u) /\ u # t
      BY <1>1, <2>1 DEF SheetInv
    <3>2. req[u].op \notin SheetOps
      BY <1>1, <3>1, PlannerAlone DEF Serves, SheetOps
    <3> QED BY <3>2 DEF Draws, SheetOps
  <2>2. Undrawn = {s \in Sheet : db.sheet[s].state = "absent"}
    BY <2>1 DEF Undrawn
  <2>3. r.s \in Undrawn /\ \A u \in Undrawn : r.s <= u
    BY <1>1 DEF Draws
  <2>4. ASSUME NEW u \in Sheet, u < r.s PROVE db.sheet[u].state # "absent"
    <3>1. u \in Nat /\ r.s \in Nat
      BY <2>2, <2>3, SheetType
    <3>2. ~(r.s <= u)
      BY <2>4, <3>1
    <3> QED BY <2>2, <2>3, <3>2
  <2> QED BY <2>2, <2>3, <2>4 DEF NextSheet
<1>4. r.op = "recalc" => db.sheet[r.s].state = "DRAFT"
  BY <1>1 DEF Fresh
<1>5. Serves(t)'
  <2>1. MaySend(t, req[t])'
    BY <1>1, <1>2 DEF MaySend
  <2>2. db \in Tables
    BY DEF SheetInv, TypeOK
  <2> QED BY <1>2, <1>3, <1>4, <2>1, <2>2 DEF Serves, SameSheets
<1>6. held' \in [Tx -> [Row -> LockMode]]
  BY <1>2 DEF SheetInv, TypeOK
<1> QED BY <1>2, <1>5, <1>6, QuietStep

\* Between two steps of a handler.
LEMMA MiddleSheets ==
    ASSUME IInv, SheetInv, IInv', NEW t \in Tx, Step(t) \notin {"idle", "write"},
           db' = db, at' = [at EXCEPT ![t] = @ + 1], req' = req, answer' = answer,
           held' \in [Tx -> [Row -> LockMode]],
           \/ snap' = snap /\ Step(t) # "read"
           \/ snap' = [snap EXCEPT ![t] = db]
    PROVE  SheetInv'
<1>1. at[t] \in Nat \ {0} /\ Step(t) = Plan(req[t])[at[t]]
  BY NotLast
<1>2. Serves(t) /\ TypeOK /\ db \in Tables
  BY <1>1 DEF SheetInv, TypeOK, Idle
<1>3. HasRead(t)' => (snap'[t] = db \/ (HasRead(t) /\ snap'[t] = snap[t]))
  <2>1. CASE snap' = snap /\ Step(t) # "read"
    <3>1. at'[t] = at[t] + 1
      BY <1>2 DEF TypeOK
    <3>2. \A i \in 1..(at'[t] - 1) : i # at[t] => i \in 1..(at[t] - 1)
      BY <1>1, <3>1
    <3>3. HasRead(t)' => HasRead(t)
      BY <1>1, <2>1, <3>2 DEF HasRead
    <3> QED BY <2>1, <3>3
  <2>2. CASE snap' = [snap EXCEPT ![t] = db]
    BY <1>2, <2>2 DEF TypeOK
  <2> QED BY <2>1, <2>2
<1>4. Serves(t)'
  <2>1. MaySend(t, req[t])'
    BY <1>2 DEF MaySend, Serves
  <2> QED BY <1>2, <1>3, <2>1 DEF Serves, SameSheets
<1>5. /\ req' \in [Tx -> Request \cup {NoReq}] /\ snap' \in [Tx -> Tables \cup {NoView}]
      /\ answer' \in [Tx -> Answer]
      /\ \A u \in Tx \ {t} : at'[u] = at[u] /\ req'[u] = req[u] /\ snap'[u] = snap[u]
  BY <1>2 DEF TypeOK
<1> QED BY <1>4, <1>5, QuietStep

\* ROLLBACK: nothing of the request is left.
LEMMA AnsweredTypes ==
    ASSUME TypeOK, NEW t \in Tx, NEW a \in Answer, Finish(t, a)
    PROVE  /\ held' \in [Tx -> [Row -> LockMode]] /\ req' \in [Tx -> Request \cup {NoReq}]
           /\ snap' \in [Tx -> Tables \cup {NoView}] /\ answer' \in [Tx -> Answer]
           /\ \A u \in Tx \ {t} : at'[u] = at[u] /\ req'[u] = req[u] /\ snap'[u] = snap[u]
           /\ Idle(t)'
<1>1. Unlocked \in [Row -> LockMode]
  BY DEF Unlocked, LockMode
<1> QED BY <1>1 DEF TypeOK, Finish, Idle

LEMMA RollbackSheets ==
    ASSUME SheetInv, IInv', NEW t \in Tx, NEW a \in Answer, Finish(t, a), db' = db
    PROVE  SheetInv'
BY AnsweredTypes, QuietStep DEF SheetInv

\* COMMIT.
LEMMA CommitSheets ==
    ASSUME SheetInv, IInv', NEW t \in Tx, Finish(t, "done"), db' \in Tables, SheetsGood(db'),
           SameSheets(db', db) \/ \A u \in Tx \ {t} : ~Idle(u) => req[u].op \notin SheetOps
    PROVE  SheetInv'
<1>1. "done" \in Answer /\ TypeOK
  BY DEF Answer, SheetInv
<1>2. /\ held' \in [Tx -> [Row -> LockMode]] /\ req' \in [Tx -> Request \cup {NoReq}]
      /\ snap' \in [Tx -> Tables \cup {NoView}] /\ answer' \in [Tx -> Answer]
      /\ \A u \in Tx \ {t} : at'[u] = at[u] /\ req'[u] = req[u] /\ snap'[u] = snap[u]
      /\ Idle(t)'
  BY <1>1, AnsweredTypes
<1>3. TypeOK'
  BY <1>2, AtType DEF TypeOK
<1>4. Numbered(db)' /\ PlacedWithinDemand' /\ WorkHasItsSheet'
  BY GoodAfter
<1>5. ASSUME NEW u \in Tx, ~Idle(u)' PROVE Serves(u)'
  <2>1. u # t /\ ~Idle(u)
    BY <1>2, <1>5 DEF Idle
  <2>2. Serves(u)
    BY <2>1 DEF SheetInv
  <2> QED BY <1>2, <2>1, <2>2, StillServes
<1> QED BY <1>3, <1>4, <1>5 DEF SheetInv

LEMMA WriteSheets ==
    ASSUME OnePlanner, IInv, SheetInv, IInv', NEW t \in Tx, NEW op \in Ops, Write(t, op)
    PROVE  SheetInv'
<1> DEFINE r == req[t]
           v == snap[t]
           x == Written(r, v, db)
<1>1. db' = x /\ Finish(t, "done") /\ ~Idle(t) /\ r.op = op /\ Allowed(r, v) /\ Insertable(r, v, db)
  BY DEF Write, Commit
<1>2. Serves(t) /\ TypeOK /\ db \in Tables /\ r \in Request
  BY <1>1 DEF SheetInv, TypeOK, Serves
<1>3. SheetsGood(db)
  BY <1>2, GoodSheets DEF SheetInv
<1>4. op \notin Elsewhere => HasRead(t) /\ v \in Tables /\ Shaped(v) /\ Sound(v) /\ Behind(v, db)
  BY <1>2, WriterHasRead DEF Serves, IInv
<1>5. Shaped(db) /\ Sound(db)
  BY DEF IInv, CyclesInOrder
<1>6. op \in SheetOps => op \notin Elsewhere
  BY DEF SheetOps, Elsewhere
<1>7. CASE op \in SheetOps
  <2>1. SheetsGood(x)
    BY <1>1, <1>2, <1>3, <1>4, <1>5, <1>6, <1>7, PlannerWrites DEF Serves
  <2>2. x \in Tables
    BY <1>1, <1>2, <1>4, <1>5, <2>1, WrittenTables
  <2>3. ASSUME NEW u \in Tx \ {t}, ~Idle(u) PROVE req[u].op \notin SheetOps
    BY <1>1, <1>2, <1>7, <2>3, PlannerAlone DEF SheetInv, Serves
  <2> QED BY <1>1, <1>2, <2>1, <2>2, <2>3, CommitSheets
<1>8. CASE op \notin SheetOps
  <2>1. SameSheets(x, db)
    BY <1>1, <1>2, <1>5, <1>8, OthersWrite
  <2>2. x \in Tables
    BY <1>1, <1>2, <1>4, <1>5, <1>8, WrittenTables
  <2>3. SheetsGood(x)
    <3> HIDE DEF x
    <3>1. \A s : PlacedFor(x, s) = PlacedFor(db, s)
      BY <2>1, SameLook
    <3> QED BY <1>3, <2>1, <3>1 DEF SheetsGood, SameSheets, Numbered
  <2> QED BY <1>1, <1>2, <2>1, <2>2, <2>3, CommitSheets
<1> QED BY <1>7, <1>8

\* A lock is taken in exclusive mode before the write.
LEMMA LockType ==
    ASSUME TypeOK, NEW t \in Tx, Lock(t)
    PROVE  held' \in [Tx -> [Row -> LockMode]]
<1>1. PICK k \in Wants(Step(t), req[t], snap[t]) : Take(t, k[1], k[2])
  BY DEF Lock
<1>2. k[2] = "X"
  BY <1>1 DEF Lock, Wants
<1>3. k[2] \in LockMode
  BY <1>2 DEF LockMode
<1> QED BY <1>1, <1>3 DEF Take, TypeOK

\* What IInv and SheetInv say together is inductive.
LEMMA SheetNext ==
    ASSUME OnePlanner, IInv, SheetInv, [Next]_vars
    PROVE  SheetInv'
<1>0. IInv'
  BY NextKeeps
<1>1. CASE UNCHANGED vars
  <2>1. \A t : HasRead(t)' <=> HasRead(t)
    BY <1>1 DEF HasRead, vars
  <2>2. TypeOK'
    BY <1>1 DEF vars, TypeOK, SheetInv
  <2>3. ASSUME NEW t \in Tx, ~Idle(t)' PROVE Serves(t)'
    <3>1. Serves(t) /\ SameSheets(db', db)
      BY <1>1, <2>3 DEF vars, Idle, SheetInv, SameSheets
    <3> QED BY <1>1, <3>1, StillServes DEF vars
  <2>4. Numbered(db)' /\ PlacedWithinDemand' /\ WorkHasItsSheet'
    BY <1>1 DEF vars, SheetInv, PlacedWithinDemand, WorkHasItsSheet
  <2> QED BY <2>2, <2>3, <2>4 DEF SheetInv
<1>2. ASSUME NEW t \in Tx, NEW r \in Request, Arrive(t, r) PROVE SheetInv'
  BY <1>0, <1>2, ArriveSheets
<1>3. ASSUME NEW t \in Tx, Lock(t) PROVE SheetInv'
  <2>1. held' \in [Tx -> [Row -> LockMode]]
    BY <1>3, LockType DEF SheetInv
  <2> QED BY <1>0, <1>3, <2>1, MiddleSheets DEF Lock, Take
<1>4. ASSUME NEW t \in Tx, Open(t) PROVE SheetInv'
  <2>1. held' \in [Tx -> [Row -> LockMode]]
    BY <1>4 DEF Open, Pass, SheetInv, TypeOK
  <2> QED BY <1>0, <1>4, <2>1, MiddleSheets DEF Open, Pass
<1>5. ASSUME NEW t \in Tx, Read(t) PROVE SheetInv'
  <2>1. held' \in [Tx -> [Row -> LockMode]]
    BY <1>5 DEF Read, ReadView, SheetInv, TypeOK
  <2> QED BY <1>0, <1>5, <2>1, MiddleSheets DEF Read, ReadView
<1>6. ASSUME NEW t \in Tx, Reject(t) PROVE SheetInv'
  BY <1>0, <1>6, RollbackSheets DEF Reject, Refuse, Answer
<1>7. ASSUME NEW t \in Tx, Abort(t) PROVE SheetInv'
  BY <1>0, <1>7, RollbackSheets DEF Abort, Rollback, Answer
<1>8. ASSUME NEW t \in Tx, SheetSteps(t) PROVE SheetInv'
  <2>1. PICK op \in Ops : Write(t, op)
    BY <1>8 DEF SheetSteps, Ops, CreateSheet, SaveLines, Recalculate, LockSheet, DeleteDraft,
                DeleteAllSheets, CancelSheet, VoidSheet, CreateWorkOrder
  <2> QED BY <1>0, <2>1, WriteSheets
<1>9. ASSUME NEW t \in Tx, OrderSteps(t) PROVE SheetInv'
  <2>1. PICK op \in Ops : Write(t, op)
    BY <1>9 DEF OrderSteps, Ops, PrepareNextSheet, RepairCycles, AutoCloseCycle, CloseEmptyCycle,
                CloseOrder, ReopenOrder, PrepareDispatch, FinalizeDispatch
  <2> QED BY <1>0, <2>1, WriteSheets
<1>10. ASSUME NEW t \in Tx, ReleasePlan(t) \/ MakeGoods(t) PROVE SheetInv'
  <2>1. PICK op \in Ops : Write(t, op)
    BY <1>10 DEF Ops, Elsewhere, ReleasePlan, MakeGoods
  <2> QED BY <1>0, <2>1, WriteSheets
<1> QED BY <1>1, <1>2, <1>3, <1>4, <1>5, <1>6, <1>7, <1>8, <1>9, <1>10 DEF Next

LEMMA NoRowType == NoSheet("absent") \in SheetRow
<1>1. 0 \in 0..MaxQty /\ 1 \in Cycle /\ 1 \in Version
  BY SheetType, CycleType DEF Sheet, Version
<1>2. (CHOOSE p \in Period : TRUE) \in Period
  BY SheetType
<1> QED BY <1>1, <1>2 DEF NoSheet, SheetRow, SheetStatus

LEMMA FirstTables ==
    TablesInit \in Tables /\ SheetsGood(TablesInit)
<1> DEFINE w == TablesInit
<1>1. /\ w.cur \in 0..MaxCycle /\ w.cycle \in [Cycle -> CycleStatus]
      /\ w.sheet = [s \in Sheet |-> NoSheet("absent")]
      /\ w.placed = [s \in Sheet |-> [c \in Cycle |-> 0]]
  <2>1. 1 \in 0..MaxCycle
    BY CycleBounds
  <2> QED BY <2>1 DEF TablesInit, CycleStatus
<1>2. w.sheet \in [Sheet -> SheetRow] /\ w.placed \in [Sheet -> [Cycle -> Nat]]
  BY <1>1, NoRowType
<1>3. w.close \in [1..MaxClose -> SnapshotStatus] /\ w.status \in OrderStatus
      /\ w.released \in SUBSET Period
  BY DEF TablesInit, SnapshotStatus, OrderStatus
<1>4. w.made \in [Cycle -> Nat] /\ w.prepared \in [Cycle -> Nat] /\ w.shipped \in [Cycle -> Nat]
  BY DEF TablesInit
<1>5. w \in Tables
  <2>1. w = [status |-> w.status, cur |-> w.cur, close |-> w.close, cycle |-> w.cycle,
             sheet |-> w.sheet, placed |-> w.placed, made |-> w.made, prepared |-> w.prepared,
             shipped |-> w.shipped, released |-> w.released]
    BY DEF TablesInit
  <2> HIDE DEF w
  <2> QED BY <1>1, <1>2, <1>3, <1>4, <2>1 DEF Tables
<1>6. \A s \in Sheet : w.sheet[s].state = "absent" /\ w.sheet[s].version = 1 /\ 1 <= s
  BY <1>1 DEF NoSheet, Sheet
<1>7. \A s \in Sheet : PlacedFor(w, s) = 0
  <2>1. SumFunction([c \in Cycle |-> 0]) = 0
    BY SheetType, SumZero DEF SumFunction
  <2> QED BY <1>1, <2>1 DEF PlacedFor
<1> HIDE DEF w
<1>8. SheetsGood(w)
  BY <1>2, <1>6, <1>7 DEF SheetsGood, Numbered
<1> QED BY <1>5, <1>8 DEF w

LEMMA SheetInit == Init => SheetInv
<1> SUFFICES ASSUME Init PROVE SheetInv
  OBVIOUS
<1>1. db \in Tables /\ SheetsGood(db)
  BY FirstTables DEF Init
<1>2. Numbered(db) /\ PlacedWithinDemand /\ WorkHasItsSheet
  BY <1>1, GoodSheets
<1>3. TypeOK
  BY <1>1 DEF Init, EngineInit, TypeOK, Unlocked, LockMode, Answer
<1>4. ASSUME NEW t \in Tx PROVE Idle(t)
  <2>1. at = [u \in Tx |-> 0]
    BY DEF Init, EngineInit
  <2> QED BY <2>1 DEF Idle
<1> QED BY <1>2, <1>3, <1>4 DEF SheetInv

(***************************************************************************)
(* The theorems about sheets and work orders.                              *)
(***************************************************************************)

\* With one planner at work, the view on which sheets and work orders are written is
\* the committed one, whatever the office, the store and dispatch do meanwhile.
THEOREM SheetInvariance ==
    ASSUME OnePlanner
    PROVE  Spec => []SheetInv
<1>1. Init => IInv /\ SheetInv
  BY InitKeeps, SheetInit
<1>2. IInv /\ SheetInv /\ [Next]_vars => IInv' /\ SheetInv'
  BY NextKeeps, SheetNext
<1> QED BY <1>1, <1>2, PTL DEF Spec

\* The variables keep to their domains: the bounds on cycles and sheets that the model
\* puts into the guards are enough for every write.
THEOREM CycleTypes ==
    ASSUME OnePlanner
    PROVE  Spec => []TypeOK
<1>1. SheetInv => TypeOK
  BY DEF SheetInv
<1> QED BY <1>1, SheetInvariance, PTL

\* The work orders placed from a sheet never exceed what it asks for, although create-wo,
\* lines and recalculate read before they lock and the sheet moves from cycle to cycle.
THEOREM WorkWithinDemand ==
    ASSUME OnePlanner
    PROVE  Spec => []PlacedWithinDemand
<1>1. SheetInv => PlacedWithinDemand
  BY DEF SheetInv
<1> QED BY <1>1, SheetInvariance, PTL

\* A sheet with placed work is neither edited, deleted, voided nor cancelled under it.
THEOREM WorkKeepsItsSheet ==
    ASSUME OnePlanner
    PROVE  Spec => []WorkHasItsSheet
<1>1. SheetInv => WorkHasItsSheet
  BY DEF SheetInv
<1> QED BY <1>1, SheetInvariance, PTL
==============================================================================
