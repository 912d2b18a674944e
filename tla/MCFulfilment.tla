---------------------------- MODULE MCFulfilment -----------------------------
(***************************************************************************)
(* Small instances.  Order o1 has line l1 for item i1 with dispatch        *)
(* identifiers d1 and d2 and QC entries q1 and q2.  Some runs add order o2 *)
(* with line l2 for the same item, dispatch identifier d3, QC entry q3.    *)
(***************************************************************************)
EXTENDS FulfilmentInvariant, TLC

CONSTANTS o1, o2, i1, l1, l2, d1, d2, d3, q1, q2, q3

MCSoOf == [l \in Line |-> IF l = l1 THEN o1 ELSE o2]
MCItemOf == [l \in Line |-> i1]
MCLineOf == [d \in Dispatch |-> IF d \in {d1, d2} THEN l1 ELSE l2]
MCBatchOf == [q \in QcEntry |-> IF q \in {q1, q2} THEN l1 ELSE l2]

\* Both dispatches of l1 fit when they are small, one when it is large.
MCOrdered == [l \in Line |-> IF l = l1 THEN 2 ELSE 1]

\* q1 covers what l1 ordered; q2 is one more unit.
MCQcQty == [q \in QcEntry |-> IF q = q1 THEN 2 ELSE 1]

\* With q1 legacy, or with q2 and q3 legacy.
MCLegacyTwo == [i \in Item |-> 2]
MCLegacyNone == [i \in Item |-> 0]

\* Production of a line: more than ordered, as ordered, none.
MCSurplus == [l \in Line |-> 3]
MCExact == [l \in Line |-> 2]
MCNone == [l \in Line |-> 0]
MCFirstOnly == [l \in Line |-> IF l = l1 THEN 3 ELSE 0]

\* The dispatch identifiers of a line are interchangeable, and so are connections.
Symmetry == Permutations(DispatchesOf(l1)) \cup Permutations(Tx)
==============================================================================
