---------------------------- MODULE StockHandlers ----------------------------
(***************************************************************************)
(* Every write handler of the finished-goods buckets seen alike: its       *)
(* requests, the order in which it locks and reads, what it checks, what   *)
(* it writes.                                                              *)
(***************************************************************************)
EXTENDS QcRejects, CustomerReturns, StockCorrections, Sequences

CONSTANTS
    Shift,      \* who may be at work
    OpsOf       \* OpsOf[s][t]: the operations the user behind connection t sends in shift s

AnyRequest ==
    DecideRequest \cup MarkRequest \cup QueueRequest \cup RecheckRequest \cup
    HoldRequest \cup QcPostRequest \cup QcReverseRequest \cup ClassifyRequest \cup
    ReturnRequest \cup ReturnQcRequest \cup ReturnScrapRequest \cup
    TransferRequest \cup ReworkQcRequest \cup AdjustRequest \cup
    ReverseAdjustRequest \cup AdjustQcRequest \cup OpeningRequest

RequestsOf == [s \in Shift |-> [t \in DOMAIN OpsOf[s] |-> {r \in AnyRequest : r.op \in OpsOf[s][t]}]]

Request == {r \in AnyRequest : \E s \in Shift : \E t \in DOMAIN OpsOf[s] : r.op \in OpsOf[s][t]}

LotOps == {"decide", "mark", "hold", "recheck"}
ReturnOps == {"approve", "reworked", "approveRework", "scrapReturn", "replace"}

\* The lots a posting of QC draws.
PostedLots(r) == {PartLot[r.q][k] : k \in {k \in Part : r.part[k] > 0}}

Draws(r) ==
    CASE r.op = "hold"   -> {r.new} \ {NoLot}
      [] r.op = "qcPost" -> {r.q} \cup PostedLots(r)
      [] r.op = "return" -> {r.c}
      [] r.op = "adjust" -> {r.a}
      [] OTHER           -> {}

Fresh(r, v) ==
    /\ r.op \in LotOps => v.lot[r.d].state # "absent"
    /\ r.op = "hold" /\ r.new # NoLot => v.lot[r.new].state = "absent"
    /\ r.op = "qcPost" => /\ v.entry[r.q].state = "absent"
                          /\ \A d \in PostedLots(r) : v.lot[d].state = "absent"
    /\ r.op \in {"qcReverse", "classify"} => v.entry[r.q].state # "absent"
    /\ r.op = "return" => v.ret[r.c].state = "absent"
    /\ r.op \in ReturnOps => v.ret[r.c].state # "absent"
    /\ r.op = "adjust" => v.adj[r.a].state = "absent"
    /\ r.op \in {"reverseAdjust", "qcAdjust"} => v.adj[r.a].state # "absent"

(***************************************************************************)
(* The steps of a handler in program order.  "read" is its first plain     *)
(* SELECT, "write" everything from its last validation to COMMIT, "check"  *)
(* what it asks before its transaction; the rest are row locks.  "stale"   *)
(* updates the lots to promote, "fk" is the shared lock on Item that the   *)
(* foreign key of a stock row takes, "lots" the update that voids lots.    *)
(***************************************************************************)
\* Mutants: read before locking.
RecheckPlanReadFirst       == <<"read", "lot", "item", "write">>
MarkPlanReadFirst          == <<"read", "lot", "item", "write">>
ClassifyPlanReadFirst      == <<"read", "entry", "item", "write">>
ReturnPlanReadFirst        == <<"read", "shipment", "fk", "write">>
ReturnQcPlanReadFirst      == <<"fk", "read", "return", "write">>
ReverseAdjustPlanReadFirst == <<"fk", "read", "row", "write">>

DecidePlan         == <<"lot", "read", "stale", "item", "write">>
MarkPlan           == <<"lot", "read", "item", "write">>
QueuePlan          == <<"read", "stale", "write">>
HoldPlan           == <<"read", "item", "lot", "write">>
RecheckPlan        == <<"lot", "read", "item", "write">>
QcPostPlan         == <<"read", "fk", "write">>
QcReversePlan      == <<"read", "item", "entry", "lots", "write">>
ClassifyPlan       == <<"entry", "read", "item", "write">>
ReturnPlan         == <<"shipment", "read", "fk", "write">>
ReturnQcPlan       == <<"return", "read", "fk", "write">>
CorrectionPlan     == <<"read", "fk", "write">>
ReworkQcPlan       == <<"check", "item", "read", "write">>
ReverseAdjustPlan  == <<"row", "read", "fk", "write">>
AdjustQcPlan       == <<"read", "rowfk", "write">>
OpeningPlan        == <<"read", "fk", "openrow", "write">>

Plan(r) ==
    CASE r.op = "decide"                  -> DecidePlan
      [] r.op = "mark"                    -> MarkPlan
      [] r.op = "queue"                   -> QueuePlan
      [] r.op = "hold"                    -> HoldPlan
      [] r.op = "recheck"                 -> RecheckPlan
      [] r.op = "qcPost"                  -> QcPostPlan
      [] r.op = "qcReverse"               -> QcReversePlan
      [] r.op = "classify"                -> ClassifyPlan
      [] r.op = "return"                  -> ReturnPlan
      [] r.op \in ReturnOps               -> ReturnQcPlan
      [] r.op \in {"transfer", "adjust"}  -> CorrectionPlan
      [] r.op = "completeRework"          -> ReworkQcPlan
      [] r.op = "reverseAdjust"           -> ReverseAdjustPlan
      [] r.op = "qcAdjust"                -> AdjustQcPlan
      [] r.op \in {"openApprove", "openReverse"} -> OpeningPlan

\* An approval or a mark that finds its lot ready changes no stock, and locks no item.
NothingToDo(r, v) ==
    \/ r.op = "decide" /\ AlreadyReady(r, Promote(v, Stale(v)))
    \/ r.op = "mark" /\ v.lot[r.d].state = "REWORK_READY_FOR_QC"

\* The row locks a step takes.
Wants(step, r, v) ==
    CASE step = "lot"      -> {<<d, "X">> : d \in {r.d} \cup Draws(r)}
      [] step = "stale"    -> {<<d, "X">> : d \in Stale(v)}
      [] step = "item"     -> IF NothingToDo(r, v) THEN {} ELSE {<<Good, "X">>}
      [] step = "fk"       -> {<<Good, "S">>}
      [] step = "entry"    -> {<<r.q, "X">>}
      [] step = "lots"     -> {<<d, "X">> : d \in LotsOf(r.q)}
      [] step = "shipment" -> {<<ShipmentOf[r.c], "X">>}
      [] step = "return"   -> {<<r.c, "X">>}
      [] step = "row"      -> {<<r.a, "X">>}
      [] step = "rowfk"    -> {<<r.a, "S">>}
      [] step = "openrow"  -> {<<r.e, "X">>}
      [] OTHER             -> {}

Checked(r, v) == r.op = "completeRework" => ReworkQcChecked(v)

Readable(r, v) ==
    CASE r.op = "decide"        -> DecideReadable(r, v)
      [] r.op = "mark"          -> MarkReadable(r, v)
      [] r.op = "hold"          -> HoldReadable(r, v)
      [] r.op = "recheck"       -> RecheckReadable(r, v)
      [] r.op = "qcReverse"     -> QcReverseReadable(r, v)
      [] r.op = "classify"      -> ClassifyReadable(r, v)
      [] r.op \in {"approve", "reworked", "approveRework"} -> ReturnQcReadable(r, v)
      [] r.op = "scrapReturn"   -> ScrapReadable(r, v)
      [] r.op = "replace"       -> ReplaceReadable(r, v)
      [] r.op = "reverseAdjust" -> ReverseAdjustReadable(r, v)
      [] r.op = "qcAdjust"      -> AdjustQcReadable(r, v)
      [] r.op = "openApprove"   -> OpenApproveReadable(r, v)
      [] r.op = "openReverse"   -> OpenReverseReadable(r, v)
      [] OTHER                  -> TRUE

Allowed(r, v) ==
    CASE r.op = "decide"         -> DecideAllowed(r, v)
      [] r.op = "mark"           -> MarkAllowed(r, v)
      [] r.op = "hold"           -> HoldAllowed(r, v)
      [] r.op = "recheck"        -> RecheckAllowed(r, v)
      [] r.op = "qcPost"         -> QcPostAllowed(r, v)
      [] r.op = "qcReverse"      -> QcReverseAllowed(r, v)
      [] r.op = "classify"       -> ClassifyAllowed(r, v)
      [] r.op = "return"         -> ReturnAllowed(r, v)
      [] r.op \in {"approve", "reworked", "approveRework"} -> ReturnQcAllowed(r, v)
      [] r.op = "scrapReturn"    -> ScrapAllowed(r, v)
      [] r.op = "transfer"       -> TransferAllowed(r, v)
      [] r.op = "completeRework" -> ReworkQcAllowed(r, v)
      [] r.op = "adjust"         -> AdjustAllowed(r, v)
      [] r.op = "reverseAdjust"  -> ReverseAdjustAllowed(r, v)
      [] OTHER                   -> TRUE

\* Unique keys: one QcReversal and one classification per entry.
Insertable(r, v) ==
    /\ r.op = "qcReverse" => v.entry[r.q].state # "reversed"
    /\ r.op = "classify" => ~v.entry[r.q].sorted

Written(r, v, w) ==
    CASE r.op = "decide"         -> DecideWrite(r, v, w)
      [] r.op = "mark"           -> MarkWrite(r, v, w)
      [] r.op = "queue"          -> QueueWrite(r, v, w)
      [] r.op = "hold"           -> HoldWrite(r, v, w)
      [] r.op = "recheck"        -> RecheckWrite(r, v, w)
      [] r.op = "qcPost"         -> QcPosted(r, w)
      [] r.op = "qcReverse"      -> QcReverseWrite(r, w)
      [] r.op = "classify"       -> ClassifyWrite(r, v, w)
      [] r.op = "return"         -> ReturnWrite(r, w)
      [] r.op \in {"approve", "reworked", "approveRework"} -> ReturnQcWrite(r, v, w)
      [] r.op = "scrapReturn"    -> ScrapWrite(r, v, w)
      [] r.op = "replace"        -> ReplaceWrite(r, v, w)
      [] r.op = "transfer"       -> TransferWrite(r, w)
      [] r.op = "completeRework" -> ReworkQcWrite(r, w)
      [] r.op = "adjust"         -> AdjustWrite(r, w)
      [] r.op = "reverseAdjust"  -> ReverseAdjustWrite(r, v, w)
      [] r.op = "qcAdjust"       -> AdjustQcWrite(r, w)
      [] r.op = "openApprove"    -> OpenApproveWrite(r, w)
      [] r.op = "openReverse"    -> OpenReverseWrite(r, w)
==============================================================================
