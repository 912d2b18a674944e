# Verification of Flowtix order fulfilment

Flowtix is an ERP for a manufacturer: sales orders, work orders, quality control (QC), dispatch,
raw material, procurement, bills. The backend (`backend/src`, Express, Prisma, MySQL 8) keeps all
its state in one database. Every write handler runs in one interactive transaction; several users
and browser tabs run handlers at the same time. This directory holds TLA+ models of the part where
that matters most, the way from an order to dispatched stock and back, with TLC runs on small
instances and TLAPS proofs for any instance.

## 1. The system

| Component | State | Operations | Made hard by | What makes it correct |
|---|---|---|---|---|
| Sales order status (`routes/salesOrders.js`, `salesOrderDispatchHelpers.js`, `salesOrderOperationalAutoClose.js`) | `SalesOrder.internalStatus` | `PUT /:id/status`, `POST /:id/cancel-approval`; automatic close at the end of dispatch and QC handlers; reopening after a reversal | counts read before the write; locks taken after the first read; the close is inside a catch | completed orders are shipped and frozen; cancelled ones have no dispatch |
| Dispatch (`routes/dispatch.js`, `dispatchQcCap.js`, `salesOrderDispatchAllocation.js`) | `Dispatch` rows (drafts, confirmed, reversal rows) | prepare, `/lock`, `/finalize-draft`, delete, `/reverse` | two routes confirm the same row; validation on a read view older than the locks | one posting per confirmation, caps by order and by QC, reversals within the row |
| QC (`routes/production.js`) | `QcEntry`, `QcReversal` | `/qc-entries`, `/qc-reverse` | batch lock, then order update; reversal races confirmation | accepted quantity covers what was confirmed |
| Finished-goods ledger (`stockService.js`, `locationService.js`, `fgStockPostingLocationService.js`) | `StockTransaction` | posted by dispatch and QC | default read scope differs from the posting location | books balance, no stock leaves that is not there |
| Row locks (`dispatchWriteLocks.js`) and the engine | locks, read views | `SELECT ... FOR UPDATE`, commit, rollback | deadlock, timeout, REPEATABLE READ | no cycle of waits where the documented order is kept; every request ends |
| QC rejects (`routes/qcRejectedDispositions.js`, `production.js`, `qcDispositionReconcile.js`) | `QcRejectedDisposition` lots, stock rows that carry their id | split of a reject, supervisor decision, mark, hold actions, recheck, classification of old rejects, repair run by reading the queues | long sequences by several desks; GET requests that write | a lot owns what it still has to decide; rework leaves once |
| Customer returns (`routes/customerReturns.js`) | `CustomerReturn`, replacement quantity | create, approve, rework, approve rework, scrap, replace | repeated and parallel decisions | returns within the dispatch; goods move once; replaced once |
| Stock corrections (`routes/stock.js`, `openingStock.js`, `production.js`) | adjustments, bucket transfers, opening stock | adjust, QC of it, reverse; transfer; complete rework; approve and reverse opening stock | checks without a lock | one reversal; stock is what was posted |
| NO_QTY orders (`routes/salesOrders.js`, `requirementSheets.js`, `services/noQty*.js`) | cycles, requirement sheets, close snapshots, current cycle | create, edit, recalculate, lock, cancel, void, delete a sheet; place work orders; repair, advance, close cycles; close and reopen the order | cycles repaired by whoever reads; unique keys as the only barrier | one sequence of cycles; a sheet's work within its quantity |
| Idempotency keys, document numbers | `IdempotencyRecord`, `DocSequence` | claim, replay, complete; allocate | repeated and simultaneous requests | one effect per key; unique numbers |
| Production, work orders | `WorkOrder`, `ProductionEntry` | create, approve, split, reverse | tolerance, three buckets | approved production within the plan |
| Raw material | requests, allocations, issues, returns | request, allocate, issue, return, wastage | shared stock reserved by several work orders | issued within allocated within stock |
| Procurement | PR, PO, GRN, purchase bills | create, receive, short-close, bill | receipts race | received within ordered and tolerance |
| Monthly planning | plans, revisions | submit, approve, revise | revisions | one plan in force |
| Bills, Tally export | bills, export flag | create, export, reset on reversal | flag and reversal race | what was exported matches |
| Masters, auth, backups, logs, dashboards, reports, frontend | | read-only, single-row or outside the flow | | |

Handlers do not call one another: they meet in the tables and in the row locks. Dispatch and QC
handlers also write the order (close, reopen), QC writes what dispatch reads (accepted quantity)
and both post to the ledger.

The first nine rows are modelled, as three families on one engine: fulfilment of regular orders,
the finished-goods buckets, and the cycles of a NO_QTY order. PROJECT.json lists every component with
its status and the hazards of the code, each at its line.

## 2. Modules

Three families share one engine. In each, one module holds the tables, some the guards and writes of the
routes, one sees all handlers alike (requests, plans, checks, writes), one composes them with the engine
into the concurrent system, and one states the properties.

| | Fulfilment of regular orders | Finished-goods buckets | NO_QTY order |
|---|---|---|---|
| engine (external) | `RowTx` | `RowTx` | `RowTx` |
| tables, constants, assumptions | `OrderTables` | `StockTables` | `CycleTables` |
| guards and writes of the routes | `SalesOrders`, `Dispatches`, `QcPosting` | `RejectedLots`, `QcRejects`, `CustomerReturns`, `StockCorrections` | `NoQtyCycles`, `RequirementSheets` |
| every handler as a plan | `Handlers` | `StockHandlers` | `CycleHandlers` |
| the concurrent system | `Fulfilment` | `StockFlow` | `CycleFlow` |
| an abstract specification | `SerialFulfilment` | `RejectedGoods` | `CycleSequence` |
| properties | `FulfilmentProperties` | `StockProperties` | `CycleProperties` |
| inductive invariants | `FulfilmentInvariant` | `StockInvariant` | in `CycleProperties` |
| proofs | `FulfilmentProofs`, `QuantityProofs`, `LockingProofs` | `StockEffects`, `StockProofs`, `LotProofs` | `CycleProofs` |
| instances for TLC | `MCFulfilment` | `MCStock` | `MCCycles` |

`SumTheorems` has the lemmas about sums that all families use.

### The engine

`RowTx` is InnoDB and Prisma as the routes use them. No handler sets an isolation level, so the first plain
SELECT of a transaction fixes a read view (`snap`) that all its later plain SELECTs use, also those behind
a `FOR UPDATE` ("LOCK → RE-READ → VALIDATE → WRITE" of `dispatchWriteLocks.js` re-reads the old view
whenever a SELECT came before the lock). Row locks (S or X) are held to the end. Everything a handler
validates at its last step uses `snap`; its writes apply to the committed `db`, as UPDATEs do. The writes of a
transaction are one step because nobody sees them before the commit and the rows are locked; the
statements between the last lock and the commit only read the view. A transaction may be rolled back at
any step: Prisma's five seconds, a deadlock, the process dies.

### Plans

A request arrives (`Arrive`), goes through the steps of its plan, and ends. The plans are the statements of the
code in their order; where a lock comes before or after the first read decides most of what is proved.

| Handler | Plan | Code |
|---|---|---|
| `POST /dispatches` | order, item, read, draft row, write | `dispatch.js` 2605 |
| `/lock`, `/finalize-draft` | dispatch, read, order, item, write | 2929, 3182 |
| `DELETE /dispatches/:id` | dispatch, read, order, write | 3457 |
| `/reverse` | read, order, item, dispatch, write | 3522 |
| `PUT /:id/status`, cancel approval | read, order, write | `salesOrders.js` 1603, 1846 |
| `/qc-entries` | batch, read, item (shared, by the foreign key of the stock row), order if it closes, write | `production.js` 2726 |
| `/qc-reverse` | read, order, item, entry, write | 3661 |
| supervisor decision | lot, read, lots to promote, item, write | `qcRejectedDispositions.js` 230 |
| mark, recheck | lot, read, item, write | 980 |
| hold actions | read, item, lots, write | 579 |
| reading the queues | read, lots to promote, write | `qcDispositionReconcile.js` 8 |
| `/qc-entries` with rejects | read, item (shared), write | `production.js` 2726 |
| `/qc-reverse` with lots | read, item, entry, lots, write | 3661 |
| classification | entry, read, item, write | `qcLegacyRejectedClassifications.js` |
| creating a return; deciding on it | dispatch or return, read, item (shared), write | `customerReturns.js` |
| transfer, adjustment | read, item (shared), write | `stock.js` |
| complete rework | check outside, item, read, write | `production.js` |
| reverse, or QC of, an adjustment | row, read, item, write; read, row and item (shared), write | `stock.js` 856, `production.js` 3525 |
| opening stock | read, item (shared), entry, write | `openingStock.js` 173 |
| sheets, work orders, cycles, close and reopen | read, write | `requirementSheets.js`, `noQty*.js`, `salesOrders.js` |
| recalculate | state read outside, read, write | `requirementSheets.js` 1666 |
| prepare, finalize of a cycle | order, read, write; draft, read, order, write | `dispatch.js` 2605, 3182 |

`Readable` is what a handler checks directly after its first read, `Allowed` what it validates on its view
before it writes, `Insertable` what unique keys refuse on the committed tables, `Written` what it leaves. Each
write is an action of its own (`PostDispatch`, `HoldAction`, `LockSheet` …).

The Stock family has more routes than one small instance can interleave, and the NO_QTY family users of
different roles. `OpsOf` says which operations the user behind a connection sends, in the Stock family per
`Shift`; the theorems that need something of it say so, the others hold for any.

### Abstractions

Of fulfilment:

- A *line* stands for all lines of an order that share an item: dispatches carry only the order and
  the item and every cap sums by them (assumption in `TablesAssumption`).
- `ordered` is the quantity the customer ordered. `Produced` is the approved production of a line, a
  constant: work orders exist before the behaviour starts and are finished, with one approved batch per
  line, whose row QC posting locks (row `Line`). Orders in DRAFT have no work order.
- Reversal rows are summed in `reversed`, the DISPATCH stock rows of a row counted in `posted`.
- The ledger is two balances per item: `fg`, at the FG Store, where dispatch and QC post, and
  `seen`, the default read scope (RM Store and rows without a location), which the gates read.
  Stock from before locations was moved to the RM Store by the migration, so QC entries of that time
  (`Legacy`) have theirs in `seen`. `LegacyStock` is that stock, tied to the entries by
  `LegacyAssumption`.
- OPEN is handled as IN_PROCESS and MANUALLY_CLOSED as CLOSED on a regular order. NO_QTY and REPLACEMENT
  branches of the handlers are not in this family.
- A QC entry accepts all it checks; the code's check that stock stays non-negative after an
  acceptance cannot fail then (it reads `seen`, which the acceptance does not lower).
- Quantities are integers; the code's tolerances are below one unit.
- Identifiers come from AUTO_INCREMENT: a request draws its identifier when it arrives, unused and
  drawn by no other open request.
- The queue of lock requests is not modelled: any waiting request may be granted a free row. This
  allows more behaviours than InnoDB; for liveness it is what strong fairness stands for.

Of the buckets: one finished good, since items share no row; per bucket the balance in the two scopes, and
per lot what of them its rows own. Customer returns and corrections keep the net of their own stock rows.
Lots of the time before locations start in any state and bucket older versions left them in.

Of the NO_QTY order: a cycle is its number; a sheet has one item, its quantity stands for the lines; work
orders are quantities per sheet and cycle; making goods and releasing a monthly plan are steps of other parts.
The rows an UPDATE touches are asked for at COMMIT, and only the order and the drafts, since nobody else
holds others across a step. A request that its first read already refuses is left out: it only reads.
Left out: carry-forward quantities, material checks and requests, editing and deleting of work orders, reversals
of NO_QTY dispatches and their allocation over several cycles, QC-pending batches in the dispatch gate,
recalculation of a sheet without lines, orders with two ACTIVE cycles from older versions.

Left out everywhere because no modelled guard reads them: audit and activity logs, commercial snapshots,
document numbers, the export flag of a sales bill. Requests carry no Idempotency-Key.

## 3. What is checked

Deadlock checking stays on in every run: a new request can always arrive or an open one be rolled back.
Every bound is a set of identifiers or one of `MaxCycle`, `MaxSheet`, `MaxClose`, `MaxQty`; rows are never
created again once gone, so behaviours are finite up to repeated requests.

| Run | Instance | Shows |
|---|---|---|
| `Dispatching` | prepare, both confirmations, delete; two orders of one line for one item, three dispatch identifiers, stock for two units, two connections | `OneDraftPerLine`, `ConfirmedWithinAccepted`; `ImplementsSerial`, every behaviour is one of `SerialFulfilment`, because of `ViewsCurrent`: confirming validates on a view from before it holds the order and still behaves as if alone, since the draft it confirms counts itself in the caps of others. |
| `Reversals` | the above on one order with two dispatches, and reversals; production as ordered, so that the last confirmation completes the order and a reversal reopens it | `IInv`, `TypeOK`, `PostedOnce`, `NetWithinOrdered`, `StampMeansFullyReversed`, `FrozenOnceLocked` |
| `Ledger` | dispatching, QC posting and reversal, completion by hand and by the last confirmation; one legacy entry | `BooksBalance`, `QInv`, `CInv`, `NothingMovesOnceCompleted` |
| `LockOrder` | prepare, reverse, QC reversal, status, cancel; three connections, two orders that share the item | `LockedByRank`, `NoWaitCycle` |
| `Answers` | prepare, lock, reverse, QC posting under `FairSpec` | `EveryRequestEnds` |
| `Holds` | a QC desk that holds, rechecks and reverses QC, a supervisor who decides, marks, rechecks and opens the queues; a lot of two units from before locations and a lot split off it | `TypeOK`, `ReworkOnce`, `LInv`, `ClosedOwnsNothing`, `ReadyHasRework`, `ClosedStays`; `ImplementsGoods`, every behaviour is one of `RejectedGoods` |
| `Store` | three shifts of two users: classification, transfers, rework and opening stock beside holds and QC reversal; adjustments, QC of them and their reversal beside QC posting; two clerks on two returns of one dispatch | `HeldIsOwned`, `ReversedLeavesNoLot`, `AdjustmentReversedOnce`, `StockExplained`, `ReturnedWithinShipped`, `ReturnMovesOnce`, `ScrapWithinReturn`, `ReplacementCovered`, `SInv` |
| `Planning` | a planner on up to two sheets of one period, the office that repairs and advances up to three cycles and releases plans | `CyclesInOrder`, `PlacedWithinDemand`, `WorkHasItsSheet`, `SheetInv` |
| `Closing` | a planner who also closes and reopens the order, the store that makes, prepares and ships its cycles | `TypeOK`, `IInv`, `ImplementsSequence` |

The sizes are what the races need. In fulfilment the first line orders 2 and quantities are 1 and 2: two small
dispatches fit and a large one does, a third never. Two connections make every pairwise race, and a cycle of waits
through a row both share needs two; `LockOrder` has three for longer ones. In `Holds` a lot of two units can be
split, held again and used up. In the cycles, two sheets are enough for a second version, three cycles for one that is
advanced while another is planned on. Interchangeable identifiers are declared so (SYMMETRY), except where
liveness is checked; `VIEW` leaves out `answer`, which no property reads.

Two runs end in a counterexample, each against a sentence of the repository (PROJECT.json quotes it):

| Run | What happens |
|---|---|
| `OverReversal` | Two reversals of a dispatch of 2: both fix their view at the routing SELECT, both find nothing reversed, the second waits and then reverses 2 more. |
| `TwoSheets` | Creating a sheet looks for a locked or cancelled one of its cycle and period, locking does not: two drafts are created, edited and both locked. |

Every property of a passing run also has a mutant: a changed definition (locks after the read, a
dropped cap, drafts counted as shipped, no unique key, no deadlock detection, an edit of a locked sheet …) under
which TLC finds it violated. The mutant definitions stand beside the ones they change and are used by nothing else.

### Fairness

Only `EveryRequestEnds` needs it. `FairSpec` adds, for every connection: weak fairness of the steps that need no
lock (`Run`: the event loop and the database execute what can be executed), strong fairness of `Lock` (InnoDB
queues lock requests, so a row freed again and again comes to every waiter), weak fairness of `DeadlockVictim`
(InnoDB searches for cycles on every wait). Arrivals and `Expire` are not fair: no client has to
send anything, and no property may rest on the time limit.

## 4. What is proved

All theorems hold for every value of the constants that satisfies the named assumptions of the modules (types
of the constants, finite tables, one line per order and item, legacy stock as its entries, identifiers of different
tables differ, null values are not requests or tables), so for any number of connections, rows and quantities.

| Theorems | State `Spec => []` of |
|---|---|
| `Invariance`, `TypeCorrectness`, `PostingOnce`, `SingleDraft`, `StampSound`, `ConfirmedIsFinal` (`FulfilmentProofs`) | `IInv`, `TypeOK`, `PostedOnce`, `OneDraftPerLine`, `StampMeansFullyReversed`, and the action property `FrozenOnceLocked` |
| `QuantityInvariance`, `LineWithinOrdered`, `LedgerBalanced`, `ShippedWithinAccepted` (`QuantityProofs`) | `QInv`, `NetWithinOrdered`, `BooksBalance`, `ConfirmedWithinAccepted` |
| `CompletionInvariance`, `CompletedOrdersRest` (`QuantityProofs`) | `CInv`, and the action property `NothingMovesOnceCompleted` |
| `RankInvariance`, `OrderFirstNeverDeadlocks` (`LockingProofs`) | `LockedByRank`, `NoWaitCycle` |
| `ViewsStayCurrent`, `DispatchingIsSerial` (`LockingProofs`) | `ViewsCurrent`, and the refinement `ImplementsSerial`, if `DispatchOnly` |
| `StockInvariance`, `StockTypes`, `ReworkTakenOnce`, `ReturnsMoveOnce`, `ScrapsWithinReturn`, `AdjustmentsReversedOnce`, `ReplacementsCovered`, `ReturnsWithinDispatch`, `GoodsExplained` (`StockProofs`) | `SInv`, `TypeOK`, `ReworkOnce`, `ReturnMovesOnce`, `ScrapWithinReturn`, `AdjustmentReversedOnce`, `ReplacementCovered`, `ReturnedWithinShipped`, `StockExplained` |
| `LotInvariance`, `HeldGoodsOwned`, `ClosedLotsEmpty`, `ReadyLotsStocked`, `ClosedLotsStay` (`LotProofs`) | `LInv`, `HeldIsOwned`, `ClosedOwnsNothing`, `ReadyHasRework`, and the action property `ClosedStays`, if `OneDesk` |
| `ReversedLeavesNone`, `LotsImplementGoods` (`LotProofs`) | `ReversedLeavesNoLot`, and the refinement `ImplementsGoods`, if `OneDesk` and `OneQcDesk` |
| `CycleInvariance`, `CyclesKeepOrder`, `CyclesImplementSequence` (`CycleProofs`) | `IInv`, `CyclesInOrder`, the refinement `ImplementsSequence` |
| `SheetInvariance`, `CycleTypes`, `WorkWithinDemand`, `WorkKeepsItsSheet` (`CycleProofs`) | `SheetInv`, `TypeOK`, `PlacedWithinDemand`, `WorkHasItsSheet`, if `OnePlanner` |

### Arguments

None of these properties is inductive: whether a handler does something twice depends on what it read
some steps ago. Each invariant says what a transaction in the middle of its plan holds and knows.

*Rows (`IInv` of fulfilment).* A confirmation or deletion locked its row before it read it, so its view of the
row is current: still a draft (`DraftStable`). Hence one posting, hence final. A POST locked the order before it
read, and every handler that changes the state of a dispatch holds the order, so it knows which rows are
drafts (`LineStable`). Other views may be old, but only by moves that dispatch rows can make (`ViewOlder`: a confirmed
row keeps its quantity, reversed quantity grows). A reversal that decides on its old view that a row is covered is
therefore right, although reversals themselves may exceed the row (`OverReversal`).

*Quantities (`QInv`).* While a draft waits to be confirmed no other row of its line is confirmed
(`ConfirmationsKnown`): so the cap that a confirmation computes on its view still holds when it writes. What QC
accepted is compared with what it ever accepted (`Received`), which only grows. The sums are brought into the
form of sums over all dispatches or all QC entries, so that a write changes one term and a view is compared with
the tables term by term.

*Completion (`CInv`).* Whoever completes an order has seen confirmed dispatches fill every line. The view
may be old, but unless one of them was reversed they still do, and then a draft, which is never empty, would exceed
what was ordered. With reversals this fails (section 6), so `NothingMovesOnceCompleted` is about orders
without any.

*Locks (`LockedByRank`).* A handler that keeps the documented order SalesOrder, Item, Dispatch has locked only
rows of lower rank than the one it waits for. In a cycle of waits among such handlers, the member that waits for the
highest rank waits for one that holds that rank and waits for a higher one.

*Serial equivalence (`ViewsCurrent`).* Where orders have one line and dispatches are only prepared, confirmed and
deleted, the view on which a handler writes is current in the rows of its line, the status of its order, QC and
stock as seen; two database values that agree on these give the same guards and corresponding writes. The
hypothesis `DispatchOnly` is needed: reversals and status changes read before they lock, and with two lines, two
confirmations at once that would together fill the order leave it open.

*Stock (`SInv`).* Of the decisions that lock their row first (supervisor, mark, recheck, returns, reversal of an
adjustment, classification) the view of the row is current (`LotKnown`, `ReturnKnown`, `ShipmentKnown`,
`AdjustmentKnown`). `StockExplained` needs no lock at all: for every write, `StockEffects` proves that what lies
in a scope changes by exactly what the rows it writes explain, whatever its view was.

*Lots (`LInv`).* Decision, mark and recheck lock their lot before they read it, so they see it as it is
(`DecidedKnown`). A hold action and the promotion of lots read first; there the argument is about users, as with sheets
below. `OneDesk` says that in every shift at most one connection sends hold actions and at most one sends
decisions or opens the queues. Nobody else takes a lot out of HOLD or out of waiting for a supervisor, so these
views show the lots decided on as they are too (`HeldKnown`, `StaleKnown`), but for whether a lot was voided meanwhile.
`LotShape` says where the stock of a lot lies in each state; every write of every handler is proved to
leave each lot as it was, void it, create it or take it out of one of the states its handler decides in, and in its
shape (`LotOutcome`). For a held lot the shape is `HeldIsOwned`; for a closed one it gives `ClosedOwnsNothing` only together
with `ReworkOnce`, since the shape knows the sum of its rework stock and not that neither part is negative.
A reversed entry leaves no lot because a lot is drawn by a posting, whose entry is new, by a classification, which holds
an entry that stands, or by a hold action, whose lot was live when it was read; that its entry still stands at the write
(`HeldStands`) needs `OneQcDesk`: nobody else reverses QC then.

*Rejected goods (`ImplementsGoods`).* `RejectedGoods` says what lots promise without saying how: each lot is not there
yet, open, done or void, and some goods of it wait. Goods come with an entry, are decided on, are handed to a lot split off,
or go with the entry; none come back and a lot is open exactly as long as goods of it wait. `StageOf` and `WaitingOf` read
this off the row of a lot and off the stock it owns on hold, away, in rework and in final QC. The refinement needs
`LotShape` to say that all that is left of a lot waits and that something is left of an open one (`LotSeen`), and
`LotOutcome` to say how much a handler takes: a hold action leaves on the two lots together no more than was on the first,
a decision takes goods of the lot it is about only. Promotion of other lots, transfers and returns are not seen at all
(`WriteOfGoods`). That a lot being split is not void is `HeldStands` with `LotsHaveEntries`: only lots of reversed entries are void.

`MCStock` assumes `OneDesk` and `OneQcDesk` of its shifts, so TLC confirms that its instances satisfy them. Both are
needed: section 6 names what a second hold desk, a second user of the queues and a reversal beside a hold do.

*Cycles (`IInv` of the cycles).* A request works on an earlier state of the same sequence of cycles (`Behind`).
Whatever it does to its view is one move of that sequence (`Moves`); merged into the committed tables it is one move of
theirs, because a number taken meanwhile is refused by the unique key (`NumbersFree`).

*Sheets (`SheetInv`).* Nothing locks a sheet while a handler decides on it, so the argument is about users:
`OnePlanner` says that only one connection sends the operations that write sheets or work orders. Its view then shows
sheets and work as they are (`SameSheets`), whatever office, store and dispatch do to cycles, plans and the order
meanwhile; a recalculation finds its sheet still a DRAFT, a new sheet gets the next id. What a handler validated on its
view therefore holds of the tables it writes to. The hypothesis is needed: with two planners, create-wo, which
reads the sheet before it locks the row, places the same balance twice, and a sheet is voided under new work.

*Sums.* `SumTheorems` proves that the community modules' `SumFunctionOnSet` over a finite set is what one expects
(empty, one more member, one term changed, termwise comparison, splitting). The library's induction theorems take an
operator as a parameter, which the provers here cannot instantiate; the induction is therefore over the family of
subsets of the index set ordered by inclusion (`SubsetInduction`), which is well-founded.

## 5. Only model-checked

- `EveryRequestEnds`: liveness under fairness, out of the reach of the provers, as is ENABLED. It is checked for the
  fulfilment of regular orders only.

## 6. Seen while modelling

What the code does that its text does not promise or contradicts, beyond the two runs above. Each was seen as a
counterexample of a version of these models with the property stated for it; no run is kept for them.

Regular orders: `PUT status COMPLETED` re-reads behind the lock on the old view and completes an order whose
dispatch was reversed meanwhile (`salesOrderDispatchHelpers.js` 88). Cancelling approval counts dispatches without a
lock and may leave one on a DRAFT order (`salesOrders.js` 1881). The stock gate reads the RM Store scope and the
posting leaves the FG Store, which goes negative (`dispatch.js` 3061, `fgStockPostingLocationService.js` 72); conversely stock
accepted since locations exist is not in the scope the QC reversal checks, where
`test/integration/stock-ledger-reversal.integration.test.js` 261 expects 201. `/lock` takes the dispatch before the
order, against `dispatchWriteLocks.js` 5, and can deadlock with a POST or a reversal. A QC posting that closes its
order and is chosen as deadlock victim answers 201 for nothing (`salesOrderOperationalAutoClose.js` 59). A QC reversal
that reads first misses a confirmation (`production.js` 3664). Two confirmations of two lines of one order at once leave
it uncompleted.

Stock: two hold desks take the same remainder (`qcRejectedDispositions.js` 579). A return created with SCRAP books its goods
in twice; scrapping a part closes the return and leaves the rest in its bucket. Manual transfers and classification take
stock that lots own. The reversal of a split reject takes the whole quantity from one remembered bucket. Posting QC with
rework is always refused (`production.js` 3308), lots held at QC can never be decided (409): both look in the scope
the goods were not posted to. A hold on an old view writes a live lot of an entry reversed meanwhile. A second user who opens the
queues promotes on an old view a lot that was rechecked meanwhile, and reopens it (`qcDispositionReconcile.js` 8). QC of an adjustment and
approval of opening stock, which lock nothing first, may happen twice; so may a reversal of opening stock. The decision locks lot
then item, a hold item then lot. Returns of a dispatch and its reversal do not look at one another.

NO_QTY orders: `/lock` of a sheet sets a closed order IN_PROCESS (`requirementSheets.js` 1791, against
`docs/no-qty-so-workflow.md` 164). Two planners place the same balance twice (`requirementSheets.js` 2211,
`noQtyExecutionReleaseService.js` 399). An old draft that is edited or locked moves into the ACTIVE cycle, also beside a sheet
already at work there. An order closed while a finalize waits for it ships on a closed order.

Production, read but not modelled: a regular batch that was reversed cannot be approved again (unique key on
its stock link); the reverse of one of two batches while the report is confirmed leaves the work order COMPLETED; net
consumption ignores reversal rows (`materialReturnService.js` 93).

## 7. Not modelled, and the plan

In order:

1. `Idempotency`: keys claimed after the locks, replay, the repeated `/lock` that is told 409, the repeated
   `/reverse` that cannot see the key it collides with (`dispatch.js` 2944, `dispatchIdempotency.js` 111); document numbers
   (`docNoService.js` 64).
2. `Production`: work orders, batches, approval and its reversal, report, return of material, with the properties that
   an approved batch is never lost, raw material leaves once per approval, a completed work order has a confirmed report.
   With it `Produced` becomes state.
3. `MaterialIssue`, `Procurement`: allocation and issue of raw material; PO, GRN.
4. `PlanLifecycle`: revisions of the monthly plan.

Masters, authentication, backups, logs, imports, dashboards, reports and the frontend are not
modelled: they read, or write single rows nobody else decides upon, or are formatting.
