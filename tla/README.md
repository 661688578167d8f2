# Yishang-Hub in TLA+

Formal models of Yishang-Hub (`src/backend`, `src/frontend`), a Django ERP for a
textile factory with a Vue client: what its services promise about stock, orders,
production, planning, approvals, events, devices, permissions and repeated requests,
checked with TLC on small instances and, where it matters most, proved with TLAPS for
all of them. Paths below are relative to the repository; where no directory above
`apps/` is given, it is `src/backend/`.

1. [The system](#1-the-system) - components, state, operations, what is hard
2. [The models](#2-the-models) - modules and how they correspond to the code
3. [The runs](#3-the-runs) - what TLC checks, bounds, fairness
4. [The proofs](#4-the-proofs)
5. [Where documents and code disagree](#5-where-documents-and-code-disagree)
6. [What is not modelled](#6-what-is-not-modelled)
7. [Plan](#7-plan)

## 1. The system

A Vue front end calls a Django REST backend over MySQL (InnoDB, READ COMMITTED).
There is no `ATOMIC_REQUESTS`: a transaction is exactly what a service function, or a
view of `core/viewsets.py`, opens with `transaction.atomic`. Celery workers over Redis
run the scheduled tasks. So the processes that interleave are HTTP requests and Celery
tasks, and what they share is the database - rows, row locks, unique keys, CHECK
constraints - and the cache of permission codes. In the browser, calls of one page
overlap and are answered in any order.

Two habits of the code decide what can go wrong. Modules that move material
(`wms`, `sales`, `procurement`, `mes`, `planning`) lock the row they judge with
`select_for_update` and judge it again, so a call is close to one step. The others
(`qms`, `crm`, `logistics`, `ehs`, `ems`, `equipment`, `iot`) judge the row the view
retrieved, without a lock, and save it: another request may act in between. And the
generic PATCH of `core/viewsets.py` saves every column of the row it read, in all
modules. `BaseModel.save` raises `version` whatever it was, so only a client that sends
`expected_version` is told, and no form of the browser does.

| Component | State it keeps | Operations | What is hard about it | What makes it correct |
|---|---|---|---|---|
| Stock service, `apps/wms/services/stock.py` (1550 lines) | stock documents and lines, `InventoryBalance` (on hand, reserved, frozen per dimension), append-only `InventoryTransaction`, `StockReservation` | create, update, post, reverse document; release quality; reserve, release, release all of a business document | four tables written separately; reservations consumed greedily over several lines; row locks, deadlocks, retries; idempotency keys | ledger replays to balance; reserved bucket = open reservations; nothing promised twice; a document reaches the ledger once |
| Outbox, `apps/core/services.py`, `apps/integration` | `OutboxEvent`, `Notification` | publish, list due, claim, handle, mark done or failed, replay | several dispatchers, each statement commits by itself, crashes, replays of events being handled | nobody told twice, done means told, dead means exhausted, every event is settled |
| Idempotent execution, `apps/core/services.py` | `IdempotencyRecord` | execute under a key, clean up expired records | lost answers, concurrent repeats, crash between work and record, expiry | work is done once per key; answers belong to the content asked for |
| Sales, `apps/sales/services.py` (1307) | orders with reserved, shipped and returned quantities, shipments, returns | submit, outcome of approval, cancel, close, reserve, release, ship, return | approval outcomes applied to orders read without lock; drafts checked against stale rows; consumption crosses order lines; `post_shipment` and `post_return` lack the transaction their helpers have; request keys of reservations are fixed per line | shipped within ordered, returned within shipped, status follows quantities, an ended order holds no stock |
| Procurement, `apps/procurement/services.py` (1144) | requisitions, purchase orders, receipts | create, update, submit, outcome, cancel, receive, inspect | unlocked updates, open quantities derived from several tables | received within ordered, requisition quantities given back |
| Approval workflow, `apps/workflow/services.py` (487) | instances, steps, decisions | submit, create and submit by hand, approve, reject, withdraw | two approvers at once, decision against withdrawal, effect on the business document; approvals filed by hand decide documents that have one of their own | what is approved is what was submitted, a submitted document is never stuck |
| BOM and routing versions, `apps/planning/services.py`, `models.py` | `Bom`, `Routing`, their lines, versions per scope | create, derive, edit, submit, activate, obsolete, switch off | version numbers read long before the commit; two versions activated at once | versions run on without gaps, one is in force, what production is given is the latest approved |
| Document numbers, `apps/core/services.py` | `CodeRule`, `CodeSequence` | generate code, change the rule | numbers taken in transactions that roll back; typed codes; resets | a generated code is no stored one's |
| Manufacturing, `apps/mes/services.py` (928) | production orders, material requirements, steps, reports | create, update, release, issue, report, complete, receive goods, close, cancel | quantities accumulated by calls in any order; a header form that restores what it read; gates judged elsewhere | one issue and one receipt, delivered is what was made, finished orders passed their gates |
| Quality, `apps/qms/services.py` (421) | inspections, results, alerts | record, submit, judge, close; handle and close alerts | no row locks at all | a passed inspection has no failing result, a failed one has an alert |
| Planning, `apps/planning/mrp.py` (1090) | runs, buckets, suggestions, links to documents | walk the bills, net, explode, persist; convert, cancel, archive | pure algorithm over cyclic or shared bills; two planners converting, newer runs | netting equals its definition, a suggestion becomes one document |
| IoT, `apps/iot/services.py` (431) | gateways, points, messages, readings | ingest a report, detect silent gateways | duplicates at once, rate limits, reports against the offline check | a message is processed if a reading came of it, every value over the limit has an alarm |
| Energy, `apps/ems/services.py` | meters, readings, run records, alarms | record a reading, start, finish, cancel a run, scan for silence, raise and handle alarms | back-dated readings, alarms that suppress each other | what was over its limit has an alarm |
| Equipment, `apps/equipment/services.py` | plans, tasks, fault reports, repair tasks | generate tasks, report, assign, repair, complete, close | generation in batches from a stale date; two rows updated by one call | no due date without its task, no fault under repair without a repair task |
| Customers, logistics, safety, `apps/crm`, `apps/logistics`, `apps/ehs` | complaints, reviews, transport tasks, devices, hazards, accidents, permits, checks | take a case from stage to stage | status read, judged and written without a lock | no case stands where it skipped a stage |
| Supplier evaluation, `apps/srm/services.py` (573) | weight versions, evaluations, lines | configure weights, create, score, publish, archive | rounding of redistributed weights; header form against lines | weights add up to a hundred |
| Identity, `apps/identity`, `apps/core/permissions.py`, `apps/core/selectors.py` | accounts, roles, grants, scopes, cached codes | set permissions, menus and scopes of roles, assign roles, update accounts; look codes up | the cache is filled from what was read earlier; bounds and grants of several roles combine | cached codes are current, a further role hides nothing |
| List pages, `src/frontend/src/composables/useCrudList.ts`, `components/EntityListPage.vue`, `api/http.ts` | rows, page, sorting, form, message | load, turn pages, sort, create, edit, switch | answers out of order, late, lost; submissions that outlive their form | what is shown is what was asked for, failures are told |
| Others | master data, factory, analytics, notifications, login, audit | create, read, update and delete; read-only reports | little interaction | - |

How they interact. Sales, procurement and manufacturing call the stock service inside
their own transactions, with a `(biz_type, biz_id)` reference that decides whose
reservations a posting may consume. They publish events to the outbox in the same
transaction; dispatchers later turn these into notifications. Views wrap the calls
that must not be repeated in `idempotent_execute`. The workflow calls back into the
business module with the outcome of an approval. Planning reads the open lines of sales,
procurement and production, and its suggestions become requisitions and production
orders. Production asks quality for the inspection of a gate and later reads its
judgement. Devices raise the alarms of energy management. Every request is judged by the
codes (`Access`) and sees the rows (`Scopes`) of its account.

## 2. The models

| Module | What it is |
|---|---|
| `Sums` | least of two numbers, prefix sums as recursive functions, sums |
| `Stock` | the stock service, one action per committed call |
| `StockPromises` | abstract: what the service promises its callers |
| `StockRefinement` | `Stock` implements `StockPromises` |
| `StockLocks` | the same service one row lock at a time; also implements `StockPromises` |
| `Outbox` | publishing, dispatching and replaying events, one statement at a time |
| `Idempotency` | `idempotent_execute`, one blocking point at a time |
| `Approval` | approvals and the five kinds of documents they decide on, callbacks one read at a time |
| `Sales` | orders, shipments, returns and inspections over the stock, one action per committed call |
| `Procurement` | purchase orders, requisitions, receipts and their inspection |
| `Inspections` | inspections, results, judgements, alerts, on unlocked rows |
| `Production` | production orders; extends `Inspections`, whose steps interleave with its own |
| `Netting` | one planning run: the walk over the bills, netting, explosion |
| `Suggestions` | what becomes of the suggestions of several runs |
| `Numbers` | generated document numbers, in transactions that may roll back |
| `Versions` | BOM and routing versions; extends `Numbers`, which gives their codes |
| `Energy` | meters, runs, alarms |
| `Ingestion` | reports of devices; extends `Energy`, whose alarms it raises |
| `Cases` | ten kinds of documents that go from stage to stage without locks |
| `Equipment` | maintenance plans, fault reports, repair tasks |
| `Evaluations` | weights and evaluations of suppliers |
| `Access` | roles, codes and the cache of codes |
| `Scopes` | the rows that the roles of an account show |
| `Pages` | a list page of the browser with its form, and the table behind it |
| `SumLemmas` | lemmas about sums, prefix sums and induction up to a bound |
| `StockProofs` | theorems about `Stock`, `StockRefinement` and `Netting` |
| `ConcurrencyProofs` | theorems about `Outbox` and `StockLocks` |
| `IdempotencyProofs` | theorems about `Idempotency`, `Access`, `Pages` and `Scopes` |
| `ApprovalProofs` | theorems about `Approval`, `Versions` and `Numbers` |
| `SalesProofs` | theorems about `Sales` and `Evaluations` |
| `SupplyProofs` | theorems about `Suggestions`, `Inspections` and `Production` |
| `ServicesProofs` | theorems about `Cases`, `Equipment`, `Procurement`, `Energy` and `Ingestion` |
| `MCStock`, `MCStockLocks`, `MCOutbox`, `MCSales`, `MCProduction` | instances of one module for TLC |
| `MCIdempotency`, `MCApproval`, `MCSupply`, `MCServices` | instances of several modules, of which each behaviour is about one |

Operators whose comment starts with "Bug:" stand next to the definition they distort.
They are used by no specification; they are the plausible programming errors that
each property was tried against, to see that it notices.

### Stock

State: `docs` (stock documents in creation order), `onHand` and `reserved` (columns of
`InventoryBalance`; a missing row is a row of zeros), `ledger`
(`InventoryTransaction`), `reservations` (`StockReservation` in primary-key order).
A dimension is material, location and quality; company, warehouse, batch and roll
are further coordinates that the code treats alike.

| Code | Action |
|---|---|
| `create_document`, `update_draft_document` | `CreateDocument`, `UpdateDraftDocument` |
| `post_document`, `_post_locked` | `PostDocument` (`PostAdmitted`, `Post`) |
| `_plan_movements`, `_assert_locations_in_warehouse`, `_assert_quality_allowed` | `Plan`, `PlanValid`, `LocationsInWarehouse`, `QualityAllowed` |
| `_plan_reservation_consumption` | `Consumable`, `Taken` |
| `_assert_available`, `_assert_reservation_covers`, CHECK constraints | `AssertAvailable`, `ReservationCovers`, `BucketsStorable` |
| `_write_movements` | `WriteMovements`, `Rows`, `Consume` |
| `reverse_document`, `_reverse_locked` | `ReverseDocument`, `ReversalPlan` |
| `release_quality` | `ReleaseQuality` (a refused posting leaves its draft) |
| `reserve_stock`, `release_reservation`, `release_reservations_for_biz` | `ReserveStock`, `ReleaseReservation`, `ReleaseReservationsForBiz` |

A call that is refused rolls back and is not a step; neither is a call answered by an
idempotency key, which changes nothing.

### StockLocks

That a whole call is one step is an assumption of `Stock`; `StockLocks` examines it.
A call asks for the order's row, the balances and the reservations in the order the
code does, waits for rows others hold, works on the values it read and writes on
commit. `RollBack` is InnoDB's deadlock detection; `post_document` started on its own
is retried (`MAX_LOCK_RETRIES`), everything else fails. The calls are reserving an
order (`reserve_order_stock`, line by line, reservation row before balance), shipping
it, posting a stock document of it by hand, and closing it (`release_reservations_for_biz`,
listed without a lock). `ImplementsPromises` says that, interleaved like that, each call
still does what `StockPromises` allows in one step: no lost update, no double promise.

### Outbox

`outbox` and `notices` are the two tables; `worker` is what each dispatcher remembers
between statements (its list, and the attempts it read before the handler ran);
`looking` is what a person who replays an event has read. `Claim` is the conditional
update, `Notify` the handler's transaction, `Crash` can follow any statement, also after
the handler's commit. `RequeueEvent` is the unlocked write of `integration/views.py`.
Time is reduced to one bit per event: due or not yet.

### Idempotency

`records` is the table as committed; the uncommitted record of a running call is its
stage `running`, which is what makes a second `Insert` wait. `Succeed` commits work and
record together and may lose the answer. `FailOnOtherKey` is the business function
raising an `IntegrityError` of its own, which the code cannot tell from a duplicate
key. `CleanUp` deletes expired records; `Expire` alone changes no answer.

### Approval

`docs` are the rows of sales orders, purchase orders, requisitions, BOMs and routings
(status, a number that stands for the content, and `approval`, the id that submitting wrote
to `approval_instance`), `instances` the approvals with their template, steps and what
they were made for, `deciding` the transaction in which a user ends an approval, `editing`
the rows of requisitions somebody read in order to change them. A call that locks its row
first is one step: submitting a document (which creates and submits its instance in the
same transaction), editing, cancelling, making obsolete, approving a step that is not the
last. Ending an approval is not: the callback reads the document, with a lock for BOMs and
routings and without one for the others (`ReadDocument`), a BOM or routing then looks for
the versions it replaces (`ReplaceVersions`, `_activate_version`), and all is written with
the commit (`Conclude`). `RollBack` is a dying process, or InnoDB ending a circle of
waits, which two versions of one style approved at once do form.

Submitting a document is not the only way to an approval. Whoever may submit approvals
(`Filers`) can create one for any document with any template, and submit it later
(`CreateInstance`, `SubmitInstance`; `filed` marks them): neither looks at the document,
and no callback compares the instance that ended with the document's own. So the model lets
a document have several approvals pending, with routes of their own.

| Code | Action |
|---|---|
| `create_instance` and `submit_instance` as called by `submit_order`, `submit_requisition`, `submit_bom`, `submit_routing` | `Submit` |
| `ApprovalInstanceViewSet.create`, `create_instance` | `CreateInstance` (`NewInstance`) |
| `ApprovalInstanceViewSet.submit`, `submit_instance` | `SubmitInstance` |
| `approve_instance` | `ApproveStep`, or `Decide` when the step is the last |
| `reject_instance`, `withdraw_instance` | `Decide` |
| `on_order_approval_outcome`, `on_requisition_approval_outcome`, `on_bom_approval_outcome`, `on_routing_approval_outcome` | `ReadDocument`, `ReplaceVersions`, `Conclude` |
| `update_order`, `update_bom`, `update_routing` | `UpdateDocument` |
| `update_requisition` (no lock, saves every field) | `ReadRequisition`, `SaveRequisition` |
| `cancel_order`, `cancel_requisition` | `Cancel` |
| `obsolete_bom`, `obsolete_routing` | `Obsolete` |

Requisitions are left out of `ApprovedAsSubmitted` and `SubmittedAwaitsDecision`
(`Guarded`): their unlocked update can undo anything, as section 5 shows. What both say of
the other documents, they say for every document; where somebody submitted an approval of it
by hand (`HandMade`), they say less:

- Approved (`ApprovedAsSubmitted`): some approval of the document was given, always. BOMs and
  routings say what they said when they were last submitted, always, as their callback
  locks them. Orders do so unless an approval was submitted by hand, since then two outcomes may
  overlap: one returns the order to draft, it is edited, and the other, which found it
  submitted, approves it. That the approval given is the one of the last submission is
  stated where none was submitted by hand.
- Submitted (`SubmittedAwaitsDecision`): the document's own approval, of what it says now, is
  pending, always. A second one is pending only where one was submitted by hand; it may be
  that one, or an own approval of an earlier submission that it left open.

TLC violates each of the two without these exceptions. The source named in `map` for
`ReadDocument` and `Conclude` is one of the five callbacks; `Versioned` tells how they differ.
`ScansByStatus` stands for a choice of the query optimizer: at READ COMMITTED a locking
read waits for the rows it scans, which are those of the scope or those with status
`approved`, depending on the index.

### Sales

State: `orders` (statuses), `shipped` and `returned` (columns of the order lines),
`reservations` (the one row each order line can have), `onHand`, `shipments` and
`returns` with their rows. Orders enter approved; how they get
there is `Approval`, and no second approval of theirs ends later (section 6).

| Code | Action |
|---|---|
| `reserve_order_stock`, `choose_reservation_dimension`, `reserve_stock` | `ReserveOrderStock` (`Unreserved`, `FreeFor`) |
| `release_order_stock`, `release_reservations_for_biz` | `ReleaseOrderStock` (`Released`) |
| `cancel_order`, `close_order` | `CancelOrder`, `CloseOrder` |
| `create_shipment`, `update_shipment`, `cancel_shipment` | `CreateShipment`, `UpdateShipment`, `CancelShipment` |
| `_assert_shipment_quantities`, `_assert_return_quantities` | `DraftAccepted` (`DraftLimits`, `Drafted`) |
| `post_shipment`, `_shipment_document_lines`, `open_reservation_hint` | `PostShipment` (`IssueLocations`) |
| `_assert_reservation_covers`, `_plan_reservation_consumption` | `ReservationCovers`, `Taken` |
| `_refresh_order_shipment_status` | `ShipmentStatus` |
| `create_return`, `update_return`, `cancel_return` | `CreateReturn`, `UpdateReturn`, `CancelReturn` |
| `post_return`, `_inherit_return_dimensions`, `document_line_hint` | `PostReturn` (`InheritDimensions`) |
| `inspect_return`, `release_quality` | `InspectReturn` (`Inspected`) |
| stock documents that others post | `MoveStock` |

`Sales` rests on the other modules instead of repeating them. There is no reserved
bucket: `Held` is the sum of the open reservations, which is what
`StockProofs!ReservedMatchesReservations` says the bucket is. A reservation has no status,
since `StockProofs!StatusIsTruthful` says that its quantities determine it. That a call
is one step is what locking its order, shipment or return first gives; `StockLocks` looks
at the balance and reservation rows below it. Keys of repeated calls are `Idempotency`.

One place is deliberately wider than the code. Draft quantities are checked against order
lines that the view read before the service locked anything, and against drafts of other
transactions that may or may not be visible. `DraftLimits` lets the check use any earlier
progress of the line and any subset of the other drafts. So nothing that is checked or
proved about quantities rests on the check of drafts; it rests on the check of posting
and on the CHECK constraints.

Assumed: documents that `post_shipment` and `post_return` made are not reversed by hand
in the warehouse (the stock service would allow it and the order would not learn of it),
no one releases a part of an order's reservation (the service can, no view offers it),
and the warehouse moves only free qualified stock. Batch and roll are treated like the
location, although a shipment row inherits each coordinate by itself: mixing them leads
to a dimension nobody reserved, which is refused.

### Procurement

State: `requisitions`, `orders` with their lines, `receipts` with theirs, `warehouse` (what
lies in quarantine, qualified or rejected), `deciding` (an order as the end of its approval
read it), `calls` (what a clerk's request has read so far).

| Code | Action |
|---|---|
| `create_order`, `create_order_from_requisition`, `update_order`, `submit_order` | `CreateOrder`, `ConvertRequisition`, `UpdateOrder`, `SubmitOrder` |
| `on_order_approval_outcome` (reads without lock, then saves) | `ReadOutcome`, `SaveOutcome` |
| `cancel_order`, `close_order`, `cancel_requisition` | `CancelOrder`, `CloseOrder`, `CancelRequisition` |
| `create_receipt`, `update_receipt`: view, lock and check, write | `LookForReceipt` or `LookForUpdate`, `CheckClaims`, `WriteReceipt`, `GiveUp` |
| `_assert_receipt_quantities` | `Acceptable` (`Claimed`) |
| `post_receipt`, `_refresh_order_receipt_status` | `PostReceipt` (`Arrived`, `StatusOf`) |
| `inspect_receipt`, `cancel_receipt` | `InspectReceipt`, `CancelReceipt` |

### Inspections and Production

An inspection or alert call is two steps: the view's retrieval (`RetrieveInspection`,
`RetrieveAlert`) and the service call on what was retrieved (`RecordResults`,
`SubmitInspection`, `JudgeInspection` with `EnsureAlert`, `CloseInspection`,
`HandleAlert`, `CloseAlert`, the forms `PatchInspection`, `PatchAlert`). The second is one
step because it saves its row first and holds it. `overlapped` notes the inspections on
which two calls were open at once; `JudgedByItsResults` is about the others, because for
these it is false (section 5). `FailuresAreAlerted` holds for all.

`Production` has `orders`, `steps`, `required` and `issued` materials, `reports`,
`documents` and `onHand`. Each call of `mes/services.py` (`create_order`, `update_order`,
`release_order`, `issue_materials`, `report_production`, `complete_order`,
`receipt_finished_goods`, `close_order`, `cancel_order`) locks its order and is one action
of that name; `RetrieveHeader` and `PatchHeader` are the generic form, which does not, and
writes status and document links back too. `InspectionsNext` interleaves.

### Netting and Suggestions

`Netting` is the algorithm of `_compute`: `WalkRoot`, `WalkLine`, `Return`, `Refuse` are
the depth-first `_build_graph` with its stack and codes; `StartNetting`, `NetMaterial`,
`Complete` net by ascending code, `NetRequirement` bucket by bucket, and explode. Its inputs
(bills, open lines, balances) are chosen at the start and do not change, as the run reads
them in one transaction. It is checked against definitions: reachability for the walk
(`CyclesAreRefused`), cumulative worst shortfall for the netting, and total demand of all
parents for the explosion (`DerivedDemandIsNetted`). `DemandRows` are the rows of open
orders in the horizon, in the order of the table, and `walked` the last one whose material
was a root; `RowsLeft` are those still to walk from. `UpTo` adds up a quantity by day, and
`Lacking` is what a set of materials needs of another for what is missing of them.

`Suggestions` has `runs`, `suggestions`, `links` and what each planner's conversion holds:
`LookAtSuggestion` (locks suggestion and run, looks for newer runs without a lock) and
`ConvertSuggestion`; `RunMrp`, `FailMrp`, `ArchiveRun`, `CancelSuggestion` are one step.

### Numbers and Versions

`Numbers` has the rule, a counter per period, the business day and the number each open
transaction has `taken`; the row lock of the rule is `RuleFree`, `KeepNumber` is the commit, and a roll-back
frees the number. `Versions` has the creation of a version in the steps between which others
commit: `Begin` (or `Derive` from a version), `TakeCode`, `NextVersionNo`, `Store` under
the unique keys, or `GiveUp`; and whole calls for the rest: `Replace` (an edit), `SubmitVersion`,
`Outcome` with `ActivateVersion`, `MakeObsolete`, `SetActive`. `Effective` and `EffectiveFor`
are `get_effective_bom` and `get_effective_routing`, by which `LatestApprovalServes`
judges the table.

### Energy and Ingestion

No handler locks, so each is a look and a write: `LookAtDial`, `RecordReading`;
`LookForRuns`, `StartRun`; `OpenRun`, `FinishRun` or `CancelRun`; `LookForSilence`,
`ScanOfflineMeter`; the forms `OpenMeter`, `SaveMeter`. `RaiseAlarm` suppresses by what is
open of the same source and type. `Ingestion` splits a report into `ReceiveReport` (rate
limit and duplicate check) and `CommitReport`, or `CommitDuplicate` when the unique key of
the message decides it, or `LoseReport`; `LookForSilentGateway` and `SetGatewayOffline`
are the scheduled check, `OpenGateway` and `SaveGateway` the form.

### Cases

One module for the kinds that work alike. `ReadCase` is the view, `Handles` of a kind
says which service functions there are (each an operator with the function's name), and
the step that handles judges the row read and writes it. `SaveCase` is the form. Transport
tasks share devices: `DispatchTask`, `StartTask`, `FinishTask`, `CancelTask`,
`SetDeviceStatus`. `passed` is a history variable: the stages each case has stood at.

### Equipment and Evaluations

`Equipment` has `nextDate` and the `planned` tasks of a plan, `reports` and `repairs`; `sheet`
is what a request read. `GenerateMaintenanceTasks` makes at most
`MAX_TASKS_PER_GENERATION` tasks from the date it read; `RaiseFaultReport`,
`CreateRepairTaskFromReport`, `StartRepair`, `CompleteRepair`, `CancelRepair` and
`CloseFaultReport` carry the report along (`sync_fault_report_progress`).

`Evaluations` has weight `versions`, one `evaluation` and its `lines`. `RedistributedWeights`
is the rounding of `_redistributed_weights`; `SaveHeader`, `SavePolicy` and
`RecalculateHeader` are the form that is two transactions.

### Access and Scopes

`Access`: a reader `LoadAccount`s, then `UseCached`, or `ReadRoles`, `ReadCodes`,
`FillCache`, under the version it loaded. An administrator's call is a `Begin...` that
reads and a commit named as the service function. `Raise` is
`_bump_users_permission_version`. `behind` and `rewound` collect the accounts for which
the code does not raise, or sets back, the version: `CachedCodesAreCurrent` excepts them, and
section 5 tells what they are.

`Scopes`: `staff` is an account with its roles' scopes; `GiveRole` and `SetScope` change
them; `Shown(staff, fields)` are `resolve_data_scope` and `apply_data_scope` for a table that
has these fields.

### Pages

`query`, `shown`, `loads`, `form`, `writes`, `message` and `table`: what the page asks for,
what it shows, the calls under way, the form, what it tells, and the server's rows. A call is
sent, served and answered in separate steps (`Load`, `Serve`, `ReceiveRows` or
`FailToLoad`; `submit` or `toggleActive`, `Apply` or `Refuse`, `WriteDone` or
`WriteRefused`), and `GiveUp` is the client's time-out of 30 seconds, after
which the server may still do it.

## 3. The runs

Each run is `tlc -config <run>.cfg <module>`. The modules that an MC module composes do not
interact, unless one extends another: a behaviour chooses its subject at the start, so
the states are the sum of those of the subjects, and an invariant is about all of them.

| Run | Result | What it shows |
|---|---|---|
| `Stock_documents` | holds | Either two orders reserve, release, issue (two lines on one dimension) and move; or stock comes into quarantine, is released, issued, moved, written off, reversed and reposted under a key, among drafts that must be refused. The reserved bucket is what reservations hold, the ledger replays to the balance and is exactly the posted documents, `StockPromises` is implemented. |
| `Locks_calls` | holds | Any three of six calls at once on two orders. Each implements one abstract step; closed orders hold nothing; every deadlock involves a reserving call; every call ends. |
| `Outbox_delivery` | holds | Two dispatchers with batches of two, one replay, one crash at any statement, an event nobody handles: nobody is told twice, every event is settled. |
| `Idempotency_calls` | holds | Three requests over two keys and two contents, with lost answers, crashes, refusals and cleanup: work is done once, every call is answered. A list page with four calls, answered in any order or not: the list tells the truth. An account with up to two roles of any type: a further role of the same type hides nothing. |
| `Approval_documents` | holds | An order with two steps, submitted and filed by hand up to three times in all, or beside a requisition, or two versions of a BOM, under decisions, withdrawals, edits and cancellations that overlap: what is approved is what was submitted, nothing is stuck, one version is in force. Two callers who create versions while numbers are taken, given up, typed and the rule is changed: codes are new, versions run on. Versions edited, decided, made obsolete and switched: the latest approval serves. An account, two roles, two administrators and a request that fills the cache: cached codes are current. |
| `Sales_orders` | holds | Two orders, of two lines and of one, want four units where there are three, in two places. Partial shipments, rows without location, one line twice in a document, moves in between, a return of any shipment, both inspection results, cancelling and closing. Shipments use up the order's own reservations, totals follow the documents, every return can be inspected. |
| `Production_orders` | holds | One order, a routing whose last step is a gate or which is one gate, with and without materials, scrap and rework, a header form that saves what it read, an inspection: one issue and one receipt, delivered is what was made, steps follow reports, finished orders passed their gates. |
| `Supply_requests` | holds | Netting over every bill of three materials (512, cyclic ones too) and a chain that is too deep, four lists of demand, three of purchases, two of production and two balances; up to three runs and two planners; two clerks with two receipts on one or two lines; two inspectors and an alert handler. |
| `Services_requests` | holds | A meter and its runs, a gateway with two points, ten kinds of cases, a plan and a fault, weights and an evaluation with four dimensions; two users at once on each. |
| `Outbox_crash`, `Procurement_rest`, `Planning_levels` | violated | see section 5 |

**Bounds.** They are constants or sets in the `.cfg` files, or constraints of the MC module.
- Stock: `MaxDocuments = 3` lets a receipt be followed by another document and that be
  reversed. `Amount`, the amounts reserved, and stock of two units make partial
  consumption, partial release, exact cover and shortage all happen. Two owners are needed to
  take from each other; a third would repeat what the second does. In the scenario of orders
  stock comes in once, first; in that of quality there is one reservation, of one unit.
- Locks: `Supply` (two and one) covers one order but not both; two dimension keys suffice
  for a circle of waits; `MaxRetries = 2` allows one retry and one failure, the code's value
  is larger and repeats the same step.
- Outbox: `MaxAttempts = 2` has an attempt that may be retried and a last one. `Batch = 2`
  lets a dispatcher hold an old list while another works; `MaxEvents = 2`, `MaxCrashes = 1`,
  `MaxReplays = 1` allow each disturbance once, at any place.
- Approvals: `MaxInstances = 3` lets a document be submitted, approved by hand, returned and
  submitted again; the subject `orders` has two, one for each of two documents or one
  document resubmitted, and `boms` three, of which one is filed by hand. `MaxEdits = 2` lets a
  document say something else each time (`boms`: 1, a version is edited after a withdrawal); a
  route of two steps has a step that is not the last, and what is filed by hand has the
  route of one step, by which it overtakes.
- Numbers and versions: two numbers and two days have a reset, two versions a predecessor
  and a successor, and the lines include a repeated material and a substitute. Creations
  overlap only in the subject `numbers`, where every creation has one line; elsewhere one
  is made at a time.
- Access: `MaxVersion = 2` and `MaxAdminCalls = 3` let a version be raised twice while one
  request is between its reads; one code tells full from empty. The proof has none of these
  bounds.
- Scopes: scopes of every type with and without a company, up to two roles, rows of
  two companies, three tables with different fields. Pages: `MaxPageCalls = 4` has an
  older and a newer load beside a write and the load after it; five passes as well.
- Idempotency: `MaxCleanups = 1` lets each key be used before and after its record was removed.
- Sales: two shipments per behaviour make a partial and a completing one, or two drafts that
  compete; one return is drafted, edited, posted and inspected or cancelled; three order
  lines give one order two lines of the same material, so that consumption can cross
  lines, and a rival. Production: quantities one and two have partial and full reports.
- Supply: with three materials a material can be reached by two paths of different length;
  two receipts compete for one line; `MaxRuns = 3` puts a newer run after an archived one.
- Services: one meter or gateway with two readings and one alarm, at two moments, has a
  back-dated reading, a duplicate and a suppressed alarm; two cases compete for one
  device; of the dates of a plan more are due than one call makes; two repairs of one
  report overlap. An evaluation is made by the first version of the weights.

**Symmetry.** Request keys, users, administrators, roles, callers and the two BOM versions
(which have the same route and scope) are permuted where the model just compares them, and
only in runs without liveness.

**Deadlock checking** is on in `Sales_orders`, where orders can always be released, and in
`Production_orders`, where an inspection can always be retrieved or made. It is
off elsewhere: behaviours end when documents, events or calls are used up.
Waiting in a circle is a property instead (`DeadlocksNeedReserving`, `EveryCallEnds`).

**Fairness.** Only where liveness is checked.
- `StockLocks` (`LocksFairness`): weak fairness of each call's own step (a request that was started keeps
  running; whether one is started is left open) and of the database breaking deadlocks
  (InnoDB's detector is on by default).
- `Outbox`: weak fairness of each dispatcher and of retry times passing. The repository
  registers the dispatch task; its periodic schedule is a row of django_celery_beat, so
  that it is started again and again is an assumption about the deployment. Nothing is
  assumed about the people who replay. `Crash` is not fair and, because a dead
  dispatcher's event is not taken up again, `EventuallySettled` excludes behaviours with
  crashes; `Outbox_crash` shows why.
- `Idempotency`: weak fairness of each begun request (`MCFairSpec` states it for behaviours
  about calls, and nothing for the others).

## 4. The proofs

Each theorem is proved (`tlapm <module>.tla`) for every value of the constants: any
number of materials, documents, dispatchers, events, calls, planners, inspectors, accounts,
any amounts and any bound on a behaviour. Theorems marked + state properties that no run
checks any more.

| Theorem | Statement |
|---|---|
| `StockProofs!TypeCorrect` + | types; in particular no bucket becomes negative |
| `StockProofs!ReservedMatchesReservations` | the reserved bucket is the sum of the open reservations |
| `StockProofs!PromisesAreCovered` + | the reserved bucket never exceeds the stock on hand |
| `StockProofs!LedgerIsTheBalance` | the ledger replays, row by row, to the balance table |
| `StockProofs!StatusIsTruthful` + | a reservation's status tells whether and how it ended |
| `StockProofs!OwnersAreSeparate` + | a step changes the reservations of one business document at most |
| `ConcurrencyProofs!NobodyIsToldTwice` | no user is notified of an event twice |
| `ConcurrencyProofs!DoneIsTruthful` + | a done event's handler ran to the end |
| `ConcurrencyProofs!DeadIsTruthful` + | a dead event used up its attempts, a failed one has attempts left |
| `ConcurrencyProofs!ProcessingHasAnOwner` + | without crashes, an event in processing is in a dispatcher's hands |
| `ConcurrencyProofs!ClaimsExclude` + | without replays, one dispatcher works on an event |
| `IdempotencyProofs!KeysWorkOnce` | between two cleanups a key's work is done once |
| `IdempotencyProofs!OneIsToldItExecuted` + | of the calls that get one result, one is told it executed |
| `IdempotencyProofs!AnswersFitContent` + | with an injective fingerprint, answers are those of the content asked for |
| `ApprovalProofs!ApprovalsAreOfTheContent` | what is approved is what was submitted, except as an approval submitted by hand decides an order |
| `ApprovalProofs!SubmittedIsNotStuck` | a submitted document has its own approval, of its present content, to decide; another only if one was submitted by hand |
| `ApprovalProofs!StepsAreDecidedOnce` + | each step of an approval is decided once, by one of its candidates |
| `ApprovalProofs!VersionsReplaceEachOther` | at most one version of a scope is in force |
| `SalesProofs!TypeCorrect` + | types; in particular no stock becomes negative |
| `SalesProofs!ShipmentsConsumeOwnReservations` | what an order shipped of a material is what its own reservations gave |
| `SalesProofs!StatusIsTruthful` + | an order's status is the one its shipped quantities call for |
| `SalesProofs!NothingHeldInVain` + | an order holds no more than it has yet to ship, an ended one nothing |
| `SalesProofs!LinesFollowDocuments` | totals of order lines are those of the posted documents |
| `SalesProofs!QuarantineIsExplained` | what lies in quarantine is what returns brought where their rows say |
| `SupplyProofs!SuggestionsAreFollowed` | one document is made of each converted suggestion, none of others, and of the newest run when the conversion looked |
| `SupplyProofs!JudgementsAgree` | an inspection whose calls did not overlap agrees with its results |
| `SupplyProofs!FailuresHaveAlerts` | a failed inspection has an alert, however calls overlap |
| `SupplyProofs!OrdersPostOnce` | a production order posts at most one issue and one receipt, and shows what the issue took |
| `SupplyProofs!DeliveriesAreMade` | what an order delivered is what its last step qualified; stock is what the documents say |
| `SupplyProofs!StepsAreReported` | a step shows the sum of its reports, within the plan, and is completed when the plan is reached |
| `SupplyProofs!GatesArePassed` | a finished order made its plan in every step, and its gates are still passed |
| `ApprovalProofs!VersionNumbersRunOn` | the versions of a scope are numbered from one on |
| `ApprovalProofs!ApprovedVersionServes` | planning and production are given the version approved last |
| `ApprovalProofs!GivenCodesAreNew` | a number that the rule gives is no stored document's |
| `ServicesProofs!StagesArePassed` | no case stands at a stage whose earlier stages it has not passed |
| `SalesProofs!WeightsAreShared` | effective weights are the version's, or a hundred together, none negative, each its share to the rounding of the others |
| `ServicesProofs!WorkStaysPlanned` | no date of a plan is passed over, no fault is under repair without a repair task |
| `IdempotencyProofs!CachedCodesStayCurrent` | the codes cached under an account's version are those of its active roles |
| `IdempotencyProofs!ListsTellTheTruth` | a list page at rest shows what was asked for, or says that it failed |
| `IdempotencyProofs!FurtherRolesHideNothing` | a further role of the same type hides no row, but in the two cases of `Narrows` |
| `StockProofs!ServiceKeepsPromises` | the stock service implements `StockPromises` |
| `StockProofs!LedgerIsOfDocuments` | the ledger has exactly the movements of each posted document, and their opposites for each reversed one |
| `ConcurrencyProofs!LocksKeepPromises` | interleaved at their row locks, calls implement `StockPromises` |
| `ConcurrencyProofs!ClosedOrdersStayEmpty` | a closed order holds nothing |
| `ConcurrencyProofs!OnlyReservingDeadlocks` | a circle of waiting calls has a reserving one in it |
| `ServicesProofs!ProcurementTyping` + | types of orders, receipts and calls |
| `ServicesProofs!ArrivalsCountOnce` | what a line received is what its posted receipts brought, within what was ordered, and the warehouse has it |
| `ServicesProofs!StatusTellsTheTruth` | the status of a purchase order tells how much of it arrived |
| `ServicesProofs!DevicesTyping` + | types of meters, runs, alarms, gateways and reports |
| `ServicesProofs!EverythingSeenIsAlarmed` | every value over its limit, every wasteful run and every offline gateway has its alarm, or one that suppresses it |
| `ServicesProofs!ProcessedMeansRead` | a message is processed exactly if a reading came of it |
| `StockProofs!NettingTyping` + | types; codes stay within `MaxLevel` |
| `StockProofs!NetRequirementsCover` | net requirements up to any day are the worst shortfall until then |
| `StockProofs!BillsAreFollowedDown` | no circle is netted, no run refused without one or a chain too deep; right codes give every material all its parents lack |

### Stock

The inductive invariant `Inv` is the conjunction of `TypeOK`, `BucketsWithinOnHand`,
`LedgerReplaysToBalance`, `ReservationInv` and `PostedDocumentsValid`. None of the parts
is inductive by itself:

- `ReservationInv` puts together that the reserved bucket is the sum of the open
  quantities, that no reservation is overdrawn (`NothingOverdrawn`) and that statuses
  are right. The sum is kept by a posting only because greedy consumption takes at most
  what is open, and only from active rows; that a row that is not active has nothing
  left to take is the status part.
- `PostedDocumentsValid` (a posted document satisfied `PlanValid`) is what makes the
  movements of a reversal well-typed: an unvalidated draft may lack a target quality.
- the ledger part needs the types of the movements and that appended rows start from
  the prefix sum reached so far.

The argument: every operation is either a list of movements written with consumption
(`WriteKeepsTables`, used by posting, reversal and quality release), a giving back
(`GivingBackKeepsInv`, used by both releases), a new reservation, or a change of drafts.
`SumLemmas` proves what prefix sums do: they are natural for naturals, additive,
compatible with concatenation, and change in one point when the sequence does. It reaches
these by the library's well-foundedness of the naturals on sets of counterexamples, since
induction schemes with operator parameters are outside what the provers instantiate. In
the same way `RecursionUpTo` gives a recursive function on `0..n` its two equations, which is
what the walk over departments (`Scopes`) and over bills (`Netting`) is proved with.

`LedgerMatchesDocuments` gives each document a block of rows of the ledger: for its posting
the rows of that document which are no reversal are consecutive, as many as its movements and
the same. `Matches` says so of any documents and any rows, and with `Inv` it is inductive. A step
that posts appends one block, and shows that
no row of that document was there; any other step leaves the rows and the plan of every posted document alone,
as only drafts are edited.

The refinement (`ServiceKeepsPromises`): what is promised to an owner at a dimension is the sum
of the open reservations there, so a posting has to be shown to consume, per owner and
dimension, at most what was open, and to consume from no other owner; that is a sum over the
reservations in which only those of the document's owner change.

### StockLocks

`LocksInv` says of every call what its stage, its locks and its list of further locks mean.
`OrderFirst`: a call on an order has its row before all else, so the order stays open while
it runs. `ReadsStand`: what was read under a lock is still true, since whoever writes a
balance holds it (`LocksExclude`). `PostingSound` and `CloseSound`: a reservation is locked, read
and written under the lock of its balance. With these, the step that commits writes what an atomic
call would, and every other step stutters. For closing, that is less obvious than it looks: its list of
reservations is read without a lock, and is complete only because the order's lock keeps others
from adding to it; a document posted by hand does not take that lock and may have reduced them,
which the row lock under the balance shows.

`Climbs` says that balances are asked for in ascending order, reservations right under theirs, and nothing twice. In
a circle of waiting calls of which none reserves, each would wait for a balance (or a
reservation under it) whose holder waits for a later one, so the one with
the latest balance waits for nobody. An order's row is out of it, because who waits for one holds nothing.

### Outbox

`Inv` adds three facts to the properties. `OneNoticePerEvent` is the unique key as it
works (`ToldOnce` alone would let two users be told and is not what the insert checks).
`HandledMeansDelivered` says that a dispatcher past the handler has delivered its event,
whatever others did to the row meanwhile; `DoneMeansTold` is kept by the mark only
because of it, as the mark looks at nothing. `ClaimsHold` says that without replays a
dispatcher's event stays in processing, so that nobody else can claim it;
`OneDispatcherPerEvent` rests on it. The proof has one lemma per kind of step: moves that
leave the tables alone, the claim, the handler, marks, and writes by people and clocks.

### Idempotency

`Inv` adds `OneRunsPerKey` (at most one call is inside the work of a key, none while the
key has a record: what the unique key's lock gives), `RecordsAreOfEffects` and
`AnswersAreOfTheKey`. `WorkIsDoneOnce` needs the first: an effect may be added only by a
call that runs beside no record.

### Approval

`Inv` adds what connects the two tables: `SubmittedOwn` (what is submitted has its own
approval pending, of its content), `OwnPending` (a pending approval that was made by a
submission is the document's own, and the document waits for it unchanged or was cancelled
under it, unless one was submitted by hand), `ApprovedOwn`, and `DraftsFiled` (only approvals
filed by hand are ever drafts). They hold across a callback because of `DecisionHolds`:
whoever has a transaction open still may end that approval; a callback that found the
document otherwise than submitted will not find it waiting for this approval; and what a
callback of a BOM or routing found submitted stays so, under its lock. That lock is
exclusive (`DecisionsDisjoint`), which is why a version says what was submitted even when
approvals filed by hand end beside its own. `FoundInForce` keeps a replaced version from being anything but in
force when it is made obsolete. For one version in force, `ReplacingAlone` says that of
each scope one transaction at most is past its locking read and knows every version in
force; this is where the scan by scope is needed.

### Sales

`Inv` adds to the five properties what carries them across a posting.
`LinesWithinBounds` and `ReservationsWithinBounds` (what is consumed and released of a
reservation stays within it, and it was made for at most what the line ordered) bound
the columns; `HeldIsOnHand` (per place, the open reservations are on hand) is why an issue
that the reservations cover never makes stock negative, although `PostShipment` does not
look at the stock. `DocumentsConsistent` says that a document's rows are all of its order
and that a return names a shipment there is. `EndedHoldNothing` is the second part of
`OrdersHoldOnlyWhatTheyShip`; the first follows from the bounds of reservations and from `ShippedComesFromReservations`, which hold because greedy
consumption takes in total exactly what goes out, if not line by line. The heart of the
proof is that total: `Taken` summed over the lines of an order at a place is what the
document issues there (a telescoping sum over prefixes), and summed over places what the
rows come to per material, though rows and reservations belong to different lines.

### Suggestions and Inspections

`SuggestionsInv` adds that a planner's transaction holds an open suggestion which nobody
else holds (`HoldsOpen`, `HeldApart`), and that links and converted suggestions correspond one to
one (`LinkOfConverted`, `LinksApart`, `ConvertedIsLinked`). One document per suggestion
counts links; the proof turns the correspondence into a cardinality of one or none. That a
document was made from the newest run survives because runs are only completed at the end
of the list and archived for good.

`InspectionsInv` says of a call that nothing overlapped that its row is the table's row
still (`ReadsCurrent`), which is what a lock would give; `CallsApart` that two calls on one
inspection make it overlapped. With these, a guard on the retrieved row is a guard on the
table. `FailuresAreAlerted` rests on `Alerted` instead: also an inspection that had failed
when a call retrieved it has an alert, because that call may write the judgement back.

### Production

`DocumentsInv` says what the header form may do to an order. `HeaderIsDraft`: what it retrieved is
a draft without documents, so what it saves is one too, whatever the order has become.
`NothingBeforeRelease`: an order without steps has no documents and no reports; this is why the check
for steps in `ReleaseOrder` is what keeps an order that the form made forget its documents from
running, and posting, again. `KnowsDocuments`: while an order runs or is finished, the
documents it notes are all it has. `ProductionInv` adds that steps show the sums of their
reports (`CountsReports`), within the plan (`StepInPlan`), that what was delivered is what the last
step shows (`Delivered`: nothing is reported after a receipt), and that gates stay passed
(`StepIsDone`). For the last, `JudgementStays` shows from `InspectionsInv` that no call which did not
overlap another changes a judgement that lets an order through.

### Procurement

`ProcurementInv` says of every order (`OrderHolds`) that its lines received the sums of the
posted receipts, within what was ordered (`LineHolds`), that its status tells this
(`Told`), and that an order which is not in force has nothing live, on the way or arrived (`NothingLive`).
Between a call's check and its write others commit, so it says of the call as well (`Held`) that what it
checked was for an order that is open still, or for a draft that is one still: the locks the call
holds. An approval in progress is of an order that was submitted or cancelled since,
so that saving its outcome can bring back a cancelled order, but never one with receipts.
The sums are over sets of receipts and change in one summand when one is posted or cancelled.

### Netting

What a recursive function computes is an induction over data, which is within reach here
because each such function is one on `0..n` (`RecursionUpTo`) and the induction is one
over numbers (`SumLemmas`). `NettingInv` has three parts.

- `Walk`: the calls of `_build_graph` in progress are a path of distinct materials from a row of demand, one deeper each
  (`Walking`), the materials met are those with a code, and of a call the lines done lead to materials
  that were met and are not on the path. `Ranked` says of the materials that were left that some
  ranking falls along every line of their bills; a material that is left gets a rank above all below it. When the
  path is empty, all that was met has a rank, so nothing met is below itself, and all that is reachable was met.
- `NetsOnce`: materials are netted by ascending code, and the demand so far is that of
  customers plus what the netted ones lack (`Lacking`, a sum that grows by one summand).
  Where codes descend, nothing is added to what was netted before, so at the end the demand
  that was taken is all there is. Where they do not descend (`Planning_levels`), that fails.
- `AllCovered`: the net requirements of each netted material up to a day are its worst shortfall, by
  induction over the days with what is left in stock as the other half of the claim.

### Versions and Numbers

A creation commits a version under a number that it read before others committed. `VersionsInv` says that
the numbers of a scope are all there (`NumbersUsed`) and that a number that was read is never
ahead of the next one (`NotAhead`): then a number which is not taken, as the unique key
demands, is the next one. `LatestKnown` says that no version but the one approved last is in
force. `CodesInv` says that one transaction at a time holds a number it has taken
(`OneTakes`, the lock on the counter), which is the next of its period (`TakenIsNext`), and that the
counter is not below any code it gave (`CodesCounted`); the code tells its period only if the
rule shows the period it resets by, hence the condition on rules.

### Pages

`PagesInv` says of the newest load that it is for what the page asks (`Tells`), and
that its rows are the table's unless a write of this page was carried out and not yet answered.
That answer starts another load, so at rest the newest load is the truth.

### Cases and Equipment

`CaseInv` says of the rows *and* of what requests have read that the earlier stages were passed
(`Stands`). As `passed` only grows, a stale row is as good as the table's: this is why cases
without locks are safe in this respect, although a stale form can bring a closed case
back. `EquipmentInv` does the same for what a request read of a plan, a report or a repair
task (`SheetHolds`).

### Evaluations

That the weights of scored dimensions come to a hundred is arithmetic: the heaviest takes what the
shares of the others leave. What takes an argument is that this is not negative.
`RoundedIs` puts each share within half a unit of the exact one, so the shares of *m* others
are together within *m* halves (`SharesOfOthers`, by sums over the dimensions); the heaviest has
at least the *m + 1*st part of the pool (`HeaviestIs`, `ScoredCounted`), and
`WhatIsLeft` concludes, as long as there are few dimensions for a hundred:
`FewDimensions` assumes `Dimensions * (Dimensions - 1) <= 2 * Hundred`. With very many dimensions
most shares could be rounded up to more than there is; the code has five, of ten
thousand hundredths of a percent. `EvaluationInv` adds that forms hold
drafts: a stale form can take a publication back, but publishes nothing without a total.

### Energy and Ingestion

`DevicesInv` adds to the properties that what a form read of an offline gateway was read
after its alarm (`EditsKnow`), because saving it makes the gateway offline again; and that readings are of
messages there are. No step takes an alarm back, so what is covered stays covered, and what
is suppressed is covered by the alarm that suppressed it. Storing the points of a report one
after the other is a recursive function; that it only adds rows (`Grows`) is an induction over
the points.

### Access

`AccessInv` says what a request knows (`KnowsRoles`, `KnowsCodes`): as long as the account
still has the version under which it was loaded, and is not excepted, the roles and codes it
read are the account's. `VersionsArePast` says that no entry and no request has a version
the account has yet to reach, so that a raised version has no entries, unless a form set it
back.

### Assumptions and limits

Each module names its assumptions on constants, and TLC evaluates them in every run:
`SentinelsFresh`, `HomeLocations`, `InputsTyped`, `BoundTyped` in `Stock`, `LinesTyped` and
`InputsTyped` in `Sales`, and one or two (`...Inputs`, `...Typed`) in the others; they type
the constants and keep sentinels apart from values, but for `FewDimensions` in `Evaluations`. Two theorems assume more, in their
statement: `AnswersFitContent` an injective fingerprint, `VersionsReplaceEachOther` the
scan by scope.

`FurtherRolesHideNothing` needs no invariant but the types: what a set of roles shows is
compared before and after, for each type of scope; that a wider set of departments has a
wider set of descendants is an induction over `LEVELS`.

Only model-checked, and why:

- `EventuallySettled`, `EveryCallEnds`, `EveryCallAnswered`: liveness, for which the fair
  steps would have to be shown enabled (ENABLED is out of reach here).
- Runs that are expected to be violated state what the documents claim, and have no theorem.
  The invariants that are proved beside them say what holds instead.

## 5. Where documents and code disagree

Each of the first three is a run that TLC finds violated.

- **Delivery is not at least once** (`Outbox_crash`). An event whose dispatcher dies after
  the claim stays in `processing`; only a replay by hand brings it back.
- **The rest of an order is refused** (`Procurement_rest`). Posted receipts are taken off what
  a line may still receive twice, once as `received_quantity` and once as rows of receipts
  that were not cancelled, so after a partial delivery the rest cannot be received.
- **A component is netted before its parent** (`Planning_levels`). `_build_graph` deepens the
  code of a material that a longer path reaches later, but not those of its components,
  which it does not walk again; the demand its parent explodes later is lost.
  `DerivedDemandIsNetted` shows that all demand is netted where codes are right.

The next were checked as runs earlier and are explained by the models; they are not run any more.

- **A second approval decides.** `workflow/registry.py:3-4` says that a document must take over
  the result when its approval ends. `POST` on approvals and on their `submit` take any
  `biz_type` and `biz_id` (`workflow/views.py:171`, `serializers.py:189`), and the five
  callbacks ask only whether the document is submitted, never whether the instance is its
  `approval_instance` (`sales/services.py:295`, `procurement/services.py:267`, `565`,
  `planning/services.py:422`, `768`). So a document can have two approvals pending, the one with the
  shorter route decides it and its own is left open to decide a later submission; an
  approval given before the document was submitted is lost; and of orders, which no callback locks, a
  draft that was edited after a withdrawal can become approved. `ApprovedAsSubmitted` and
  `SubmittedAwaitsDecision` say what remains.
- **Reserving deadlocks.** `docs/inventory-rules.md:231` promises one lock
  order. `reserve_order_stock` goes by line number, `reserve_stock` inserts before it
  locks the balance, and reserving is not retried. `DeadlocksNeedReserving` shows that
  all other calls keep the promise.
- **One candidate is told.** `Notification.source_event_id` is unique by
  itself (`core/models.py:357`), so of several candidate approvers the first is notified.
- **A cancellation is overwritten.** The callbacks of orders and
  requisitions read the document without a lock, check that it is submitted and save the
  outcome; a cancellation committed in between is lost, although cancelling locks the row
  (`sales/services.py:291`, `procurement/services.py:565`).
- **Partial fingerprints.** Some endpoints leave part of the request out
  of the payload they have hashed (`mes/views.py:180` and the receipt after it); another
  request with that key gets the old answer.

Noticed while modelling, by part; the models behave like this and their properties say so
by what they except.

*Saving forms.* The generic PATCH writes back every column it read, and `BaseModel.save`
raises `version` unconditionally, so `assert_version` does not prevent lost updates
between two requests that both read before either wrote. An unlocked form can undo a
status (`PatchHeader`, `SaveCase`, `SaveMeter`, `SaveGateway`, `SaveHeader`).

*Production, quality.* The header form can make a draft of a running order
(`ReleaseOrder` then refuses it for its steps), and a released order can be cancelled after
its materials were issued, which nobody gives back. Two calls on one inspection can pass
it with a failing result (`overlapped`).

*Planning.* Draft orders made from suggestions are not counted as supply by the next run. A run that
completes between a conversion's look and its commit does not stop it.
`get_effective_*` ignore `effective_from` and `effective_to`. Approving a draft that was
switched off obsoletes the old version and leaves none in force. A BOM with a linked
substitute line can never have its lines replaced (`substitute_for` is PROTECT), although
drafts are said to be editable (`planning/models.py:4`).

*Numbers.* A typed code equal to one that the rule will come to makes every later
generated creation fail there, because the number rolls back with it. A rule that resets by a period its pattern
does not show repeats its codes, and is accepted (`core/services.py:412`).

*Energy, devices.* Back-dated readings count consumption twice and set `last_reading_at`
back; a late reading over the limit raises no alarm when a later one is open. A report the
rate limit rejects leaves no message, where `docs/business-flows.md:270` expects one; the
offline check can save over a fresh report and show a reporting gateway offline.

*Cases, equipment.* A permit can be worked on after a stale form took its guardian away
(`passed` remembers that there was one; `ehs/services.py:335`). Two tasks can execute on one
device, which `docs/assumptions.md:211` excludes: only dispatching looks for another
that executes, and both may be dispatched before either starts. A task that was
completed can be completed again, against the transitions at `equipment/models.py:342`, and a
repeated completion of a repair closes its report whatever other repair is under way.
`create_repair_task_from_report` makes a second repair task of a report that has one, where
`docs/business-flows.md:120` promises that none is made twice.

*Supplier evaluation.* `set_active` can leave two weight versions active
(`srm/models.py:250`); a stale header save leaves policy and total that its lines do not
have.

*Identity.* `update_role` raises no version although `identity/models.py:191` says that a
change of a role counts at once: cached codes stay until they expire (300 s); the same for
a role changed while it is being assigned (`behind`). `update_user` writes back the
`permission_version` it read (`rewound`). Concurrent calls on one role's permissions merge
their rows. Of scopes: a wider type hides what narrower or custom grants showed, a
custom role that names only companies is narrowed by one that names parts, and the first
boundary an account gets narrows all its roles (`Narrows`).

*List pages.* A late answer of an older load replaces newer rows; `loading` ends while
another load runs; the message of a failure stays after an older load succeeds; an answer
to an earlier submission closes the form opened later. Forms send no
`expected_version`, so that the branch for `VERSION_CONFLICT` is never taken and whole
rows overwrite others' changes. `omitEmpty` drops the nulls by which `buildPayload`
means to clear a field.

*Stock, sales, events, from before.* `docs/api-conventions.md:233` and
`docs/architecture.md:137` name `FAILED` as the end of exhausted retries where the code
has `DEAD`; `docs/architecture.md:134` counts attempts on the claim, the code counts
failures only; `idempotent_execute` reports a business function's own duplicate key as
`IDEMPOTENCY_IN_PROGRESS`; `reserve_stock` called with the request key of an ended
reservation returns that row as if it were held; a move, a quality conversion or a
write-off that names a business document consumes its reservations as an issue does,
although `docs/inventory-rules.md:207` calls consumption an outbound; two lines of one
issue that fit the stock singly pass the service's check together and end in the CHECK
constraint, where `docs/inventory-rules.md:122` lets the service refuse; a dispatcher with
an older list takes a failed event before its back-off has passed, as the claim looks at
the status only. Of orders: a line whose reservation was released
can never be reserved again, because its request key is fixed and `reserve_stock` answers
with the ended row, so it can never be shipped, and the call reports success
(`sales/services.py:410` promises only that clicking twice reserves once); a repeated
reserve call can be refused with `STOCK_SPLIT_ACROSS_DIMENSIONS` because of stock it no
longer needs, since the place is chosen before the key is looked at. `post_shipment` and
`post_return` without an `Idempotency-Key` fail: the decorator `@transaction.atomic`
stands on the helpers above them (lines 698 and 1011), so their locking reads run outside
any transaction, which Django refuses; tests do not see it because a test case is a
transaction. And drafts that count in the check of
`_assert_shipment_quantities` do so against an order line read earlier, and one row at a
time, so that the limit it documents can be overrun; posting checks again.
With `ScansByStatus` two versions of one style that are approved at once
are both in force: `docs/assumptions.md:115` notes that this guarantee was never tested
under concurrency, and no constraint backs it.

## 6. What is not modelled

- Login, locking of accounts, passwords, notifications and the audit trail: rows of one
  writer, or only written. Super users, who have every code. Deleting a role has a service
  function and no route (`RoleViewSet.http_method_names`).
- Records without transitions of their own: customers, contacts, suppliers and their
  qualifications, equipment and spare parts, regulations, training, drills, monitors,
  wastes, materials, styles, warehouses, factories; and the read-only `analytics`.
- Of list pages: filters (loads with another query), details, options and deletion. Other
  screens, deployment, and the commands that make seed data.
- `Sales` begins with approved orders, and `Procurement` has one approval of an order in
  progress at a time (`deciding`). Approvals filed by hand are in `Approval` only: there two
  outcomes of an order may overlap, and the later one could save `approved` over a status
  that shipping or receiving has set since. So what `StatusTellsWhatArrived` and the
  properties of `Sales` say is assumed of orders that have no such second approval.
- `FinishRun` takes the consumption of a run from the readings; a caller may also give it.
  The switch that turns off the alarms of a single point is left out: every point raises them.
- What is not caught. `EventuallySettled` excludes crashes; a dispatcher's death shows in
  `Outbox_crash` alone. `JudgedByItsResults` leaves out inspections whose calls overlapped;
  of that race `FailuresAreAlerted` and `FinishedOrdersPassedTheirGates` say what survives. The list page's property
  excepts a late answer of an older load. `StagesWerePassed` notices a skipped stage, not
  one passed twice or a document that was approved and rejected at once.
- In modelled parts: timestamps other than those properties compare, prices, costs,
  wording. The frozen bucket is never written by
  any service and stays zero. Lock wait timeouts end a call as a deadlock does, or are
  covered by a crash. Quantities are fixed-scale decimals; the models use integers of
  the smallest unit, and width does not matter because nothing wraps. The business
  function under `idempotent_execute` is one effect or a refusal. Events carry a topic
  for their payload. Several documents are told apart by their order where their number
  does not matter.

`PROJECT.json` lists every component with its status and the reason, and every hazard
with the line where it bites and the properties that would notice.

## 7. Plan

Done: every component that has state transitions of its own is modelled, at least in its
transitions, and every safety property that a passing run checks is proved,
and so are both refinements of `StockPromises`.

What would come next, each with what it needs:

1. `Versions` on top of `Approval`, so that the steps of an approval and the creation of
   further versions interleave in one module.
2. The audit trail as a history of what the other modules commit.
