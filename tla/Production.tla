------------------------------ MODULE Production ------------------------------
(***************************************************************************)
(* Production orders (apps/mes/services.py) with their quality gates: an   *)
(* order is released with a frozen routing and material list, takes its    *)
(* materials from stock in one issue document, is reported step by step,   *)
(* completed once every step is full and every gate has passed, received   *)
(* into stock in one receipt document, and closed.                         *)
(*                                                                         *)
(* Every call locks its order first and is one step.  The header form does *)
(* not: it retrieves a draft, and later saves all columns of it.  The      *)
(* judgement of an inspection is read without a lock, while its users go   *)
(* on as module Inspections says.                                          *)
(*                                                                         *)
(* Abstracted: stock is the usable quantity of a material in its           *)
(* warehouse, and posting a document moves it at once (module Stock); what *)
(* an order displays of its steps' totals is read from the steps; times,   *)
(* persons, workshops, permissions, numbers, events and audit records.     *)
(***************************************************************************)
EXTENDS Inspections, Sums

CONSTANTS
  Order, Material,
  Product,       \* what the orders make, a material too
  Quantity,      \* the quantities callers plan
  Outcome,       \* what callers report
  Routing,       \* routings that may be in force at a release: which steps are gates
  Bom,           \* material lists that may be in force: the quantity per piece
  Materials,     \* material lists and issue lists written by hand
  Supply         \* the stock there is at the beginning

List == [Material -> Nat]
EmptyList == [m \in Material |-> 0]

ASSUME ProductionInputs ==
  /\ Product \in Material /\ Quantity \subseteq Nat \ {0}
  /\ Routing \subseteq Seq(BOOLEAN) \ {<<>>}
  /\ Bom \subseteq List /\ Materials \subseteq List \ {EmptyList}
  /\ Supply \in List
  /\ \A r \in Outcome : /\ r.quantity \in Nat \ {0}
                        /\ r.qualified \in Nat /\ r.rework \in Nat /\ r.scrap \in Nat
                        /\ r.qualified + r.rework + r.scrap = r.quantity

OrderStatus ==
  {"absent", "draft", "released", "in_progress", "completed", "closed", "cancelled"}
\* issue and receipt are the numbers of stock documents, 0 for none.
OrderRow == [status : OrderStatus, quantity : Nat, issue : Nat, receipt : Nat]
Step == [gate : BOOLEAN, status : {"pending", "in_progress", "completed"},
         reported : Nat, qualified : Nat, scrap : Nat, inspection : Nat]
Report == [order : Order, step : Nat \ {0}, outcome : Outcome]
Document == [order : Order, type : {"issue", "receipt"}, list : List]
HeaderCall == [open : BOOLEAN, row : OrderRow]

VARIABLES
  orders,       \* ProductionOrder rows
  steps,        \* ProductionOrderStep rows of each order, by sequence
  required,     \* ProductionOrderMaterial.required_quantity; 0: there is no row
  issued,       \* ProductionOrderMaterial.issued_quantity
  reports,      \* ProductionReport rows
  documents,    \* posted stock documents with an order as their business reference
  onHand,       \* the usable stock
  patching      \* what the header form of each order retrieved

ordersVars == <<orders, steps, required, issued, reports, documents, onHand, patching>>
vars == <<inspections, results, alerts, inspecting, alerting, overlapped, moved,
          orders, steps, required, issued, reports, documents, onHand, patching>>

Absent == [status |-> "absent", quantity |-> 0, issue |-> 0, receipt |-> 0]

TypeOK ==
  /\ InspectionsTyped
  /\ orders \in [Order -> OrderRow]
  /\ steps \in [Order -> Seq(Step)]
  /\ required \in [Order -> List] /\ issued \in [Order -> List]
  /\ reports \in Seq(Report) /\ documents \in Seq(Document)
  /\ onHand \in List
  /\ patching \in [Order -> HeaderCall]

Init ==
  /\ InspectionsInit
  /\ orders = [o \in Order |-> Absent]
  /\ steps = [o \in Order |-> <<>>]
  /\ required = [o \in Order |-> EmptyList] /\ issued = [o \in Order |-> EmptyList]
  /\ reports = <<>> /\ documents = <<>>
  /\ onHand = Supply
  /\ patching = [o \in Order |-> [open |-> FALSE, row |-> Absent]]

-----------------------------------------------------------------------------
(* Planning.                                                               *)

CreateOrder(o) ==
  /\ orders[o].status = "absent"
  /\ \E q \in Quantity, list \in Materials \union {EmptyList} :
       /\ orders' = [orders EXCEPT ![o] = [Absent EXCEPT !.status = "draft", !.quantity = q]]
       /\ required' = [required EXCEPT ![o] = list]
  /\ UNCHANGED <<qualityVars, steps, issued, reports, documents, onHand, patching>>

\* Replacing the material rows deletes the old ones with what was issued on them.
UpdateOrder(o) ==
  /\ orders[o].status = "draft"
  /\ \/ \E q \in Quantity :
          /\ orders' = [orders EXCEPT ![o].quantity = q]
          /\ UNCHANGED <<required, issued>>
     \/ \E list \in Materials :
          /\ required' = [required EXCEPT ![o] = list]
          /\ issued' = [issued EXCEPT ![o] = EmptyList]
          /\ UNCHANGED orders
  /\ UNCHANGED <<qualityVars, steps, reports, documents, onHand, patching>>

\* perform_update finds a draft ...
RetrieveHeader(o) ==
  /\ orders[o].status = "draft" /\ ~ patching[o].open
  /\ patching' = [patching EXCEPT ![o] = [open |-> TRUE, row |-> orders[o]]]
  /\ UNCHANGED <<qualityVars, orders, steps, required, issued, reports, documents, onHand>>

\* ... and saves all of it, whatever the order has become: the status too.
PatchHeader(o) ==
  /\ patching[o].open
  /\ \E q \in Quantity :
       orders' = [orders EXCEPT ![o] = [patching[o].row EXCEPT !.quantity = q]]
  /\ patching' = [patching EXCEPT ![o] = [open |-> FALSE, row |-> Absent]]
  /\ UNCHANGED <<qualityVars, steps, required, issued, reports, documents, onHand>>

LeaveHeader(o) ==
  /\ patching[o].open
  /\ patching' = [patching EXCEPT ![o] = [open |-> FALSE, row |-> Absent]]
  /\ UNCHANGED <<qualityVars, orders, steps, required, issued, reports, documents, onHand>>

NewStep(gate) == [gate |-> gate, status |-> "pending", reported |-> 0, qualified |-> 0,
                  scrap |-> 0, inspection |-> 0]

ListToRelease(o, bom) ==
  IF required[o] # EmptyList THEN required[o] ELSE [m \in Material |-> bom[m] * orders[o].quantity]

\* Bug: an order that already has steps is released again.
ReleaseAgain(o) ==
  /\ orders[o].status = "draft"
  /\ \E routing \in Routing, bom \in Bom :
       /\ ListToRelease(o, bom) # EmptyList
       /\ required' = [required EXCEPT ![o] = ListToRelease(o, bom)]
       /\ steps' = [steps EXCEPT ![o] = [s \in 1..Len(routing) |-> NewStep(routing[s])]]
  /\ orders' = [orders EXCEPT ![o].status = "released"]
  /\ UNCHANGED <<qualityVars, issued, reports, documents, onHand, patching>>

\* A draft with steps is one that the header form made of a released order.
ReleaseOrder(o) ==
  /\ orders[o].status = "draft" /\ steps[o] = <<>>
  /\ \E routing \in Routing, bom \in Bom :
       /\ ListToRelease(o, bom) # EmptyList
       /\ required' = [required EXCEPT ![o] = ListToRelease(o, bom)]
       /\ steps' = [steps EXCEPT ![o] = [s \in 1..Len(routing) |-> NewStep(routing[s])]]
  /\ orders' = [orders EXCEPT ![o].status = "released"]
  /\ UNCHANGED <<qualityVars, issued, reports, documents, onHand, patching>>

\* Nothing is given back of what was issued.
CancelOrder(o) ==
  /\ orders[o].status \in {"draft", "released"}
  /\ orders' = [orders EXCEPT ![o].status = "cancelled"]
  /\ UNCHANGED <<qualityVars, steps, required, issued, reports, documents, onHand, patching>>

-----------------------------------------------------------------------------
(* Execution.                                                              *)

Started == {"released", "in_progress"}

Outstanding(o) == [m \in Material |-> AtLeastZero(required[o][m] - issued[o][m])]

\* Either what is outstanding or what the caller lists, in any quantity; only
\* materials that the order requires show what was issued of them.
IssueMaterials(o) ==
  /\ orders[o].status \in Started /\ orders[o].issue = 0
  /\ \E list \in Materials \union {Outstanding(o)} :
       /\ list # EmptyList
       /\ \A m \in Material : list[m] <= onHand[m]
       /\ onHand' = [m \in Material |-> onHand[m] - list[m]]
       /\ documents' = Append(documents, [order |-> o, type |-> "issue", list |-> list])
       /\ issued' = [issued EXCEPT ![o] =
            [m \in Material |-> IF required[o][m] > 0 THEN @[m] + list[m] ELSE @[m]]]
  /\ orders' = [orders EXCEPT ![o].issue = Len(documents')]
  /\ UNCHANGED <<qualityVars, steps, required, reports, patching>>

\* The first report on a gate creates its inspection.
EnsureGateInspection(step) ==
  IF step.gate /\ step.inspection = 0
  THEN AddInspection
  ELSE UNCHANGED <<inspections, results>>

GateInspection(step) ==
  IF step.gate /\ step.inspection = 0 THEN Len(inspections) + 1 ELSE step.inspection

Reported(step, planned, r) ==
  [step EXCEPT
     !.reported = @ + r.quantity, !.qualified = @ + r.qualified, !.scrap = @ + r.scrap,
     !.status = IF step.reported + r.quantity >= planned THEN "completed" ELSE "in_progress",
     !.inspection = GateInspection(step)]

\* Bug: each report is held against the plan on its own.
ReportOver(o, s) ==
  LET step == steps[o][s] IN
  /\ orders[o].status \in Started /\ step.status # "completed"
  /\ \E r \in Outcome :
       /\ r.quantity <= orders[o].quantity
       /\ reports' = Append(reports, [order |-> o, step |-> s, outcome |-> r])
       /\ steps' = [steps EXCEPT ![o][s] = Reported(step, orders[o].quantity, r)]
  /\ EnsureGateInspection(step)
  /\ orders' = [orders EXCEPT ![o].status = "in_progress"]
  /\ UNCHANGED <<alerts, inspecting, alerting, overlapped, moved,
                 required, issued, documents, onHand, patching>>

\* Steps may be reported in any order, and more of one than of the one before.
ReportProduction(o, s) ==
  LET step == steps[o][s] IN
  /\ orders[o].status \in Started /\ step.status # "completed"
  /\ \E r \in Outcome :
       /\ step.reported + r.quantity <= orders[o].quantity
       /\ reports' = Append(reports, [order |-> o, step |-> s, outcome |-> r])
       /\ steps' = [steps EXCEPT ![o][s] = Reported(step, orders[o].quantity, r)]
  /\ EnsureGateInspection(step)
  /\ orders' = [orders EXCEPT ![o].status = "in_progress"]
  /\ UNCHANGED <<alerts, inspecting, alerting, overlapped, moved,
                 required, issued, documents, onHand, patching>>

\* Bug: a gate that has not been judged does not hold an order up.
GateNotFailed(step) ==
  /\ step.inspection # 0
  /\ inspections[step.inspection].judgement # "failed"

GatePassed(step) ==
  /\ step.inspection # 0
  /\ inspections[step.inspection].judgement \in {"passed", "concession"}

CompleteOrder(o) ==
  /\ orders[o].status = "in_progress"
  /\ \A s \in 1..Len(steps[o]) :
       /\ steps[o][s].status = "completed"
       /\ steps[o][s].gate => GatePassed(steps[o][s])
  /\ orders' = [orders EXCEPT ![o].status = "completed"]
  /\ UNCHANGED <<qualityVars, steps, required, issued, reports, documents, onHand, patching>>

\* Bug: the pieces of the last step are received, good or not.
OutputReported(o) == steps[o][Len(steps[o])].reported

\* What the last step qualified, whatever was scrapped before it.
Output(o) == steps[o][Len(steps[o])].qualified

ReceiptFinishedGoods(o) ==
  /\ orders[o].status = "completed" /\ orders[o].receipt = 0
  /\ Output(o) > 0
  /\ onHand' = [onHand EXCEPT ![Product] = @ + Output(o)]
  /\ documents' = Append(documents, [order |-> o, type |-> "receipt",
                                     list |-> [EmptyList EXCEPT ![Product] = Output(o)]])
  /\ orders' = [orders EXCEPT ![o].receipt = Len(documents')]
  /\ UNCHANGED <<qualityVars, steps, required, issued, reports, patching>>

\* With or without a receipt; afterwards none can be made.
CloseOrder(o) ==
  /\ orders[o].status = "completed"
  /\ orders' = [orders EXCEPT ![o].status = "closed"]
  /\ UNCHANGED <<qualityVars, steps, required, issued, reports, documents, onHand, patching>>

-----------------------------------------------------------------------------
OrderCalls(o) ==
  \/ CreateOrder(o) \/ UpdateOrder(o)
  \/ RetrieveHeader(o) \/ PatchHeader(o) \/ LeaveHeader(o)
  \/ ReleaseOrder(o) \/ CancelOrder(o)
  \/ IssueMaterials(o) \/ \E s \in 1..Len(steps[o]) : ReportProduction(o, s)
  \/ CompleteOrder(o) \/ ReceiptFinishedGoods(o) \/ CloseOrder(o)

Next ==
  \/ \E o \in Order : OrderCalls(o)
  \/ InspectionsNext /\ UNCHANGED ordersVars

Spec == Init /\ [][Next]_vars

-----------------------------------------------------------------------------
(* Properties.                                                             *)

DocumentsOf(o, type) ==
  {k \in 1..Len(documents) : documents[k].order = o /\ documents[k].type = type}

\* An order takes materials once and delivers once, also when the header form
\* has overwritten what the order knows of its documents.  While the order knows
\* its issue document, its material rows show what that document took.
OneDocumentEach ==
  \A o \in Order :
    /\ \A type \in {"issue", "receipt"} :
         \A j, k \in DocumentsOf(o, type) : j = k
    /\ orders[o].issue # 0 =>
         \A m \in Material : required[o][m] > 0 =>
           issued[o][m] = documents[orders[o].issue].list[m]

Finished == {"completed", "closed"}

\* What an order delivered is what its last step qualified, and not more than was
\* planned.  Stock is the supply without what the issue documents took, those of
\* cancelled orders too, and with what the receipt documents brought.
DeliveredWhatWasMade ==
  /\ \A o \in Order : \A k \in DocumentsOf(o, "receipt") :
       documents[k].list[Product] = steps[o][Len(steps[o])].qualified
  /\ \A o \in Order : orders[o].receipt # 0 =>
       documents[orders[o].receipt].list[Product] <= orders[o].quantity
  /\ \A m \in Material :
       onHand[m] + Sum([k \in 1..Len(documents) |->
                          IF documents[k].type = "issue" THEN documents[k].list[m]
                          ELSE - documents[k].list[m]], Len(documents))
       = Supply[m]

\* The pieces of a step are what its reports say, and unless the header form made
\* a draft of a running order, no step is reported beyond the plan and it is
\* completed exactly when the plan is reached.
StepsFollowReports ==
  \A o \in Order : \A s \in 1..Len(steps[o]) :
    LET step == steps[o][s]
        OfStep(f) == Sum([k \in 1..Len(reports) |->
                            IF reports[k].order = o /\ reports[k].step = s THEN f[k] ELSE 0],
                         Len(reports))
    IN
    /\ step.reported = OfStep([k \in 1..Len(reports) |-> reports[k].outcome.quantity])
    /\ step.qualified = OfStep([k \in 1..Len(reports) |-> reports[k].outcome.qualified])
    /\ step.scrap = OfStep([k \in 1..Len(reports) |-> reports[k].outcome.scrap])
    /\ orders[o].status \in Started \union Finished =>
         /\ step.reported <= orders[o].quantity
         /\ step.status = "completed" <=> step.reported = orders[o].quantity

\* A finished order made all it planned in every step, and its gates were passed
\* on results that still say so, unless calls on an inspection overlapped.
FinishedOrdersPassedTheirGates ==
  \A o \in Order : orders[o].status \in Finished =>
    \A s \in 1..Len(steps[o]) :
      /\ steps[o][s].reported = orders[o].quantity
      /\ steps[o][s].gate =>
           LET n == steps[o][s].inspection IN
           /\ n # 0
           /\ n \notin overlapped =>
                /\ GatePassed(steps[o][s])
                /\ inspections[n].judgement = "passed" => Failing(n) = {}
=============================================================================
