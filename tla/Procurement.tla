----------------------------- MODULE Procurement -----------------------------
(***************************************************************************)
(* Purchasing (apps/procurement/services.py): orders, some of them made    *)
(* from requisitions, the receipts that arrive against them, and the       *)
(* inspection of what arrived.                                             *)
(*                                                                         *)
(* Calls lock the rows they judge and are one step, with two exceptions.   *)
(* A receipt is written in three: the view reads the order's lines, the    *)
(* service locks the order (to create) or only the receipt (to update) and *)
(* adds up what other receipts claim, and then writes the lines.  And the  *)
(* end of an approval reads the order without a lock before it saves it.   *)
(*                                                                         *)
(* Requisitions are approved ones: Approval models them up to there.       *)
(* Abstracted: one material and warehouse, prices and amounts, suppliers,  *)
(* permissions, idempotency keys (Idempotency, Stock), and other documents *)
(* that move the stock of a receipt.                                       *)
(***************************************************************************)
EXTENDS Sums, Sequences, FiniteSets

CONSTANTS
  Requisition, Order, Clerk,
  None,            \* no requisition, or no order
  Requested,       \* quantity of each requisition's line
  OrderLines,      \* the quantities of the lines an order may be given
  ReceiptLines,    \* the lines a receipt may be given
  MaxReceipts      \* bounds a behaviour

\* line is the number of the order line received.
ReceiptLine == [line : Nat \ {0}, quantity : Nat \ {0}]

ASSUME ProcurementInputs ==
  /\ None \notin Requisition \union Order
  /\ Requested \in [Requisition -> Nat \ {0}]
  /\ OrderLines \subseteq Seq(Nat \ {0}) \ {<<>>}
  /\ ReceiptLines \subseteq Seq(ReceiptLine) \ {<<>>}
  /\ MaxReceipts \in Nat

VARIABLES
  requisitions,  \* status of each and how much of it was ordered
  orders,        \* rows of the orders with their lines, in any status from none on
  receipts,      \* rows of the receipts with their lines, in the order of their ids
  deciding,      \* how far the approval of an order is: none, pending or read
  calls,         \* what each clerk's call to write a receipt has read
  warehouse      \* on hand of the receiving warehouse, by quality status

procurementVars == <<requisitions, orders, receipts, deciding, calls, warehouse>>

RequisitionStatus == {"approved", "cancelled"}
OrderStatus == {"none", "draft", "submitted", "approved", "partially_received", "received",
                "closed", "rejected", "cancelled"}
ReceiptStatus == {"draft", "posted", "inspected", "cancelled"}
InspectionResult == {"none", "qualified", "rejected"}

OrderLine == [quantity : Nat \ {0}, received : Nat]
PurchaseOrder ==
  [status : OrderStatus, lines : Seq(OrderLine), source : Requisition \union {None}]
GoodsReceipt ==
  [status : ReceiptStatus, order : Order, lines : Seq(ReceiptLine), result : InspectionResult]

\* receipt 0: the call creates one.  seen is received_quantity of the order's lines.
Call == [stage : {"idle", "looked", "checked"}, order : Order \union {None}, receipt : Nat,
         seen : Seq(Nat), lines : Seq(ReceiptLine)]
Idle == [stage |-> "idle", order |-> None, receipt |-> 0, seen |-> <<>>, lines |-> <<>>]

ProcurementTypeOK ==
  /\ requisitions \in [Requisition -> [status : RequisitionStatus, ordered : Nat]]
  /\ orders \in [Order -> PurchaseOrder]
  /\ receipts \in Seq(GoodsReceipt)
  /\ deciding \in [Order -> {"none", "pending", "read"}]
  /\ calls \in [Clerk -> Call]
  /\ warehouse \in [{"quarantine", "qualified", "rejected"} -> Nat]

ProcurementInit ==
  /\ requisitions = [q \in Requisition |-> [status |-> "approved", ordered |-> 0]]
  /\ orders = [o \in Order |-> [status |-> "none", lines |-> <<>>, source |-> None]]
  /\ receipts = <<>>
  /\ deciding = [o \in Order |-> "none"]
  /\ calls = [c \in Clerk |-> Idle]
  /\ warehouse = [s \in {"quarantine", "qualified", "rejected"} |-> 0]

-----------------------------------------------------------------------------
(* Row locks that outlast a step.                                          *)

Checked(c) == calls[c].stage = "checked"
OrderFree(o) == \A c \in Clerk : Checked(c) => calls[c].order # o \/ calls[c].receipt # 0
ReceiptFree(r) == \A c \in Clerk : Checked(c) => calls[c].receipt # r

ReceiptsOf(o) == {r \in 1..Len(receipts) : receipts[r].order = o}
Live(r) == receipts[r].status # "cancelled"

-----------------------------------------------------------------------------
(* Requisitions and orders.                                                *)

Fresh(quantities) == [k \in 1..Len(quantities) |-> [quantity |-> quantities[k], received |-> 0]]

Draft(o, quantities, q) ==
  orders' = [orders EXCEPT ![o] = [status |-> "draft", lines |-> Fresh(quantities), source |-> q]]

\* A new order may name a requisition, whatever its status.
CreateOrder(o, quantities, q) ==
  /\ orders[o].status = "none"
  /\ Draft(o, quantities, q)
  /\ UNCHANGED <<requisitions, receipts, deciding, calls, warehouse>>

\* create_order_from_requisition.
ConvertRequisition(q, o, n) ==
  /\ orders[o].status = "none"
  /\ requisitions[q].status = "approved"
  /\ n \in 1..(Requested[q] - requisitions[q].ordered)
  /\ Draft(o, <<n>>, q)
  /\ requisitions' = [requisitions EXCEPT ![q].ordered = @ + n]
  /\ UNCHANGED <<receipts, deciding, calls, warehouse>>

CancelRequisition(q) ==
  /\ requisitions[q].status # "cancelled"
  /\ \A o \in Order : orders[o].source = q => orders[o].status = "cancelled"
  /\ requisitions' = [requisitions EXCEPT ![q].status = "cancelled"]
  /\ UNCHANGED <<orders, receipts, deciding, calls, warehouse>>

\* New lines; what the requisition says was ordered stays.
UpdateOrder(o, quantities) ==
  /\ orders[o].status = "draft" /\ OrderFree(o)
  /\ orders' = [orders EXCEPT ![o].lines = Fresh(quantities)]
  /\ UNCHANGED <<requisitions, receipts, deciding, calls, warehouse>>

SubmitOrder(o) ==
  /\ orders[o].status = "draft" /\ OrderFree(o)
  /\ orders' = [orders EXCEPT ![o].status = "submitted"]
  /\ deciding' = [deciding EXCEPT ![o] = "pending"]
  /\ UNCHANGED <<requisitions, receipts, calls, warehouse>>

\* on_order_approval_outcome reads the order without a lock ...
ReadOutcome(o) ==
  /\ deciding[o] = "pending"
  /\ deciding' = [deciding EXCEPT ![o] =
       IF orders[o].status = "submitted" THEN "read" ELSE "none"]
  /\ UNCHANGED <<requisitions, orders, receipts, calls, warehouse>>

\* ... and saves the status that the outcome calls for.
SaveOutcome(o, status) ==
  /\ deciding[o] = "read" /\ OrderFree(o)
  /\ status \in {"approved", "rejected", "draft"}
  /\ orders' = [orders EXCEPT ![o].status = status]
  /\ deciding' = [deciding EXCEPT ![o] = "none"]
  /\ UNCHANGED <<requisitions, receipts, calls, warehouse>>

\* Bug: receipts are not looked at.
CancelRegardless(o) ==
  /\ orders[o].status \notin {"none", "cancelled", "closed"} /\ OrderFree(o)
  /\ orders' = [orders EXCEPT ![o].status = "cancelled"]
  /\ UNCHANGED <<requisitions, receipts, deciding, calls, warehouse>>

\* What the requisition says was ordered stays.
CancelOrder(o) ==
  /\ orders[o].status \notin {"none", "cancelled", "closed"} /\ OrderFree(o)
  /\ \A r \in ReceiptsOf(o) : ~ Live(r)
  /\ orders' = [orders EXCEPT ![o].status = "cancelled"]
  /\ UNCHANGED <<requisitions, receipts, deciding, calls, warehouse>>

CloseOrder(o) ==
  /\ orders[o].status \in {"approved", "partially_received", "received"} /\ OrderFree(o)
  /\ orders' = [orders EXCEPT ![o].status = "closed"]
  /\ UNCHANGED <<requisitions, receipts, deciding, calls, warehouse>>

-----------------------------------------------------------------------------
(* Writing receipts.                                                       *)

OpenForReceipt(o) == orders[o].status \in {"approved", "partially_received"}

\* What the lines want of line k.
Wanted(lines, k) ==
  Sum([i \in 1..Len(lines) |-> IF lines[i].line = k THEN lines[i].quantity ELSE 0], Len(lines))

\* What receipts claim of line k of o: drafts, but posted ones and the receipt
\* that is being updated as well.
Claimed(o, k) ==
  Sum([r \in 1..Len(receipts) |->
         IF receipts[r].order = o /\ Live(r) THEN Wanted(receipts[r].lines, k) ELSE 0],
      Len(receipts))

\* _assert_receipt_quantities, for a call that saw this much received.
Acceptable(o, lines, seen) ==
  \A i \in 1..Len(lines) :
    LET k == lines[i].line IN
    /\ k <= Len(orders[o].lines)
    /\ Wanted(lines, k) <= orders[o].lines[k].quantity - seen[k] - Claimed(o, k)

ReceivedOf(o) == [k \in 1..Len(orders[o].lines) |-> orders[o].lines[k].received]

\* The view resolves the order and its lines.
LookForReceipt(c, o) ==
  /\ calls[c] = Idle /\ OpenForReceipt(o) /\ Len(receipts) < MaxReceipts
  /\ calls' = [calls EXCEPT ![c] =
       [Idle EXCEPT !.stage = "looked", !.order = o, !.seen = ReceivedOf(o)]]
  /\ UNCHANGED <<requisitions, orders, receipts, deciding, warehouse>>

LookForUpdate(c, r) ==
  /\ calls[c] = Idle /\ receipts[r].status = "draft"
  /\ calls' = [calls EXCEPT ![c] =
       [Idle EXCEPT !.stage = "looked", !.order = receipts[r].order, !.receipt = r,
                    !.seen = ReceivedOf(receipts[r].order)]]
  /\ UNCHANGED <<requisitions, orders, receipts, deciding, warehouse>>

\* create_receipt locks the order, update_receipt the receipt only.
CheckClaims(c, lines) ==
  LET call == calls[c] IN
  /\ call.stage = "looked"
  /\ \/ call.receipt = 0 /\ OrderFree(call.order) /\ OpenForReceipt(call.order)
     \/ /\ call.receipt # 0 /\ ReceiptFree(call.receipt)
        /\ receipts[call.receipt].status = "draft"
  /\ Acceptable(call.order, lines, call.seen)
  /\ calls' = [calls EXCEPT ![c].stage = "checked", ![c].lines = lines]
  /\ UNCHANGED <<requisitions, orders, receipts, deciding, warehouse>>

WriteReceipt(c) ==
  LET call == calls[c] IN
  /\ call.stage = "checked"
  /\ receipts' = IF call.receipt = 0
                 THEN Append(receipts, [status |-> "draft", order |-> call.order,
                                        lines |-> call.lines, result |-> "none"])
                 ELSE [receipts EXCEPT ![call.receipt].lines = call.lines]
  /\ calls' = [calls EXCEPT ![c] = Idle]
  /\ UNCHANGED <<requisitions, orders, deciding, warehouse>>

\* The call is refused, or its process dies.
GiveUp(c) ==
  /\ calls[c].stage \in {"looked", "checked"}
  /\ calls' = [calls EXCEPT ![c] = Idle]
  /\ UNCHANGED <<requisitions, orders, receipts, deciding, warehouse>>

CancelReceipt(r) ==
  /\ receipts[r].status = "draft" /\ ReceiptFree(r)
  /\ receipts' = [receipts EXCEPT ![r].status = "cancelled"]
  /\ UNCHANGED <<requisitions, orders, deciding, calls, warehouse>>

-----------------------------------------------------------------------------
(* Posting and inspecting receipts.                                        *)

\* Bug: one line that has arrived is enough.
ReceivedInPart(lines) ==
  IF \E k \in 1..Len(lines) : lines[k].received >= lines[k].quantity THEN "received"
  ELSE "partially_received"

\* _refresh_order_receipt_status, after some line has grown.
StatusOf(lines) ==
  IF \A k \in 1..Len(lines) : lines[k].received >= lines[k].quantity THEN "received"
  ELSE "partially_received"

Arrived(lines, arriving) ==
  [k \in 1..Len(lines) |-> [lines[k] EXCEPT !.received = @ + Wanted(arriving, k)]]

Total(r) == Sum([i \in 1..Len(receipts[r].lines) |-> receipts[r].lines[i].quantity],
                Len(receipts[r].lines))

\* Bug: lines of a receipt that only fit one by one are received together.
PostEachLine(r) ==
  LET o == receipts[r].order
      lines == Arrived(orders[o].lines, receipts[r].lines)
  IN
  /\ receipts[r].status = "draft" /\ ReceiptFree(r)
  /\ OpenForReceipt(o) /\ OrderFree(o)
  /\ \A i \in 1..Len(receipts[r].lines) :
       LET line == orders[o].lines[receipts[r].lines[i].line] IN
       line.received + receipts[r].lines[i].quantity <= line.quantity
  /\ warehouse' = [warehouse EXCEPT !["quarantine"] = @ + Total(r)]
  /\ orders' = [orders EXCEPT ![o].lines = lines, ![o].status = StatusOf(lines)]
  /\ receipts' = [receipts EXCEPT ![r].status = "posted"]
  /\ UNCHANGED <<requisitions, deciding, calls>>

\* Each line of the receipt is compared with what remains; that they fit together
\* is left to the constraint ck_order_line_received_within_quantity.
PostReceipt(r) ==
  LET o == receipts[r].order
      lines == Arrived(orders[o].lines, receipts[r].lines)
  IN
  /\ receipts[r].status = "draft" /\ ReceiptFree(r)
  /\ OpenForReceipt(o) /\ OrderFree(o)
  /\ \A k \in 1..Len(lines) : lines[k].received <= lines[k].quantity
  /\ warehouse' = [warehouse EXCEPT !["quarantine"] = @ + Total(r)]
  /\ orders' = [orders EXCEPT ![o].lines = lines, ![o].status = StatusOf(lines)]
  /\ receipts' = [receipts EXCEPT ![r].status = "posted"]
  /\ UNCHANGED <<requisitions, deciding, calls>>

\* A quality document for each line.
InspectReceipt(r, result) ==
  /\ receipts[r].status = "posted" /\ ReceiptFree(r)
  /\ result \in {"qualified", "rejected"} /\ Total(r) <= warehouse["quarantine"]
  /\ warehouse' = [warehouse EXCEPT !["quarantine"] = @ - Total(r), ![result] = @ + Total(r)]
  /\ receipts' = [receipts EXCEPT ![r].status = "inspected", ![r].result = result]
  /\ UNCHANGED <<requisitions, orders, deciding, calls>>

-----------------------------------------------------------------------------
OrderStep(o) ==
  \/ \E quantities \in OrderLines :
       \/ UpdateOrder(o, quantities)
       \/ \E q \in Requisition \union {None} : CreateOrder(o, quantities, q)
  \/ \E q \in Requisition : \E n \in 1..Requested[q] : ConvertRequisition(q, o, n)
  \/ SubmitOrder(o) \/ ReadOutcome(o) \/ \E s \in OrderStatus : SaveOutcome(o, s)
  \/ CancelOrder(o) \/ CloseOrder(o)

CallStep(c) ==
  \/ \E o \in Order : LookForReceipt(c, o)
  \/ \E r \in 1..Len(receipts) : LookForUpdate(c, r)
  \/ \E lines \in ReceiptLines : CheckClaims(c, lines)
  \/ WriteReceipt(c) \/ GiveUp(c)

ReceiptStep(r) ==
  \/ CancelReceipt(r) \/ PostReceipt(r)
  \/ \E result \in InspectionResult : InspectReceipt(r, result)

ProcurementNext ==
  \/ \E q \in Requisition : CancelRequisition(q)
  \/ \E o \in Order : OrderStep(o)
  \/ \E c \in Clerk : CallStep(c)
  \/ \E r \in 1..Len(receipts) : ReceiptStep(r)

ProcurementSpec == ProcurementInit /\ [][ProcurementNext]_procurementVars

-----------------------------------------------------------------------------
(* Properties.                                                             *)

Arrivals == {r \in 1..Len(receipts) : receipts[r].status \in {"posted", "inspected"}}
ArrivedOn(o, k) ==
  Sum([r \in 1..Len(receipts) |->
         IF r \in Arrivals /\ receipts[r].order = o THEN Wanted(receipts[r].lines, k) ELSE 0],
      Len(receipts))

TotalOf(S) == Sum([r \in 1..Len(receipts) |-> IF r \in S THEN Total(r) ELSE 0], Len(receipts))

\* What an order line says was received is what the receipts posted on it say, and
\* no more than was ordered: however drafts were created, changed and posted by
\* several clerks at once, each arrival counts once.  It waits in quarantine until an
\* inspection judges it, and all of what was judged went where its result says.
ReceivedIsWhatReceiptsPosted ==
  /\ \A o \in Order : \A k \in 1..Len(orders[o].lines) :
       LET line == orders[o].lines[k] IN
       line.received = ArrivedOn(o, k) /\ line.received <= line.quantity
  /\ warehouse["quarantine"] = TotalOf({r \in Arrivals : receipts[r].status = "posted"})
  /\ \A result \in {"qualified", "rejected"} :
       warehouse[result] = TotalOf({r \in Arrivals : receipts[r].result = result})

\* What was received shows in the status, and an order that is not in force, or was
\* called off, has nothing arriving: not even when it is called off between the
\* reading and the saving of its approval, or while a receipt for it is written.
StatusTellsWhatArrived ==
  \A o \in Order :
    LET lines == orders[o].lines
        arrived == {k \in 1..Len(lines) : lines[k].received > 0}
        complete == {k \in 1..Len(lines) : lines[k].received = lines[k].quantity}
    IN
    /\ orders[o].status = "received" => complete = 1..Len(lines)
    /\ orders[o].status = "partially_received" => arrived # {} /\ complete # 1..Len(lines)
    /\ orders[o].status \in {"none", "draft", "submitted", "approved", "rejected", "cancelled"}
         => arrived = {}
    /\ orders[o].status \in {"none", "draft", "submitted", "rejected", "cancelled"}
         => \A r \in ReceiptsOf(o) : ~ Live(r)

\* docs/business-flows.md: what can be received of a line is its quantity less what
\* was received and less what draft receipts claim.  The code takes what was posted
\* off twice, so the rest of an order that arrived in part is refused.
DraftClaims(o, k) ==
  Sum([r \in 1..Len(receipts) |->
         IF receipts[r].order = o /\ receipts[r].status = "draft"
         THEN Wanted(receipts[r].lines, k) ELSE 0], Len(receipts))

RestCanBeReceived ==
  \A o \in Order : \A k \in 1..Len(orders[o].lines) :
    LET rest == orders[o].lines[k].quantity - orders[o].lines[k].received - DraftClaims(o, k) IN
    OpenForReceipt(o) /\ rest > 0 =>
      Acceptable(o, <<[line |-> k, quantity |-> rest]>>, ReceivedOf(o))
=============================================================================
