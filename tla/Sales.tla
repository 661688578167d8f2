-------------------------------- MODULE Sales --------------------------------
(***************************************************************************)
(* Order fulfilment (apps/sales/services.py): approved sales orders        *)
(* reserve stock, are shipped in parts against their reservations, take    *)
(* goods back into quarantine, have them inspected, and are closed or      *)
(* cancelled.                                                              *)
(*                                                                         *)
(* Every call is one transaction that first locks its order, shipment or   *)
(* return, so an action is a whole committed call; a refused call is not a *)
(* step.  The stock service is used through what module Stock shows of it: *)
(* the reserved bucket is what reservations hold open (so it is not a      *)
(* variable here), and a reservation's status tells nothing more than its  *)
(* quantities.  How an order comes to be approved is module Approval.      *)
(*                                                                         *)
(* Abstracted: company and warehouse (one), batch and roll (treated like   *)
(* the location), prices, permissions, numbers, audit records and events.  *)
(***************************************************************************)
EXTENDS Sums, Sequences

CONSTANTS
  Order, Material, Location,
  NoLocation,     \* a row that names no location; stock that lies in none
  LineCount,      \* the order lines are 1..LineCount, in primary-key order
  OrderOf, MaterialOf, Ordered,   \* the order, material and quantity of a line
  Supply,         \* the stock there is before the first order is reserved
  RowInput,       \* the rows callers write into shipments and returns
  Amount,         \* the quantities the warehouse moves
  MaxShipments, MaxReturns        \* bounds on the documents of a behaviour

Line == 1..LineCount
Positive == Nat \ {0}
Place == Location \union {NoLocation}
Quality == {"quarantine", "qualified", "rejected"}
Dim == [material : Material, location : Place, quality : Quality]
Rows == Seq([line : Line, location : Place, quantity : Positive]) \ {<<>>}
OrderStatus == {"approved", "partially_shipped", "shipped", "closed", "cancelled"}
Reservation == [location : Place, quantity : Nat, consumed : Nat, released : Nat]
Shipment == [order : Order, rows : Rows, issue : Seq(Place),
             status : {"draft", "posted", "cancelled"}]
Return == [order : Order, rows : Rows, shipment : Nat,
           status : {"draft", "posted", "inspected", "cancelled"}]

ASSUME LinesTyped ==
  /\ LineCount \in Nat
  /\ OrderOf \in [Line -> Order]
  /\ MaterialOf \in [Line -> Material]
  /\ Ordered \in [Line -> Positive]
ASSUME InputsTyped ==
  /\ Supply \in [Dim -> Nat]
  /\ RowInput \subseteq Rows
  /\ Amount \subseteq Positive
  /\ NoLocation \notin Location

VARIABLES
  orders,         \* SalesOrder.status
  shipped,        \* SalesOrderLine.shipped_quantity
  returned,       \* SalesOrderLine.returned_quantity
  reservations,   \* StockReservation of each line; quantity 0: there is no row
  onHand,         \* InventoryBalance.on_hand
  shipments,      \* SalesShipment and its lines; issue: where the rows of its
                  \*   issue document take the stock from, <<>> before posting
  returns         \* SalesReturn and its lines; shipment 0: none is named

vars == <<orders, shipped, returned, reservations, onHand, shipments, returns>>

TypeOK ==
  /\ orders \in [Order -> OrderStatus]
  /\ shipped \in [Line -> Nat]
  /\ returned \in [Line -> Nat]
  /\ reservations \in [Line -> Reservation]
  /\ onHand \in [Dim -> Nat]
  /\ shipments \in Seq(Shipment)
  /\ returns \in Seq(Return)

NoReservation ==
  [location |-> NoLocation, quantity |-> 0, consumed |-> 0, released |-> 0]

Init ==
  /\ orders = [o \in Order |-> "approved"]
  /\ shipped = [l \in Line |-> 0]
  /\ returned = [l \in Line |-> 0]
  /\ reservations = [l \in Line |-> NoReservation]
  /\ onHand = Supply
  /\ shipments = <<>>
  /\ returns = <<>>

-----------------------------------------------------------------------------
(* Quantities of orders, documents and stock.                              *)

OpenForShipment == {"approved", "partially_shipped"}

Remaining(l) == Ordered[l] - shipped[l]
Returnable(l) == shipped[l] - returned[l]

Open(r) == r.quantity - r.consumed - r.released

\* What a column f of the order lines comes to for one order, and for one
\* material of it.
OfOrder(f, o) == Sum([l \in Line |-> IF OrderOf[l] = o THEN f[l] ELSE 0], LineCount)

OfOrderMaterial(f, o, m) ==
  Sum([l \in Line |-> IF OrderOf[l] = o /\ MaterialOf[l] = m THEN f[l] ELSE 0], LineCount)

\* What the rows of a document come to for one order line.
OfLine(rows, l) ==
  Sum([k \in 1..Len(rows) |-> IF rows[k].line = l THEN rows[k].quantity ELSE 0], Len(rows))

\* What the rows of a document come to for one stock dimension, when row k lies
\* at at[k].
OfDim(rows, at, d) ==
  Sum([k \in 1..Len(rows) |->
        IF MaterialOf[rows[k].line] = d.material /\ at[k] = d.location
        THEN rows[k].quantity ELSE 0], Len(rows))

Qualified(m, p) == [material |-> m, location |-> p, quality |-> "qualified"]

\* The reserved bucket: what the reservations on a dimension hold open.
Held(m, p) ==
  Sum([l \in Line |-> IF MaterialOf[l] = m /\ reservations[l].location = p
                      THEN Open(reservations[l]) ELSE 0], LineCount)

Available(m, p) == onHand[Qualified(m, p)] - Held(m, p)

\* What the other drafts claim of order line l.
Drafted(docs, i, l, seen) ==
  Sum([j \in 1..Len(docs) |->
        IF j # i /\ j \in seen /\ docs[j].status = "draft" THEN OfLine(docs[j].rows, l) ELSE 0],
      Len(docs))

\* The limits a row for line l of draft i may be judged by: the view has read the
\* order line before anything was locked, so `done`, what is shipped (returned)
\* of it, may be anything up to its present value; and drafts that others are
\* writing go unseen.
DraftLimits(docs, i, l, most, done) ==
  {most[l] - seenDone - Drafted(docs, i, l, seen) :
     seenDone \in 0..done[l], seen \in SUBSET (1..Len(docs))}

\* Rows are judged one by one, also when two are for the same line.
DraftAccepted(docs, i, rows, most, done) ==
  \A k \in 1..Len(rows) : LET l == rows[k].line IN
    DraftLimits(docs, i, l, most, done) \cap (rows[k].quantity .. most[l]) # {}

-----------------------------------------------------------------------------
(* Reserving.                                                              *)

\* The lines a reserve call makes reservations for: something remains to be
\* shipped, and the request key of the line is not taken.  A line whose
\* reservation has ended keeps its key: it is never reserved again.
Unreserved(o) ==
  {l \in Line : OrderOf[l] = o /\ Remaining(l) > 0 /\ reservations[l].quantity = 0}

\* What is free at p when the reservations of the lines before l are made.
FreeFor(l, p, new, at) ==
  Available(MaterialOf[l], p)
    - Sum([k \in Line |-> IF k \in new /\ k < l /\ MaterialOf[k] = MaterialOf[l] /\ at[k] = p
                          THEN Remaining(k) ELSE 0], LineCount)

\* Each line takes all it needs at the place with the most free stock; if one
\* cannot, none is reserved.  Of places with equally much, any.
ReserveOrderStock(o) ==
  LET new == Unreserved(o) IN
  /\ orders[o] \in OpenForShipment
  /\ new # {}
  /\ \E at \in [new -> Place] :
       /\ \A l \in new :
            /\ FreeFor(l, at[l], new, at) >= Remaining(l)
            /\ \A p \in Place : FreeFor(l, p, new, at) <= FreeFor(l, at[l], new, at)
       /\ reservations' = [l \in Line |->
            IF l \in new
            THEN [location |-> at[l], quantity |-> Remaining(l), consumed |-> 0, released |-> 0]
            ELSE reservations[l]]
  /\ UNCHANGED <<orders, shipped, returned, onHand, shipments, returns>>

Released(o) ==
  [l \in Line |-> IF OrderOf[l] = o
                  THEN [reservations[l] EXCEPT !.released = @ + Open(reservations[l])]
                  ELSE reservations[l]]

\* Allowed in every status of the order.
ReleaseOrderStock(o) ==
  /\ reservations' = Released(o)
  /\ UNCHANGED <<orders, shipped, returned, onHand, shipments, returns>>

\* Only while no shipment stands; draft, submitted and approved orders can be
\* cancelled, of which this module has the approved ones.
CancelOrder(o) ==
  /\ orders[o] = "approved"
  /\ \A i \in 1..Len(shipments) :
       shipments[i].order = o => shipments[i].status = "cancelled"
  /\ orders' = [orders EXCEPT ![o] = "cancelled"]
  /\ reservations' = Released(o)
  /\ UNCHANGED <<shipped, returned, onHand, shipments, returns>>

CloseOrder(o) ==
  /\ orders[o] \in OpenForShipment \union {"shipped"}
  /\ orders' = [orders EXCEPT ![o] = "closed"]
  /\ reservations' = Released(o)
  /\ UNCHANGED <<shipped, returned, onHand, shipments, returns>>

-----------------------------------------------------------------------------
(* Shipping.                                                               *)

OfOneOrder(rows, o) == \A k \in 1..Len(rows) : OrderOf[rows[k].line] = o

CreateShipment(o, rows) ==
  /\ Len(shipments) < MaxShipments
  /\ orders[o] \in OpenForShipment
  /\ OfOneOrder(rows, o)
  /\ DraftAccepted(shipments, Len(shipments) + 1, rows, Ordered, shipped)
  /\ shipments' = Append(shipments,
       [order |-> o, rows |-> rows, issue |-> <<>>, status |-> "draft"])
  /\ UNCHANGED <<orders, shipped, returned, reservations, onHand, returns>>

\* The order is neither locked nor looked at.
UpdateShipment(i, rows) ==
  /\ shipments[i].status = "draft"
  /\ OfOneOrder(rows, shipments[i].order)
  /\ DraftAccepted(shipments, i, rows, Ordered, shipped)
  /\ shipments' = [shipments EXCEPT ![i].rows = rows]
  /\ UNCHANGED <<orders, shipped, returned, reservations, onHand, returns>>

\* Bug: posted shipments can be cancelled, too.
CancelAnyShipment(i) ==
  /\ shipments' = [shipments EXCEPT ![i].status = "cancelled"]
  /\ UNCHANGED <<orders, shipped, returned, reservations, onHand, returns>>

CancelShipment(i) ==
  /\ shipments[i].status = "draft"
  /\ shipments' = [shipments EXCEPT ![i].status = "cancelled"]
  /\ UNCHANGED <<orders, shipped, returned, reservations, onHand, returns>>

\* A row without location is shipped from where the order's first open
\* reservation of the material lies.
IssueLocation(s, k) ==
  LET row == s.rows[k]
      open == {l \in Line : /\ OrderOf[l] = s.order /\ MaterialOf[l] = MaterialOf[row.line]
                            /\ Open(reservations[l]) > 0}
  IN  IF row.location = NoLocation /\ open # {}
      THEN reservations[CHOOSE l \in open : \A j \in open : l <= j].location
      ELSE row.location

IssueLocations(s) == [k \in 1..Len(s.rows) |-> IssueLocation(s, k)]

\* Bug: reservations of every order may be consumed.
ConsumableOfAnyone(o, m, p) ==
  [l \in Line |-> IF MaterialOf[l] = m /\ reservations[l].location = p
                  THEN Open(reservations[l]) ELSE 0]

\* What the reservations of the order can give at a place.
Consumable(o, m, p) ==
  [l \in Line |-> IF OrderOf[l] = o /\ MaterialOf[l] = m /\ reservations[l].location = p
                  THEN Open(reservations[l]) ELSE 0]

\* Greedy, in primary-key order, whichever line the shipment's rows are for.
Taken(s, at, l) ==
  LET m == MaterialOf[l]
      p == reservations[l].location
      can == Consumable(s.order, m, p)
  IN  Least(can[l],
            AtLeastZero(OfDim(s.rows, at, Qualified(m, p)) - Prefix(can, LineCount)[l - 1]))

\* require_full_reservation: all that goes out was reserved by this order.
\* Since what is reserved is on hand, the check of availability adds nothing.
ReservationCovers(s, at) ==
  \A m \in Material, p \in Place :
    Sum(Consumable(s.order, m, p), LineCount) >= OfDim(s.rows, at, Qualified(m, p))

\* _refresh_order_shipment_status, for the new shipped quantities.
ShipmentStatus(o, done) ==
  IF OfOrder(done, o) = 0 THEN orders[o]
  ELSE IF OfOrder(done, o) >= OfOrder(Ordered, o) THEN "shipped" ELSE "partially_shipped"

\* The rows are judged one by one again; that they stay within the order
\* together is left to a CHECK constraint.
PostShipment(i) ==
  LET s == shipments[i]
      at == IssueLocations(s)
      done == [l \in Line |-> shipped[l] + OfLine(s.rows, l)]
  IN  /\ s.status = "draft"
      /\ orders[s.order] \in OpenForShipment
      /\ \A k \in 1..Len(s.rows) : s.rows[k].quantity <= Remaining(s.rows[k].line)
      /\ ReservationCovers(s, at)
      /\ \A l \in Line : done[l] <= Ordered[l]
      /\ onHand' = [d \in Dim |->
           IF d.quality = "qualified" THEN onHand[d] - OfDim(s.rows, at, d) ELSE onHand[d]]
      /\ reservations' = [l \in Line |->
           IF OrderOf[l] = s.order
           THEN [reservations[l] EXCEPT !.consumed = @ + Taken(s, at, l)]
           ELSE reservations[l]]
      /\ shipped' = done
      /\ orders' = [orders EXCEPT ![s.order] = ShipmentStatus(s.order, done)]
      /\ shipments' = [shipments EXCEPT ![i] = [s EXCEPT !.status = "posted", !.issue = at]]
      /\ UNCHANGED <<returned, returns>>

-----------------------------------------------------------------------------
(* Taking back.                                                            *)

\* Whatever the status of the order, once something was shipped.
CreateReturn(o, n, rows) ==
  /\ Len(returns) < MaxReturns
  /\ \E i \in 1..Len(shipments) : shipments[i].order = o /\ shipments[i].status = "posted"
  /\ n > 0 => shipments[n].order = o
  /\ OfOneOrder(rows, o)
  /\ DraftAccepted(returns, Len(returns) + 1, rows, shipped, returned)
  /\ returns' = Append(returns,
       [order |-> o, rows |-> rows, shipment |-> n, status |-> "draft"])
  /\ UNCHANGED <<orders, shipped, returned, reservations, onHand, shipments>>

UpdateReturn(i, rows) ==
  /\ returns[i].status = "draft"
  /\ OfOneOrder(rows, returns[i].order)
  /\ DraftAccepted(returns, i, rows, shipped, returned)
  /\ returns' = [returns EXCEPT ![i].rows = rows]
  /\ UNCHANGED <<orders, shipped, returned, reservations, onHand, shipments>>

CancelReturn(i) ==
  /\ returns[i].status = "draft"
  /\ returns' = [returns EXCEPT ![i].status = "cancelled"]
  /\ UNCHANGED <<orders, shipped, returned, reservations, onHand, shipments>>

\* A row without location goes back to where the named shipment's issue document
\* first took the material from; the place is written into the row.
InheritedRow(r, k) ==
  LET row == r.rows[k]
      s == shipments[r.shipment]
      sent == IF r.shipment = 0 THEN {}
              ELSE {j \in 1..Len(s.issue) : MaterialOf[s.rows[j].line] = MaterialOf[row.line]}
  IN  IF row.location = NoLocation /\ sent # {}
      THEN [row EXCEPT !.location = s.issue[CHOOSE j \in sent : \A h \in sent : j <= h]]
      ELSE row

InheritDimensions(r) == [k \in 1..Len(r.rows) |-> InheritedRow(r, k)]

Places(rows) == [k \in 1..Len(rows) |-> rows[k].location]

\* Bug: the inherited locations are used for the receipt but not written back.
PostedAsWritten(r, rows) == [r EXCEPT !.status = "posted"]

Posted(r, rows) == [r EXCEPT !.status = "posted", !.rows = rows]

\* The goods go into quarantine; the order's status is left alone.
PostReturn(i) ==
  LET r == returns[i]
      rows == InheritDimensions(r)
      back == [l \in Line |-> returned[l] + OfLine(rows, l)]
  IN  /\ r.status = "draft"
      /\ \A k \in 1..Len(rows) : rows[k].quantity <= Returnable(rows[k].line)
      /\ \A l \in Line : back[l] <= shipped[l]
      /\ onHand' = [d \in Dim |->
           IF d.quality = "quarantine" THEN onHand[d] + OfDim(rows, Places(rows), d)
           ELSE onHand[d]]
      /\ returned' = back
      /\ returns' = [returns EXCEPT ![i] = Posted(r, rows)]
      /\ UNCHANGED <<orders, shipped, reservations, shipments>>

\* One quality conversion per row, where the row says.
Inspected(d, result, rows) ==
  LET moved == OfDim(rows, Places(rows), d) IN
  IF d.quality = "quarantine" THEN onHand[d] - moved
  ELSE IF d.quality = result THEN onHand[d] + moved ELSE onHand[d]

\* All conversions or none.
InspectReturn(i, result) ==
  LET r == returns[i] IN
  /\ r.status = "posted"
  /\ \A d \in Dim : d.quality = "quarantine" => OfDim(r.rows, Places(r.rows), d) <= onHand[d]
  /\ onHand' = [d \in Dim |-> Inspected(d, result, r.rows)]
  /\ returns' = [returns EXCEPT ![i].status = "inspected"]
  /\ UNCHANGED <<orders, shipped, returned, reservations, shipments>>

-----------------------------------------------------------------------------
\* The rest of the warehouse: a move document takes free stock elsewhere.
MoveStock(m, p, q, amount) ==
  /\ p # q /\ q # NoLocation
  /\ Available(m, p) >= amount
  /\ onHand' = [onHand EXCEPT ![Qualified(m, p)] = @ - amount, ![Qualified(m, q)] = @ + amount]
  /\ UNCHANGED <<orders, shipped, returned, reservations, shipments, returns>>

OrderNext ==
  \E o \in Order :
    ReserveOrderStock(o) \/ ReleaseOrderStock(o) \/ CancelOrder(o) \/ CloseOrder(o)

ShipmentNext ==
  \/ \E o \in Order, rows \in RowInput : CreateShipment(o, rows)
  \/ \E i \in 1..Len(shipments) :
       \/ PostShipment(i) \/ CancelShipment(i)
       \/ \E rows \in RowInput : UpdateShipment(i, rows)

ReturnNext ==
  \/ \E o \in Order, rows \in RowInput, n \in 0..Len(shipments) : CreateReturn(o, n, rows)
  \/ \E i \in 1..Len(returns) :
       \/ PostReturn(i) \/ CancelReturn(i)
       \/ \E rows \in RowInput : UpdateReturn(i, rows)
       \/ \E result \in {"qualified", "rejected"} : InspectReturn(i, result)

Next ==
  \/ OrderNext \/ ShipmentNext \/ ReturnNext
  \/ \E m \in Material, p, q \in Place, amount \in Amount : MoveStock(m, p, q, amount)

Spec == Init /\ [][Next]_vars

-----------------------------------------------------------------------------
(* What orders, documents and stock must agree on.                         *)

\* Goods leave only against the order's own reservations: what an order has
\* shipped of a material is what its reservations of it gave, though the
\* reservation that gave a unit need not be that of the line it was shipped for.
ShippedComesFromReservations ==
  \A o \in Order, m \in Material :
    OfOrderMaterial(shipped, o, m)
      = OfOrderMaterial([l \in Line |-> reservations[l].consumed], o, m)

\* An order holds no more of a material than it has yet to ship, so nothing once
\* it has shipped all; closed and cancelled orders hold nothing.
OrdersHoldOnlyWhatTheyShip ==
  \A o \in Order :
    /\ \A m \in Material :
         OfOrderMaterial([l \in Line |-> Open(reservations[l])], o, m)
           <= OfOrderMaterial([l \in Line |-> Remaining(l)], o, m)
    /\ orders[o] \in {"shipped", "closed", "cancelled"} =>
         \A l \in Line : OrderOf[l] = o => Open(reservations[l]) = 0

\* docs/business-flows.md: an order is partially shipped or shipped when its lines
\* say so, and an order that shipped anything is never cancelled.
StatusFollowsQuantities ==
  \A o \in Order : LET done == OfOrder(shipped, o) IN
    /\ orders[o] \in {"approved", "cancelled"} => done = 0
    /\ orders[o] = "partially_shipped" => 0 < done /\ done < OfOrder(Ordered, o)
    /\ orders[o] = "shipped" => done = OfOrder(Ordered, o)

\* The totals of an order line are those of its posted documents.
Settled(docs, l) ==
  Sum([i \in 1..Len(docs) |->
        IF docs[i].status \in {"posted", "inspected"} THEN OfLine(docs[i].rows, l) ELSE 0],
      Len(docs))

QuantitiesFollowDocuments ==
  \A l \in Line : shipped[l] = Settled(shipments, l) /\ returned[l] = Settled(returns, l)

\* What lies in quarantine, beyond what was there, is what the returns that wait
\* for their inspection brought, each where its rows say: so every one of them
\* can be inspected.
AwaitsInspection(d) ==
  Sum([i \in 1..Len(returns) |->
        IF returns[i].status = "posted"
        THEN OfDim(returns[i].rows, Places(returns[i].rows), d) ELSE 0], Len(returns))

QuarantineAwaitsInspection ==
  \A d \in Dim : d.quality = "quarantine" => onHand[d] = Supply[d] + AwaitsInspection(d)
=============================================================================
