----------------------------- MODULE SalesProofs -----------------------------
(***************************************************************************)
(* Theorems of module Sales, for any number of orders, lines, documents    *)
(* and places: goods leave only against the order's own reservations, an   *)
(* order's status follows its quantities, nothing is held that will not be *)
(* shipped, and order lines and the quarantine agree with the documents.   *)
(* And a theorem of module Evaluations, for any dimensions and weights.    *)
(***************************************************************************)
EXTENDS Sales, Evaluations, SumLemmas, SequenceTheorems, FiniteSetTheorems, TLAPS

\* The CHECK constraints of SalesOrderLine.
LinesWithinBounds ==
  \A l \in Line : shipped[l] <= Ordered[l] /\ returned[l] <= shipped[l]

ReservationsWithinBounds ==
  \A l \in Line : reservations[l].quantity <= Ordered[l] /\ Open(reservations[l]) >= 0

\* What is reserved is there.
HeldIsOnHand ==
  \A m \in Material, p \in Place : Held(m, p) <= onHand[Qualified(m, p)]

EndedHoldNothing ==
  \A l \in Line : orders[OrderOf[l]] \in {"closed", "cancelled"} => Open(reservations[l]) = 0

DocumentsConsistent ==
  /\ \A i \in 1..Len(shipments) : OfOneOrder(shipments[i].rows, shipments[i].order)
  /\ \A i \in 1..Len(returns) : /\ OfOneOrder(returns[i].rows, returns[i].order)
                                /\ returns[i].shipment \in 0..Len(shipments)

Inv ==
  /\ TypeOK
  /\ LinesWithinBounds
  /\ ReservationsWithinBounds
  /\ HeldIsOnHand
  /\ ShippedComesFromReservations
  /\ StatusFollowsQuantities
  /\ EndedHoldNothing
  /\ DocumentsConsistent
  /\ QuantitiesFollowDocuments
  /\ QuarantineAwaitsInspection

-----------------------------------------------------------------------------
(* Columns of the order lines and of the rows of documents.                *)

LEMMA LineFacts ==
  /\ LineCount \in Nat
  /\ \A l \in Line : /\ l \in 1..LineCount
                     /\ OrderOf[l] \in Order /\ MaterialOf[l] \in Material
                     /\ Ordered[l] \in Nat /\ Ordered[l] > 0
BY LinesTyped DEF Line, Positive

LEMMA OrderSums ==
  ASSUME NEW o, NEW f \in [Line -> Int]
  PROVE  /\ OfOrder(f, o) \in Int
         /\ \A m : OfOrderMaterial(f, o, m) \in Int
<1>1. OfOrder(f, o) \in Int
  <2> DEFINE column == [l \in 1..LineCount |-> IF OrderOf[l] = o THEN f[l] ELSE 0]
  <2>1. column \in [1..LineCount -> Int]
    BY DEF Line
  <2> HIDE DEF column
  <2>2. Sum(column, LineCount) \in Int
    BY <2>1, LineFacts, SumType
  <2> QED
    BY <2>2 DEF OfOrder, Line, column
<1>2. ASSUME NEW m PROVE OfOrderMaterial(f, o, m) \in Int
  <2> DEFINE column == [l \in 1..LineCount |->
                         IF OrderOf[l] = o /\ MaterialOf[l] = m THEN f[l] ELSE 0]
  <2>1. column \in [1..LineCount -> Int]
    BY DEF Line
  <2> HIDE DEF column
  <2>2. Sum(column, LineCount) \in Int
    BY <2>1, LineFacts, SumType
  <2> QED
    BY <2>2 DEF OfOrderMaterial, Line, column
<1> QED
  BY <1>1, <1>2

\* Sums over an order look only at the lines of the order, and add.
Plus(f, g) == [l \in Line |-> f[l] + g[l]]

LEMMA OrderMaterialPlus ==
  ASSUME NEW o, NEW m, NEW f \in [Line -> Int], NEW g \in [Line -> Int]
  PROVE  OfOrderMaterial(Plus(f, g), o, m) = OfOrderMaterial(f, o, m) + OfOrderMaterial(g, o, m)
<1> DEFINE column(x) == [l \in 1..LineCount |->
                          IF OrderOf[l] = o /\ MaterialOf[l] = m THEN x[l] ELSE 0]
           F == column(f)
           G == column(g)
           H == column(Plus(f, g))
<1>1. F \in [1..LineCount -> Int] /\ G \in [1..LineCount -> Int] /\ H \in [1..LineCount -> Int]
  BY DEF Line, Plus
<1>2. \A l \in 1..LineCount : H[l] = F[l] + G[l]
  BY DEF Line, Plus
<1>3. /\ OfOrderMaterial(f, o, m) = Sum(F, LineCount)
      /\ OfOrderMaterial(g, o, m) = Sum(G, LineCount)
      /\ OfOrderMaterial(Plus(f, g), o, m) = Sum(H, LineCount)
  BY DEF OfOrderMaterial, Line
<1> HIDE DEF F, G, H
<1>4. Sum(H, LineCount) = Sum(F, LineCount) + Sum(G, LineCount)
  BY <1>1, <1>2, LineFacts, SumAdd
<1> QED
  BY <1>3, <1>4

LEMMA OrderPlus ==
  ASSUME NEW o, NEW f \in [Line -> Int], NEW g \in [Line -> Int]
  PROVE  OfOrder(Plus(f, g), o) = OfOrder(f, o) + OfOrder(g, o)
<1> DEFINE column(x) == [l \in 1..LineCount |-> IF OrderOf[l] = o THEN x[l] ELSE 0]
           F == column(f)
           G == column(g)
           H == column(Plus(f, g))
<1>1. F \in [1..LineCount -> Int] /\ G \in [1..LineCount -> Int] /\ H \in [1..LineCount -> Int]
  BY DEF Line, Plus
<1>2. \A l \in 1..LineCount : H[l] = F[l] + G[l]
  BY DEF Line, Plus
<1>3. /\ OfOrder(f, o) = Sum(F, LineCount) /\ OfOrder(g, o) = Sum(G, LineCount)
      /\ OfOrder(Plus(f, g), o) = Sum(H, LineCount)
  BY DEF OfOrder, Line
<1> HIDE DEF F, G, H
<1>4. Sum(H, LineCount) = Sum(F, LineCount) + Sum(G, LineCount)
  BY <1>1, <1>2, LineFacts, SumAdd
<1> QED
  BY <1>3, <1>4

LEMMA OrderSumsAgree ==
  ASSUME NEW o, NEW f, NEW g, \A l \in Line : OrderOf[l] = o => f[l] = g[l]
  PROVE  /\ OfOrder(f, o) = OfOrder(g, o)
         /\ \A m : OfOrderMaterial(f, o, m) = OfOrderMaterial(g, o, m)
<1>1. [l \in Line |-> IF OrderOf[l] = o THEN f[l] ELSE 0]
        = [l \in Line |-> IF OrderOf[l] = o THEN g[l] ELSE 0]
  OBVIOUS
<1>2. ASSUME NEW m
      PROVE  [l \in Line |-> IF OrderOf[l] = o /\ MaterialOf[l] = m THEN f[l] ELSE 0]
               = [l \in Line |-> IF OrderOf[l] = o /\ MaterialOf[l] = m THEN g[l] ELSE 0]
  OBVIOUS
<1> QED
  BY <1>1, <1>2 DEF OfOrder, OfOrderMaterial

LEMMA OrderMaterialAgree ==
  ASSUME NEW o, NEW m, NEW f, NEW g, \A l \in Line : OrderOf[l] = o => f[l] = g[l]
  PROVE  OfOrderMaterial(f, o, m) = OfOrderMaterial(g, o, m)
<1>1. \A x : OfOrderMaterial(f, o, x) = OfOrderMaterial(g, o, x)
  BY OrderSumsAgree
<1> QED
  BY <1>1

LEMMA OrderSumsMonotone ==
  ASSUME NEW o, NEW f \in [Line -> Int], NEW g \in [Line -> Int],
         \A l \in Line : OrderOf[l] = o => f[l] <= g[l]
  PROVE  /\ OfOrder(f, o) <= OfOrder(g, o)
         /\ \A m : OfOrderMaterial(f, o, m) <= OfOrderMaterial(g, o, m)
<1>1. OfOrder(f, o) <= OfOrder(g, o)
  <2> DEFINE column(x) == [l \in 1..LineCount |-> IF OrderOf[l] = o THEN x[l] ELSE 0]
  <2>1. column(f) \in [1..LineCount -> Int] /\ column(g) \in [1..LineCount -> Int]
    BY DEF Line
  <2>2. \A l \in 1..LineCount : column(f)[l] <= column(g)[l]
    BY DEF Line
  <2>3. OfOrder(f, o) = Sum(column(f), LineCount) /\ OfOrder(g, o) = Sum(column(g), LineCount)
    BY DEF OfOrder, Line
  <2> HIDE DEF column
  <2> QED
    BY <2>1, <2>2, <2>3, LineFacts, SumMonotone
<1>2. ASSUME NEW m
      PROVE  OfOrderMaterial(f, o, m) <= OfOrderMaterial(g, o, m)
  <2> DEFINE column(x) == [l \in 1..LineCount |->
                            IF OrderOf[l] = o /\ MaterialOf[l] = m THEN x[l] ELSE 0]
  <2>1. column(f) \in [1..LineCount -> Int] /\ column(g) \in [1..LineCount -> Int]
    BY DEF Line
  <2>2. \A l \in 1..LineCount : column(f)[l] <= column(g)[l]
    BY DEF Line
  <2>3. /\ OfOrderMaterial(f, o, m) = Sum(column(f), LineCount)
        /\ OfOrderMaterial(g, o, m) = Sum(column(g), LineCount)
    BY DEF OfOrderMaterial, Line
  <2> HIDE DEF column
  <2> QED
    BY <2>1, <2>2, <2>3, LineFacts, SumMonotone
<1> QED
  BY <1>1, <1>2

\* Of natural numbers, no line has more than its order and material have.
LEMMA LineWithinSums ==
  ASSUME NEW f \in [Line -> Nat], NEW l \in Line
  PROVE  /\ f[l] <= OfOrder(f, OrderOf[l])
         /\ f[l] <= OfOrderMaterial(f, OrderOf[l], MaterialOf[l])
<1>1. f[l] <= OfOrder(f, OrderOf[l])
  <2> DEFINE column == [j \in 1..LineCount |-> IF OrderOf[j] = OrderOf[l] THEN f[j] ELSE 0]
  <2>1. column \in [1..LineCount -> Nat] /\ l \in 1..LineCount /\ column[l] = f[l]
    BY DEF Line
  <2>2. OfOrder(f, OrderOf[l]) = Sum(column, LineCount)
    BY DEF OfOrder, Line
  <2> HIDE DEF column
  <2> QED
    BY <2>1, <2>2, LineFacts, SumOfNaturals
<1>2. f[l] <= OfOrderMaterial(f, OrderOf[l], MaterialOf[l])
  <2> DEFINE column == [j \in 1..LineCount |->
                IF OrderOf[j] = OrderOf[l] /\ MaterialOf[j] = MaterialOf[l] THEN f[j] ELSE 0]
  <2>1. column \in [1..LineCount -> Nat] /\ l \in 1..LineCount /\ column[l] = f[l]
    BY DEF Line
  <2>2. OfOrderMaterial(f, OrderOf[l], MaterialOf[l]) = Sum(column, LineCount)
    BY DEF OfOrderMaterial, Line
  <2> HIDE DEF column
  <2> QED
    BY <2>1, <2>2, LineFacts, SumOfNaturals
<1> QED
  BY <1>1, <1>2

LEMMA RowsTyped ==
  ASSUME NEW rows \in Rows
  PROVE  /\ Len(rows) \in Nat
         /\ \A k \in 1..Len(rows) : /\ rows[k].line \in Line
                                    /\ rows[k].location \in Place
                                    /\ rows[k].quantity \in Nat /\ rows[k].quantity > 0
<1>1. rows \in Seq([line : Line, location : Place, quantity : Positive])
  BY DEF Rows
<1>2. Len(rows) \in Nat
  BY <1>1
<1>3. ASSUME NEW k \in 1..Len(rows)
      PROVE  rows[k] \in [line : Line, location : Place, quantity : Positive]
  BY <1>1, ElementOfSeq
<1> QED
  BY <1>2, <1>3 DEF Positive

LEMMA OfLineNat ==
  ASSUME NEW rows \in Rows, NEW l
  PROVE  /\ OfLine(rows, l) \in Nat
         /\ (\A k \in 1..Len(rows) : rows[k].line # l) => OfLine(rows, l) = 0
<1> DEFINE n == Len(rows)
           column == [k \in 1..n |-> IF rows[k].line = l THEN rows[k].quantity ELSE 0]
<1>1. n \in Nat /\ column \in [1..n -> Nat] /\ column \in [1..n -> Int]
  BY RowsTyped
<1>2. OfLine(rows, l) = Sum(column, n)
  BY DEF OfLine
<1>3. (\A k \in 1..n : rows[k].line # l) => \A k \in 1..n : column[k] = 0
  OBVIOUS
<1> HIDE DEF n, column
<1>4. Sum(column, n) \in Nat
  BY <1>1, SumOfNaturals
<1>5. (\A k \in 1..n : column[k] = 0) => Sum(column, n) = 0
  BY <1>1, SumZero
<1>6. (\A k \in 1..n : rows[k].line # l) => OfLine(rows, l) = 0
  BY <1>2, <1>3, <1>5
<1> QED
  BY <1>2, <1>4, <1>6 DEF n

LEMMA OfDimNat ==
  ASSUME NEW rows \in Rows, NEW at, NEW d
  PROVE  /\ OfDim(rows, at, d) \in Nat
         /\ \A k \in 1..Len(rows) :
              MaterialOf[rows[k].line] = d.material /\ at[k] = d.location
                => rows[k].quantity <= OfDim(rows, at, d)
<1> DEFINE n == Len(rows)
           column == [k \in 1..n |-> IF MaterialOf[rows[k].line] = d.material /\ at[k] = d.location
                                     THEN rows[k].quantity ELSE 0]
<1>1. n \in Nat /\ column \in [1..n -> Nat]
  BY RowsTyped
<1>2. OfDim(rows, at, d) = Sum(column, n)
  BY DEF OfDim
<1>3. \A k \in 1..n : MaterialOf[rows[k].line] = d.material /\ at[k] = d.location
                        => column[k] = rows[k].quantity
  OBVIOUS
<1> HIDE DEF column
<1>4. Sum(column, n) \in Nat /\ \A k \in 1..n : column[k] <= Sum(column, n)
  BY <1>1, SumOfNaturals
<1> QED
  BY <1>2, <1>3, <1>4

\* An order has no rows of another order's lines.
LEMMA OtherLinesUntouched ==
  ASSUME NEW rows \in Rows, NEW o, OfOneOrder(rows, o), NEW l \in Line, OrderOf[l] # o
  PROVE  OfLine(rows, l) = 0
<1>1. \A k \in 1..Len(rows) : rows[k].line # l
  BY DEF OfOneOrder
<1> QED
  BY <1>1, OfLineNat

-----------------------------------------------------------------------------
(* What a posting takes from reservations.                                 *)

LEMMA ReservationTyped ==
  ASSUME TypeOK, NEW l \in Line
  PROVE  /\ reservations[l] \in Reservation
         /\ reservations[l].location \in Place
         /\ reservations[l].quantity \in Nat
         /\ reservations[l].consumed \in Nat
         /\ reservations[l].released \in Nat
         /\ Open(reservations[l]) \in Int
<1>1. reservations[l] \in Reservation
  BY DEF TypeOK
<1>2. /\ reservations[l].location \in Place
      /\ reservations[l].quantity \in Nat
      /\ reservations[l].consumed \in Nat
      /\ reservations[l].released \in Nat
  BY <1>1 DEF Reservation
<1> QED
  BY <1>1, <1>2 DEF Open

LEMMA ConsumableType ==
  ASSUME TypeOK, ReservationsWithinBounds, NEW o, NEW m, NEW p
  PROVE  /\ Consumable(o, m, p) \in [1..LineCount -> Nat]
         /\ Sum(Consumable(o, m, p), LineCount) \in Nat
<1>1. \A l \in Line : Open(reservations[l]) \in Nat
  BY ReservationTyped DEF ReservationsWithinBounds
<1>2. Consumable(o, m, p) \in [1..LineCount -> Nat]
  BY <1>1 DEF Consumable, Line
<1> QED
  BY <1>2, LineFacts, SumOfNaturals

\* Nothing is taken from a reservation of another order, and from none more than
\* it holds.
LEMMA TakenWithinOpen ==
  ASSUME TypeOK, ReservationsWithinBounds, NEW s \in Shipment, NEW at, NEW l \in Line
  PROVE  /\ Taken(s, at, l) \in Nat
         /\ Taken(s, at, l) <= Open(reservations[l])
         /\ OrderOf[l] # s.order => Taken(s, at, l) = 0
<1> DEFINE m == MaterialOf[l]
           p == reservations[l].location
           can == Consumable(s.order, m, p)
           wanted == OfDim(s.rows, at, Qualified(m, p))
           before == Prefix(can, LineCount)[l - 1]
<1>1. s.rows \in Rows
  BY DEF Shipment
<1>2. wanted \in Nat
  BY <1>1, OfDimNat
<1>3. can \in [1..LineCount -> Nat]
  BY ConsumableType
<1>4. can[l] = IF OrderOf[l] = s.order THEN Open(reservations[l]) ELSE 0
  BY DEF Consumable
<1>5. Taken(s, at, l) = Least(can[l], AtLeastZero(wanted - before))
  BY DEF Taken
<1>6. l - 1 \in 0..LineCount /\ LineCount \in Nat /\ can[l] \in Nat
  BY <1>3, LineFacts
<1> HIDE DEF can, wanted
<1>7. before \in Nat
  BY <1>3, <1>6, PrefixOfNaturals
<1>8. Open(reservations[l]) \in Nat
  BY ReservationTyped DEF ReservationsWithinBounds
<1> HIDE DEF before
<1> QED
  BY <1>2, <1>4, <1>5, <1>6, <1>7, <1>8 DEF Least, AtLeastZero

\* What a posting takes from the reservations of one material that lie at the
\* places P, and what the issue document sends from there.
TakenAt(s, at, m, P) ==
  [l \in 1..LineCount |->
    IF OrderOf[l] = s.order /\ MaterialOf[l] = m /\ reservations[l].location \in P
    THEN Taken(s, at, l) ELSE 0]

SentFrom(s, at, m, P) ==
  [k \in 1..Len(s.rows) |->
    IF MaterialOf[s.rows[k].line] = m /\ at[k] \in P THEN s.rows[k].quantity ELSE 0]

LEMMA TakenSentTyped ==
  ASSUME TypeOK, ReservationsWithinBounds, NEW s \in Shipment, NEW at, NEW m, NEW P
  PROVE  /\ TakenAt(s, at, m, P) \in [1..LineCount -> Nat]
         /\ TakenAt(s, at, m, P) \in [1..LineCount -> Int]
         /\ SentFrom(s, at, m, P) \in [1..Len(s.rows) -> Nat]
         /\ SentFrom(s, at, m, P) \in [1..Len(s.rows) -> Int]
<1>1. s.rows \in Rows
  BY DEF Shipment
<1>2. \A l \in 1..LineCount : Taken(s, at, l) \in Nat
  BY TakenWithinOpen DEF Line
<1>3. \A k \in 1..Len(s.rows) : s.rows[k].quantity \in Nat
  BY <1>1, RowsTyped
<1> QED
  BY <1>2, <1>3 DEF TakenAt, SentFrom

\* At each place the reservations of the order give exactly what goes out.
LEMMA TakenOnSpot ==
  ASSUME TypeOK, ReservationsWithinBounds, NEW s \in Shipment, NEW at,
         ReservationCovers(s, at), NEW m \in Material, NEW p \in Place
  PROVE  /\ Sum(TakenAt(s, at, m, {p}), LineCount) = OfDim(s.rows, at, Qualified(m, p))
         /\ Sum(SentFrom(s, at, m, {p}), Len(s.rows)) = OfDim(s.rows, at, Qualified(m, p))
<1> DEFINE take == TakenAt(s, at, m, {p})
           can == Consumable(s.order, m, p)
           wanted == OfDim(s.rows, at, Qualified(m, p))
<1>1. s.rows \in Rows
  BY DEF Shipment
<1>2. take \in [1..LineCount -> Nat]
  BY TakenSentTyped
<1>3. \A l \in 1..LineCount :
        take[l] = IF OrderOf[l] = s.order /\ MaterialOf[l] = m /\ reservations[l].location = p
                  THEN Taken(s, at, l) ELSE 0
  BY DEF TakenAt
<1>4. SentFrom(s, at, m, {p}) = [k \in 1..Len(s.rows) |->
          IF /\ MaterialOf[s.rows[k].line] = Qualified(m, p).material
             /\ at[k] = Qualified(m, p).location
          THEN s.rows[k].quantity ELSE 0]
  BY DEF Qualified, SentFrom
<1> HIDE DEF take
<1>5. wanted \in Nat
  BY <1>1, OfDimNat
<1>6. can \in [1..LineCount -> Nat]
  BY ConsumableType
<1>7. wanted <= Sum(can, LineCount)
  <2>1. Sum(can, LineCount) >= wanted
    BY DEF ReservationCovers
  <2>2. Sum(can, LineCount) \in Nat
    BY ConsumableType
  <2> QED
    BY <1>5, <2>1, <2>2
<1>8. ASSUME NEW l \in 1..LineCount
      PROVE  take[l] = Least(can[l], AtLeastZero(wanted - Prefix(can, LineCount)[l - 1]))
  <2>1. l \in Line
    BY DEF Line
  <2>2. CASE OrderOf[l] = s.order /\ MaterialOf[l] = m /\ reservations[l].location = p
    <3>1. take[l] = Taken(s, at, l)
      BY <1>3, <2>2
    <3> QED
      BY <2>1, <2>2, <3>1 DEF Taken
  <2>3. CASE ~ (OrderOf[l] = s.order /\ MaterialOf[l] = m /\ reservations[l].location = p)
    <3>1. take[l] = 0 /\ can[l] = 0
      BY <1>3, <2>1, <2>3 DEF Consumable
    <3>2. l - 1 \in 0..LineCount /\ LineCount \in Nat
      BY LineFacts
    <3> HIDE DEF can, wanted
    <3>3. Prefix(can, LineCount)[l - 1] \in Nat
      BY <1>6, <3>2, PrefixOfNaturals
    <3> QED
      BY <1>5, <3>1, <3>3 DEF Least, AtLeastZero
  <2> QED
    BY <2>2, <2>3
<1> HIDE DEF can, wanted
<1>9. Sum(take, LineCount) = wanted
  BY <1>2, <1>5, <1>6, <1>7, <1>8, LineFacts, SumGreedy
<1> QED
  BY <1>9, <1>4 DEF wanted, take, OfDim

\* Another place adds what is taken, and sent, there.
LEMMA PlacesAdd ==
  ASSUME TypeOK, ReservationsWithinBounds, NEW s \in Shipment, NEW at, NEW m, NEW P, NEW p,
         p \notin P
  PROVE  /\ Sum(TakenAt(s, at, m, P \union {p}), LineCount)
              = Sum(TakenAt(s, at, m, P), LineCount) + Sum(TakenAt(s, at, m, {p}), LineCount)
         /\ Sum(SentFrom(s, at, m, P \union {p}), Len(s.rows))
              = Sum(SentFrom(s, at, m, P), Len(s.rows)) + Sum(SentFrom(s, at, m, {p}), Len(s.rows))
<1>1. LineCount \in Nat /\ Len(s.rows) \in Nat
  BY LineFacts, RowsTyped DEF Shipment
<1>2. ASSUME NEW l \in 1..LineCount
      PROVE  TakenAt(s, at, m, P \union {p})[l] = TakenAt(s, at, m, P)[l] + TakenAt(s, at, m, {p})[l]
  <2>1. Taken(s, at, l) \in Nat
    BY TakenWithinOpen DEF Line
  <2> QED
    BY <2>1 DEF TakenAt
<1>3. ASSUME NEW k \in 1..Len(s.rows)
      PROVE  SentFrom(s, at, m, P \union {p})[k] = SentFrom(s, at, m, P)[k] + SentFrom(s, at, m, {p})[k]
  <2>1. s.rows[k].quantity \in Nat
    BY RowsTyped DEF Shipment
  <2> QED
    BY <2>1 DEF SentFrom
<1>4. Sum(TakenAt(s, at, m, P \union {p}), LineCount)
        = Sum(TakenAt(s, at, m, P), LineCount) + Sum(TakenAt(s, at, m, {p}), LineCount)
  BY <1>1, <1>2, TakenSentTyped, SumAdd
<1>5. Sum(SentFrom(s, at, m, P \union {p}), Len(s.rows))
        = Sum(SentFrom(s, at, m, P), Len(s.rows)) + Sum(SentFrom(s, at, m, {p}), Len(s.rows))
  BY <1>1, <1>3, TakenSentTyped, SumAdd
<1> QED
  BY <1>4, <1>5

\* What a shipment's rows come to for the lines of one material is what its rows
\* of that material come to.
LEMMA RowsByMaterial ==
  ASSUME NEW rows \in Rows, NEW o, OfOneOrder(rows, o), NEW m,
         NEW byRow \in [1..Len(rows) -> Int],
         \A k \in 1..Len(rows) :
           byRow[k] = IF MaterialOf[rows[k].line] = m THEN rows[k].quantity ELSE 0
  PROVE  OfOrderMaterial([l \in Line |-> OfLine(rows, l)], o, m) = Sum(byRow, Len(rows))
<1> DEFINE n == Len(rows)
           table == [l \in 1..LineCount |-> [k \in 1..n |->
                      IF OrderOf[l] = o /\ MaterialOf[l] = m /\ rows[k].line = l
                      THEN rows[k].quantity ELSE 0]]
           byLine == [l \in 1..LineCount |->
                       IF OrderOf[l] = o /\ MaterialOf[l] = m THEN OfLine(rows, l) ELSE 0]
<1>1. n \in Nat /\ LineCount \in Nat
  BY RowsTyped, LineFacts
<1>2. table \in [1..LineCount -> [1..n -> Int]]
  BY RowsTyped
<1>3. byLine \in [1..LineCount -> Int]
  BY OfLineNat
<1>4. ASSUME NEW l \in 1..LineCount PROVE byLine[l] = Sum(table[l], n)
  <2>1. CASE OrderOf[l] = o /\ MaterialOf[l] = m
    <3>1. table[l] = [k \in 1..n |-> IF rows[k].line = l THEN rows[k].quantity ELSE 0]
      BY <2>1
    <3> QED
      BY <2>1, <3>1 DEF OfLine
  <2>2. CASE ~ (OrderOf[l] = o /\ MaterialOf[l] = m)
    <3>1. byLine[l] = 0 /\ \A k \in 1..n : table[l][k] = 0
      BY <2>2
    <3>2. table[l] \in [1..n -> Int]
      BY <1>2
    <3> HIDE DEF table, byLine
    <3> QED
      BY <1>1, <3>1, <3>2, SumZero
  <2> QED
    BY <2>1, <2>2
<1>5. ASSUME NEW k \in 1..n PROVE byRow[k] = Sum([l \in 1..LineCount |-> table[l][k]], LineCount)
  <2> DEFINE column == [l \in 1..LineCount |-> table[l][k]]
             i == rows[k].line
  <2>1. i \in 1..LineCount
    BY RowsTyped DEF Line
  <2>2. OrderOf[i] = o
    BY DEF OfOneOrder
  <2>3. column \in [1..LineCount -> Int]
    BY <1>2
  <2>4. \A l \in 1..LineCount : l # i => column[l] = 0
    OBVIOUS
  <2>5. column[i] = byRow[k]
    BY <2>1, <2>2
  <2> HIDE DEF column, i
  <2>6. Sum(column, LineCount) = column[i]
    BY <1>1, <2>1, <2>3, <2>4, SumPoint
  <2> QED
    BY <2>5, <2>6 DEF column
<1>6. OfOrderMaterial([l \in Line |-> OfLine(rows, l)], o, m) = Sum(byLine, LineCount)
  <2>1. [l \in Line |-> IF OrderOf[l] = o /\ MaterialOf[l] = m
                        THEN [j \in Line |-> OfLine(rows, j)][l] ELSE 0] = byLine
    BY DEF Line
  <2> QED
    BY <2>1 DEF OfOrderMaterial
<1> HIDE DEF table, byLine
<1>7. Sum(byLine, LineCount) = Sum(byRow, n)
  BY <1>1, <1>2, <1>3, <1>4, <1>5, SumSwap
<1> QED
  BY <1>6, <1>7

\* A posting consumes as much of the order's reservations of a material as it
\* ships of that material: by places, one after the other, the two agree.
LEMMA TakenIsShipped ==
  ASSUME TypeOK, ReservationsWithinBounds, NEW s \in Shipment,
         OfOneOrder(s.rows, s.order),
         NEW at \in [1..Len(s.rows) -> Place], ReservationCovers(s, at),
         NEW m \in Material
  PROVE  OfOrderMaterial([l \in Line |-> Taken(s, at, l)], s.order, m)
           = OfOrderMaterial([l \in Line |-> OfLine(s.rows, l)], s.order, m)
<1> DEFINE N == LineCount
           n == Len(s.rows)
           Seen(j) == {reservations[i].location : i \in 1..j}
           S == {j \in 0..N : Sum(TakenAt(s, at, m, Seen(j)), N) = Sum(SentFrom(s, at, m, Seen(j)), n)}
<1>1. s.rows \in Rows
  BY DEF Shipment
<1>2. N \in Nat /\ n \in Nat
  BY <1>1, RowsTyped, LineFacts
<1>3. 0 \in S
  <2>1. /\ \A l \in 1..N : TakenAt(s, at, m, Seen(0))[l] = 0
        /\ \A k \in 1..n : SentFrom(s, at, m, Seen(0))[k] = 0
    BY DEF TakenAt, SentFrom
  <2> DEFINE P == Seen(0)
  <2>2. (\A l \in 1..N : TakenAt(s, at, m, P)[l] = 0) /\ \A k \in 1..n : SentFrom(s, at, m, P)[k] = 0
    BY <2>1
  <2> HIDE DEF P
  <2>3. Sum(TakenAt(s, at, m, P), N) = 0 /\ Sum(SentFrom(s, at, m, P), n) = 0
    BY <1>2, <2>2, TakenSentTyped, SumZero
  <2> QED
    BY <1>2, <2>3 DEF P
<1>4. ASSUME NEW j \in 0..N, j < N, j \in S PROVE j + 1 \in S
  <2> DEFINE P == Seen(j)
             p == reservations[j + 1].location
  <2>1. j + 1 \in 0..N /\ j + 1 \in Line
    BY <1>4, <1>2 DEF Line
  <2>2. p \in Place
    BY <2>1, ReservationTyped
  <2>3. Seen(j + 1) = P \union {p}
    BY <1>2, <1>4
  <2>4. Sum(TakenAt(s, at, m, P), N) = Sum(SentFrom(s, at, m, P), n)
    BY <1>4
  <2> HIDE DEF P, p
  <2>5. Sum(TakenAt(s, at, m, P \union {p}), N) = Sum(SentFrom(s, at, m, P \union {p}), n)
    <3>1. CASE p \in P
      <4>1. P \union {p} = P
        BY <3>1
      <4> QED
        BY <2>4, <4>1
    <3>2. CASE p \notin P
      <4>1. /\ Sum(TakenAt(s, at, m, P \union {p}), N)
                 = Sum(TakenAt(s, at, m, P), N) + Sum(TakenAt(s, at, m, {p}), N)
            /\ Sum(SentFrom(s, at, m, P \union {p}), n)
                 = Sum(SentFrom(s, at, m, P), n) + Sum(SentFrom(s, at, m, {p}), n)
        BY <3>2, PlacesAdd
      <4>2. Sum(TakenAt(s, at, m, {p}), N) = Sum(SentFrom(s, at, m, {p}), n)
        BY <2>2, TakenOnSpot
      <4> QED
        BY <2>4, <4>1, <4>2
    <3> QED
      BY <3>1, <3>2
  <2>6. Sum(TakenAt(s, at, m, Seen(j + 1)), N) = Sum(SentFrom(s, at, m, Seen(j + 1)), n)
    BY <2>3, <2>5
  <2> QED
    BY <2>1, <2>6
<1>5. Sum(TakenAt(s, at, m, Seen(N)), N) = Sum(SentFrom(s, at, m, Seen(N)), n)
  <2>1. \A j \in 0..N : j \in S
    <3> HIDE DEF S, N
    <3> QED
      BY <1>2, <1>3, <1>4, InductionUpTo
  <2> QED
    BY <1>2, <2>1
<1>6. OfOrderMaterial([l \in Line |-> Taken(s, at, l)], s.order, m) = Sum(TakenAt(s, at, m, Seen(N)), N)
  <2>1. [l \in Line |-> IF OrderOf[l] = s.order /\ MaterialOf[l] = m
                        THEN [j \in Line |-> Taken(s, at, j)][l] ELSE 0]
          = TakenAt(s, at, m, Seen(N))
    BY DEF Line, TakenAt
  <2> QED
    BY <2>1 DEF OfOrderMaterial
<1>7. OfOrderMaterial([l \in Line |-> OfLine(s.rows, l)], s.order, m)
        = Sum(SentFrom(s, at, m, Seen(N)), n)
  <2>1. \A k \in 1..n : MaterialOf[s.rows[k].line] = m => at[k] \in Seen(N)
    <3> SUFFICES ASSUME NEW k \in 1..n, MaterialOf[s.rows[k].line] = m, at[k] \notin Seen(N)
                 PROVE  FALSE
      OBVIOUS
    <3>1. at[k] \in Place
      OBVIOUS
    <3>2. s.rows[k].quantity \in Nat /\ s.rows[k].quantity > 0
      BY <1>1, RowsTyped
    <3>3. /\ OfDim(s.rows, at, Qualified(m, at[k])) \in Nat
          /\ s.rows[k].quantity <= OfDim(s.rows, at, Qualified(m, at[k]))
      BY <1>1, OfDimNat DEF Qualified
    <3>4. Consumable(s.order, m, at[k]) \in [1..LineCount -> Int]
      BY ConsumableType
    <3>5. \A l \in 1..LineCount : Consumable(s.order, m, at[k])[l] = 0
      BY DEF Consumable, Line
    <3>6. Sum(Consumable(s.order, m, at[k]), LineCount) = 0
      BY <1>2, <3>4, <3>5, SumZero
    <3>7. Sum(Consumable(s.order, m, at[k]), LineCount)
            >= OfDim(s.rows, at, Qualified(m, at[k]))
      BY <3>1 DEF ReservationCovers
    <3> QED
      BY <3>2, <3>3, <3>6, <3>7
  <2>2. \A k \in 1..Len(s.rows) : SentFrom(s, at, m, Seen(N))[k]
          = IF MaterialOf[s.rows[k].line] = m THEN s.rows[k].quantity ELSE 0
    BY <2>1 DEF SentFrom
  <2> DEFINE byRow == SentFrom(s, at, m, Seen(N))
  <2>3. byRow \in [1..Len(s.rows) -> Int]
    BY TakenSentTyped
  <2>4. \A k \in 1..Len(s.rows) :
          byRow[k] = IF MaterialOf[s.rows[k].line] = m THEN s.rows[k].quantity ELSE 0
    BY <2>2
  <2>5. \A rows \in Rows : OfOneOrder(rows, s.order) =>
          \A b \in [1..Len(rows) -> Int] :
            (\A k \in 1..Len(rows) :
               b[k] = IF MaterialOf[rows[k].line] = m THEN rows[k].quantity ELSE 0)
            => OfOrderMaterial([l \in Line |-> OfLine(rows, l)], s.order, m) = Sum(b, Len(rows))
    BY RowsByMaterial
  <2> HIDE DEF byRow
  <2>6. OfOrderMaterial([l \in Line |-> OfLine(s.rows, l)], s.order, m) = Sum(byRow, n)
    BY <1>1, <2>3, <2>4, <2>5
  <2> QED
    BY <2>6 DEF byRow
<1> QED
  BY <1>5, <1>6, <1>7
-----------------------------------------------------------------------------
(* Documents.                                                              *)

LEMMA AppendFacts ==
  ASSUME NEW T, NEW s \in Seq(T), NEW x \in T
  PROVE  /\ Append(s, x) \in Seq(T)
         /\ Len(Append(s, x)) = Len(s) + 1
         /\ \A j \in 1..Len(s) : Append(s, x)[j] = s[j]
         /\ Append(s, x)[Len(s) + 1] = x
OBVIOUS

LEMMA ReplaceFacts ==
  ASSUME NEW T, NEW s \in Seq(T), NEW i \in 1..Len(s), NEW x \in T
  PROVE  /\ [s EXCEPT ![i] = x] \in Seq(T)
         /\ Len([s EXCEPT ![i] = x]) = Len(s)
         /\ [s EXCEPT ![i] = x][i] = x
         /\ \A j \in 1..Len(s) : j # i => [s EXCEPT ![i] = x][j] = s[j]
OBVIOUS

\* What one document counts for an order line, and a return for the quarantine.
Counted(d, l) == IF d.status \in {"posted", "inspected"} THEN OfLine(d.rows, l) ELSE 0

Waiting(r, d) == IF r.status = "posted" THEN OfDim(r.rows, Places(r.rows), d) ELSE 0

Awaiting(docs, d) == Sum([i \in 1..Len(docs) |-> Waiting(docs[i], d)], Len(docs))

LEMMA CountedNat ==
  ASSUME NEW d, d.rows \in Rows, NEW x
  PROVE  Counted(d, x) \in Nat /\ Waiting(d, x) \in Nat
BY OfLineNat, OfDimNat DEF Counted, Waiting

LEMMA SettledAppend ==
  ASSUME NEW T, \A d \in T : d.rows \in Rows, NEW docs \in Seq(T), NEW doc \in T, NEW x
  PROVE  /\ Settled(Append(docs, doc), x) = Settled(docs, x) + Counted(doc, x)
         /\ Awaiting(Append(docs, doc), x) = Awaiting(docs, x) + Waiting(doc, x)
<1> DEFINE n == Len(docs)
           new == Append(docs, doc)
<1>1. /\ n \in Nat /\ Len(new) = n + 1
      /\ \A j \in 1..n : docs[j] \in T
      /\ \A j \in 1..n : new[j] = docs[j]
      /\ new[n + 1] = doc
  BY AppendFacts, ElementOfSeq
<1>2. \A j \in 1..(n + 1) : new[j] \in T
  BY <1>1
<1> HIDE DEF new
<1>3. Settled(new, x) = Settled(docs, x) + Counted(doc, x)
  <2> DEFINE f == [i \in 1..n |-> Counted(docs[i], x)]
             g == [i \in 1..(n + 1) |-> Counted(new[i], x)]
  <2>1. /\ f \in [1..n -> Int] /\ g \in [1..(n + 1) -> Int]
        /\ \A k \in 1..n : g[k] = f[k]
        /\ g[n + 1] = Counted(doc, x)
    BY <1>1, <1>2, CountedNat
  <2>2. Settled(docs, x) = Sum(f, n) /\ Settled(new, x) = Sum(g, n + 1)
    BY <1>1 DEF Settled, Counted
  <2> HIDE DEF f, g, n
  <2> QED
    BY <1>1, <2>1, <2>2, SumAppend
<1>4. Awaiting(new, x) = Awaiting(docs, x) + Waiting(doc, x)
  <2> DEFINE f == [i \in 1..n |-> Waiting(docs[i], x)]
             g == [i \in 1..(n + 1) |-> Waiting(new[i], x)]
  <2>1. /\ f \in [1..n -> Int] /\ g \in [1..(n + 1) -> Int]
        /\ \A k \in 1..n : g[k] = f[k]
        /\ g[n + 1] = Waiting(doc, x)
    BY <1>1, <1>2, CountedNat
  <2>2. Awaiting(docs, x) = Sum(f, n) /\ Awaiting(new, x) = Sum(g, n + 1)
    BY <1>1 DEF Awaiting
  <2> HIDE DEF f, g, n
  <2> QED
    BY <1>1, <2>1, <2>2, SumAppend
<1> QED
  BY <1>3, <1>4 DEF new

\* Document i is another one, and all else is as it was.
ReplacedAt(docs, new, i) ==
  /\ Len(docs) \in Nat /\ Len(new) = Len(docs) /\ i \in 1..Len(docs)
  /\ \A j \in 1..Len(docs) : docs[j].rows \in Rows /\ new[j].rows \in Rows
  /\ \A j \in 1..Len(docs) : j # i => new[j] = docs[j]

LEMMA SettledReplace ==
  ASSUME NEW docs, NEW new, NEW i, ReplacedAt(docs, new, i), NEW x
  PROVE  /\ Settled(new, x) = Settled(docs, x) + Counted(new[i], x) - Counted(docs[i], x)
         /\ Awaiting(new, x) = Awaiting(docs, x) + Waiting(new[i], x) - Waiting(docs[i], x)
<1> DEFINE n == Len(docs)
<1>1. /\ n \in Nat /\ Len(new) = n
      /\ \A j \in 1..n : docs[j].rows \in Rows /\ new[j].rows \in Rows
      /\ \A j \in 1..n : j # i => new[j] = docs[j]
      /\ i \in 1..n
  BY DEF ReplacedAt
<1>2. Settled(new, x) = Settled(docs, x) + Counted(new[i], x) - Counted(docs[i], x)
  <2> DEFINE f == [j \in 1..n |-> Counted(docs[j], x)]
             g == [j \in 1..n |-> Counted(new[j], x)]
  <2>1. /\ f \in [1..n -> Int] /\ g \in [1..n -> Int]
        /\ \A k \in 1..n : k # i => g[k] = f[k]
        /\ g[i] = Counted(new[i], x) /\ f[i] = Counted(docs[i], x)
    BY <1>1, CountedNat
  <2>2. Settled(docs, x) = Sum(f, n) /\ Settled(new, x) = Sum(g, n)
    BY <1>1 DEF Settled, Counted
  <2>3. i \in 1..n
    BY <1>1
  <2> HIDE DEF f, g, n
  <2>4. Sum(g, n) = Sum(f, n) + g[i] - f[i]
    BY <1>1, <2>1, <2>3, SumChange
  <2> QED
    BY <2>1, <2>2, <2>4
<1>3. Awaiting(new, x) = Awaiting(docs, x) + Waiting(new[i], x) - Waiting(docs[i], x)
  <2> DEFINE f == [j \in 1..n |-> Waiting(docs[j], x)]
             g == [j \in 1..n |-> Waiting(new[j], x)]
  <2>1. /\ f \in [1..n -> Int] /\ g \in [1..n -> Int]
        /\ \A k \in 1..n : k # i => g[k] = f[k]
        /\ g[i] = Waiting(new[i], x) /\ f[i] = Waiting(docs[i], x)
    BY <1>1, CountedNat
  <2>2. Awaiting(docs, x) = Sum(f, n) /\ Awaiting(new, x) = Sum(g, n)
    BY <1>1 DEF Awaiting
  <2>3. i \in 1..n
    BY <1>1
  <2> HIDE DEF f, g, n
  <2>4. Sum(g, n) = Sum(f, n) + g[i] - f[i]
    BY <1>1, <2>1, <2>3, SumChange
  <2> QED
    BY <2>1, <2>2, <2>4
<1> QED
  BY <1>2, <1>3

\* The types of documents, and that their totals are whole numbers.
LEMMA DocumentTyped ==
  /\ \A d \in Shipment : /\ d.order \in Order /\ d.rows \in Rows /\ d.issue \in Seq(Place)
                         /\ d.status \in {"draft", "posted", "cancelled"}
  /\ \A d \in Return : /\ d.order \in Order /\ d.rows \in Rows /\ d.shipment \in Nat
                       /\ d.status \in {"draft", "posted", "inspected", "cancelled"}
BY DEF Shipment, Return

LEMMA DocumentReplaced ==
  /\ \A docs \in Seq(Shipment), new \in Seq(Shipment) : \A i \in 1..Len(docs) :
       Len(new) = Len(docs) /\ (\A j \in 1..Len(docs) : j # i => new[j] = docs[j])
         => ReplacedAt(docs, new, i)
  /\ \A docs \in Seq(Return), new \in Seq(Return) : \A i \in 1..Len(docs) :
       Len(new) = Len(docs) /\ (\A j \in 1..Len(docs) : j # i => new[j] = docs[j])
         => ReplacedAt(docs, new, i)
<1>1. ASSUME NEW docs \in Seq(Shipment), NEW j \in 1..Len(docs) PROVE docs[j].rows \in Rows
  BY ElementOfSeq, DocumentTyped
<1>2. ASSUME NEW docs \in Seq(Return), NEW j \in 1..Len(docs) PROVE docs[j].rows \in Rows
  BY ElementOfSeq, DocumentTyped
<1> QED
  BY <1>1, <1>2 DEF ReplacedAt

LEMMA SettledInt ==
  ASSUME NEW T, \A d \in T : d.rows \in Rows, NEW docs \in Seq(T), NEW x
  PROVE  Settled(docs, x) \in Int /\ Awaiting(docs, x) \in Int
<1> DEFINE n == Len(docs)
           f == [j \in 1..n |-> Counted(docs[j], x)]
           g == [j \in 1..n |-> Waiting(docs[j], x)]
<1>1. n \in Nat /\ \A j \in 1..n : docs[j] \in T
  BY ElementOfSeq
<1>2. f \in [1..n -> Int] /\ g \in [1..n -> Int]
  BY <1>1, CountedNat
<1>3. Settled(docs, x) = Sum(f, n) /\ Awaiting(docs, x) = Sum(g, n)
  BY DEF Settled, Awaiting, Counted
<1> HIDE DEF f, g, n
<1> QED
  BY <1>1, <1>2, <1>3, SumType

-----------------------------------------------------------------------------
(* Steps on documents only.                                                *)

LEMMA DocumentsStep ==
  ASSUME Inv, UNCHANGED <<orders, shipped, returned, reservations, onHand>>,
         shipments' \in Seq(Shipment), returns' \in Seq(Return),
         DocumentsConsistent',
         \A x : Settled(shipments', x) = Settled(shipments, x),
         \A x : Settled(returns', x) = Settled(returns, x),
         \A x : Awaiting(returns', x) = Awaiting(returns, x)
  PROVE  Inv'
<1>1. TypeOK' /\ LinesWithinBounds' /\ ReservationsWithinBounds' /\ StatusFollowsQuantities'
  BY DEF Inv, TypeOK, LinesWithinBounds, ReservationsWithinBounds, StatusFollowsQuantities
<1>2. HeldIsOnHand' /\ ShippedComesFromReservations' /\ EndedHoldNothing'
  BY DEF Inv, HeldIsOnHand, Held, ShippedComesFromReservations, EndedHoldNothing
<1>3. QuantitiesFollowDocuments'
  BY DEF Inv, QuantitiesFollowDocuments
<1>4. QuarantineAwaitsInspection'
  <2> SUFFICES ASSUME NEW d \in Dim, d.quality = "quarantine"
               PROVE  onHand'[d] = Supply[d] + Awaiting(returns', d)
    BY DEF QuarantineAwaitsInspection, AwaitsInspection, Awaiting, Waiting
  <2>1. onHand[d] = Supply[d] + Awaiting(returns, d)
    BY DEF Inv, QuarantineAwaitsInspection, AwaitsInspection, Awaiting, Waiting
  <2> QED
    BY <2>1
<1> QED
  BY <1>1, <1>2, <1>3, <1>4 DEF Inv

\* A document that counts for nothing is added ...
LEMMA AddDraftShipment ==
  ASSUME Inv, NEW doc \in Shipment, doc.status = "draft", OfOneOrder(doc.rows, doc.order),
         shipments' = Append(shipments, doc),
         UNCHANGED <<orders, shipped, returned, reservations, onHand, returns>>
  PROVE  Inv'
<1>1. shipments \in Seq(Shipment) /\ returns \in Seq(Return)
  BY DEF Inv, TypeOK
<1>2. /\ shipments' \in Seq(Shipment) /\ Len(shipments') = Len(shipments) + 1
      /\ \A j \in 1..Len(shipments) : shipments'[j] = shipments[j]
      /\ shipments'[Len(shipments) + 1] = doc
  BY <1>1, AppendFacts
<1>3. DocumentsConsistent'
  <2>1. ASSUME NEW j \in 1..Len(shipments')
        PROVE  OfOneOrder(shipments'[j].rows, shipments'[j].order)
    <3>1. j \in 1..Len(shipments) \/ j = Len(shipments) + 1
      BY <1>1, <1>2
    <3> QED
      BY <3>1, <1>2 DEF Inv, DocumentsConsistent
  <2>2. \A j \in 1..Len(returns') : returns'[j].shipment \in 0..Len(shipments')
    BY <1>1, <1>2 DEF Inv, DocumentsConsistent
  <2> QED
    BY <2>1, <2>2 DEF Inv, DocumentsConsistent, OfOneOrder
<1>4. ASSUME NEW x PROVE Settled(shipments', x) = Settled(shipments, x)
  <2>1. Settled(shipments', x) = Settled(shipments, x) + Counted(doc, x)
    BY <1>1, DocumentTyped, SettledAppend
  <2>2. Counted(doc, x) = 0
    BY DEF Counted
  <2>3. Settled(shipments, x) \in Int
    BY <1>1, DocumentTyped, SettledInt
  <2> QED
    BY <2>1, <2>2, <2>3
<1> QED
  BY <1>1, <1>2, <1>3, <1>4, DocumentsStep

LEMMA AddDraftReturn ==
  ASSUME Inv, NEW doc \in Return, doc.status = "draft", OfOneOrder(doc.rows, doc.order),
         doc.shipment \in 0..Len(shipments),
         returns' = Append(returns, doc),
         UNCHANGED <<orders, shipped, returned, reservations, onHand, shipments>>
  PROVE  Inv'
<1>1. shipments \in Seq(Shipment) /\ returns \in Seq(Return)
  BY DEF Inv, TypeOK
<1>2. /\ returns' \in Seq(Return) /\ Len(returns') = Len(returns) + 1
      /\ \A j \in 1..Len(returns) : returns'[j] = returns[j]
      /\ returns'[Len(returns) + 1] = doc
  BY <1>1, AppendFacts
<1>3. DocumentsConsistent'
  <2>1. ASSUME NEW j \in 1..Len(returns')
        PROVE  /\ OfOneOrder(returns'[j].rows, returns'[j].order)
               /\ returns'[j].shipment \in 0..Len(shipments')
    <3>1. j \in 1..Len(returns) \/ j = Len(returns) + 1
      BY <1>1, <1>2
    <3> QED
      BY <3>1, <1>2 DEF Inv, DocumentsConsistent
  <2> QED
    BY <2>1 DEF Inv, DocumentsConsistent, OfOneOrder
<1>4. ASSUME NEW x PROVE /\ Settled(returns', x) = Settled(returns, x)
                         /\ Awaiting(returns', x) = Awaiting(returns, x)
  <2>1. /\ Settled(returns', x) = Settled(returns, x) + Counted(doc, x)
        /\ Awaiting(returns', x) = Awaiting(returns, x) + Waiting(doc, x)
    BY <1>1, DocumentTyped, SettledAppend
  <2>2. Counted(doc, x) = 0 /\ Waiting(doc, x) = 0
    BY DEF Counted, Waiting
  <2>3. Settled(returns, x) \in Int /\ Awaiting(returns, x) \in Int
    BY <1>1, DocumentTyped, SettledInt
  <2> QED
    BY <2>1, <2>2, <2>3
<1> QED
  BY <1>1, <1>2, <1>3, <1>4, DocumentsStep

\* ... or replaced by another.
LEMMA ReplaceDraftShipment ==
  ASSUME Inv, NEW i \in 1..Len(shipments), shipments[i].status = "draft",
         NEW doc \in Shipment, doc.status # "posted", OfOneOrder(doc.rows, doc.order),
         shipments' \in Seq(Shipment), Len(shipments') = Len(shipments),
         \A j \in 1..Len(shipments) : j # i => shipments'[j] = shipments[j],
         shipments'[i] = doc,
         UNCHANGED <<orders, shipped, returned, reservations, onHand, returns>>
  PROVE  Inv'
<1>1. shipments \in Seq(Shipment) /\ returns \in Seq(Return)
  BY DEF Inv, TypeOK
<1>2. /\ shipments' \in Seq(Shipment) /\ Len(shipments') = Len(shipments)
      /\ \A j \in 1..Len(shipments) : j # i => shipments'[j] = shipments[j]
      /\ shipments'[i] = doc
  OBVIOUS
<1>3. DocumentsConsistent'
  <2>1. DocumentsConsistent
    BY DEF Inv
  <2>2. ASSUME NEW j \in 1..Len(shipments') PROVE OfOneOrder(shipments'[j].rows, shipments'[j].order)
    <3>1. CASE j = i
      BY <1>2, <3>1
    <3>2. CASE j # i
      BY <1>2, <2>1, <3>2 DEF DocumentsConsistent
    <3> QED BY <3>1, <3>2
  <2>3. ASSUME NEW j \in 1..Len(returns')
        PROVE  OfOneOrder(returns'[j].rows, returns'[j].order) /\ returns'[j].shipment \in 0..Len(shipments')
    BY <1>2, <2>1 DEF DocumentsConsistent
  <2> QED BY <2>2, <2>3 DEF DocumentsConsistent
<1>4. ASSUME NEW x PROVE Settled(shipments', x) = Settled(shipments, x)
  <2>1. ReplacedAt(shipments, shipments', i)
    BY <1>1, <1>2, DocumentReplaced
  <2>2. Settled(shipments', x)
          = Settled(shipments, x) + Counted(shipments'[i], x) - Counted(shipments[i], x)
    BY <2>1, SettledReplace
  <2>3. Settled(shipments', x) = Settled(shipments, x) + Counted(doc, x) - Counted(shipments[i], x)
    BY <1>2, <2>2
  <2>4. Counted(doc, x) = 0 /\ Counted(shipments[i], x) = 0
    BY DocumentTyped DEF Counted
  <2>5. Settled(shipments, x) \in Int
    BY <1>1, DocumentTyped, SettledInt
  <2> QED
    BY <2>3, <2>4, <2>5
<1> QED
  BY <1>1, <1>2, <1>3, <1>4, DocumentsStep

LEMMA ReplaceDraftReturn ==
  ASSUME Inv, NEW i \in 1..Len(returns), returns[i].status = "draft",
         NEW doc \in Return, doc.status \in {"draft", "cancelled"},
         OfOneOrder(doc.rows, doc.order), doc.shipment \in 0..Len(shipments),
         returns' \in Seq(Return), Len(returns') = Len(returns),
         \A j \in 1..Len(returns) : j # i => returns'[j] = returns[j],
         returns'[i] = doc,
         UNCHANGED <<orders, shipped, returned, reservations, onHand, shipments>>
  PROVE  Inv'
<1>1. shipments \in Seq(Shipment) /\ returns \in Seq(Return)
  BY DEF Inv, TypeOK
<1>2. /\ returns' \in Seq(Return) /\ Len(returns') = Len(returns)
      /\ \A j \in 1..Len(returns) : j # i => returns'[j] = returns[j]
      /\ returns'[i] = doc
  OBVIOUS
<1>3. DocumentsConsistent'
  <2>1. ASSUME NEW j \in 1..Len(returns')
        PROVE  /\ OfOneOrder(returns'[j].rows, returns'[j].order)
               /\ returns'[j].shipment \in 0..Len(shipments')
    <3>1. j \in 1..Len(returns) /\ (j = i \/ returns'[j] = returns[j])
      BY <1>2
    <3>2. CASE j = i
      BY <1>2, <3>2
    <3>3. CASE returns'[j] = returns[j]
      BY <3>1, <3>3 DEF Inv, DocumentsConsistent
    <3> QED
      BY <3>1, <3>2, <3>3
  <2> QED
    BY <2>1 DEF Inv, DocumentsConsistent, OfOneOrder
<1>4. ASSUME NEW x PROVE /\ Settled(returns', x) = Settled(returns, x)
                         /\ Awaiting(returns', x) = Awaiting(returns, x)
  <2>1. ReplacedAt(returns, returns', i)
    BY <1>1, <1>2, DocumentReplaced
  <2>2. /\ Settled(returns', x)
              = Settled(returns, x) + Counted(returns'[i], x) - Counted(returns[i], x)
        /\ Awaiting(returns', x)
              = Awaiting(returns, x) + Waiting(returns'[i], x) - Waiting(returns[i], x)
    BY <2>1, SettledReplace
  <2>3. /\ Settled(returns', x) = Settled(returns, x) + Counted(doc, x) - Counted(returns[i], x)
        /\ Awaiting(returns', x) = Awaiting(returns, x) + Waiting(doc, x) - Waiting(returns[i], x)
    BY <1>2, <2>2
  <2>4. /\ Counted(doc, x) = 0 /\ Counted(returns[i], x) = 0
        /\ Waiting(doc, x) = 0 /\ Waiting(returns[i], x) = 0
    BY DEF Counted, Waiting
  <2>5. Settled(returns, x) \in Int /\ Awaiting(returns, x) \in Int
    BY <1>1, DocumentTyped, SettledInt
  <2> QED
    BY <2>3, <2>4, <2>5
<1> QED
  BY <1>1, <1>2, <1>3, <1>4, DocumentsStep

LEMMA DraftsKeepInv ==
  /\ \A o \in Order, rows \in RowInput : Inv /\ CreateShipment(o, rows) => Inv'
  /\ \A i \in 1..Len(shipments), rows \in RowInput : Inv /\ UpdateShipment(i, rows) => Inv'
  /\ \A i \in 1..Len(shipments) : Inv /\ CancelShipment(i) => Inv'
  /\ \A o \in Order, n \in 0..Len(shipments), rows \in RowInput :
       Inv /\ CreateReturn(o, n, rows) => Inv'
  /\ \A i \in 1..Len(returns), rows \in RowInput : Inv /\ UpdateReturn(i, rows) => Inv'
  /\ \A i \in 1..Len(returns) : Inv /\ CancelReturn(i) => Inv'
<1>1. /\ RowInput \subseteq Rows
      /\ Inv => shipments \in Seq(Shipment) /\ returns \in Seq(Return)
      /\ Inv => \A i \in 1..Len(shipments) : shipments[i] \in Shipment
      /\ Inv => \A i \in 1..Len(returns) : returns[i] \in Return
  BY InputsTyped, ElementOfSeq DEF Inv, TypeOK
<1>2. ASSUME NEW o \in Order, NEW rows \in RowInput, Inv, CreateShipment(o, rows) PROVE Inv'
  <2> DEFINE doc == [order |-> o, rows |-> rows, issue |-> <<>>, status |-> "draft"]
  <2>1. doc \in Shipment /\ doc.status = "draft" /\ doc.rows = rows /\ doc.order = o
    BY <1>1 DEF Shipment
  <2>2. /\ shipments' = Append(shipments, doc) /\ OfOneOrder(rows, o)
        /\ UNCHANGED <<orders, shipped, returned, reservations, onHand, returns>>
    BY <1>2 DEF CreateShipment
  <2> HIDE DEF doc
  <2> QED
    BY <1>2, <2>1, <2>2, AddDraftShipment
<1>3. ASSUME NEW i \in 1..Len(shipments), NEW rows \in RowInput, Inv, UpdateShipment(i, rows)
      PROVE  Inv'
  <2> DEFINE doc == [shipments[i] EXCEPT !.rows = rows]
  <2>1. /\ doc \in Shipment /\ doc.status = "draft" /\ doc.rows = rows
        /\ doc.order = shipments[i].order
    BY <1>1, <1>3 DEF Shipment, UpdateShipment
  <2>2. /\ shipments' = [shipments EXCEPT ![i] = doc] /\ OfOneOrder(rows, shipments[i].order)
        /\ shipments[i].status = "draft"
        /\ UNCHANGED <<orders, shipped, returned, reservations, onHand, returns>>
    BY <1>3 DEF UpdateShipment
  <2> HIDE DEF doc
  <2>3. /\ shipments' \in Seq(Shipment) /\ Len(shipments') = Len(shipments)
        /\ \A j \in 1..Len(shipments) : j # i => shipments'[j] = shipments[j]
        /\ shipments'[i] = doc
    BY <1>1, <1>3, <2>1, <2>2, ReplaceFacts
  <2> QED
    BY <1>3, <2>1, <2>2, <2>3, ReplaceDraftShipment
<1>4. ASSUME NEW i \in 1..Len(shipments), Inv, CancelShipment(i) PROVE Inv'
  <2> DEFINE doc == [shipments[i] EXCEPT !.status = "cancelled"]
  <2>1. /\ doc \in Shipment /\ doc.status = "cancelled" /\ doc.rows = shipments[i].rows
        /\ doc.order = shipments[i].order
    BY <1>1, <1>4 DEF Shipment
  <2>2. /\ shipments' = [shipments EXCEPT ![i] = doc]
        /\ OfOneOrder(shipments[i].rows, shipments[i].order)
        /\ shipments[i].status = "draft"
        /\ UNCHANGED <<orders, shipped, returned, reservations, onHand, returns>>
    BY <1>4 DEF CancelShipment, Inv, DocumentsConsistent
  <2> HIDE DEF doc
  <2>3. /\ shipments' \in Seq(Shipment) /\ Len(shipments') = Len(shipments)
        /\ \A j \in 1..Len(shipments) : j # i => shipments'[j] = shipments[j]
        /\ shipments'[i] = doc
    BY <1>1, <1>4, <2>1, <2>2, ReplaceFacts
  <2> QED
    BY <1>4, <2>1, <2>2, <2>3, ReplaceDraftShipment
<1>5. ASSUME NEW o \in Order, NEW n \in 0..Len(shipments), NEW rows \in RowInput,
             Inv, CreateReturn(o, n, rows)
      PROVE  Inv'
  <2> DEFINE doc == [order |-> o, rows |-> rows, shipment |-> n, status |-> "draft"]
  <2>1. /\ doc \in Return /\ doc.status = "draft" /\ doc.rows = rows /\ doc.order = o
        /\ doc.shipment \in 0..Len(shipments)
    BY <1>1, <1>5 DEF Return
  <2>2. /\ returns' = Append(returns, doc) /\ OfOneOrder(rows, o)
        /\ UNCHANGED <<orders, shipped, returned, reservations, onHand, shipments>>
    BY <1>5 DEF CreateReturn
  <2> HIDE DEF doc
  <2> QED
    BY <1>5, <2>1, <2>2, AddDraftReturn
<1>6. ASSUME NEW i \in 1..Len(returns), NEW rows \in RowInput, Inv, UpdateReturn(i, rows)
      PROVE  Inv'
  <2> DEFINE doc == [returns[i] EXCEPT !.rows = rows]
  <2>1. /\ doc \in Return /\ doc.status = "draft" /\ doc.rows = rows
        /\ doc.order = returns[i].order /\ doc.shipment = returns[i].shipment
    BY <1>1, <1>6 DEF Return, UpdateReturn
  <2>2. /\ returns' = [returns EXCEPT ![i] = doc] /\ OfOneOrder(rows, returns[i].order)
        /\ returns[i].status = "draft" /\ returns[i].shipment \in 0..Len(shipments)
        /\ UNCHANGED <<orders, shipped, returned, reservations, onHand, shipments>>
    BY <1>6 DEF UpdateReturn, Inv, DocumentsConsistent
  <2> HIDE DEF doc
  <2>3. /\ returns' \in Seq(Return) /\ Len(returns') = Len(returns)
        /\ \A j \in 1..Len(returns) : j # i => returns'[j] = returns[j]
        /\ returns'[i] = doc
    BY <1>1, <1>6, <2>1, <2>2, ReplaceFacts
  <2> QED
    BY <1>6, <2>1, <2>2, <2>3, ReplaceDraftReturn
<1>7. ASSUME NEW i \in 1..Len(returns), Inv, CancelReturn(i) PROVE Inv'
  <2> DEFINE doc == [returns[i] EXCEPT !.status = "cancelled"]
  <2>1. /\ doc \in Return /\ doc.status = "cancelled" /\ doc.rows = returns[i].rows
        /\ doc.order = returns[i].order /\ doc.shipment = returns[i].shipment
    BY <1>1, <1>7 DEF Return
  <2>2. /\ returns' = [returns EXCEPT ![i] = doc]
        /\ OfOneOrder(returns[i].rows, returns[i].order)
        /\ returns[i].status = "draft" /\ returns[i].shipment \in 0..Len(shipments)
        /\ UNCHANGED <<orders, shipped, returned, reservations, onHand, shipments>>
    BY <1>7 DEF CancelReturn, Inv, DocumentsConsistent
  <2> HIDE DEF doc
  <2>3. /\ returns' \in Seq(Return) /\ Len(returns') = Len(returns)
        /\ \A j \in 1..Len(returns) : j # i => returns'[j] = returns[j]
        /\ returns'[i] = doc
    BY <1>1, <1>7, <2>1, <2>2, ReplaceFacts
  <2> QED
    BY <1>7, <2>1, <2>2, <2>3, ReplaceDraftReturn
<1> QED
  BY <1>2, <1>3, <1>4, <1>5, <1>6, <1>7

-----------------------------------------------------------------------------
(* Steps on reservations.                                                  *)

HeldBy(res, m, p) ==
  Sum([l \in Line |-> IF MaterialOf[l] = m /\ res[l].location = p THEN Open(res[l]) ELSE 0],
      LineCount)

\* A reservation that can be: within the order line, and nothing overdrawn.
Sound(r, l) == r \in Reservation /\ r.quantity <= Ordered[l] /\ Open(r) >= 0

LEMMA SoundOpen ==
  ASSUME NEW r, NEW l, Sound(r, l)
  PROVE  /\ Open(r) \in Nat
         /\ r.location \in Place /\ r.quantity \in Nat /\ r.consumed \in Nat /\ r.released \in Nat
BY DEF Sound, Open, Reservation

LEMMA InvReservations ==
  ASSUME Inv
  PROVE  /\ reservations \in [Line -> Reservation]
         /\ \A l \in Line : Sound(reservations[l], l)
BY DEF Inv, TypeOK, ReservationsWithinBounds, Sound

LEMMA HeldByNat ==
  ASSUME NEW res, \A l \in Line : Sound(res[l], l), NEW m, NEW p
  PROVE  HeldBy(res, m, p) \in Nat
<1> DEFINE f == [l \in 1..LineCount |->
                  IF MaterialOf[l] = m /\ res[l].location = p THEN Open(res[l]) ELSE 0]
<1>1. f \in [1..LineCount -> Nat]
  BY SoundOpen DEF Line
<1>2. HeldBy(res, m, p) = Sum(f, LineCount)
  BY DEF HeldBy, Line
<1> HIDE DEF f
<1> QED
  BY <1>1, <1>2, LineFacts, SumOfNaturals

\* When no reservation moves or holds more, no place has more reserved.
LEMMA HeldFalls ==
  ASSUME NEW res, \A l \in Line : Sound(res[l], l),
         NEW new, \A l \in Line : Sound(new[l], l),
         \A l \in Line : /\ new[l].location = res[l].location
                         /\ Open(new[l]) <= Open(res[l]),
         NEW m, NEW p
  PROVE  HeldBy(new, m, p) <= HeldBy(res, m, p)
<1> DEFINE column(x) == [l \in 1..LineCount |->
                IF MaterialOf[l] = m /\ x[l].location = p THEN Open(x[l]) ELSE 0]
           f == column(res)
           g == column(new)
<1>1. f \in [1..LineCount -> Int] /\ g \in [1..LineCount -> Int]
  BY SoundOpen DEF Line
<1>2. \A l \in 1..LineCount : g[l] <= f[l]
  BY SoundOpen DEF Line
<1>3. HeldBy(res, m, p) = Sum(f, LineCount) /\ HeldBy(new, m, p) = Sum(g, LineCount)
  BY DEF HeldBy, Line
<1> HIDE DEF f, g
<1> QED
  BY <1>1, <1>2, <1>3, LineFacts, SumMonotone

LEMMA ReservationsStep ==
  ASSUME Inv, UNCHANGED <<shipped, returned, onHand, shipments, returns>>,
         orders' \in [Order -> OrderStatus],
         reservations' \in [Line -> Reservation],
         \A l \in Line : Sound(reservations'[l], l),
         \A l \in Line : reservations'[l].consumed = reservations[l].consumed,
         \A m \in Material, p \in Place : HeldBy(reservations', m, p) <= onHand[Qualified(m, p)],
         StatusFollowsQuantities', EndedHoldNothing'
  PROVE  Inv'
<1>1. TypeOK' /\ LinesWithinBounds' /\ ReservationsWithinBounds'
  BY DEF Inv, TypeOK, LinesWithinBounds, ReservationsWithinBounds, Sound
<1>2. HeldIsOnHand'
  BY DEF HeldIsOnHand, Held, HeldBy
<1>3. ShippedComesFromReservations'
  <2>1. [l \in Line |-> reservations'[l].consumed] = [l \in Line |-> reservations[l].consumed]
    OBVIOUS
  <2> QED
    BY <2>1 DEF Inv, ShippedComesFromReservations
<1>4. DocumentsConsistent' /\ QuantitiesFollowDocuments' /\ QuarantineAwaitsInspection'
  BY DEF Inv, DocumentsConsistent, QuantitiesFollowDocuments, QuarantineAwaitsInspection,
         AwaitsInspection
<1> QED
  BY <1>1, <1>2, <1>3, <1>4 DEF Inv

\* Releasing an order leaves every reservation sound, takes nothing from other
\* orders and leaves nothing open for this one.
LEMMA ReleasedFacts ==
  ASSUME Inv, NEW o \in Order
  PROVE  /\ Released(o) \in [Line -> Reservation]
         /\ \A l \in Line : /\ Sound(Released(o)[l], l)
                            /\ Released(o)[l].location = reservations[l].location
                            /\ Released(o)[l].consumed = reservations[l].consumed
                            /\ Open(Released(o)[l]) <= Open(reservations[l])
                            /\ OrderOf[l] = o => Open(Released(o)[l]) = 0
                            /\ OrderOf[l] # o => Released(o)[l] = reservations[l]
<1>1. ASSUME NEW l \in Line
      PROVE  /\ Released(o)[l] \in Reservation
             /\ Sound(Released(o)[l], l)
             /\ Released(o)[l].location = reservations[l].location
             /\ Released(o)[l].consumed = reservations[l].consumed
             /\ Open(Released(o)[l]) <= Open(reservations[l])
             /\ OrderOf[l] = o => Open(Released(o)[l]) = 0
             /\ OrderOf[l] # o => Released(o)[l] = reservations[l]
  <2>1. Sound(reservations[l], l) /\ reservations[l] \in Reservation
    BY InvReservations DEF Sound
  <2>2. CASE OrderOf[l] # o
    <3>1. Released(o)[l] = reservations[l]
      BY <2>2 DEF Released
    <3> QED
      BY <2>1, <2>2, <3>1, SoundOpen
  <2>3. CASE OrderOf[l] = o
    <3> DEFINE r == reservations[l]
               x == [r EXCEPT !.released = r.released + Open(r)]
    <3>1. Released(o)[l] = x
      BY <2>3 DEF Released
    <3>2. Open(r) \in Nat /\ r.released \in Nat
      BY <2>1, SoundOpen
    <3>3. /\ x \in Reservation
          /\ x.location = r.location /\ x.quantity = r.quantity /\ x.consumed = r.consumed
          /\ x.released = r.released + Open(r)
      BY <2>1, <3>2 DEF Reservation
    <3>4. r.quantity \in Nat /\ r.consumed \in Nat
      BY <2>1, SoundOpen
    <3>5. Open(x) = 0
      <4> HIDE DEF x, r
      <4> QED
        BY <3>2, <3>3, <3>4 DEF Open
    <3>6. Sound(x, l)
      BY <2>1, <3>3, <3>5 DEF Sound
    <3> HIDE DEF x
    <3> QED
      BY <2>3, <3>1, <3>2, <3>3, <3>5, <3>6
  <2> QED
    BY <2>2, <2>3
<1>2. Released(o) \in [Line -> Reservation]
  <2>1. Released(o) = [l \in Line |-> Released(o)[l]]
    BY DEF Released
  <2> QED
    BY <1>1, <2>1
<1> QED
  BY <1>1, <1>2

LEMMA ReleasingKeepsInv ==
  ASSUME Inv, NEW o \in Order, reservations' = Released(o),
         UNCHANGED <<shipped, returned, onHand, shipments, returns>>,
         orders' \in [Order -> OrderStatus],
         \A x \in Order : x # o => orders'[x] = orders[x],
         StatusFollowsQuantities'
  PROVE  Inv'
<1>1. /\ reservations' \in [Line -> Reservation]
      /\ \A l \in Line : /\ Sound(reservations'[l], l)
                         /\ reservations'[l].location = reservations[l].location
                         /\ reservations'[l].consumed = reservations[l].consumed
                         /\ Open(reservations'[l]) <= Open(reservations[l])
                         /\ OrderOf[l] = o => Open(reservations'[l]) = 0
                         /\ OrderOf[l] # o => reservations'[l] = reservations[l]
  BY ReleasedFacts
<1>2. ASSUME NEW m \in Material, NEW p \in Place
      PROVE  HeldBy(reservations', m, p) <= onHand[Qualified(m, p)]
  <2> DEFINE res == reservations
             new == reservations'
             there == onHand[Qualified(m, p)]
  <2>1. \A l \in Line : Sound(res[l], l) /\ Sound(new[l], l)
    BY <1>1, InvReservations
  <2>2. \A l \in Line : new[l].location = res[l].location /\ Open(new[l]) <= Open(res[l])
    BY <1>1
  <2>3. HeldBy(res, m, p) <= there
    BY DEF Inv, HeldIsOnHand, Held, HeldBy
  <2>4. there \in Nat
    BY DEF Inv, TypeOK, Dim, Qualified, Quality
  <2> HIDE DEF res, new, there
  <2>5. HeldBy(new, m, p) <= HeldBy(res, m, p)
    BY <2>1, <2>2, HeldFalls
  <2>6. HeldBy(new, m, p) \in Nat /\ HeldBy(res, m, p) \in Nat
    BY <2>1, HeldByNat
  <2>7. HeldBy(new, m, p) <= there
    BY <2>3, <2>4, <2>5, <2>6
  <2> QED
    BY <2>7 DEF new, there
<1>3. EndedHoldNothing'
  <2> SUFFICES ASSUME NEW l \in Line, orders'[OrderOf[l]] \in {"closed", "cancelled"}
               PROVE  Open(reservations'[l]) = 0
    BY DEF EndedHoldNothing
  <2>1. CASE OrderOf[l] = o
    BY <1>1, <2>1
  <2>2. CASE OrderOf[l] # o
    <3>1. orders'[OrderOf[l]] = orders[OrderOf[l]] /\ reservations'[l] = reservations[l]
      BY <1>1, <2>2, LineFacts
    <3> QED
      BY <3>1 DEF Inv, EndedHoldNothing
  <2> QED
    BY <2>1, <2>2
<1> QED
  BY <1>1, <1>2, <1>3, ReservationsStep

LEMMA OrderSumsNat ==
  ASSUME NEW f \in [Line -> Nat], NEW o
  PROVE  OfOrder(f, o) \in Nat /\ \A m : OfOrderMaterial(f, o, m) \in Nat
<1>1. OfOrder(f, o) \in Nat
  <2> DEFINE column == [l \in 1..LineCount |-> IF OrderOf[l] = o THEN f[l] ELSE 0]
  <2>1. column \in [1..LineCount -> Nat]
    BY DEF Line
  <2>2. OfOrder(f, o) = Sum(column, LineCount)
    BY DEF OfOrder, Line
  <2> HIDE DEF column
  <2> QED
    BY <2>1, <2>2, LineFacts, SumOfNaturals
<1>2. ASSUME NEW m PROVE OfOrderMaterial(f, o, m) \in Nat
  <2> DEFINE column == [l \in 1..LineCount |->
                         IF OrderOf[l] = o /\ MaterialOf[l] = m THEN f[l] ELSE 0]
  <2>1. column \in [1..LineCount -> Nat]
    BY DEF Line
  <2>2. OfOrderMaterial(f, o, m) = Sum(column, LineCount)
    BY DEF OfOrderMaterial, Line
  <2> HIDE DEF column
  <2> QED
    BY <2>1, <2>2, LineFacts, SumOfNaturals
<1> QED
  BY <1>1, <1>2

LEMMA ReleaseActionsKeepInv ==
  ASSUME Inv, NEW o \in Order, ReleaseOrderStock(o) \/ CancelOrder(o) \/ CloseOrder(o)
  PROVE  Inv'
<1>1. /\ reservations' = Released(o)
      /\ UNCHANGED <<shipped, returned, onHand, shipments, returns>>
  BY DEF ReleaseOrderStock, CancelOrder, CloseOrder
<1>2. orders \in [Order -> OrderStatus]
  BY DEF Inv, TypeOK
<1>3. /\ orders' \in [Order -> OrderStatus]
      /\ \A x \in Order : x # o => orders'[x] = orders[x]
      /\ \/ orders'[o] = orders[o]
         \/ orders'[o] = "cancelled" /\ orders[o] = "approved"
         \/ orders'[o] = "closed"
  BY <1>2 DEF ReleaseOrderStock, CancelOrder, CloseOrder, OrderStatus
<1>4. StatusFollowsQuantities'
  <2> SUFFICES ASSUME NEW x \in Order
               PROVE  /\ orders'[x] \in {"approved", "cancelled"} => OfOrder(shipped, x) = 0
                      /\ orders'[x] = "partially_shipped" =>
                           0 < OfOrder(shipped, x) /\ OfOrder(shipped, x) < OfOrder(Ordered, x)
                      /\ orders'[x] = "shipped" => OfOrder(shipped, x) = OfOrder(Ordered, x)
    BY <1>1 DEF StatusFollowsQuantities
  <2>1. /\ orders[x] \in {"approved", "cancelled"} => OfOrder(shipped, x) = 0
        /\ orders[x] = "partially_shipped" =>
             0 < OfOrder(shipped, x) /\ OfOrder(shipped, x) < OfOrder(Ordered, x)
        /\ orders[x] = "shipped" => OfOrder(shipped, x) = OfOrder(Ordered, x)
    BY DEF Inv, StatusFollowsQuantities
  <2> QED
    BY <1>3, <2>1
<1> QED
  BY <1>1, <1>3, <1>4, ReleasingKeepsInv

-----------------------------------------------------------------------------
(* Reserving.                                                              *)

\* What new reservations add at a place.
NewAt(new, at, m, p) ==
  [l \in 1..LineCount |->
    IF l \in new /\ MaterialOf[l] = m /\ at[l] = p THEN Remaining(l) ELSE 0]

\* Each line found what it needs beyond the lines before it: so all of them
\* together fit into what was free.
LEMMA NewFit ==
  ASSUME Inv, NEW new, new \subseteq Line, NEW at,
         \A l \in new : FreeFor(l, at[l], new, at) >= Remaining(l),
         NEW m \in Material, NEW p \in Place
  PROVE  /\ NewAt(new, at, m, p) \in [1..LineCount -> Int]
         /\ Sum(NewAt(new, at, m, p), LineCount) <= Available(m, p)
<1> DEFINE N == LineCount
           f == NewAt(new, at, m, p)
           q == Prefix(f, N)
           S == {i \in 0..N : q[i] <= Available(m, p)}
<1>1. N \in Nat
  BY LineFacts
<1>2. \A l \in Line : Remaining(l) \in Nat
  BY LineFacts DEF Remaining, Inv, LinesWithinBounds, TypeOK
<1>3. f \in [1..N -> Int]
  BY <1>2 DEF NewAt, Line
<1>4. Available(m, p) \in Nat
  <2>1. onHand[Qualified(m, p)] \in Nat
    BY DEF Inv, TypeOK, Dim, Qualified, Quality
  <2>2. Held(m, p) = HeldBy(reservations, m, p)
    BY DEF Held, HeldBy
  <2>3. HeldBy(reservations, m, p) \in Nat
    BY InvReservations, HeldByNat
  <2>4. Held(m, p) <= onHand[Qualified(m, p)]
    BY DEF Inv, HeldIsOnHand
  <2> QED
    BY <2>1, <2>2, <2>3, <2>4 DEF Available
<1>5. /\ q \in [0..N -> Int] /\ q[0] = 0
      /\ \A i \in 1..N : q[i] = q[i - 1] + f[i]
  <2> HIDE DEF f
  <2> QED
    BY <1>1, <1>3, PrefixDef
<1>6. ASSUME NEW i \in 1..N, i \in new, MaterialOf[i] = m, at[i] = p
      PROVE  q[i - 1] + Remaining(i) <= Available(m, p)
  <2> DEFINE h == [k \in Line |-> IF k \in new /\ k < i /\ MaterialOf[k] = MaterialOf[i] /\ at[k] = p
                                  THEN Remaining(k) ELSE 0]
  <2>1. FreeFor(i, p, new, at) >= Remaining(i)
    BY <1>6
  <2>2. FreeFor(i, p, new, at) = Available(m, p) - Sum(h, N)
    BY <1>6 DEF FreeFor
  <2>3. h \in [1..N -> Int] /\ i - 1 \in 0..N
    BY <1>1, <1>2 DEF Line
  <2>4. \A k \in 1..N : h[k] = IF k <= i - 1 THEN f[k] ELSE 0
    BY <1>6 DEF NewAt, Line
  <2> HIDE DEF h, f
  <2>5. Sum(h, N) = q[i - 1]
    BY <1>1, <1>3, <2>3, <2>4, SumCutOff
  <2>6. q[i - 1] \in Int /\ Remaining(i) \in Int
    BY <1>2, <1>5, <2>3 DEF Line
  <2> HIDE DEF q
  <2> QED
    BY <1>4, <2>1, <2>2, <2>5, <2>6
<1>7. 0 \in S
  BY <1>1, <1>4, <1>5
<1>8. ASSUME NEW k \in 0..N, k < N, k \in S PROVE k + 1 \in S
  <2>1. k + 1 \in 1..N /\ k + 1 \in 0..N /\ (k + 1) - 1 = k
    BY <1>1, <1>8
  <2>2. q[k + 1] = q[k] + f[k + 1]
    BY <1>5, <2>1
  <2>3. q[k] <= Available(m, p) /\ q[k] \in Int
    BY <1>5, <1>8
  <2>4. CASE k + 1 \in new /\ MaterialOf[k + 1] = m /\ at[k + 1] = p
    <3>1. f[k + 1] = Remaining(k + 1)
      BY <2>1, <2>4 DEF NewAt
    <3>2. q[k] + Remaining(k + 1) <= Available(m, p)
      BY <1>6, <2>1, <2>4
    <3> QED
      BY <2>1, <2>2, <3>1, <3>2
  <2>5. CASE ~ (k + 1 \in new /\ MaterialOf[k + 1] = m /\ at[k + 1] = p)
    <3>1. f[k + 1] = 0
      BY <2>1, <2>5 DEF NewAt
    <3> QED
      BY <2>1, <2>2, <2>3, <3>1
  <2> QED
    BY <2>4, <2>5
<1>9. N \in S
  <2> HIDE DEF S, N
  <2>1. \A k \in 0..N : k \in S
    BY <1>1, <1>7, <1>8, InductionUpTo
  <2> QED
    BY <1>1, <2>1
<1> QED
  BY <1>3, <1>9 DEF Sum

LEMMA ReserveKeepsInv ==
  ASSUME Inv, NEW o \in Order, ReserveOrderStock(o)
  PROVE  Inv'
<1> DEFINE new == Unreserved(o)
<1>1. PICK at \in [new -> Place] :
        /\ \A l \in new : FreeFor(l, at[l], new, at) >= Remaining(l)
        /\ reservations' = [l \in Line |->
             IF l \in new
             THEN [location |-> at[l], quantity |-> Remaining(l), consumed |-> 0, released |-> 0]
             ELSE reservations[l]]
  BY DEF ReserveOrderStock
<1>2. /\ orders[o] \in OpenForShipment
      /\ UNCHANGED <<orders, shipped, returned, onHand, shipments, returns>>
  BY DEF ReserveOrderStock
<1>3. /\ new \subseteq Line
      /\ \A l \in new : OrderOf[l] = o /\ reservations[l].quantity = 0
  BY DEF Unreserved
<1>4. \A l \in Line : Remaining(l) \in Nat /\ Remaining(l) <= Ordered[l]
  BY LineFacts DEF Remaining, Inv, LinesWithinBounds, TypeOK
<1> HIDE DEF new
<1>5. ASSUME NEW l \in Line
      PROVE  /\ reservations'[l] \in Reservation
             /\ Sound(reservations'[l], l)
             /\ reservations'[l].consumed = reservations[l].consumed
             /\ l \in new => /\ reservations'[l].location = at[l]
                             /\ Open(reservations'[l]) = Remaining(l)
                             /\ Open(reservations[l]) = 0
             /\ l \notin new => reservations'[l] = reservations[l]
  <2>1. Sound(reservations[l], l) /\ reservations[l] \in Reservation
    BY InvReservations
  <2>2. CASE l \notin new
    <3>1. reservations'[l] = reservations[l]
      BY <1>1, <2>2
    <3> QED
      BY <2>1, <2>2, <3>1
  <2>3. CASE l \in new
    <3> DEFINE r == reservations[l]
               x == [location |-> at[l], quantity |-> Remaining(l), consumed |-> 0, released |-> 0]
    <3>1. reservations'[l] = x
      BY <1>1, <2>3
    <3>2. r.quantity = 0 /\ r.consumed \in Nat /\ r.released \in Nat /\ Open(r) \in Nat
      BY <1>3, <2>1, <2>3, SoundOpen
    <3>3. r.consumed = 0 /\ Open(r) = 0
      BY <3>2 DEF Open
    <3>4. /\ x \in Reservation /\ x.location = at[l] /\ x.quantity = Remaining(l)
          /\ x.consumed = 0 /\ x.released = 0
      BY <1>4, <2>3 DEF Reservation
    <3>5. Open(x) = Remaining(l)
      <4> HIDE DEF x
      <4> QED
        BY <1>4, <3>4 DEF Open
    <3>6. Sound(x, l)
      BY <1>4, <3>4, <3>5 DEF Sound
    <3> HIDE DEF x, r
    <3> QED
      BY <2>3, <3>1, <3>3, <3>4, <3>5, <3>6 DEF r
  <2> QED
    BY <2>2, <2>3
<1>6. reservations' \in [Line -> Reservation]
  <2>1. reservations' = [l \in Line |-> reservations'[l]]
    BY <1>1
  <2> QED
    BY <1>5, <2>1
<1>7. ASSUME NEW m \in Material, NEW p \in Place
      PROVE  HeldBy(reservations', m, p) <= onHand[Qualified(m, p)]
  <2> DEFINE N == LineCount
             column(x) == [l \in 1..N |->
                IF MaterialOf[l] = m /\ x[l].location = p THEN Open(x[l]) ELSE 0]
             f == column(reservations)
             h == column(reservations')
             g == NewAt(new, at, m, p)
  <2>1. N \in Nat
    BY LineFacts
  <2>2. f \in [1..N -> Int] /\ h \in [1..N -> Int]
    BY <1>5, InvReservations, SoundOpen DEF Line
  <2>3. g \in [1..N -> Int] /\ Sum(g, N) <= Available(m, p)
    BY <1>1, <1>3, NewFit
  <2>4. \A l \in 1..N : h[l] = f[l] + g[l]
    <3> SUFFICES ASSUME NEW l \in 1..N PROVE h[l] = f[l] + g[l]
      OBVIOUS
    <3>1. l \in Line /\ Open(reservations[l]) \in Nat /\ Open(reservations'[l]) \in Nat
      BY <1>5, InvReservations, SoundOpen DEF Line
    <3>2. CASE l \in new
      BY <1>4, <1>5, <3>1, <3>2 DEF NewAt
    <3>3. CASE l \notin new
      BY <1>5, <3>1, <3>3 DEF NewAt
    <3> QED
      BY <3>2, <3>3
  <2>5. HeldBy(reservations, m, p) = Sum(f, N) /\ HeldBy(reservations', m, p) = Sum(h, N)
    BY DEF HeldBy, Line
  <2>6. Available(m, p) = onHand[Qualified(m, p)] - HeldBy(reservations, m, p)
    BY DEF Available, Held, HeldBy
  <2>7. onHand[Qualified(m, p)] \in Nat
    BY DEF Inv, TypeOK, Dim, Qualified, Quality
  <2> HIDE DEF f, g, h, N
  <2>8. Sum(h, N) = Sum(f, N) + Sum(g, N) /\ Sum(f, N) \in Int /\ Sum(g, N) \in Int
    BY <2>1, <2>2, <2>3, <2>4, SumAdd, SumType
  <2> QED
    BY <2>3, <2>5, <2>6, <2>7, <2>8
<1>8. StatusFollowsQuantities'
  BY <1>2 DEF Inv, StatusFollowsQuantities
<1>9. EndedHoldNothing'
  <2> SUFFICES ASSUME NEW l \in Line, orders[OrderOf[l]] \in {"closed", "cancelled"}
               PROVE  Open(reservations'[l]) = 0
    BY <1>2 DEF EndedHoldNothing
  <2>1. l \notin new
    BY <1>2, <1>3 DEF OpenForShipment
  <2> QED
    BY <1>5, <2>1 DEF Inv, EndedHoldNothing
<1>10. orders' \in [Order -> OrderStatus]
  BY <1>2 DEF Inv, TypeOK
<1> QED
  BY <1>2, <1>5, <1>6, <1>7, <1>8, <1>9, <1>10, ReservationsStep

-----------------------------------------------------------------------------
(* Moves and returns.                                                      *)

LEMMA QualifiedDim ==
  /\ \A m \in Material, p \in Place : Qualified(m, p) \in Dim
  /\ \A m, p : /\ Qualified(m, p).material = m /\ Qualified(m, p).location = p
               /\ Qualified(m, p).quality = "qualified"
  /\ \A d \in Dim : /\ d.material \in Material /\ d.location \in Place
                    /\ d.quality \in Quality
                    /\ d.quality = "qualified" => d = Qualified(d.material, d.location)
BY DEF Qualified, Dim, Quality

LEMMA HeldNat ==
  ASSUME Inv, NEW m, NEW p
  PROVE  Held(m, p) \in Nat
<1>1. Held(m, p) = HeldBy(reservations, m, p)
  BY DEF Held, HeldBy
<1> QED
  BY <1>1, InvReservations, HeldByNat

LEMMA MoveKeepsInv ==
  ASSUME Inv, NEW m \in Material, NEW p \in Place, NEW q \in Place, NEW amount \in Amount,
         MoveStock(m, p, q, amount)
  PROVE  Inv'
<1> DEFINE from == Qualified(m, p)
           to == Qualified(m, q)
<1>1. /\ p # q /\ Available(m, p) >= amount
      /\ onHand' = [onHand EXCEPT ![from] = onHand[from] - amount, ![to] = onHand[to] + amount]
      /\ UNCHANGED <<orders, shipped, returned, reservations, shipments, returns>>
  <2>1. from # to
    BY DEF MoveStock, Qualified
  <2> QED
    BY <2>1 DEF MoveStock
<1>2. from \in Dim /\ to \in Dim /\ from # to /\ amount \in Nat /\ onHand \in [Dim -> Nat]
  BY <1>1, QualifiedDim, InputsTyped DEF Inv, TypeOK, Positive
<1>3. onHand[from] >= Held(m, p) + amount
  BY <1>1, <1>2, HeldNat DEF Available
<1> HIDE DEF from, to
<1>4. \A d \in Dim : onHand'[d] = IF d = from THEN onHand[d] - amount
                                  ELSE IF d = to THEN onHand[d] + amount ELSE onHand[d]
  BY <1>1, <1>2
<1>5. onHand' \in [Dim -> Nat]
  <2>1. onHand' = [d \in Dim |-> onHand'[d]]
    BY <1>1, <1>2
  <2>2. \A d \in Dim : onHand'[d] \in Nat
    BY <1>2, <1>3, <1>4, HeldNat
  <2> QED
    BY <2>1, <2>2
<1>6. HeldIsOnHand'
  <2> SUFFICES ASSUME NEW x \in Material, NEW y \in Place
               PROVE  Held(x, y) <= onHand'[Qualified(x, y)]
    BY <1>1 DEF HeldIsOnHand, Held
  <2>1. Held(x, y) <= onHand[Qualified(x, y)]
    BY DEF Inv, HeldIsOnHand
  <2>2. Qualified(x, y) = from => x = m /\ y = p
    BY QualifiedDim DEF from
  <2>3. Qualified(x, y) \in Dim
    BY QualifiedDim
  <2> QED
    BY <1>2, <1>3, <1>4, <2>1, <2>2, <2>3, HeldNat
<1>7. QuarantineAwaitsInspection'
  <2> SUFFICES ASSUME NEW d \in Dim, d.quality = "quarantine"
               PROVE  onHand'[d] = Supply[d] + AwaitsInspection(d)
    BY <1>1 DEF QuarantineAwaitsInspection, AwaitsInspection
  <2>1. d # from /\ d # to
    BY QualifiedDim DEF from, to
  <2> QED
    BY <1>4, <2>1 DEF Inv, QuarantineAwaitsInspection
<1>8. TypeOK' /\ LinesWithinBounds' /\ ReservationsWithinBounds'
  BY <1>1, <1>5 DEF Inv, TypeOK, LinesWithinBounds, ReservationsWithinBounds
<1>9. ShippedComesFromReservations' /\ StatusFollowsQuantities' /\ EndedHoldNothing'
  BY <1>1 DEF Inv, ShippedComesFromReservations, StatusFollowsQuantities, EndedHoldNothing
<1>10. DocumentsConsistent' /\ QuantitiesFollowDocuments'
  BY <1>1 DEF Inv, DocumentsConsistent, QuantitiesFollowDocuments
<1> QED
  BY <1>6, <1>7, <1>8, <1>9, <1>10 DEF Inv

\* A step of returns and their goods: nothing qualified leaves.
LEMMA ReturnsStep ==
  ASSUME Inv, UNCHANGED <<orders, shipped, reservations, shipments>>,
         returned' \in [Line -> Nat], \A l \in Line : returned'[l] <= shipped[l],
         onHand' \in [Dim -> Nat],
         \A d \in Dim : d.quality = "qualified" => onHand'[d] >= onHand[d],
         returns' \in Seq(Return), DocumentsConsistent',
         \A l \in Line : returned'[l] = Settled(returns', l),
         \A d \in Dim : d.quality = "quarantine" => onHand'[d] = Supply[d] + Awaiting(returns', d)
  PROVE  Inv'
<1>1. TypeOK' /\ LinesWithinBounds' /\ ReservationsWithinBounds'
  BY DEF Inv, TypeOK, LinesWithinBounds, ReservationsWithinBounds
<1>2. HeldIsOnHand'
  <2> SUFFICES ASSUME NEW x \in Material, NEW y \in Place
               PROVE  Held(x, y) <= onHand'[Qualified(x, y)]
    BY DEF HeldIsOnHand, Held
  <2>1. Held(x, y) <= onHand[Qualified(x, y)] /\ onHand \in [Dim -> Nat]
    BY DEF Inv, TypeOK, HeldIsOnHand
  <2>2. onHand'[Qualified(x, y)] >= onHand[Qualified(x, y)] /\ Qualified(x, y) \in Dim
    BY QualifiedDim
  <2> QED
    BY <2>1, <2>2, HeldNat
<1>3. ShippedComesFromReservations' /\ StatusFollowsQuantities' /\ EndedHoldNothing'
  BY DEF Inv, ShippedComesFromReservations, StatusFollowsQuantities, EndedHoldNothing
<1>4. QuantitiesFollowDocuments'
  BY DEF Inv, QuantitiesFollowDocuments
<1>5. QuarantineAwaitsInspection'
  BY DEF QuarantineAwaitsInspection, AwaitsInspection, Awaiting, Waiting
<1> QED
  BY <1>1, <1>2, <1>3, <1>4, <1>5 DEF Inv

\* Inheriting a location changes no line and no quantity.
LEMMA InheritFacts ==
  ASSUME Inv, NEW i \in 1..Len(returns)
  PROVE  /\ InheritDimensions(returns[i]) \in Rows
         /\ OfOneOrder(InheritDimensions(returns[i]), returns[i].order)
<1> DEFINE r == returns[i]
           s == shipments[r.shipment]
           rows == InheritDimensions(r)
           Row == [line : Line, location : Place, quantity : Positive]
<1>1. r \in Return /\ r.rows \in Rows /\ r.rows \in Seq(Row) /\ r.rows # <<>>
  <2>1. r \in Return
    BY ElementOfSeq DEF Inv, TypeOK
  <2> QED
    BY <2>1, DocumentTyped DEF Rows
<1>2. Len(r.rows) \in Nat /\ Len(r.rows) > 0 /\ \A k \in 1..Len(r.rows) : r.rows[k] \in Row
  <2> HIDE DEF Row
  <2> QED
    BY <1>1, ElementOfSeq
<1>3. ASSUME NEW k \in 1..Len(r.rows)
      PROVE  rows[k] \in Row /\ rows[k].line = r.rows[k].line
  <2> DEFINE sent == IF r.shipment = 0 THEN {}
                     ELSE {j \in 1..Len(s.issue) :
                            MaterialOf[s.rows[j].line] = MaterialOf[r.rows[k].line]}
             first == CHOOSE j \in sent : \A h \in sent : j <= h
             x == [r.rows[k] EXCEPT !.location = s.issue[first]]
  <2>1. rows[k] = IF r.rows[k].location = NoLocation /\ sent # {} THEN x ELSE r.rows[k]
    <3>1. rows[k] = InheritedRow(r, k)
      BY DEF InheritDimensions
    <3> QED
      BY <3>1 DEF InheritedRow
  <2>2. r.rows[k] \in Row
    BY <1>2
  <2>3. ASSUME sent # {} PROVE s.issue[first] \in Place
    <3>1. r.shipment \in 1..Len(shipments)
      <4>1. r.shipment \in 0..Len(shipments) /\ r.shipment # 0
        BY <2>3 DEF Inv, DocumentsConsistent
      <4> QED
        BY <4>1
    <3>2. s.issue \in Seq(Place)
      BY <3>1, ElementOfSeq, DocumentTyped DEF Inv, TypeOK
    <3>3. sent \subseteq 1..Len(s.issue) /\ sent \subseteq Nat
      OBVIOUS
    <3> HIDE DEF sent
    <3>4. first \in sent
      BY <2>3, <3>3, LeastNatural
    <3>5. first \in 1..Len(s.issue)
      BY <3>3, <3>4
    <3> HIDE DEF first, s
    <3> QED
      BY <3>2, <3>5, ElementOfSeq
  <2>4. CASE r.rows[k].location = NoLocation /\ sent # {}
    <3>1. s.issue[first] \in Place
      BY <2>3, <2>4
    <3> HIDE DEF first, s, r
    <3>2. x \in Row /\ x.line = r.rows[k].line
      BY <2>2, <3>1
    <3> HIDE DEF x
    <3> QED
      BY <2>1, <2>4, <3>2
  <2>5. CASE ~ (r.rows[k].location = NoLocation /\ sent # {})
    BY <2>1, <2>2, <2>5
  <2> QED
    BY <2>4, <2>5
<1>4. rows = [k \in 1..Len(r.rows) |-> rows[k]]
  BY DEF InheritDimensions
<1>5. rows \in Seq(Row) /\ Len(rows) = Len(r.rows)
  <2> DEFINE n == Len(r.rows)
  <2>1. rows \in [1..n -> Row]
    <3> HIDE DEF rows, Row, r
    <3> QED
      BY <1>3, <1>4
  <2>2. n \in Nat
    BY <1>2
  <2> HIDE DEF rows, Row, r, n
  <2>3. rows \in Seq(Row) /\ Len(rows) = n
    BY <2>1, <2>2
  <2> QED
    BY <2>3 DEF n
<1>6. rows \in Rows
  <2> HIDE DEF rows, r
  <2> QED
    BY <1>2, <1>5 DEF Rows
<1>7. OfOneOrder(rows, r.order)
  <2>1. \A k \in 1..Len(r.rows) : OrderOf[r.rows[k].line] = r.order
    BY DEF Inv, DocumentsConsistent, OfOneOrder
  <2> HIDE DEF rows, r
  <2> QED
    BY <1>3, <1>5, <2>1 DEF OfOneOrder
<1> QED
  BY <1>6, <1>7

LEMMA PostReturnKeepsInv ==
  ASSUME Inv, NEW i \in 1..Len(returns), PostReturn(i)
  PROVE  Inv'
<1> DEFINE r == returns[i]
           rows == InheritDimensions(r)
           doc == [r EXCEPT !.status = "posted", !.rows = rows]
<1>1. /\ r.status = "draft"
      /\ \A l \in Line : returned[l] + OfLine(rows, l) <= shipped[l]
      /\ onHand' = [d \in Dim |->
           IF d.quality = "quarantine" THEN onHand[d] + OfDim(rows, Places(rows), d)
           ELSE onHand[d]]
      /\ returned' = [l \in Line |-> returned[l] + OfLine(rows, l)]
      /\ returns' = [returns EXCEPT ![i] = doc]
      /\ UNCHANGED <<orders, shipped, reservations, shipments>>
  BY DEF PostReturn, Posted
<1>2. rows \in Rows /\ OfOneOrder(rows, r.order)
  BY InheritFacts
<1>3. /\ returns \in Seq(Return) /\ r \in Return /\ onHand \in [Dim -> Nat]
      /\ returned \in [Line -> Nat]
  BY ElementOfSeq DEF Inv, TypeOK
<1> HIDE DEF rows
<1>4. /\ doc \in Return /\ doc.status = "posted" /\ doc.rows = rows
      /\ doc.order = r.order /\ doc.shipment = r.shipment
  BY <1>2, <1>3 DEF Return
<1>5. r.shipment \in 0..Len(shipments)
  BY DEF Inv, DocumentsConsistent
<1> HIDE DEF doc
<1>6. /\ returns' \in Seq(Return) /\ Len(returns') = Len(returns)
      /\ \A j \in 1..Len(returns) : j # i => returns'[j] = returns[j]
      /\ returns'[i] = doc
  BY <1>1, <1>3, <1>4, ReplaceFacts
<1>7. ASSUME NEW x
      PROVE  /\ Settled(returns', x) = Settled(returns, x) + OfLine(rows, x)
             /\ Awaiting(returns', x) = Awaiting(returns, x) + OfDim(rows, Places(rows), x)
  <2>1. ReplacedAt(returns, returns', i)
    BY <1>3, <1>6, DocumentReplaced
  <2>2. /\ Settled(returns', x) = Settled(returns, x) + Counted(doc, x) - Counted(r, x)
        /\ Awaiting(returns', x) = Awaiting(returns, x) + Waiting(doc, x) - Waiting(r, x)
    BY <1>3, <1>6, <2>1, SettledReplace
  <2>3. Counted(doc, x) = OfLine(rows, x) /\ Waiting(doc, x) = OfDim(rows, Places(rows), x)
    BY <1>4 DEF Counted, Waiting
  <2>4. Counted(r, x) = 0 /\ Waiting(r, x) = 0
    BY <1>1 DEF Counted, Waiting
  <2>5. Settled(returns, x) \in Int /\ Awaiting(returns, x) \in Int
    BY <1>3, DocumentTyped, SettledInt
  <2>6. OfLine(rows, x) \in Nat /\ OfDim(rows, Places(rows), x) \in Nat
    BY <1>2, OfLineNat, OfDimNat
  <2> HIDE DEF r
  <2> QED
    BY <2>2, <2>3, <2>4, <2>5, <2>6
<1>8. \A l \in Line : OfLine(rows, l) \in Nat
  BY <1>2, OfLineNat
<1>9. \A d : OfDim(rows, Places(rows), d) \in Nat
  BY <1>2, OfDimNat
<1>10. returned' \in [Line -> Nat] /\ \A l \in Line : returned'[l] <= shipped[l]
  BY <1>1, <1>3, <1>8
<1>11. onHand' \in [Dim -> Nat]
  BY <1>1, <1>3, <1>9
<1>12. \A d \in Dim : d.quality = "qualified" => onHand'[d] >= onHand[d]
  BY <1>1, <1>3
<1>13. DocumentsConsistent'
  <2>1. ASSUME NEW j \in 1..Len(returns')
        PROVE  /\ OfOneOrder(returns'[j].rows, returns'[j].order)
               /\ returns'[j].shipment \in 0..Len(shipments')
    BY <1>1, <1>2, <1>4, <1>5, <1>6 DEF Inv, DocumentsConsistent
  <2> QED
    BY <1>1, <2>1 DEF Inv, DocumentsConsistent, OfOneOrder
<1>14. ASSUME NEW l \in Line PROVE returned'[l] = Settled(returns', l)
  <2>1. returned[l] = Settled(returns, l)
    BY DEF Inv, QuantitiesFollowDocuments
  <2> QED
    BY <1>1, <1>7, <2>1
<1>15. ASSUME NEW d \in Dim, d.quality = "quarantine"
       PROVE  onHand'[d] = Supply[d] + Awaiting(returns', d)
  <2>1. onHand[d] = Supply[d] + Awaiting(returns, d)
    BY <1>15 DEF Inv, QuarantineAwaitsInspection, AwaitsInspection, Awaiting, Waiting
  <2>2. Awaiting(returns, d) \in Int /\ Supply[d] \in Nat
    BY <1>3, DocumentTyped, SettledInt, InputsTyped
  <2>3. onHand'[d] = onHand[d] + OfDim(rows, Places(rows), d)
    BY <1>1, <1>15
  <2>4. Awaiting(returns', d) = Awaiting(returns, d) + OfDim(rows, Places(rows), d)
    BY <1>7
  <2>5. OfDim(rows, Places(rows), d) \in Nat
    BY <1>9
  <2> QED
    BY <2>1, <2>2, <2>3, <2>4, <2>5
<1> QED
  BY <1>1, <1>6, <1>10, <1>11, <1>12, <1>13, <1>14, <1>15, ReturnsStep

LEMMA InspectReturnKeepsInv ==
  ASSUME Inv, NEW i \in 1..Len(returns), NEW result \in {"qualified", "rejected"},
         InspectReturn(i, result)
  PROVE  Inv'
<1> DEFINE r == returns[i]
           doc == [r EXCEPT !.status = "inspected"]
           moved(d) == OfDim(r.rows, Places(r.rows), d)
<1>1. /\ r.status = "posted"
      /\ \A d \in Dim : d.quality = "quarantine" => moved(d) <= onHand[d]
      /\ onHand' = [d \in Dim |->
           IF d.quality = "quarantine" THEN onHand[d] - moved(d)
           ELSE IF d.quality = result THEN onHand[d] + moved(d) ELSE onHand[d]]
      /\ returns' = [returns EXCEPT ![i] = doc]
      /\ UNCHANGED <<orders, shipped, returned, reservations, shipments>>
  BY DEF InspectReturn, Inspected
<1>2. /\ returns \in Seq(Return) /\ r \in Return /\ onHand \in [Dim -> Nat]
      /\ returned \in [Line -> Nat]
  BY ElementOfSeq DEF Inv, TypeOK
<1>3. r.rows \in Rows /\ OfOneOrder(r.rows, r.order) /\ r.shipment \in 0..Len(shipments)
  BY <1>2, DocumentTyped DEF Inv, DocumentsConsistent
<1>4. /\ doc \in Return /\ doc.status = "inspected" /\ doc.rows = r.rows
      /\ doc.order = r.order /\ doc.shipment = r.shipment
  BY <1>2 DEF Return
<1>5. \A d : moved(d) \in Nat
  BY <1>3, OfDimNat
<1> HIDE DEF doc, moved
<1>6. /\ returns' \in Seq(Return) /\ Len(returns') = Len(returns)
      /\ \A j \in 1..Len(returns) : j # i => returns'[j] = returns[j]
      /\ returns'[i] = doc
  BY <1>1, <1>2, <1>4, ReplaceFacts
<1>7. ASSUME NEW x
      PROVE  /\ Settled(returns', x) = Settled(returns, x)
             /\ Awaiting(returns', x) = Awaiting(returns, x) - moved(x)
  <2>1. ReplacedAt(returns, returns', i)
    BY <1>2, <1>6, DocumentReplaced
  <2>2. /\ Settled(returns', x) = Settled(returns, x) + Counted(doc, x) - Counted(r, x)
        /\ Awaiting(returns', x) = Awaiting(returns, x) + Waiting(doc, x) - Waiting(r, x)
    BY <1>2, <1>6, <2>1, SettledReplace
  <2>3. Counted(doc, x) = OfLine(r.rows, x) /\ Waiting(doc, x) = 0
    BY <1>4 DEF Counted, Waiting
  <2>4. Counted(r, x) = OfLine(r.rows, x) /\ Waiting(r, x) = moved(x)
    BY <1>1 DEF Counted, Waiting, moved
  <2>5. Settled(returns, x) \in Int /\ Awaiting(returns, x) \in Int
    BY <1>2, DocumentTyped, SettledInt
  <2>6. OfLine(r.rows, x) \in Nat /\ moved(x) \in Nat
    BY <1>3, <1>5, OfLineNat
  <2> HIDE DEF r
  <2> QED
    BY <2>2, <2>3, <2>4, <2>5, <2>6
<1>8. returned' \in [Line -> Nat] /\ \A l \in Line : returned'[l] <= shipped[l]
  BY <1>1, <1>2 DEF Inv, LinesWithinBounds
<1>9. onHand' \in [Dim -> Nat]
  BY <1>1, <1>2, <1>5
<1>10. \A d \in Dim : d.quality = "qualified" => onHand'[d] >= onHand[d]
  BY <1>1, <1>2, <1>5
<1>11. DocumentsConsistent'
  <2>1. ASSUME NEW j \in 1..Len(returns')
        PROVE  /\ OfOneOrder(returns'[j].rows, returns'[j].order)
               /\ returns'[j].shipment \in 0..Len(shipments')
    BY <1>1, <1>3, <1>4, <1>6 DEF Inv, DocumentsConsistent
  <2> QED
    BY <1>1, <2>1 DEF Inv, DocumentsConsistent, OfOneOrder
<1>12. \A l \in Line : returned'[l] = Settled(returns', l)
  BY <1>1, <1>7 DEF Inv, QuantitiesFollowDocuments
<1>13. ASSUME NEW d \in Dim, d.quality = "quarantine"
       PROVE  onHand'[d] = Supply[d] + Awaiting(returns', d)
  <2>1. onHand[d] = Supply[d] + Awaiting(returns, d)
    BY <1>13 DEF Inv, QuarantineAwaitsInspection, AwaitsInspection, Awaiting, Waiting
  <2>2. Awaiting(returns, d) \in Int /\ Supply[d] \in Nat
    BY <1>2, DocumentTyped, SettledInt, InputsTyped
  <2>3. onHand'[d] = onHand[d] - moved(d)
    BY <1>1, <1>13
  <2>4. Awaiting(returns', d) = Awaiting(returns, d) - moved(d)
    BY <1>7
  <2>5. moved(d) \in Nat
    BY <1>5
  <2> QED
    BY <2>1, <2>2, <2>3, <2>4, <2>5
<1> QED
  BY <1>1, <1>6, <1>8, <1>9, <1>10, <1>11, <1>12, <1>13, ReturnsStep

-----------------------------------------------------------------------------
(* Shipping.                                                               *)

LEMMA IssueTyped ==
  ASSUME Inv, NEW s \in Shipment
  PROVE  /\ IssueLocations(s) \in [1..Len(s.rows) -> Place]
         /\ IssueLocations(s) \in Seq(Place)
<1> DEFINE n == Len(s.rows)
           at == IssueLocations(s)
<1>1. s.rows \in Rows
  BY DEF Shipment
<1>2. n \in Nat /\ \A k \in 1..n : s.rows[k].location \in Place
  BY <1>1, RowsTyped
<1>3. ASSUME NEW k \in 1..n PROVE at[k] \in Place
  <2> DEFINE open == {l \in Line : /\ OrderOf[l] = s.order
                                   /\ MaterialOf[l] = MaterialOf[s.rows[k].line]
                                   /\ Open(reservations[l]) > 0}
             first == CHOOSE l \in open : \A j \in open : l <= j
  <2>1. at[k] = IF s.rows[k].location = NoLocation /\ open # {}
                THEN reservations[first].location ELSE s.rows[k].location
    <3>1. at[k] = IssueLocation(s, k)
      BY DEF IssueLocations
    <3> QED
      BY <3>1 DEF IssueLocation
  <2>2. ASSUME open # {} PROVE first \in Line
    <3>1. open \subseteq Line /\ open \subseteq Nat
      BY LineFacts DEF Line
    <3> HIDE DEF open
    <3>2. first \in open
      BY <2>2, <3>1, LeastNatural
    <3> QED
      BY <3>1, <3>2
  <2> HIDE DEF first, open, at
  <2>3. \A l \in Line : reservations[l].location \in Place
    BY InvReservations, SoundOpen
  <2> QED
    BY <1>2, <2>1, <2>2, <2>3
<1>4. at = [k \in 1..n |-> at[k]]
  BY DEF IssueLocations
<1>5. at \in [1..n -> Place]
  <2> HIDE DEF at, n
  <2> QED
    BY <1>3, <1>4
<1>6. at \in Seq(Place)
  <2> HIDE DEF at, n
  <2> QED
    BY <1>2, <1>5
<1> QED
  BY <1>5, <1>6

\* What a posting does to the reservations and the stock of the order.
LEMMA PostedReservations ==
  ASSUME Inv, NEW s \in Shipment, NEW at, ReservationCovers(s, at),
         reservations' = [l \in Line |->
           IF OrderOf[l] = s.order
           THEN [reservations[l] EXCEPT !.consumed = @ + Taken(s, at, l)]
           ELSE reservations[l]]
  PROVE  /\ reservations' \in [Line -> Reservation]
         /\ \A l \in Line : /\ Sound(reservations'[l], l)
                            /\ reservations'[l].location = reservations[l].location
                            /\ reservations'[l].consumed
                                 = reservations[l].consumed + Taken(s, at, l)
                            /\ Open(reservations'[l]) = Open(reservations[l]) - Taken(s, at, l)
                            /\ OrderOf[l] # s.order => reservations'[l] = reservations[l]
<1>1. TypeOK /\ ReservationsWithinBounds
  BY DEF Inv
<1>2. ASSUME NEW l \in Line
      PROVE  /\ reservations'[l] \in Reservation
             /\ Sound(reservations'[l], l)
             /\ reservations'[l].location = reservations[l].location
             /\ reservations'[l].consumed = reservations[l].consumed + Taken(s, at, l)
             /\ Open(reservations'[l]) = Open(reservations[l]) - Taken(s, at, l)
             /\ OrderOf[l] # s.order => reservations'[l] = reservations[l]
  <2> DEFINE r == reservations[l]
             t == Taken(s, at, l)
             x == [r EXCEPT !.consumed = r.consumed + t]
  <2>1. Sound(r, l) /\ r \in Reservation
    BY InvReservations DEF Sound
  <2>2. t \in Nat /\ t <= Open(r) /\ (OrderOf[l] # s.order => t = 0)
    BY <1>1, TakenWithinOpen
  <2>3. Open(r) \in Nat /\ r.consumed \in Nat /\ r.quantity \in Nat /\ r.released \in Nat
    BY <2>1, SoundOpen
  <2>4. CASE OrderOf[l] # s.order
    <3>1. reservations'[l] = r
      BY <2>4
    <3> HIDE DEF r, t
    <3> QED
      BY <2>1, <2>2, <2>3, <2>4, <3>1 DEF r, t
  <2>5. CASE OrderOf[l] = s.order
    <3>1. reservations'[l] = x
      BY <2>5
    <3>2. /\ x \in Reservation /\ x.location = r.location /\ x.quantity = r.quantity
          /\ x.released = r.released /\ x.consumed = r.consumed + t
      <4> HIDE DEF r, t
      <4> QED
        BY <2>1, <2>2, <2>3 DEF Reservation
    <3> HIDE DEF x
    <3>3. Open(x) = Open(r) - t
      <4> HIDE DEF r, t
      <4> QED
        BY <2>2, <2>3, <3>2 DEF Open
    <3>4. Sound(x, l)
      <4> HIDE DEF r, t
      <4> QED
        BY <2>1, <2>2, <2>3, <3>2, <3>3 DEF Sound
    <3> QED
      BY <2>5, <3>1, <3>2, <3>3, <3>4
  <2> QED
    BY <2>4, <2>5
<1>3. reservations' = [l \in Line |-> reservations'[l]]
  OBVIOUS
<1> QED
  BY <1>2, <1>3

LEMMA PostedHeld ==
  ASSUME Inv, NEW s \in Shipment, NEW at, ReservationCovers(s, at),
         NEW new, \A l \in Line : Sound(new[l], l),
         \A l \in Line : /\ new[l].location = reservations[l].location
                         /\ Open(new[l]) = Open(reservations[l]) - Taken(s, at, l),
         \A l \in Line : OrderOf[l] # s.order => new[l] = reservations[l],
         NEW m \in Material, NEW p \in Place
  PROVE  HeldBy(new, m, p) = Held(m, p) - OfDim(s.rows, at, Qualified(m, p))
<1> DEFINE N == LineCount
           column(x) == [l \in 1..N |->
                IF MaterialOf[l] = m /\ x[l].location = p THEN Open(x[l]) ELSE 0]
           f == column(reservations)
           h == column(new)
           g == TakenAt(s, at, m, {p})
<1>1. TypeOK /\ ReservationsWithinBounds
  BY DEF Inv
<1>2. N \in Nat
  BY LineFacts
<1>3. f \in [1..N -> Int] /\ h \in [1..N -> Int]
  BY InvReservations, SoundOpen DEF Line
<1>4. g \in [1..N -> Int]
  BY <1>1, TakenSentTyped
<1>5. ASSUME NEW l \in 1..N PROVE f[l] = h[l] + g[l]
  <2>1. l \in Line /\ Open(reservations[l]) \in Nat /\ Open(new[l]) \in Nat
    BY InvReservations, SoundOpen DEF Line
  <2>2. Taken(s, at, l) \in Nat
    BY <1>1, <2>1, TakenWithinOpen
  <2>3. CASE OrderOf[l] = s.order
    BY <2>1, <2>2, <2>3 DEF TakenAt
  <2>4. CASE OrderOf[l] # s.order
    <3>1. g[l] = 0 /\ h[l] = f[l]
      BY <2>1, <2>4 DEF TakenAt
    <3> QED
      BY <1>3, <3>1
  <2> QED
    BY <2>3, <2>4
<1>6. Held(m, p) = Sum(f, N) /\ HeldBy(new, m, p) = Sum(h, N)
  BY DEF Held, HeldBy, Line
<1>7. Sum(g, N) = OfDim(s.rows, at, Qualified(m, p))
  BY <1>1, TakenOnSpot
<1> HIDE DEF f, g, h, N
<1>8. Sum(f, N) = Sum(h, N) + Sum(g, N) /\ Sum(h, N) \in Int /\ Sum(g, N) \in Int
  BY <1>2, <1>3, <1>4, <1>5, SumAdd, SumType
<1> QED
  BY <1>6, <1>7, <1>8

LEMMA PostShipmentKeepsInv ==
  ASSUME Inv, NEW i \in 1..Len(shipments), PostShipment(i)
  PROVE  Inv'
<1> DEFINE s == shipments[i]
           at == IssueLocations(s)
           o == s.order
           out == [l \in Line |-> OfLine(s.rows, l)]
           took == [l \in Line |-> Taken(s, at, l)]
           doc == [s EXCEPT !.status = "posted", !.issue = at]
<1>1. /\ s.status = "draft" /\ orders[o] \in OpenForShipment
      /\ ReservationCovers(s, at)
      /\ \A l \in Line : shipped[l] + OfLine(s.rows, l) <= Ordered[l]
      /\ onHand' = [d \in Dim |->
           IF d.quality = "qualified" THEN onHand[d] - OfDim(s.rows, at, d) ELSE onHand[d]]
      /\ reservations' = [l \in Line |->
           IF OrderOf[l] = o
           THEN [reservations[l] EXCEPT !.consumed = @ + Taken(s, at, l)]
           ELSE reservations[l]]
      /\ shipped' = [l \in Line |-> shipped[l] + OfLine(s.rows, l)]
      /\ orders' = [orders EXCEPT ![o] = ShipmentStatus(o, shipped')]
      /\ shipments' = [shipments EXCEPT ![i] = doc]
      /\ UNCHANGED <<returned, returns>>
  BY DEF PostShipment
<1>2. /\ shipments \in Seq(Shipment) /\ s \in Shipment /\ s.rows \in Rows /\ o \in Order
      /\ shipped \in [Line -> Nat] /\ returned \in [Line -> Nat]
      /\ onHand \in [Dim -> Nat] /\ orders \in [Order -> OrderStatus]
      /\ returns \in Seq(Return) /\ TypeOK /\ ReservationsWithinBounds
  <2>1. s \in Shipment
    BY ElementOfSeq DEF Inv, TypeOK
  <2> QED
    BY <2>1, DocumentTyped DEF Inv, TypeOK
<1>3. OfOneOrder(s.rows, o)
  BY DEF Inv, DocumentsConsistent
<1>4. at \in [1..Len(s.rows) -> Place] /\ at \in Seq(Place)
  BY <1>2, IssueTyped
<1> HIDE DEF at
<1>5. /\ doc \in Shipment /\ doc.status = "posted" /\ doc.rows = s.rows /\ doc.order = o
  BY <1>2, <1>4 DEF Shipment
<1> HIDE DEF doc
<1>6. \A l \in Line : OfLine(s.rows, l) \in Nat
  BY <1>2, OfLineNat
<1>7. \A d : OfDim(s.rows, at, d) \in Nat
  BY <1>2, OfDimNat
<1>8. shipped' \in [Line -> Nat]
  BY <1>1, <1>2, <1>6
<1>9. /\ out \in [Line -> Nat] /\ out \in [Line -> Int]
      /\ took \in [Line -> Nat] /\ took \in [Line -> Int]
  BY <1>2, <1>6, TakenWithinOpen
<1>10. LinesWithinBounds'
  BY <1>1, <1>2, <1>6 DEF Inv, LinesWithinBounds
<1>11. /\ reservations' \in [Line -> Reservation]
       /\ \A l \in Line : /\ Sound(reservations'[l], l)
                          /\ reservations'[l].location = reservations[l].location
                          /\ reservations'[l].consumed
                               = reservations[l].consumed + Taken(s, at, l)
                          /\ Open(reservations'[l]) = Open(reservations[l]) - Taken(s, at, l)
                          /\ OrderOf[l] # o => reservations'[l] = reservations[l]
  <2> HIDE DEF s
  <2> QED
    BY <1>1, <1>2, PostedReservations
<1>12. ReservationsWithinBounds'
  BY <1>11 DEF ReservationsWithinBounds, Sound
<1>13. ASSUME NEW m \in Material, NEW p \in Place
       PROVE  /\ HeldBy(reservations', m, p)
                   = Held(m, p) - OfDim(s.rows, at, Qualified(m, p))
              /\ HeldBy(reservations', m, p) \in Nat
              /\ onHand'[Qualified(m, p)]
                   = onHand[Qualified(m, p)] - OfDim(s.rows, at, Qualified(m, p))
              /\ Held(m, p) <= onHand[Qualified(m, p)]
              /\ Held(m, p) \in Nat /\ onHand[Qualified(m, p)] \in Nat
  <2> DEFINE new == reservations'
  <2>1. /\ \A l \in Line : Sound(new[l], l)
        /\ \A l \in Line : /\ new[l].location = reservations[l].location
                           /\ Open(new[l]) = Open(reservations[l]) - Taken(s, at, l)
        /\ \A l \in Line : OrderOf[l] # o => new[l] = reservations[l]
    BY <1>11
  <2> HIDE DEF new, s
  <2>2. HeldBy(new, m, p) = Held(m, p) - OfDim(s.rows, at, Qualified(m, p))
    BY <1>1, <1>2, <2>1, PostedHeld
  <2>3. HeldBy(new, m, p) \in Nat
    BY <2>1, HeldByNat
  <2>4. onHand'[Qualified(m, p)] = onHand[Qualified(m, p)] - OfDim(s.rows, at, Qualified(m, p))
    BY <1>1, QualifiedDim
  <2>5. Held(m, p) <= onHand[Qualified(m, p)]
    BY DEF Inv, HeldIsOnHand
  <2>6. onHand[Qualified(m, p)] \in Nat
    BY <1>2, QualifiedDim
  <2> QED
    BY <2>2, <2>3, <2>4, <2>5, <2>6, HeldNat DEF new
<1>14. HeldIsOnHand'
  <2> SUFFICES ASSUME NEW m \in Material, NEW p \in Place
               PROVE  HeldBy(reservations', m, p) <= onHand'[Qualified(m, p)]
    BY DEF HeldIsOnHand, Held, HeldBy
  <2>1. OfDim(s.rows, at, Qualified(m, p)) \in Nat
    BY <1>7
  <2> QED
    BY <1>13, <2>1
<1>15. onHand' \in [Dim -> Nat]
  <2>1. ASSUME NEW d \in Dim PROVE onHand'[d] \in Nat
    <3>1. CASE d.quality = "qualified"
      <4>1. d = Qualified(d.material, d.location) /\ d.material \in Material /\ d.location \in Place
        BY <3>1, QualifiedDim
      <4> DEFINE m == d.material
                 p == d.location
      <4>2. m \in Material /\ p \in Place /\ d = Qualified(m, p)
        BY <4>1
      <4> HIDE DEF m, p
      <4>3. OfDim(s.rows, at, d) \in Nat
        BY <1>7
      <4>4. /\ HeldBy(reservations', m, p) = Held(m, p) - OfDim(s.rows, at, d)
            /\ HeldBy(reservations', m, p) \in Nat
            /\ onHand'[d] = onHand[d] - OfDim(s.rows, at, d)
            /\ Held(m, p) <= onHand[d]
            /\ Held(m, p) \in Nat /\ onHand[d] \in Nat
        BY <1>13, <4>2
      <4> QED
        BY <4>3, <4>4
    <3>2. CASE d.quality # "qualified"
      BY <1>1, <1>2, <3>2
    <3> QED
      BY <3>1, <3>2
  <2>2. onHand' = [d \in Dim |-> onHand'[d]]
    BY <1>1
  <2> QED
    BY <2>1, <2>2
<1>16. ShippedComesFromReservations'
  <2> SUFFICES ASSUME NEW x \in Order, NEW m \in Material
               PROVE  OfOrderMaterial(shipped', x, m)
                        = OfOrderMaterial([l \in Line |-> reservations'[l].consumed], x, m)
    BY DEF ShippedComesFromReservations
  <2> DEFINE was == [l \in Line |-> reservations[l].consumed]
             is == [l \in Line |-> reservations'[l].consumed]
             now == shipped'
  <2>1. /\ was \in [Line -> Int] /\ is \in [Line -> Int]
        /\ shipped \in [Line -> Int] /\ now \in [Line -> Int]
    BY <1>2, <1>8, <1>11, InvReservations, SoundOpen
  <2>2. OfOrderMaterial(shipped, x, m) = OfOrderMaterial(was, x, m)
    BY DEF Inv, ShippedComesFromReservations
  <2>3. CASE x = o
    <3>1. \A l \in Line : OrderOf[l] = x => now[l] = Plus(shipped, out)[l]
      BY <1>1 DEF Plus
    <3>2. \A l \in Line : OrderOf[l] = x => is[l] = Plus(was, took)[l]
      BY <1>11 DEF Plus
    <3>3. OfOrderMaterial(took, o, m) = OfOrderMaterial(out, o, m)
      <4> HIDE DEF s
      <4> QED
        BY <1>1, <1>2, <1>3, <1>4, TakenIsShipped
    <3> HIDE DEF was, is, now, took, out
    <3>4. OfOrderMaterial(now, x, m) = OfOrderMaterial(shipped, x, m) + OfOrderMaterial(out, x, m)
      <4>1. OfOrderMaterial(now, x, m) = OfOrderMaterial(Plus(shipped, out), x, m)
        BY <3>1, OrderMaterialAgree
      <4> QED
        BY <1>9, <2>1, <4>1, OrderMaterialPlus
    <3>5. OfOrderMaterial(is, x, m) = OfOrderMaterial(was, x, m) + OfOrderMaterial(took, x, m)
      <4>1. OfOrderMaterial(is, x, m) = OfOrderMaterial(Plus(was, took), x, m)
        BY <3>2, OrderMaterialAgree
      <4> QED
        BY <1>9, <2>1, <4>1, OrderMaterialPlus
    <3>6. OfOrderMaterial(now, x, m) = OfOrderMaterial(is, x, m)
      BY <2>2, <2>3, <3>3, <3>4, <3>5
    <3> QED
      BY <3>6 DEF now, is
  <2>4. CASE x # o
    <3>1. ASSUME NEW l \in Line, OrderOf[l] = x
          PROVE  now[l] = shipped[l] /\ is[l] = was[l]
      <4>1. OfLine(s.rows, l) = 0
        BY <1>2, <1>3, <2>4, <3>1, OtherLinesUntouched
      <4>2. now[l] = shipped[l] + OfLine(s.rows, l) /\ shipped[l] \in Nat
        BY <1>1, <1>2
      <4>3. reservations'[l] = reservations[l]
        BY <1>11, <2>4, <3>1
      <4> QED
        BY <4>1, <4>2, <4>3
    <3> HIDE DEF was, is, now
    <3>2. /\ OfOrderMaterial(now, x, m) = OfOrderMaterial(shipped, x, m)
          /\ OfOrderMaterial(is, x, m) = OfOrderMaterial(was, x, m)
      BY <3>1, OrderMaterialAgree
    <3>3. OfOrderMaterial(now, x, m) = OfOrderMaterial(is, x, m)
      BY <2>2, <3>2
    <3> QED
      BY <3>3 DEF now, is
  <2> QED
    BY <2>3, <2>4
<1>17. /\ orders' \in [Order -> OrderStatus]
       /\ \A x \in Order : x # o => orders'[x] = orders[x]
       /\ orders'[o] = ShipmentStatus(o, shipped')
       /\ ShipmentStatus(o, shipped') \in {"partially_shipped", "shipped", orders[o]}
  <2>1. ShipmentStatus(o, shipped') \in {"partially_shipped", "shipped", orders[o]}
    BY DEF ShipmentStatus
  <2>2. ShipmentStatus(o, shipped') \in OrderStatus
    BY <1>2, <2>1 DEF OrderStatus
  <2> DEFINE st == ShipmentStatus(o, shipped')
  <2>3. orders' = [orders EXCEPT ![o] = st]
    BY <1>1
  <2> HIDE DEF st, s, o
  <2>4. /\ orders' \in [Order -> OrderStatus]
        /\ \A x \in Order : x # o => orders'[x] = orders[x]
        /\ orders'[o] = st
    BY <1>2, <2>2, <2>3 DEF st
  <2> QED
    BY <2>1, <2>4 DEF st
<1>18. StatusFollowsQuantities'
  <2> DEFINE now == shipped'
             ord == orders'
  <2> SUFFICES ASSUME NEW x \in Order
               PROVE  /\ ord[x] \in {"approved", "cancelled"} => OfOrder(now, x) = 0
                      /\ ord[x] = "partially_shipped" =>
                           0 < OfOrder(now, x) /\ OfOrder(now, x) < OfOrder(Ordered, x)
                      /\ ord[x] = "shipped" => OfOrder(now, x) = OfOrder(Ordered, x)
    BY DEF StatusFollowsQuantities
  <2>1. /\ orders[x] \in {"approved", "cancelled"} => OfOrder(shipped, x) = 0
        /\ orders[x] = "partially_shipped" =>
             0 < OfOrder(shipped, x) /\ OfOrder(shipped, x) < OfOrder(Ordered, x)
        /\ orders[x] = "shipped" => OfOrder(shipped, x) = OfOrder(Ordered, x)
    BY DEF Inv, StatusFollowsQuantities
  <2>2. /\ now \in [Line -> Nat] /\ now \in [Line -> Int] /\ shipped \in [Line -> Nat]
        /\ shipped \in [Line -> Int] /\ Ordered \in [Line -> Int]
    BY <1>2, <1>8, LinesTyped DEF Positive
  <2>3. /\ \A l \in Line : now[l] <= Ordered[l]
        /\ \A l \in Line : shipped[l] <= now[l]
        /\ \A l \in Line : OrderOf[l] # o => now[l] = shipped[l]
    <3>1. ASSUME NEW l \in Line, OrderOf[l] # o PROVE OfLine(s.rows, l) = 0
      BY <1>2, <1>3, <3>1, OtherLinesUntouched
    <3> QED
      BY <1>1, <1>2, <1>6, <3>1
  <2>4. CASE x # o
    <3>1. ord[x] = orders[x]
      BY <1>17, <2>4
    <3> HIDE DEF now, ord, o
    <3>2. OfOrder(now, x) = OfOrder(shipped, x)
      BY <2>3, <2>4, OrderSumsAgree
    <3> QED
      BY <2>1, <3>1, <3>2
  <2>5. CASE x = o
    <3>1. ord[x] = ShipmentStatus(x, now)
      BY <1>17, <2>5
    <3>2. orders[x] \in OpenForShipment
      BY <1>1, <2>5
    <3> HIDE DEF now, ord, o
    <3>3. /\ OfOrder(now, x) \in Nat /\ OfOrder(Ordered, x) \in Int
          /\ OfOrder(shipped, x) \in Nat
          /\ OfOrder(now, x) <= OfOrder(Ordered, x)
          /\ OfOrder(shipped, x) <= OfOrder(now, x)
      BY <2>2, <2>3, OrderSumsNat, OrderSums, OrderSumsMonotone
    <3>4. CASE OfOrder(now, x) = 0
      BY <2>1, <3>1, <3>2, <3>3, <3>4 DEF ShipmentStatus, OpenForShipment
    <3>5. CASE OfOrder(now, x) # 0
      BY <3>1, <3>3, <3>5 DEF ShipmentStatus
    <3> QED
      BY <3>4, <3>5
  <2> QED
    BY <2>4, <2>5
<1>19. EndedHoldNothing'
  <2> SUFFICES ASSUME NEW l \in Line, orders'[OrderOf[l]] \in {"closed", "cancelled"}
               PROVE  Open(reservations'[l]) = 0
    BY DEF EndedHoldNothing
  <2>1. OrderOf[l] # o
    BY <1>1, <1>17 DEF OpenForShipment
  <2>2. orders'[OrderOf[l]] = orders[OrderOf[l]] /\ reservations'[l] = reservations[l]
    BY <1>11, <1>17, <2>1, LineFacts
  <2> QED
    BY <2>2 DEF Inv, EndedHoldNothing
<1>20. /\ shipments' \in Seq(Shipment) /\ Len(shipments') = Len(shipments)
       /\ \A j \in 1..Len(shipments) : j # i => shipments'[j] = shipments[j]
       /\ shipments'[i] = doc
  BY <1>1, <1>2, <1>5, ReplaceFacts
<1>21. DocumentsConsistent'
  <2>1. \A j \in 1..Len(shipments') : OfOneOrder(shipments'[j].rows, shipments'[j].order)
    BY <1>3, <1>5, <1>20 DEF Inv, DocumentsConsistent
  <2> QED
    BY <1>1, <1>20, <2>1 DEF Inv, DocumentsConsistent, OfOneOrder
<1>22. QuantitiesFollowDocuments'
  <2> SUFFICES ASSUME NEW l \in Line
               PROVE  shipped'[l] = Settled(shipments', l) /\ returned'[l] = Settled(returns', l)
    BY DEF QuantitiesFollowDocuments
  <2>1. ReplacedAt(shipments, shipments', i)
    BY <1>2, <1>20, DocumentReplaced
  <2>2. Settled(shipments', l) = Settled(shipments, l) + Counted(doc, l) - Counted(s, l)
    BY <1>2, <1>20, <2>1, SettledReplace
  <2>3. Counted(doc, l) = OfLine(s.rows, l) /\ Counted(s, l) = 0
    BY <1>1, <1>5 DEF Counted
  <2>4. shipped[l] = Settled(shipments, l) /\ returned[l] = Settled(returns, l)
    BY DEF Inv, QuantitiesFollowDocuments
  <2>5. shipped'[l] = shipped[l] + OfLine(s.rows, l) /\ shipped[l] \in Nat
    BY <1>1, <1>2
  <2>6. OfLine(s.rows, l) \in Nat
    BY <1>6
  <2>7. shipped'[l] = Settled(shipments', l)
    <3> HIDE DEF s
    <3> QED
      BY <2>2, <2>3, <2>4, <2>5, <2>6
  <2> QED
    BY <1>1, <2>4, <2>7
<1>23. QuarantineAwaitsInspection'
  <2>1. \A d \in Dim : d.quality = "quarantine" => onHand'[d] = onHand[d]
    BY <1>1
  <2> QED
    BY <1>1, <2>1 DEF Inv, QuarantineAwaitsInspection, AwaitsInspection
<1>24. TypeOK'
  BY <1>1, <1>2, <1>8, <1>11, <1>15, <1>17, <1>20 DEF TypeOK
<1> QED
  BY <1>10, <1>12, <1>14, <1>16, <1>18, <1>19, <1>21, <1>22, <1>23, <1>24 DEF Inv

-----------------------------------------------------------------------------
(* The invariant.                                                          *)

LEMMA SumOfNothing ==
  ASSUME NEW f \in [Line -> Int], \A l \in Line : f[l] = 0, NEW o
  PROVE  OfOrder(f, o) = 0 /\ \A m : OfOrderMaterial(f, o, m) = 0
<1>1. OfOrder(f, o) = 0
  <2> DEFINE column == [l \in 1..LineCount |-> IF OrderOf[l] = o THEN f[l] ELSE 0]
  <2>1. column \in [1..LineCount -> Int] /\ \A l \in 1..LineCount : column[l] = 0
    BY DEF Line
  <2>2. OfOrder(f, o) = Sum(column, LineCount)
    BY DEF OfOrder, Line
  <2> HIDE DEF column
  <2> QED
    BY <2>1, <2>2, LineFacts, SumZero
<1>2. ASSUME NEW m PROVE OfOrderMaterial(f, o, m) = 0
  <2> DEFINE column == [l \in 1..LineCount |->
                         IF OrderOf[l] = o /\ MaterialOf[l] = m THEN f[l] ELSE 0]
  <2>1. column \in [1..LineCount -> Int] /\ \A l \in 1..LineCount : column[l] = 0
    BY DEF Line
  <2>2. OfOrderMaterial(f, o, m) = Sum(column, LineCount)
    BY DEF OfOrderMaterial, Line
  <2> HIDE DEF column
  <2> QED
    BY <2>1, <2>2, LineFacts, SumZero
<1> QED
  BY <1>1, <1>2

LEMMA InitInv == Init => Inv
<1> SUFFICES ASSUME Init PROVE Inv
  OBVIOUS
<1>1. /\ orders = [o \in Order |-> "approved"]
      /\ shipped = [l \in Line |-> 0] /\ returned = [l \in Line |-> 0]
      /\ reservations = [l \in Line |-> NoReservation]
      /\ onHand = Supply /\ shipments = <<>> /\ returns = <<>>
  BY DEF Init
<1>2. /\ NoReservation \in Reservation /\ NoReservation.quantity = 0
      /\ NoReservation.consumed = 0 /\ Open(NoReservation) = 0
  BY DEF NoReservation, Reservation, Place, Open
<1>3. TypeOK
  BY <1>1, <1>2, InputsTyped DEF TypeOK, OrderStatus
<1>4. LinesWithinBounds
  BY <1>1, LineFacts DEF LinesWithinBounds
<1>5. ReservationsWithinBounds /\ EndedHoldNothing
  BY <1>1, <1>2, LineFacts DEF ReservationsWithinBounds, EndedHoldNothing
<1>6. HeldIsOnHand
  <2> SUFFICES ASSUME NEW m \in Material, NEW p \in Place
               PROVE  Held(m, p) <= onHand[Qualified(m, p)]
    BY DEF HeldIsOnHand
  <2> DEFINE column == [l \in 1..LineCount |->
               IF MaterialOf[l] = m /\ reservations[l].location = p THEN Open(reservations[l]) ELSE 0]
  <2>1. column \in [1..LineCount -> Int] /\ \A l \in 1..LineCount : column[l] = 0
    BY <1>1, <1>2 DEF Line
  <2>2. Held(m, p) = Sum(column, LineCount)
    BY DEF Held, Line
  <2> HIDE DEF column
  <2>3. Held(m, p) = 0
    BY <2>1, <2>2, LineFacts, SumZero
  <2>4. onHand[Qualified(m, p)] \in Nat
    BY <1>3, QualifiedDim DEF TypeOK
  <2> QED
    BY <2>3, <2>4
<1>7. ShippedComesFromReservations
  <2> DEFINE used == [l \in Line |-> reservations[l].consumed]
  <2>1. /\ used \in [Line -> Int] /\ \A l \in Line : used[l] = 0
        /\ shipped \in [Line -> Int] /\ \A l \in Line : shipped[l] = 0
    BY <1>1, <1>2
  <2> HIDE DEF used
  <2>2. \A o, m : OfOrderMaterial(used, o, m) = 0 /\ OfOrderMaterial(shipped, o, m) = 0
    BY <2>1, SumOfNothing
  <2> QED
    BY <2>2 DEF ShippedComesFromReservations, used
<1>8. StatusFollowsQuantities
  <2>1. shipped \in [Line -> Int] /\ \A l \in Line : shipped[l] = 0
    BY <1>1
  <2>2. \A o : OfOrder(shipped, o) = 0
    BY <2>1, SumOfNothing
  <2>3. \A o \in Order : orders[o] = "approved"
    BY <1>1
  <2> QED
    BY <2>2, <2>3 DEF StatusFollowsQuantities
<1>9. DocumentsConsistent
  BY <1>1 DEF DocumentsConsistent
<1>10. \A x : Settled(<<>>, x) = 0 /\ Awaiting(<<>>, x) = 0
  <2> SUFFICES ASSUME NEW x PROVE Settled(<<>>, x) = 0 /\ Awaiting(<<>>, x) = 0
    OBVIOUS
  <2> DEFINE f == [j \in 1..0 |-> Counted(<<>>[j], x)]
             g == [j \in 1..0 |-> Waiting(<<>>[j], x)]
  <2>1. /\ f \in [1..0 -> Int] /\ g \in [1..0 -> Int]
        /\ (\A k \in 1..0 : f[k] = 0) /\ \A k \in 1..0 : g[k] = 0
    OBVIOUS
  <2>2. Len(<<>>) = 0
    OBVIOUS
  <2>3. Settled(<<>>, x) = Sum(f, 0) /\ Awaiting(<<>>, x) = Sum(g, 0)
    BY <2>2 DEF Settled, Awaiting, Counted
  <2> HIDE DEF f, g
  <2>4. Sum(f, 0) = 0 /\ Sum(g, 0) = 0
    BY <2>1, SumZero
  <2> QED
    BY <2>3, <2>4
<1>11. QuantitiesFollowDocuments
  BY <1>1, <1>10 DEF QuantitiesFollowDocuments
<1>12. QuarantineAwaitsInspection
  <2> SUFFICES ASSUME NEW d \in Dim PROVE onHand[d] = Supply[d] + Awaiting(returns, d)
    BY DEF QuarantineAwaitsInspection, AwaitsInspection, Awaiting, Waiting
  <2>1. Awaiting(returns, d) = 0 /\ Supply[d] \in Nat
    BY <1>1, <1>10, InputsTyped
  <2> QED
    BY <1>1, <2>1
<1> QED
  BY <1>3, <1>4, <1>5, <1>6, <1>7, <1>8, <1>9, <1>11, <1>12 DEF Inv

LEMMA NextKeepsInv == Inv /\ [Next]_vars => Inv'
<1> SUFFICES ASSUME Inv, [Next]_vars PROVE Inv'
  OBVIOUS
<1>1. ASSUME NEW o \in Order, ReserveOrderStock(o) PROVE Inv'
  BY <1>1, ReserveKeepsInv
<1>2. ASSUME NEW o \in Order, ReleaseOrderStock(o) \/ CancelOrder(o) \/ CloseOrder(o) PROVE Inv'
  BY <1>2, ReleaseActionsKeepInv
<1>3. ASSUME NEW o \in Order, NEW rows \in RowInput, CreateShipment(o, rows) PROVE Inv'
  BY <1>3, DraftsKeepInv
<1>4. ASSUME NEW o \in Order, NEW rows \in RowInput, NEW n \in 0..Len(shipments),
             CreateReturn(o, n, rows)
      PROVE  Inv'
  BY <1>4, DraftsKeepInv
<1>5. ASSUME NEW i \in 1..Len(shipments), PostShipment(i) PROVE Inv'
  BY <1>5, PostShipmentKeepsInv
<1>6. ASSUME NEW i \in 1..Len(shipments),
             CancelShipment(i) \/ \E rows \in RowInput : UpdateShipment(i, rows)
      PROVE  Inv'
  BY <1>6, DraftsKeepInv
<1>7. ASSUME NEW i \in 1..Len(returns), PostReturn(i) PROVE Inv'
  BY <1>7, PostReturnKeepsInv
<1>8. ASSUME NEW i \in 1..Len(returns),
             CancelReturn(i) \/ \E rows \in RowInput : UpdateReturn(i, rows)
      PROVE  Inv'
  BY <1>8, DraftsKeepInv
<1>9. ASSUME NEW i \in 1..Len(returns), NEW result \in {"qualified", "rejected"},
             InspectReturn(i, result)
      PROVE  Inv'
  BY <1>9, InspectReturnKeepsInv
<1>10. ASSUME NEW m \in Material, NEW p \in Place, NEW q \in Place, NEW amount \in Amount,
              MoveStock(m, p, q, amount)
       PROVE  Inv'
  BY <1>10, MoveKeepsInv
<1>11. CASE UNCHANGED vars
  <2>1. TypeOK' /\ LinesWithinBounds' /\ ReservationsWithinBounds' /\ HeldIsOnHand'
    BY <1>11 DEF vars, Inv, TypeOK, LinesWithinBounds, ReservationsWithinBounds, HeldIsOnHand, Held
  <2>2. ShippedComesFromReservations' /\ StatusFollowsQuantities' /\ EndedHoldNothing'
    BY <1>11 DEF vars, Inv, ShippedComesFromReservations, StatusFollowsQuantities,
                 EndedHoldNothing
  <2>3. DocumentsConsistent' /\ QuantitiesFollowDocuments' /\ QuarantineAwaitsInspection'
    BY <1>11 DEF vars, Inv, DocumentsConsistent, QuantitiesFollowDocuments,
                 QuarantineAwaitsInspection, AwaitsInspection
  <2> QED
    BY <2>1, <2>2, <2>3 DEF Inv
<1> QED
  BY <1>1, <1>2, <1>3, <1>4, <1>5, <1>6, <1>7, <1>8, <1>9, <1>10, <1>11
     DEF Next, OrderNext, ShipmentNext, ReturnNext

LEMMA InvHolds == Spec => []Inv
BY InitInv, NextKeepsInv, PTL DEF Spec

\* The state of orders, documents and stock stays well-typed; in particular no
\* balance and no quantity of a line or reservation goes below zero.
THEOREM TypeCorrect == Spec => []TypeOK
<1>1. Inv => TypeOK
  BY DEF Inv
<1> QED
  BY <1>1, InvHolds, PTL

\* What an order has shipped of a material is what its own reservations of it
\* gave, whichever order's shipments were posted in between and wherever the
\* stock lay.
THEOREM ShipmentsConsumeOwnReservations == Spec => []ShippedComesFromReservations
<1>1. Inv => ShippedComesFromReservations
  BY DEF Inv
<1> QED
  BY <1>1, InvHolds, PTL

\* An order is (partially) shipped exactly when its lines say so, and one that
\* shipped anything is never cancelled.
THEOREM StatusIsTruthful == Spec => []StatusFollowsQuantities
<1>1. Inv => StatusFollowsQuantities
  BY DEF Inv
<1> QED
  BY <1>1, InvHolds, PTL

\* The totals of the order lines are those of the posted documents.
THEOREM LinesFollowDocuments == Spec => []QuantitiesFollowDocuments
<1>1. Inv => QuantitiesFollowDocuments
  BY DEF Inv
<1> QED
  BY <1>1, InvHolds, PTL

\* The quarantine holds what the returns waiting for inspection brought, where
\* their rows say: every one of them can be inspected.
THEOREM QuarantineIsExplained == Spec => []QuarantineAwaitsInspection
<1>1. Inv => QuarantineAwaitsInspection
  BY DEF Inv
<1> QED
  BY <1>1, InvHolds, PTL

LEMMA InvBoundsHoldings == Inv => OrdersHoldOnlyWhatTheyShip
<1> SUFFICES ASSUME Inv, NEW o \in Order
             PROVE  /\ \A m \in Material :
                         OfOrderMaterial([l \in Line |-> Open(reservations[l])], o, m)
                           <= OfOrderMaterial([l \in Line |-> Remaining(l)], o, m)
                    /\ orders[o] \in {"shipped", "closed", "cancelled"} =>
                         \A l \in Line : OrderOf[l] = o => Open(reservations[l]) = 0
  BY DEF OrdersHoldOnlyWhatTheyShip
<1> DEFINE open == [l \in Line |-> Open(reservations[l])]
           used == [l \in Line |-> reservations[l].consumed]
           left == [l \in Line |-> Remaining(l)]
<1>1. /\ shipped \in [Line -> Nat] /\ shipped \in [Line -> Int]
      /\ Ordered \in [Line -> Nat] /\ Ordered \in [Line -> Int]
  BY LinesTyped DEF Inv, TypeOK, Positive
<1>2. /\ open \in [Line -> Nat] /\ open \in [Line -> Int] /\ used \in [Line -> Int]
      /\ \A l \in Line : open[l] + used[l] <= Ordered[l]
  <2>1. ASSUME NEW l \in Line
        PROVE  /\ Open(reservations[l]) \in Nat /\ reservations[l].consumed \in Nat
               /\ Open(reservations[l]) + reservations[l].consumed <= Ordered[l]
    <3>1. Sound(reservations[l], l)
      BY InvReservations
    <3>2. /\ Open(reservations[l]) \in Nat /\ reservations[l].quantity \in Nat
          /\ reservations[l].consumed \in Nat /\ reservations[l].released \in Nat
      BY <3>1, SoundOpen
    <3>3. reservations[l].quantity <= Ordered[l] /\ Ordered[l] \in Nat
      BY <1>1, <3>1 DEF Sound
    <3> QED
      BY <3>2, <3>3 DEF Open
  <2> QED
    BY <2>1
<1>3. /\ left \in [Line -> Nat] /\ left \in [Line -> Int]
      /\ \A l \in Line : Ordered[l] = shipped[l] + left[l]
  BY <1>1 DEF Inv, LinesWithinBounds, Remaining
<1> HIDE DEF open, used, left
<1>4. ASSUME NEW m \in Material
      PROVE  /\ OfOrderMaterial(open, o, m) <= OfOrderMaterial(left, o, m)
             /\ OfOrderMaterial(open, o, m) \in Int /\ OfOrderMaterial(left, o, m) \in Int
  <2>1. Plus(open, used) \in [Line -> Int] /\ \A l \in Line : Plus(open, used)[l] <= Ordered[l]
    BY <1>2 DEF Plus
  <2>2. \A l \in Line : Ordered[l] = Plus(shipped, left)[l]
    BY <1>1, <1>3 DEF Plus
  <2>3. OfOrderMaterial(Plus(open, used), o, m) <= OfOrderMaterial(Ordered, o, m)
    <3>1. \A x : OfOrderMaterial(Plus(open, used), o, x) <= OfOrderMaterial(Ordered, o, x)
      BY <1>1, <2>1, OrderSumsMonotone
    <3> QED
      BY <3>1
  <2>4. OfOrderMaterial(Ordered, o, m) = OfOrderMaterial(Plus(shipped, left), o, m)
    BY <2>2, OrderMaterialAgree
  <2>5. OfOrderMaterial(Plus(open, used), o, m)
          = OfOrderMaterial(open, o, m) + OfOrderMaterial(used, o, m)
    BY <1>2, OrderMaterialPlus
  <2>6. OfOrderMaterial(Plus(shipped, left), o, m)
          = OfOrderMaterial(shipped, o, m) + OfOrderMaterial(left, o, m)
    BY <1>1, <1>3, OrderMaterialPlus
  <2>7. OfOrderMaterial(shipped, o, m) = OfOrderMaterial(used, o, m)
    BY DEF Inv, ShippedComesFromReservations, used
  <2>8. /\ OfOrderMaterial(open, o, m) \in Int /\ OfOrderMaterial(used, o, m) \in Int
        /\ OfOrderMaterial(left, o, m) \in Int
    BY <1>2, <1>3, OrderSums
  <2> QED
    BY <2>3, <2>4, <2>5, <2>6, <2>7, <2>8
<1>5. ASSUME orders[o] \in {"shipped", "closed", "cancelled"}, NEW l \in Line, OrderOf[l] = o
      PROVE  Open(reservations[l]) = 0
  <2>1. CASE orders[o] # "shipped"
    BY <1>5, <2>1 DEF Inv, EndedHoldNothing
  <2>2. CASE orders[o] = "shipped"
    <3> DEFINE m == MaterialOf[l]
    <3>1. OfOrder(shipped, o) = OfOrder(Ordered, o)
      BY <2>2 DEF Inv, StatusFollowsQuantities
    <3>2. OfOrder(left, o) = 0
      <4>1. \A k \in Line : OrderOf[k] = o => Ordered[k] = Plus(shipped, left)[k]
        BY <1>3 DEF Plus
      <4>2. OfOrder(Ordered, o) = OfOrder(Plus(shipped, left), o)
        BY <4>1, OrderSumsAgree
      <4>3. OfOrder(Plus(shipped, left), o) = OfOrder(shipped, o) + OfOrder(left, o)
        BY <1>1, <1>3, OrderPlus
      <4>4. OfOrder(shipped, o) \in Int /\ OfOrder(left, o) \in Int
        BY <1>1, <1>3, OrderSums
      <4> QED
        BY <3>1, <4>2, <4>3, <4>4
    <3>3. ASSUME NEW k \in Line, OrderOf[k] = o PROVE left[k] = 0
      <4>1. left[k] <= OfOrder(left, o) /\ left[k] \in Nat
        BY <1>3, <3>3, LineWithinSums
      <4> QED
        BY <3>2, <4>1
    <3> DEFINE nothing == [k \in Line |-> 0]
    <3>4. nothing \in [Line -> Int] /\ \A k \in Line : nothing[k] = 0
      OBVIOUS
    <3> HIDE DEF nothing
    <3>5. OfOrderMaterial(left, o, m) = OfOrderMaterial(nothing, o, m)
      BY <3>3, <3>4, OrderMaterialAgree
    <3>6. OfOrderMaterial(nothing, o, m) = 0
      BY <3>4, SumOfNothing
    <3>7. m \in Material
      BY LineFacts
    <3>8. open[l] <= OfOrderMaterial(open, o, m) /\ open[l] \in Nat
      BY <1>2, <1>5, LineWithinSums
    <3> HIDE DEF m
    <3>9. open[l] = 0
      BY <1>4, <3>5, <3>6, <3>7, <3>8
    <3> QED
      BY <3>9 DEF open
  <2> QED
    BY <2>1, <2>2
<1> QED
  BY <1>4, <1>5 DEF open, left

\* Orders hold no more than they have yet to ship, and nothing once they ended.
THEOREM NothingHeldInVain == Spec => []OrdersHoldOnlyWhatTheyShip
BY InvBoundsHoldings, InvHolds, PTL

(***************************************************************************)
(* Supplier evaluation: sums of shares.                                    *)
(***************************************************************************)

Multiple(g, c, f, n) == \A k \in 1..n : g[k] = c * f[k]

\* A column that is a multiple of another has that multiple of its sum.
LEMMA SumScale ==
  ASSUME NEW n \in Nat, NEW c \in Int, NEW f \in [1..n -> Int], NEW g \in [1..n -> Int],
         Multiple(g, c, f, n)
  PROVE  Sum(g, n) = c * Sum(f, n)
<1> DEFINE pf == Prefix(f, n)
           pg == Prefix(g, n)
           S == {k \in 0..n : pg[k] = c * pf[k]}
<1>1. /\ pf \in [0..n -> Int] /\ pf[0] = 0 /\ \A k \in 1..n : pf[k] = pf[k - 1] + f[k]
      /\ pg \in [0..n -> Int] /\ pg[0] = 0 /\ \A k \in 1..n : pg[k] = pg[k - 1] + g[k]
  BY PrefixDef
<1>2. Sum(f, n) = pf[n] /\ Sum(g, n) = pg[n]
  BY DEF Sum
<1> HIDE DEF pf, pg
<1>3. 0 \in S
  BY <1>1
<1>4. ASSUME NEW k \in 0..n, k < n, k \in S PROVE k + 1 \in S
  <2>1. k + 1 \in 1..n /\ (k + 1) - 1 = k
    BY <1>4
  <2>2. pg[k + 1] = pg[k] + c * f[k + 1] /\ pf[k + 1] = pf[k] + f[k + 1] /\ pg[k] = c * pf[k]
    BY <1>1, <1>4, <2>1 DEF Multiple
  <2>3. PICK x \in Int : x = pf[k]
    BY <1>1, <1>4
  <2>4. PICK y \in Int : y = f[k + 1]
    BY <2>1
  <2>5. pg[k + 1] = c * x + c * y
    BY <2>2, <2>3, <2>4
  <2>6. pf[k + 1] = x + y
    BY <2>2, <2>3, <2>4
  <2>7. c * (x + y) = c * x + c * y
    OBVIOUS
  <2>8. pg[k + 1] = c * pf[k + 1] /\ k + 1 \in 0..n
    BY <2>1, <2>5, <2>6, <2>7
  <2> QED BY <2>8
<1> HIDE DEF S
<1>5. n \in S
  <2>1. \A k \in 0..n : k \in S
    BY <1>3, <1>4, InductionUpTo
  <2> QED BY <2>1
<1> QED BY <1>2, <1>5 DEF S

Upper(T, k) == {j \in T : j <= k}

LEMMA UpperEnds ==
  ASSUME NEW n \in Nat, NEW T, \A j \in T : j \in Int /\ 1 <= j /\ j <= n
  PROVE  Upper(T, 0) = {} /\ Upper(T, n) = T
BY DEF Upper

LEMMA UpperNext ==
  ASSUME NEW T, \A j \in T : j \in Int, NEW k \in Int
  PROVE  /\ k + 1 \notin Upper(T, k)
         /\ Upper(T, k + 1) = IF k + 1 \in T THEN Upper(T, k) \union {k + 1} ELSE Upper(T, k)
<1>1. k + 1 \notin Upper(T, k)
  BY DEF Upper
<1>2. ASSUME NEW j PROVE j \in Upper(T, k + 1) <=> j \in Upper(T, k) \/ (j = k + 1 /\ k + 1 \in T)
  BY DEF Upper
<1> QED BY <1>1, <1>2

\* Ones counted are members counted.
LEMMA SumCounts ==
  ASSUME NEW n \in Nat, NEW T, T \subseteq 1..n, NEW f \in [1..n -> Int],
         \A k \in 1..n : f[k] = IF k \in T THEN 1 ELSE 0
  PROVE  IsFiniteSet(T) /\ Sum(f, n) = Cardinality(T)
<1> DEFINE p == Prefix(f, n)
           S == {k \in 0..n : IsFiniteSet(Upper(T, k)) /\ p[k] = Cardinality(Upper(T, k))}
<1>0. \A j \in T : j \in Int /\ 1 <= j /\ j <= n
  OBVIOUS
<1>1. p \in [0..n -> Int] /\ p[0] = 0 /\ \A k \in 1..n : p[k] = p[k - 1] + f[k]
  BY PrefixDef
<1>2. Sum(f, n) = p[n]
  BY DEF Sum
<1> HIDE DEF p
<1>3. 0 \in S
  <2>1. IsFiniteSet(Upper(T, 0)) /\ Cardinality(Upper(T, 0)) = 0
    <3>1. Upper(T, 0) = {}
      BY <1>0, UpperEnds
    <3> QED BY <3>1, FS_EmptySet
  <2> QED BY <1>1, <2>1
<1>4. ASSUME NEW k \in 0..n, k < n, k \in S PROVE k + 1 \in S
  <2>1. k + 1 \in 1..n /\ (k + 1) - 1 = k /\ k \in Int
    BY <1>4
  <2>2. p[k + 1] = p[k] + f[k + 1] /\ p[k] = Cardinality(Upper(T, k)) /\ IsFiniteSet(Upper(T, k)) /\ p[k] \in Int
    BY <1>1, <1>4, <2>1
  <2>0. /\ k + 1 \notin Upper(T, k)
        /\ Upper(T, k + 1) = IF k + 1 \in T THEN Upper(T, k) \union {k + 1} ELSE Upper(T, k)
    BY <2>1, <1>0, UpperNext
  <2>3. CASE k + 1 \in T
    <3>1. Upper(T, k + 1) = Upper(T, k) \union {k + 1} /\ k + 1 \notin Upper(T, k)
      BY <2>0, <2>3
    <3>2. IsFiniteSet(Upper(T, k + 1)) /\ Cardinality(Upper(T, k + 1)) = Cardinality(Upper(T, k)) + 1
      BY <2>2, <3>1, FS_AddElement
    <3> QED BY <2>1, <2>2, <2>3, <3>2
  <2>4. CASE k + 1 \notin T
    <3>1. Upper(T, k + 1) = Upper(T, k)
      BY <2>0, <2>4
    <3> QED BY <2>1, <2>2, <2>4, <3>1
  <2> QED BY <2>3, <2>4
<1>5. n \in S
  <2> HIDE DEF S
  <2>1. \A k \in 0..n : k \in S
    BY <1>3, <1>4, InductionUpTo
  <2> QED BY <2>1
<1>6. Upper(T, n) = T
  BY <1>0, UpperEnds
<1> QED BY <1>2, <1>5, <1>6

\* A greatest of numbers that are bounded.
LEMMA GreatestNatural ==
  ASSUME NEW n \in Nat, NEW T, T \subseteq 0..n, T # {}
  PROVE  \E x \in T : \A y \in T : y <= x
<1> DEFINE U == {n - x : x \in T}
<1>1. U \subseteq Nat /\ U # {}
  <2>1. \A x \in T : n - x \in Nat
    OBVIOUS
  <2> QED BY <2>1
<1>2. PICK u \in U : \A v \in U : u <= v
  <2> HIDE DEF U
  <2> QED BY <1>1, LeastNatural
<1>3. PICK x \in T : u = n - x
  BY <1>2
<1>4. ASSUME NEW y \in T PROVE y <= x
  <2>1. u <= n - y
    BY <1>2
  <2> QED BY <1>3, <2>1
<1> QED BY <1>4

(***************************************************************************)
(* Supplier evaluation: the shares.                                        *)
(***************************************************************************)

EvaluationRows == [Dimension -> SupplierEvaluationLine]

LEMMA DimensionsAre ==
  /\ Dimensions \in Nat /\ Dimension = 1..Dimensions /\ Hundred \in Nat
  /\ \A d \in Dimension : d \in Nat /\ 1 <= d /\ d <= Dimensions
BY EvaluationInputs DEF Dimension

LEMMA RowsAre ==
  ASSUME NEW rows \in EvaluationRows
  PROVE  /\ \A d \in Dimension : rows[d].weight \in Nat /\ rows[d].weight <= Hundred /\ rows[d].missing \in BOOLEAN
         /\ Scored(rows) \subseteq Dimension
<1>1. \A x \in 0..Hundred : x \in Nat /\ x <= Hundred
  BY DimensionsAre
<1> QED BY <1>1 DEF EvaluationRows, SupplierEvaluationLine, Scored

\* The heaviest is one of the scored, and none is heavier.
LEMMA HeaviestIs ==
  ASSUME NEW rows \in EvaluationRows, Scored(rows) # {}
  PROVE  /\ Heaviest(rows) \in Scored(rows)
         /\ \A d \in Scored(rows) : rows[d].weight <= rows[Heaviest(rows)].weight
<1> DEFINE S == Scored(rows)
           T == {rows[d].weight : d \in S}
<1>1. \A d \in S : /\ d \in Nat /\ d <= Dimensions
                   /\ rows[d].weight \in Nat /\ rows[d].weight <= Hundred
  BY RowsAre, DimensionsAre
<1> HIDE DEF S
<1>2. PICK x \in T : \A y \in T : y <= x
  <2>1. T \subseteq 0..Hundred /\ T # {}
    BY <1>1, DimensionsAre DEF S
  <2> HIDE DEF T
  <2> QED BY <2>1, DimensionsAre, GreatestNatural
<1> DEFINE U == {d \in S : rows[d].weight = x}
<1>3. PICK w \in U : \A d \in U : d <= w
  <2>1. U \subseteq 0..Dimensions
    BY <1>1, DimensionsAre
  <2>2. U # {}
    BY <1>2
  <2> HIDE DEF U
  <2> QED BY <2>1, <2>2, DimensionsAre, GreatestNatural
<1> DEFINE First(d) == \A other \in S : \/ rows[other].weight < rows[d].weight
                                        \/ rows[other].weight = rows[d].weight /\ other <= d
<1>4. w \in S /\ First(w)
  <2>1. ASSUME NEW d \in S
        PROVE  rows[d].weight < rows[w].weight \/ (rows[d].weight = rows[w].weight /\ d <= w)
    <3>1. rows[d].weight <= x /\ rows[w].weight = x
      BY <1>2, <1>3
    <3>2. rows[d].weight = x => d <= w
      BY <1>3
    <3> QED BY <1>1, <1>3, <3>1, <3>2
  <2> QED BY <1>3, <2>1
<1>5. Heaviest(rows) = CHOOSE d \in S : First(d)
  BY DEF Heaviest, S
<1>6. \A d \in S : First(d) => \A other \in S : rows[other].weight <= rows[d].weight
  BY <1>1
<1> HIDE DEF First
<1>7. Heaviest(rows) \in S /\ First(Heaviest(rows))
  BY <1>4, <1>5
<1> QED BY <1>6, <1>7 DEF S

\* Rounding is off by half a unit at most.
LEMMA RoundedIs ==
  ASSUME NEW x \in Nat, NEW y \in Nat \ {0}
  PROVE  /\ Rounded(x, y) \in Nat
         /\ 2 * (Rounded(x, y) * y - x) <= y /\ -y <= 2 * (Rounded(x, y) * y - x)
<1> DEFINE a == 2 * x + y
           b == 2 * y
           q == a \div b
<1>1. a \in Nat /\ b \in Nat \ {0}
  OBVIOUS
<1> HIDE DEF a, b
<1>2. q \in Nat /\ b * q <= a /\ a < b * q + b
  BY <1>1
<1>3. Rounded(x, y) = q
  BY DEF Rounded, a, b
<1> HIDE DEF q
<1>4. b * q = 2 * (q * y)
  BY <1>2 DEF b
<1>5. q * y \in Nat
  BY <1>2
<1>6. PICK z \in Nat : z = q * y
  BY <1>5
<1>7. 2 * z <= 2 * x + y /\ 2 * x + y < 2 * z + 2 * y
  BY <1>2, <1>4, <1>6 DEF a, b
<1>8. 2 * (z - x) <= y /\ -y <= 2 * (z - x)
  BY <1>7
<1> QED BY <1>2, <1>3, <1>6, <1>8

LEMMA Grow ==
  ASSUME NEW a \in Nat, NEW b \in Nat, NEW c \in Nat, a <= b
  PROVE  a * c <= b * c /\ c * a <= c * b
<1>1. PICK d \in Nat : b = a + d
  <2>1. b - a \in Nat /\ b = a + (b - a)
    OBVIOUS
  <2> QED BY <2>1
<1>2. b * c = a * c + d * c /\ c * b = c * a + c * d
  BY <1>1
<1>3. d * c \in Nat /\ c * d \in Nat /\ a * c \in Nat /\ c * a \in Nat
  OBVIOUS
<1> QED BY <1>2, <1>3

\* What is left for the heaviest of P, whose weight is w, when the shares of m others of
\* a hundred are O: not less than nothing, and off by no more than m halves.
LEMMA WhatIsLeft ==
  ASSUME NEW P \in Nat \ {0}, NEW H \in Nat, NEW O \in Nat, NEW w \in Nat, NEW m \in Nat, NEW n \in Nat,
         2 * (P * O - H * (P - w)) <= P * m, -(P * m) <= 2 * (P * O - H * (P - w)),
         P <= w * (m + 1), m + 1 <= n, n * (n - 1) <= 2 * H
  PROVE  /\ H - O >= 0
         /\ 2 * ((H - O) * P - w * H) <= m * P /\ -(m * P) <= 2 * ((H - O) * P - w * H)
<1>1. PICK x \in Nat : x = P * O
  OBVIOUS
<1>2. PICK y \in Nat : y = w * H
  OBVIOUS
<1>3. PICK z \in Nat : z = P * m
  OBVIOUS
<1>4. PICK q \in Nat : q = P * H
  OBVIOUS
<1>5. H * (P - w) = q - y /\ (H - O) * P = q - x /\ m * P = z
  <2>1. H * (P - w) = P * H - w * H /\ (H - O) * P = P * H - P * O /\ m * P = P * m
    OBVIOUS
  <2> QED BY <2>1, <1>1, <1>2, <1>3, <1>4
<1>6. 2 * (x - (q - y)) <= z /\ -z <= 2 * (x - (q - y))
  BY <1>1, <1>3, <1>5
<1>7. z <= 2 * y
  <2>1. P * m <= (w * (m + 1)) * m
    <3>1. w * (m + 1) \in Nat
      OBVIOUS
    <3> QED BY <3>1, Grow
  <2>2. (w * (m + 1)) * m = w * ((m + 1) * m)
    OBVIOUS
  <2>3. (m + 1) * m <= 2 * H
    <3>1. (m + 1) * m <= n * m
      BY Grow
    <3>2. n - 1 \in Nat /\ m <= n - 1
      OBVIOUS
    <3>3. n * m <= n * (n - 1)
      BY <3>2, Grow
    <3>4. (m + 1) * m \in Nat /\ n * m \in Nat /\ n * (n - 1) \in Nat
      BY <3>2
    <3> QED BY <3>1, <3>3, <3>4
  <2>4. (m + 1) * m \in Nat /\ 2 * H \in Nat
    OBVIOUS
  <2>5. w * ((m + 1) * m) <= w * (2 * H)
    BY <2>3, <2>4, Grow
  <2>6. w * (2 * H) = 2 * (w * H)
    OBVIOUS
  <2>7. P * m \in Nat /\ w * ((m + 1) * m) \in Nat /\ w * (2 * H) \in Nat
    BY <2>4
  <2> QED BY <1>2, <1>3, <2>1, <2>2, <2>5, <2>6, <2>7
<1>8. H - O >= 0
  <2> SUFFICES ASSUME H + 1 <= O PROVE FALSE
    OBVIOUS
  <2>1. P * (H + 1) <= P * O
    BY Grow
  <2>2. P * (H + 1) = q + P
    BY <1>4
  <2> QED BY <1>1, <1>6, <1>7, <2>1, <2>2
<1> QED BY <1>2, <1>5, <1>6, <1>8

\* The weights of the scored dimensions, and what they come to.
Weighed(rows) == [d \in Dimension |-> IF d \in Scored(rows) THEN rows[d].weight ELSE 0]

LEMMA PoolIs ==
  ASSUME NEW rows \in EvaluationRows
  PROVE  /\ Weighed(rows) \in [1..Dimensions -> Nat] /\ Weighed(rows) \in [1..Dimensions -> Int]
         /\ Pool(rows) = Sum(Weighed(rows), Dimensions) /\ Pool(rows) \in Nat
         /\ Pool(rows) # 0 => Scored(rows) # {}
<1>1. Weighed(rows) \in [1..Dimensions -> Nat]
  BY RowsAre, DimensionsAre DEF Weighed
<1>2. Weighed(rows) \in [1..Dimensions -> Int]
  BY <1>1
<1>3. Pool(rows) = Sum(Weighed(rows), Dimensions)
  BY DEF Pool, Weighed
<1>4. Scored(rows) = {} => \A d \in 1..Dimensions : Weighed(rows)[d] = 0
  BY DimensionsAre DEF Weighed
<1> QED BY <1>1, <1>2, <1>3, <1>4, DimensionsAre, SumOfNaturals, SumZero

Counts(e, T) == \A d \in 1..Dimensions : e[d] = IF d \in T THEN 1 ELSE 0

\* There are some scored dimensions, and one less without the heaviest; the pool is at
\* most as if all weighed what it does.
LEMMA ScoredCounted ==
  ASSUME NEW rows \in EvaluationRows, Pool(rows) # 0, NEW h, h = Heaviest(rows), NEW m, m = Cardinality(Scored(rows)) - 1
  PROVE  /\ m \in Nat /\ m + 1 <= Dimensions
         /\ \A e \in [1..Dimensions -> Int] :
              Counts(e, Scored(rows) \ {h}) => Sum(e, Dimensions) = m
         /\ Pool(rows) <= rows[h].weight * (m + 1)
<1> DEFINE S == Scored(rows)
           n == Dimensions
           one == [d \in 1..n |-> IF d \in S THEN 1 ELSE 0]
           top == [d \in 1..n |-> rows[h].weight * one[d]]
<1>1. S # {} /\ h \in S /\ S \subseteq 1..n /\ n \in Nat /\ \A d \in S : rows[d].weight <= rows[h].weight
  <2>1. Scored(rows) # {}
    BY PoolIs
  <2>2. /\ h \in Scored(rows) /\ Scored(rows) \subseteq 1..Dimensions /\ Dimensions \in Nat
        /\ \A d \in Scored(rows) : rows[d].weight <= rows[h].weight
    BY <2>1, HeaviestIs, RowsAre, DimensionsAre
  <2> QED BY <2>1, <2>2
<1>2. \A d \in 1..n : rows[d].weight \in Nat
  BY RowsAre, DimensionsAre
<1>3. IsFiniteSet(1..n) /\ Cardinality(1..n) = n
  BY <1>1, FS_Interval
<1> HIDE DEF S, n
<1>4. IsFiniteSet(S) /\ Cardinality(S) \in Nat /\ Cardinality(S) <= n
  BY <1>1, <1>3, FS_Subset, FS_CardinalityType
<1>5. Cardinality(S) # 0
  BY <1>1, <1>4, FS_EmptySet
<1>6. m = Cardinality(S) - 1
  BY DEF S
<1>7. m \in Nat /\ m + 1 <= n /\ m + 1 = Cardinality(S)
  BY <1>1, <1>4, <1>5, <1>6
<1>8. IsFiniteSet(S \ {h}) /\ Cardinality(S \ {h}) = m
  BY <1>1, <1>4, <1>6, FS_RemoveElement
<1>9. ASSUME NEW e \in [1..n -> Int], Counts(e, S \ {h})
      PROVE  Sum(e, n) = m
  <2>0. \A d \in 1..n : e[d] = IF d \in S \ {h} THEN 1 ELSE 0
    BY <1>9 DEF Counts, n
  <2>1. S \ {h} \subseteq 1..n
    BY <1>1
  <2> QED BY <1>1, <1>8, <2>0, <2>1, SumCounts
<1>10. one \in [1..n -> Int] /\ Sum(one, n) = m + 1
  <2>1. one \in [1..n -> Int] /\ \A d \in 1..n : one[d] = IF d \in S THEN 1 ELSE 0
    OBVIOUS
  <2> HIDE DEF one
  <2> QED BY <1>1, <1>7, <2>1, SumCounts
<1>11. PICK w \in Nat : w = rows[h].weight
  BY <1>1, <1>2
<1>12. top \in [1..n -> Int] /\ \A d \in 1..n : top[d] = w * one[d]
  BY <1>10, <1>11
<1>12m. Multiple(top, w, one, n)
  BY <1>12 DEF Multiple
<1>13. \A d \in 1..n : Weighed(rows)[d] <= top[d]
  <2> SUFFICES ASSUME NEW d \in 1..n PROVE Weighed(rows)[d] <= top[d]
    OBVIOUS
  <2>1. Weighed(rows)[d] = IF d \in S THEN rows[d].weight ELSE 0
    BY DimensionsAre DEF Weighed, n, S
  <2>2. one[d] = IF d \in S THEN 1 ELSE 0
    OBVIOUS
  <2>3. d \in S => rows[d].weight <= w
    BY <1>1, <1>11
  <2>4. w * 1 = w /\ w * 0 = 0
    BY <1>11
  <2> HIDE DEF one, top
  <2> QED BY <1>12, <2>1, <2>2, <2>3, <2>4, <1>11
<1> HIDE DEF one, top
<1>14. Sum(top, n) = w * (m + 1)
  <2>1. n \in Nat /\ w \in Int /\ one \in [1..n -> Int] /\ top \in [1..n -> Int]
    <3>1. n \in Nat
      BY <1>1
    <3>2. w \in Int
      BY <1>11
    <3>3. one \in [1..n -> Int]
      BY <1>10
    <3>4. top \in [1..n -> Int]
      BY <1>12
    <3> QED BY <3>1, <3>2, <3>3, <3>4
  <2>2. Sum(top, n) = w * Sum(one, n)
    BY <1>12m, <2>1, SumScale
  <2> QED BY <1>10, <2>2
<1>15. Pool(rows) <= Sum(top, n)
  <2>1. Weighed(rows) \in [1..n -> Int] /\ Pool(rows) = Sum(Weighed(rows), n)
    BY PoolIs DEF n
  <2> QED BY <1>1, <1>12, <1>13, <2>1, SumMonotone
<1> QED BY <1>7, <1>9, <1>11, <1>14, <1>15 DEF n, S

\* The shares of the others: each off by half a unit at most, together by as many halves.
LEMMA SharesOfOthers ==
  ASSUME NEW rows \in EvaluationRows, Pool(rows) # 0, NEW h, h = Heaviest(rows), NEW m, m = Cardinality(Scored(rows)) - 1,
         NEW others, others = [d \in Dimension |-> IF d = h THEN 0 ELSE Share(rows, d)]
  PROVE  /\ others \in [1..Dimensions -> Nat] /\ \A d \in Dimension \ Scored(rows) : others[d] = 0
         /\ \A d \in Scored(rows) \ {h} :
              LET off == others[d] * Pool(rows) - rows[d].weight * Hundred
              IN  2 * off <= Pool(rows) /\ -Pool(rows) <= 2 * off
         /\ LET off == Pool(rows) * Sum(others, Dimensions) - Hundred * (Pool(rows) - rows[h].weight)
            IN  2 * off <= Pool(rows) * m /\ -(Pool(rows) * m) <= 2 * off
<1> DEFINE n == Dimensions
           H == Hundred
<1>1. PICK P \in Nat \ {0} : P = Pool(rows)
  BY PoolIs
<1>2. n \in Nat /\ Dimension = 1..n /\ H \in Nat
  BY DimensionsAre
<1>3. \A d \in 1..n : rows[d].weight \in Nat
  BY RowsAre, DimensionsAre
<1>4. PICK S : S = Scored(rows)
  OBVIOUS
<1>5. h \in S /\ S \subseteq 1..n
  BY <1>2, <1>4, PoolIs, HeaviestIs, RowsAre
<1>6. ASSUME NEW d \in S
      PROVE  LET off == Share(rows, d) * P - rows[d].weight * H
             IN  Share(rows, d) \in Nat /\ 2 * off <= P /\ -P <= 2 * off
  <2>1. PICK x \in Nat : x = rows[d].weight * H
    BY <1>2, <1>3, <1>5
  <2>2. Share(rows, d) = Rounded(x, P)
    BY <1>1, <1>4, <2>1 DEF Share
  <2> QED BY <2>1, <2>2, RoundedIs
<1>7. \A d \in 1..n : others[d] = IF d \in S \ {h} THEN Share(rows, d) ELSE 0
  BY <1>2, <1>4 DEF Share
<1>8. others \in [1..n -> Nat]
  BY <1>2, <1>6, <1>7
<1> HIDE DEF n, H
<1>9. PICK f : f = Weighed(rows)
  OBVIOUS
<1>10. /\ f \in [1..n -> Int] /\ P = Sum(f, n)
       /\ \A d \in 1..n : f[d] = IF d \in S THEN rows[d].weight ELSE 0
  BY <1>1, <1>2, <1>4, <1>9, PoolIs DEF Weighed, n
<1> DEFINE v == [d \in 1..n |-> IF d = h THEN 0 ELSE f[d]]
           e == [d \in 1..n |-> IF d \in S \ {h} THEN 1 ELSE 0]
           a == [d \in 1..n |-> P * others[d]]
           b == [d \in 1..n |-> (-H) * v[d]]
           c == [d \in 1..n |-> a[d] + b[d]]
           t == [d \in 1..n |-> 2 * c[d]]
           up == [d \in 1..n |-> P * e[d]]
           low == [d \in 1..n |-> (-P) * e[d]]
<1>11. v \in [1..n -> Int] /\ v[h] = 0 /\ \A d \in 1..n : d # h => v[d] = f[d]
  BY <1>5, <1>10
<1>12. e \in [1..n -> Int] /\ \A d \in 1..n : e[d] = IF d \in S \ {h} THEN 1 ELSE 0
  OBVIOUS
<1>13. others \in [1..n -> Int]
  BY <1>8
<1> HIDE DEF v, e
<1>14. a \in [1..n -> Int] /\ \A d \in 1..n : a[d] = P * others[d]
  BY <1>13
<1>15. b \in [1..n -> Int] /\ \A d \in 1..n : b[d] = (-H) * v[d]
  BY <1>2, <1>11
<1>16. up \in [1..n -> Int] /\ \A d \in 1..n : up[d] = P * e[d]
  BY <1>12
<1>17. low \in [1..n -> Int] /\ \A d \in 1..n : low[d] = (-P) * e[d]
  BY <1>12
<1> HIDE DEF a, b, up, low
<1>18. c \in [1..n -> Int] /\ \A d \in 1..n : c[d] = a[d] + b[d]
  BY <1>14, <1>15
<1> HIDE DEF c
<1>19. t \in [1..n -> Int] /\ \A d \in 1..n : t[d] = 2 * c[d]
  BY <1>18
<1> HIDE DEF t
<1>20. Sum(e, n) = m /\ m \in Nat
  <2>1. Counts(e, Scored(rows) \ {h})
    BY <1>4, <1>12 DEF Counts, n
  <2>2. e \in [1..Dimensions -> Int]
    BY <1>12 DEF n
  <2>3. /\ m \in Nat /\ \A x \in [1..Dimensions -> Int] :
                           Counts(x, Scored(rows) \ {h}) => Sum(x, Dimensions) = m
    BY ScoredCounted
  <2> QED BY <2>1, <2>2, <2>3 DEF n
<1>21. Sum(v, n) = P - rows[h].weight
  <2>0. h \in 1..n
    BY <1>5
  <2>1. Sum(v, n) = Sum(f, n) + v[h] - f[h]
    <3>1. f \in [1..n -> Int] /\ v \in [1..n -> Int] /\ n \in Nat
      BY <1>2, <1>10, <1>11
    <3>2. \A d \in 1..n : d # h => v[d] = f[d]
      BY <1>11
    <3> QED BY <2>0, <3>1, <3>2, SumChange
  <2> QED BY <1>3, <1>5, <1>10, <1>11, <2>1
<1>22. Sum(a, n) = P * Sum(others, n) /\ Sum(b, n) = (-H) * Sum(v, n)
  <2>1. -H \in Int
    BY <1>2
  <2>2. Sum(a, n) = P * Sum(others, n)
    <3>1. Multiple(a, P, others, n)
      BY <1>14 DEF Multiple
    <3> QED BY <1>2, <1>13, <1>14, <3>1, SumScale
  <2>3. Sum(b, n) = (-H) * Sum(v, n)
    <3>1. Multiple(b, -H, v, n)
      BY <1>15 DEF Multiple
    <3> QED BY <1>2, <2>1, <1>11, <1>15, <3>1, SumScale
  <2> QED BY <2>2, <2>3
<1>23. Sum(up, n) = P * m /\ Sum(low, n) = (-P) * m
  <2>1. -P \in Int
    OBVIOUS
  <2>2. Sum(up, n) = P * Sum(e, n)
    <3>1. Multiple(up, P, e, n)
      BY <1>16 DEF Multiple
    <3> QED BY <1>2, <1>12, <1>16, <3>1, SumScale
  <2>3. Sum(low, n) = (-P) * Sum(e, n)
    <3>1. Multiple(low, -P, e, n)
      BY <1>17 DEF Multiple
    <3> QED BY <1>2, <2>1, <1>12, <1>17, <3>1, SumScale
  <2> QED BY <1>20, <2>2, <2>3
<1>24. Sum(c, n) = Sum(a, n) + Sum(b, n)
  BY <1>2, <1>14, <1>15, <1>18, SumAdd
<1>25. Sum(t, n) = 2 * Sum(c, n)
  <2>1. Multiple(t, 2, c, n)
    BY <1>19 DEF Multiple
  <2>2. 2 \in Int /\ n \in Nat /\ t \in [1..n -> Int] /\ c \in [1..n -> Int]
    BY <1>2, <1>18, <1>19
  <2> QED BY <2>1, <2>2, SumScale
<1>26. ASSUME NEW d \in 1..n PROVE t[d] <= up[d] /\ low[d] <= t[d]
  <2>1. CASE d \in S \ {h}
    <3>1. PICK s \in Nat : s = Share(rows, d)
      BY <1>6, <2>1
    <3>2. PICK w \in Nat : w = rows[d].weight
      BY <1>3
    <3>3. 2 * (s * P - w * H) <= P /\ -P <= 2 * (s * P - w * H)
      BY <1>6, <2>1, <3>1, <3>2
    <3>0. d \in S /\ d # h
      BY <2>1
    <3>a. others[d] = s
      BY <1>7, <2>1, <3>1
    <3>v. v[d] = w
      <4>1. v[d] = f[d]
        BY <1>11, <3>0
      <4>2. f[d] = rows[d].weight
        BY <1>10, <3>0
      <4> QED BY <3>2, <4>1, <4>2
    <3>4. a[d] = P * s /\ b[d] = (-H) * w
      <4>1. a[d] = P * others[d]
        BY <1>14
      <4>2. b[d] = (-H) * v[d]
        BY <1>15
      <4> QED BY <3>a, <3>v, <4>1, <4>2
    <3>5. up[d] = P /\ low[d] = -P
      BY <1>12, <1>16, <1>17, <2>1
    <3>6. t[d] = 2 * (P * s + (-H) * w)
      BY <1>18, <1>19, <3>4
    <3>7. P * s + (-H) * w = s * P - w * H
      BY <1>2
    <3> QED BY <3>3, <3>5, <3>6, <3>7
  <2>2. CASE d \notin S \ {h}
    <3>1. others[d] = 0 /\ v[d] = 0 /\ e[d] = 0
      BY <1>7, <1>10, <1>11, <1>12, <2>2
    <3>2. P * 0 = 0 /\ (-H) * 0 = 0 /\ (-P) * 0 = 0
      BY <1>2
    <3>3. a[d] = 0 /\ b[d] = 0 /\ up[d] = 0 /\ low[d] = 0
      BY <1>14, <1>15, <1>16, <1>17, <3>1, <3>2
    <3> QED BY <1>18, <1>19, <3>3
  <2> QED BY <2>1, <2>2
<1>27. Sum(t, n) <= Sum(up, n) /\ Sum(low, n) <= Sum(t, n)
  BY <1>2, <1>16, <1>17, <1>19, <1>26, SumMonotone
<1>28. PICK O \in Nat : O = Sum(others, n)
  BY <1>2, <1>8, SumOfNaturals
<1>29. PICK w \in Nat : w = rows[h].weight
  BY <1>3, <1>5
<1>30. 2 * (P * O - H * (P - w)) <= P * m /\ -(P * m) <= 2 * (P * O - H * (P - w))
  <2>1. Sum(t, n) = 2 * (P * O + (-H) * (P - w))
    BY <1>21, <1>22, <1>24, <1>25, <1>28, <1>29
  <2>2. P * O + (-H) * (P - w) = P * O - H * (P - w) /\ (-P) * m = -(P * m)
    BY <1>2, <1>20
  <2> QED BY <1>23, <1>27, <2>1, <2>2
<1>31. \A d \in Dimension \ Scored(rows) : others[d] = 0
  BY <1>2, <1>4, <1>7
<1>32. \A d \in S \ {h} : others[d] = Share(rows, d)
  BY <1>5, <1>7
<1> QED BY <1>1, <1>4, <1>6, <1>8, <1>28, <1>29, <1>30, <1>31, <1>32 DEF n, H

\* The part of WeightsAddUp about lines, of any rows.
AddUp(rows) ==
  LET effective == [d \in Dimension |-> rows[d].effective]
  IN  /\ \A d \in Dimension \ Scored(rows) : effective[d] = 0
      /\ \/ \A d \in Scored(rows) : effective[d] = rows[d].weight
         \/ Pool(rows) = 0 /\ \A d \in Dimension : effective[d] = 0
         \/ /\ Sum(effective, Dimensions) = Hundred
            /\ \A d \in Scored(rows) :
                 LET off == effective[d] * Pool(rows) - rows[d].weight * Hundred
                     slack == (Cardinality(Scored(rows)) - 1) * Pool(rows)
                 IN  effective[d] >= 0 /\ 2 * off <= slack /\ -slack <= 2 * off

\* Shares that are near enough, and come to a hundred with what the heaviest takes.
NearEnough(rows, weights, m) ==
  /\ weights \in [1..Dimensions -> Int] /\ Sum(weights, Dimensions) = Hundred
  /\ \A d \in Dimension \ Scored(rows) : weights[d] = 0
  /\ \A d \in Scored(rows) :
       LET off == weights[d] * Pool(rows) - rows[d].weight * Hundred
       IN  weights[d] >= 0 /\ 2 * off <= m * Pool(rows) /\ -(m * Pool(rows)) <= 2 * off

LEMMA RedistributedIs ==
  ASSUME NEW rows \in EvaluationRows, Pool(rows) # 0
  PROVE  NearEnough(rows, RedistributedWeights(rows), Cardinality(Scored(rows)) - 1)
<1> DEFINE h == Heaviest(rows)
           others == [d \in Dimension |-> IF d = h THEN 0 ELSE Share(rows, d)]
           weights == RedistributedWeights(rows)
           O == Sum(others, Dimensions)
<1>1. weights = [others EXCEPT ![h] = Hundred - O]
  BY DEF RedistributedWeights
<1>2. h \in Scored(rows) /\ Scored(rows) \subseteq 1..Dimensions /\ Dimension = 1..Dimensions
      /\ Dimensions \in Nat /\ Hundred \in Nat
  BY PoolIs, HeaviestIs, RowsAre, DimensionsAre
<1>3. PICK m : m = Cardinality(Scored(rows)) - 1
  OBVIOUS
<1>4. PICK P \in Nat \ {0} : P = Pool(rows)
  BY PoolIs
<1>5. PICK w \in Nat : w = rows[h].weight
  BY <1>2, RowsAre
<1>6. m \in Nat /\ m + 1 <= Dimensions /\ P <= w * (m + 1)
  BY <1>3, <1>4, <1>5, ScoredCounted
<1>7. /\ others \in [1..Dimensions -> Nat] /\ \A d \in Dimension \ Scored(rows) : others[d] = 0
      /\ \A d \in Scored(rows) \ {h} :
           LET off == others[d] * P - rows[d].weight * Hundred IN 2 * off <= P /\ -P <= 2 * off
      /\ 2 * (P * O - Hundred * (P - w)) <= P * m /\ -(P * m) <= 2 * (P * O - Hundred * (P - w))
  <2>1. Pool(rows) = P /\ rows[h].weight = w /\ Sum(others, Dimensions) = O
    BY <1>4, <1>5
  <2>2. h = Heaviest(rows)
    OBVIOUS
  <2>3. others = [d \in Dimension |-> IF d = h THEN 0 ELSE Share(rows, d)]
    OBVIOUS
  <2> HIDE DEF h, others, O
  <2>4. /\ others \in [1..Dimensions -> Nat] /\ \A d \in Dimension \ Scored(rows) : others[d] = 0
        /\ \A d \in Scored(rows) \ {h} :
             LET off == others[d] * Pool(rows) - rows[d].weight * Hundred
             IN  2 * off <= Pool(rows) /\ -Pool(rows) <= 2 * off
        /\ LET off == Pool(rows) * Sum(others, Dimensions) - Hundred * (Pool(rows) - rows[h].weight)
           IN  2 * off <= Pool(rows) * m /\ -(Pool(rows) * m) <= 2 * off
    BY <1>3, <2>2, <2>3, SharesOfOthers
  <2> QED BY <2>1, <2>4
<1>8. others[h] = 0
  BY <1>2
<1> HIDE DEF h, others, weights, O
<1>9. O \in Nat /\ O = Sum(others, Dimensions)
  BY <1>2, <1>7, SumOfNaturals DEF O
<1>10. /\ Hundred - O >= 0
       /\ 2 * ((Hundred - O) * P - w * Hundred) <= m * P
       /\ -(m * P) <= 2 * ((Hundred - O) * P - w * Hundred)
  BY <1>2, <1>6, <1>7, <1>9, FewDimensions, WhatIsLeft
<1>11. /\ weights \in [1..Dimensions -> Int] /\ weights[h] = Hundred - O
       /\ \A d \in 1..Dimensions : d # h => weights[d] = others[d]
  <2>1. others \in [1..Dimensions -> Int] /\ h \in 1..Dimensions
    BY <1>2, <1>7
  <2>2. PICK rest \in Int : rest = Hundred - O
    BY <1>2, <1>9
  <2>3. weights = [others EXCEPT ![h] = rest]
    BY <1>1, <2>2
  <2> QED BY <2>1, <2>2, <2>3
<1>12. Sum(weights, Dimensions) = Hundred
  <2>1. h \in 1..Dimensions /\ others \in [1..Dimensions -> Int]
    BY <1>2, <1>7
  <2>2. \A d \in 1..Dimensions : d # h => weights[d] = others[d]
    BY <1>11
  <2>3. weights \in [1..Dimensions -> Int] /\ Dimensions \in Nat
    BY <1>2, <1>11
  <2>4. Sum(weights, Dimensions) = O + weights[h] - others[h]
    BY <1>9, <2>1, <2>2, <2>3, SumChange
  <2> QED BY <1>2, <1>8, <1>9, <1>11, <2>4
<1>13. \A d \in Dimension \ Scored(rows) : weights[d] = 0
  BY <1>2, <1>7, <1>11
<1>14. ASSUME NEW d \in Scored(rows)
       PROVE  LET off == weights[d] * P - rows[d].weight * Hundred
              IN  weights[d] >= 0 /\ 2 * off <= m * P /\ -(m * P) <= 2 * off
  <2>1. CASE d = h
    BY <1>5, <1>10, <1>11, <2>1
  <2>2. CASE d # h
    <3>1. PICK s \in Nat : s = others[d]
      BY <1>2, <1>7
    <3>2. weights[d] = s
      BY <1>2, <1>11, <2>2, <3>1
    <3>3. PICK y \in Nat : y = rows[d].weight * Hundred
      BY <1>2, RowsAre
    <3>4. 2 * (s * P - y) <= P /\ -P <= 2 * (s * P - y)
      BY <1>7, <2>2, <3>1, <3>3
    <3>5. m >= 1
      <4>1. IsFiniteSet(Scored(rows))
        <5>1. IsFiniteSet(1..Dimensions)
          BY <1>2, FS_Interval
        <5> QED BY <1>2, <5>1, FS_Subset
      <4>2. m = Cardinality(Scored(rows) \ {h}) /\ IsFiniteSet(Scored(rows) \ {h})
        BY <1>2, <1>3, <4>1, FS_RemoveElement, FS_CardinalityType
      <4>3. Scored(rows) \ {h} # {}
        BY <2>2
      <4>4. m # 0
        BY <4>2, <4>3, FS_EmptySet
      <4> QED BY <1>6, <4>4
    <3>6. 1 * P <= m * P /\ m * P \in Nat
      BY <1>6, <3>5, Grow
    <3>7. s * P \in Nat
      OBVIOUS
    <3>8. 2 * (s * P - y) <= m * P /\ -(m * P) <= 2 * (s * P - y)
      BY <3>4, <3>6, <3>7
    <3> QED BY <3>2, <3>3, <3>8
  <2> QED BY <2>1, <2>2
<1> QED BY <1>3, <1>4, <1>11, <1>12, <1>13, <1>14 DEF NearEnough, weights

\* What is written for the effective weights adds up, by either policy.
LEMMA WrittenAddsUp ==
  ASSUME NEW rows \in EvaluationRows, NEW policy \in Policy
  PROVE  WithEffective(rows, policy) \in EvaluationRows /\ AddUp(WithEffective(rows, policy))
<1> DEFINE new == WithEffective(rows, policy)
           E == EffectiveWeights(rows, policy)
<1>1. /\ \A d \in Dimension : new[d] = [rows[d] EXCEPT !.effective = E[d]]
      /\ DOMAIN new = Dimension /\ new = [d \in Dimension |-> new[d]]
  BY DEF WithEffective
<1>2. \A d \in Dimension : rows[d] \in SupplierEvaluationLine
  BY DEF EvaluationRows
<1>3. Scored(rows) \subseteq Dimension /\ Dimension = 1..Dimensions
      /\ \A d \in Dimension : rows[d].weight \in Nat
  BY RowsAre, DimensionsAre
<1> HIDE DEF new, E
<1>5. \A d \in Dimension : /\ new[d].missing = rows[d].missing /\ new[d].weight = rows[d].weight
                           /\ new[d].effective = E[d]
  BY <1>1, <1>2 DEF SupplierEvaluationLine
<1>6. Scored(new) = Scored(rows)
  BY <1>5 DEF Scored
<1>7. Pool(new) = Pool(rows)
  <2>1. [d \in Dimension |-> IF d \in Scored(new) THEN new[d].weight ELSE 0]
          = [d \in Dimension |-> IF d \in Scored(rows) THEN rows[d].weight ELSE 0]
    BY <1>5, <1>6
  <2> QED BY <2>1 DEF Pool
<1>8. E \in [Dimension -> Int] => new \in EvaluationRows /\ [d \in Dimension |-> new[d].effective] = E
  <2> SUFFICES ASSUME E \in [Dimension -> Int]
               PROVE  new \in EvaluationRows /\ [d \in Dimension |-> new[d].effective] = E
    OBVIOUS
  <2>1. \A d \in Dimension : new[d] \in SupplierEvaluationLine
    BY <1>1, <1>2 DEF SupplierEvaluationLine
  <2>2. [d \in Dimension |-> new[d].effective] = E
    BY <1>5
  <2> QED BY <1>1, <2>1, <2>2 DEF EvaluationRows
<1> DEFINE Plain == [d \in Dimension |-> IF d \in Scored(rows) THEN rows[d].weight ELSE 0]
           None == [d \in Dimension |-> 0]
<1>9. \/ E = Plain
      \/ Pool(rows) = 0 /\ E = None
      \/ Pool(rows) # 0 /\ E = RedistributedWeights(rows)
  BY DEF E, EffectiveWeights, RedistributedWeights
<1>10. CASE E = Plain
  <2>1. E \in [Dimension -> Int]
    BY <1>3, <1>10
  <2>2. \A d \in Dimension \ Scored(rows) : E[d] = 0
    BY <1>10
  <2>3. \A d \in Scored(rows) : E[d] = new[d].weight
    BY <1>3, <1>5, <1>10
  <2> QED BY <1>6, <1>8, <2>1, <2>2, <2>3 DEF AddUp, new
<1>11. CASE Pool(rows) = 0 /\ E = None
  <2>1. E \in [Dimension -> Int] /\ \A d \in Dimension : E[d] = 0
    BY <1>11
  <2> QED BY <1>6, <1>7, <1>8, <1>11, <2>1 DEF AddUp, new
<1>12. CASE Pool(rows) # 0 /\ E = RedistributedWeights(rows)
  <2>1. PICK m : m = Cardinality(Scored(rows)) - 1
    OBVIOUS
  <2>2. NearEnough(rows, E, m)
    BY <1>12, <2>1, RedistributedIs
  <2>3. E \in [Dimension -> Int]
    BY <1>3, <2>2 DEF NearEnough
  <2>4. \A d \in Scored(rows) : new[d].weight = rows[d].weight
    BY <1>3, <1>5
  <2>5. new \in EvaluationRows /\ [d \in Dimension |-> new[d].effective] = E
    BY <1>8, <2>3
  <2>6. /\ Sum(E, Dimensions) = Hundred
        /\ \A d \in Dimension \ Scored(new) : E[d] = 0
        /\ \A d \in Scored(new) :
             LET off == E[d] * Pool(new) - new[d].weight * Hundred
             IN  E[d] >= 0 /\ 2 * off <= m * Pool(new) /\ -(m * Pool(new)) <= 2 * off
    BY <1>6, <1>7, <2>2, <2>4 DEF NearEnough
  <2>7. m = Cardinality(Scored(new)) - 1
    BY <1>6, <2>1
  <2>8. AddUp(new)
    BY <2>5, <2>6, <2>7 DEF AddUp
  <2> QED BY <2>5, <2>8 DEF new
<1> QED BY <1>9, <1>10, <1>11, <1>12

(***************************************************************************)
(* Supplier evaluation: the invariant.                                     *)
(***************************************************************************)

\* What a step that writes the evaluation has to show of what it leaves.
DraftForms ==
  \A u \in Evaluator : form[u].of \in {"header", "policy"} => form[u].row.status = "draft"
WrittenLines == lines \in EvaluationRows /\ AddUp(lines)
PublishedHasTotal == evaluation.status = "effective" => evaluation.total # "none" /\ lines # <<>>

EvaluationInv ==
  /\ EvaluationTypeOK
  /\ lines # <<>> => AddUp(lines)
  /\ evaluation.status = "effective" => evaluation.total # "none" /\ lines # <<>>
  /\ \A e \in Evaluator :
       form[e].of \in {"header", "policy"} =>
         form[e].row.status = "draft" /\ evaluation # NoEvaluation

\* What a form holds, by what it is of.
LEMMA FormIs ==
  ASSUME EvaluationTypeOK, NEW e \in Evaluator
  PROVE  /\ form[e].of = "version" => form[e].row \in SupplierEvaluationWeight
         /\ form[e].of \in {"header", "policy"} => form[e].row \in SupplierEvaluation
         /\ form[e] \in Form
<1>1. form[e] \in Form
  BY DEF EvaluationTypeOK
<1>2. ASSUME NEW f \in Form
      PROVE  /\ f.of = "version" => f.row \in SupplierEvaluationWeight
             /\ f.of \in {"header", "policy"} => f.row \in SupplierEvaluation
  <2>1. CASE f = NoForm
    BY <2>1 DEF NoForm
  <2>2. CASE f \in [of : {"version"}, id : Nat, row : SupplierEvaluationWeight]
    BY <2>2
  <2>3. CASE f \in [of : {"header", "policy"}, row : SupplierEvaluation]
    BY <2>3
  <2> QED BY <2>1, <2>2, <2>3 DEF Form
<1> QED BY <1>1, <1>2

LEMMA EvaluationIs ==
  ASSUME EvaluationTypeOK
  PROVE  /\ evaluation # NoEvaluation => evaluation \in SupplierEvaluation
         /\ evaluation.status # "none" => evaluation # NoEvaluation
BY DEF EvaluationTypeOK, NoEvaluation

\* A step that leaves evaluation and lines alone, with a form that is of a version or of the
\* evaluation as it is.
LEMMA FormsKeep ==
  ASSUME EvaluationInv, UNCHANGED <<evaluation, lines>>,
         versions' \in Seq(SupplierEvaluationWeight), NEW e \in Evaluator, NEW what \in Form,
         form' = form \/ form' = [form EXCEPT ![e] = what],
         what.of \in {"header", "policy"} => what.row.status = "draft" /\ evaluation # NoEvaluation
  PROVE  EvaluationInv'
<1>1. form' \in [Evaluator -> Form]
  BY DEF EvaluationInv, EvaluationTypeOK
<1>2. \A u \in Evaluator : form'[u] = form[u] \/ form'[u] = what
  BY DEF EvaluationInv, EvaluationTypeOK
<1>3. EvaluationTypeOK'
  BY <1>1 DEF EvaluationInv, EvaluationTypeOK
<1>4. lines' # <<>> => AddUp(lines)'
  BY DEF EvaluationInv, AddUp, Scored, Pool
<1>5. \A u \in Evaluator : form'[u].of \in {"header", "policy"} =>
        form'[u].row.status = "draft" /\ evaluation' # NoEvaluation
  BY <1>2 DEF EvaluationInv
<1> QED BY <1>3, <1>4, <1>5 DEF EvaluationInv

\* A step that writes the evaluation and perhaps the lines, and ends a form or takes one on.
LEMMA WritesKeepEvaluation ==
  ASSUME EvaluationInv, UNCHANGED versions,
         evaluation' \in SupplierEvaluation, PublishedHasTotal',
         lines' = lines \/ WrittenLines',
         form' \in [Evaluator -> Form], DraftForms'
  PROVE  EvaluationInv'
<1>1. evaluation' # NoEvaluation
  BY DEF NoEvaluation, SupplierEvaluation
<1>2. EvaluationTypeOK'
  BY DEF EvaluationInv, EvaluationTypeOK, EvaluationRows, WrittenLines
<1>3. lines' # <<>> => AddUp(lines)'
  BY DEF EvaluationInv, AddUp, Scored, Pool, WrittenLines
<1> QED BY <1>1, <1>2, <1>3 DEF EvaluationInv, DraftForms, PublishedHasTotal

LEMMA FormsAreDrafts == ASSUME EvaluationInv PROVE DraftForms /\ (UNCHANGED form => DraftForms')
BY DEF EvaluationInv, DraftForms

LEMMA WeightConfigKeeps ==
  ASSUME EvaluationInv, NEW weights, NEW active \in BOOLEAN, StoreWeightConfig(weights, active),
         UNCHANGED <<evaluation, lines>>,
         form' = form \/ \E e \in Evaluator : form' = [form EXCEPT ![e] = NoForm]
  PROVE  EvaluationInv'
<1>1. versions \in Seq(SupplierEvaluationWeight) /\ Len(versions) \in Nat
  BY DEF EvaluationInv, EvaluationTypeOK
<1> DEFINE older == [v \in 1..Len(versions) |-> [versions[v] EXCEPT !.active = @ /\ ~ active]]
           row == [weights |-> weights, active |-> active]
<1>2. older \in Seq(SupplierEvaluationWeight)
  <2>1. ASSUME NEW v \in 1..Len(versions) PROVE older[v] \in SupplierEvaluationWeight
    <3>1. PICK old \in SupplierEvaluationWeight : old = versions[v]
      BY <1>1, ElementOfSeq
    <3>2. older[v] = [old EXCEPT !.active = old.active /\ ~ active]
      BY <3>1
    <3>3. (old.active /\ ~ active) \in BOOLEAN
      OBVIOUS
    <3> QED BY <3>2, <3>3 DEF SupplierEvaluationWeight
  <2>2. older \in [1..Len(versions) -> SupplierEvaluationWeight]
    BY <2>1
  <2> HIDE DEF older
  <2> QED BY <1>1, <2>2, SeqDef
<1>3. row \in SupplierEvaluationWeight
  BY DEF StoreWeightConfig, SupplierEvaluationWeight
<1>4. versions' = Append(older, row)
  BY DEF StoreWeightConfig
<1> HIDE DEF older, row
<1>5. versions' \in Seq(SupplierEvaluationWeight)
  BY <1>2, <1>3, <1>4, AppendProperties
<1>6. CASE form' = form
  <2>1. form' = form /\ evaluation' = evaluation /\ lines' = lines
    BY <1>6
  <2>2. EvaluationTypeOK'
    BY <1>5, <2>1 DEF EvaluationInv, EvaluationTypeOK
  <2>3. lines' # <<>> => AddUp(lines)'
    BY <2>1 DEF EvaluationInv, AddUp, Scored, Pool
  <2> QED BY <2>1, <2>2, <2>3 DEF EvaluationInv
<1>7. ASSUME NEW e \in Evaluator, form' = [form EXCEPT ![e] = NoForm] PROVE EvaluationInv'
  <2>1. NoForm \in Form /\ NoForm.of = "nothing"
    BY DEF Form, NoForm
  <2> QED BY <1>5, <1>7, <2>1, FormsKeep
<1> QED BY <1>6, <1>7

LEMMA VersionNextKeeps ==
  ASSUME EvaluationInv, VersionNext
  PROVE  EvaluationInv'
<1>0. EvaluationTypeOK /\ versions \in Seq(SupplierEvaluationWeight) /\ Len(versions) \in Nat
  BY DEF EvaluationInv, EvaluationTypeOK
<1>1. ASSUME NEW weights \in GivenWeights, NEW active \in BOOLEAN, CreateWeightConfig(weights, active)
      PROVE  EvaluationInv'
  BY <1>1, WeightConfigKeeps DEF CreateWeightConfig
<1>2. ASSUME NEW e \in Evaluator, NEW v \in 1..Len(versions), OpenVersion(e, v) PROVE EvaluationInv'
  <2>1. PICK what : what = [of |-> "version", id |-> v, row |-> versions[v]]
    OBVIOUS
  <2>2. what \in Form /\ what.of = "version"
    <3>1. v \in Nat /\ versions[v] \in SupplierEvaluationWeight
      BY <1>0, ElementOfSeq
    <3> QED BY <2>1, <3>1 DEF Form
  <2>3. form' = [form EXCEPT ![e] = what] /\ UNCHANGED <<versions, evaluation, lines>>
    BY <1>2, <2>1 DEF OpenVersion, Opens
  <2> QED BY <1>0, <2>2, <2>3, FormsKeep
<1>3. ASSUME NEW e \in Evaluator, NEW weights \in GivenWeights, DeriveWeightConfig(e, weights)
      PROVE  EvaluationInv'
  <2>1. form[e].of = "version" /\ form' = [form EXCEPT ![e] = NoForm] /\ UNCHANGED <<evaluation, lines>>
    BY <1>3 DEF DeriveWeightConfig, Submits
  <2>2. form[e].row.active \in BOOLEAN
    <3>1. form[e].row \in SupplierEvaluationWeight
      BY <1>0, <2>1, FormIs
    <3> QED BY <3>1 DEF SupplierEvaluationWeight
  <2>3. StoreWeightConfig(weights, form[e].row.active)
    BY <1>3 DEF DeriveWeightConfig
  <2> QED BY <2>1, <2>2, <2>3, WeightConfigKeeps
<1>4. ASSUME NEW e \in Evaluator, NEW active \in BOOLEAN, SetActive(e, active) PROVE EvaluationInv'
  <2>1. NoForm \in Form /\ NoForm.of = "nothing"
    BY DEF Form, NoForm
  <2>2. form' = [form EXCEPT ![e] = NoForm] /\ UNCHANGED <<evaluation, lines>>
    BY <1>4 DEF SetActive, Submits
  <2>3. PICK v : versions' = [versions EXCEPT ![v] = [versions[v] EXCEPT !.active = active]]
    BY <1>4 DEF SetActive
  <2>4. versions' \in Seq(SupplierEvaluationWeight)
    <3>1. CASE v \in 1..Len(versions)
      <4>1. [versions[v] EXCEPT !.active = active] \in SupplierEvaluationWeight
        <5>1. versions[v] \in SupplierEvaluationWeight
          BY <1>0, <3>1, ElementOfSeq
        <5> QED BY <5>1 DEF SupplierEvaluationWeight
      <4> QED BY <1>0, <2>3, <3>1, <4>1, ExceptSeq
    <3>2. CASE v \notin 1..Len(versions)
      <4>1. DOMAIN versions = 1..Len(versions) /\ versions = [k \in DOMAIN versions |-> versions[k]]
        BY <1>0
      <4>2. versions' = versions
        BY <2>3, <3>2, <4>1
      <4> QED BY <1>0, <4>2
    <3> QED BY <3>1, <3>2
  <2> QED BY <2>1, <2>2, <2>4, FormsKeep
<1> QED BY <1>1, <1>2, <1>3, <1>4 DEF VersionNext

LEMMA RecalculateKeeps ==
  ASSUME EvaluationInv, NEW rows, rows \in {<<>>} \union EvaluationRows, NEW policy \in Policy,
         Recalculate(rows, policy), evaluation # NoEvaluation, UNCHANGED versions,
         rows = <<>> => lines = <<>>,
         form' = form \/ \E e \in Evaluator : form' = [form EXCEPT ![e] = NoForm]
  PROVE  EvaluationInv'
<1>1. evaluation \in SupplierEvaluation /\ form \in [Evaluator -> Form]
  BY DEF EvaluationInv, EvaluationTypeOK
<1>2. PICK total : total = Total(rows, policy)
  OBVIOUS
<1>3. total \in {"none", "without_grade", "graded"} /\ (rows # <<>> => total # "none")
  BY <1>2 DEF Total
<1>4. evaluation' = [evaluation EXCEPT !.total = total]
  BY <1>2 DEF Recalculate
<1>5. evaluation' \in SupplierEvaluation /\ evaluation'.status = evaluation.status /\ evaluation'.total = total
  BY <1>1, <1>3, <1>4 DEF SupplierEvaluation
<1>6. \A r \in EvaluationRows : r # <<>>
  BY DimensionsAre, EvaluationInputs DEF EvaluationRows
<1>7. /\ rows = <<>> => lines' = lines
      /\ rows # <<>> => lines' \in EvaluationRows /\ AddUp(lines') /\ lines' # <<>>
  <2>1. rows = <<>> => lines' = lines
    BY DEF Recalculate
  <2>2. CASE rows # <<>>
    <3>1. rows \in EvaluationRows /\ lines' = WithEffective(rows, policy)
      BY <2>2 DEF Recalculate
    <3> QED BY <1>6, <3>1, WrittenAddsUp
  <2> QED BY <2>1, <2>2
<1>8. form' \in [Evaluator -> Form] /\ \A u \in Evaluator : form'[u] = form[u] \/ form'[u] = NoForm
  <2>1. NoForm \in Form
    BY DEF Form
  <2> QED BY <1>1, <2>1
<1>9. DraftForms'
  BY <1>8 DEF EvaluationInv, NoForm, DraftForms
<1>10. PublishedHasTotal'
  BY <1>3, <1>5, <1>7 DEF EvaluationInv, PublishedHasTotal
<1>11. lines' = lines \/ WrittenLines'
  <2>1. CASE rows = <<>>
    BY <1>7, <2>1
  <2>2. CASE rows # <<>>
    <3>1. WrittenLines'
      BY <1>7, <2>2 DEF WrittenLines, AddUp, Scored, Pool
    <3> QED BY <3>1
  <2> QED BY <2>1, <2>2
<1> QED BY <1>5, <1>8, <1>9, <1>10, <1>11, WritesKeepEvaluation

LEMMA HeaderNextKeeps ==
  ASSUME EvaluationInv, HeaderNext
  PROVE  EvaluationInv'
<1>0. /\ EvaluationTypeOK /\ versions \in Seq(SupplierEvaluationWeight) /\ form \in [Evaluator -> Form]
      /\ \A e \in Evaluator : form[e].of \in {"header", "policy"} =>
           form[e].row.status = "draft" /\ evaluation # NoEvaluation
  BY DEF EvaluationInv, EvaluationTypeOK
<1>1. ASSUME NEW v \in 1..Len(versions), NEW policy \in Policy, CreateEvaluation(v, policy)
      PROVE  EvaluationInv'
  <2>1. versions[v] \in SupplierEvaluationWeight
    BY <1>0, ElementOfSeq
  <2>2. evaluation' \in SupplierEvaluation /\ evaluation'.status = "draft" /\ UNCHANGED <<versions, lines, form>>
    BY <1>1, <2>1 DEF CreateEvaluation, SupplierEvaluation, SupplierEvaluationWeight
  <2>3. PublishedHasTotal'
    BY <2>2 DEF PublishedHasTotal
  <2>4. form' \in [Evaluator -> Form]
    BY <1>0, <2>2
  <2>5. lines' = lines /\ UNCHANGED versions
    BY <2>2
  <2>6. DraftForms'
    BY <2>2, FormsAreDrafts
  <2> QED BY <2>2, <2>3, <2>4, <2>5, <2>6, WritesKeepEvaluation
<1>2. ASSUME NEW missing \in SUBSET Dimension, SetEvaluationLines(missing) PROVE EvaluationInv'
  <2>1. evaluation \in SupplierEvaluation /\ evaluation # NoEvaluation
    BY <1>0, <1>2, EvaluationIs DEF SetEvaluationLines
  <2>2. evaluation.weights \in [Dimension -> 0..Hundred] /\ evaluation.policy \in Policy
    BY <2>1 DEF SupplierEvaluation, Weights
  <2>3. PreparedLines(missing) \in EvaluationRows
    <3>1. 0 \in Int
      OBVIOUS
    <3> QED BY <2>2, <3>1 DEF PreparedLines, EvaluationRows, SupplierEvaluationLine
  <2>4. PreparedLines(missing) # <<>>
    BY <2>3, DimensionsAre, EvaluationInputs DEF EvaluationRows
  <2>5. Recalculate(PreparedLines(missing), evaluation.policy) /\ UNCHANGED <<versions, form>>
    BY <1>2 DEF SetEvaluationLines
  <2> QED BY <2>1, <2>2, <2>3, <2>4, <2>5, RecalculateKeeps
<1>3. CASE PublishEvaluation
  <2>1. evaluation \in SupplierEvaluation
    BY <1>0, <1>3, EvaluationIs DEF PublishEvaluation
  <2>2. evaluation' \in SupplierEvaluation /\ evaluation'.total = evaluation.total
    BY <1>3, <2>1 DEF PublishEvaluation, SupplierEvaluation
  <2>3. lines # <<>> /\ evaluation.total # "none" /\ UNCHANGED <<versions, lines, form>>
    BY <1>3 DEF PublishEvaluation
  <2>4. PublishedHasTotal'
    BY <2>2, <2>3 DEF PublishedHasTotal
  <2>5. form' \in [Evaluator -> Form]
    BY <1>0, <2>3
  <2>6. lines' = lines /\ UNCHANGED versions
    BY <2>3
  <2>7. DraftForms'
    BY <2>3, FormsAreDrafts
  <2> QED BY <2>2, <2>4, <2>5, <2>6, <2>7, WritesKeepEvaluation
<1>4. CASE ArchiveEvaluation
  <2>1. evaluation \in SupplierEvaluation
    BY <1>0, <1>4, EvaluationIs DEF ArchiveEvaluation
  <2>2. evaluation' \in SupplierEvaluation /\ evaluation'.status = "archived"
    BY <1>4, <2>1 DEF ArchiveEvaluation, SupplierEvaluation
  <2>3. UNCHANGED <<versions, lines, form>>
    BY <1>4 DEF ArchiveEvaluation
  <2>4. PublishedHasTotal'
    BY <2>2 DEF PublishedHasTotal
  <2>5. form' \in [Evaluator -> Form]
    BY <1>0, <2>3
  <2>6. lines' = lines /\ UNCHANGED versions
    BY <2>3
  <2>7. DraftForms'
    BY <2>3, FormsAreDrafts
  <2> QED BY <2>2, <2>4, <2>5, <2>6, <2>7, WritesKeepEvaluation
<1>5. ASSUME NEW e \in Evaluator, OpenHeader(e) PROVE EvaluationInv'
  <2>1. PICK what : what = [of |-> "header", row |-> evaluation]
    OBVIOUS
  <2>2. evaluation \in SupplierEvaluation /\ evaluation # NoEvaluation /\ evaluation.status = "draft"
    BY <1>0, <1>5, EvaluationIs DEF OpenHeader
  <2>3. what \in Form /\ what.row.status = "draft"
    BY <2>1, <2>2 DEF Form
  <2>4. form' = [form EXCEPT ![e] = what] /\ UNCHANGED <<versions, evaluation, lines>>
    BY <1>5, <2>1 DEF OpenHeader, Opens
  <2> QED BY <1>0, <2>2, <2>3, <2>4, FormsKeep
<1>6. ASSUME NEW e \in Evaluator, SaveHeader(e) PROVE EvaluationInv'
  <2>1. form[e].of = "header" /\ evaluation' = form[e].row /\ form' = [form EXCEPT ![e] = NoForm]
        /\ UNCHANGED <<versions, lines>>
    BY <1>6 DEF SaveHeader, Submits
  <2>2. evaluation' \in SupplierEvaluation /\ evaluation'.status = "draft"
    BY <1>0, <2>1, FormIs
  <2>3. NoForm \in Form /\ NoForm.of = "nothing"
    BY DEF Form, NoForm
  <2>4. form' \in [Evaluator -> Form] /\ \A u \in Evaluator : form'[u] = form[u] \/ form'[u] = NoForm
    BY <1>0, <2>1, <2>3
  <2>5. DraftForms'
    BY <1>0, <2>3, <2>4 DEF DraftForms
  <2>6. PublishedHasTotal'
    BY <2>2 DEF PublishedHasTotal
  <2>7. lines' = lines /\ UNCHANGED versions
    BY <2>1
  <2>8. form' \in [Evaluator -> Form]
    BY <2>4
  <2> QED BY <2>2, <2>5, <2>6, <2>7, <2>8, WritesKeepEvaluation
<1>7. ASSUME NEW e \in Evaluator, NEW policy \in Policy, SavePolicy(e, policy) PROVE EvaluationInv'
  <2>1. PICK row : row = [form[e].row EXCEPT !.policy = policy]
    OBVIOUS
  <2>2. PICK what : what = [of |-> "policy", row |-> row]
    OBVIOUS
  <2>3. form[e].of = "header" /\ evaluation' = row /\ form' = [form EXCEPT ![e] = what]
        /\ UNCHANGED <<versions, lines>>
    BY <1>7, <2>1, <2>2 DEF SavePolicy
  <2>4. form[e].row \in SupplierEvaluation /\ form[e].row.status = "draft"
    BY <1>0, <2>3, FormIs
  <2>5. row \in SupplierEvaluation /\ row.status = "draft"
    BY <2>1, <2>4 DEF SupplierEvaluation
  <2>6. what \in Form /\ what.row = row
    BY <2>2, <2>5 DEF Form
  <2>7. form' \in [Evaluator -> Form] /\ \A u \in Evaluator : form'[u] = form[u] \/ form'[u] = what
    BY <1>0, <2>3, <2>6
  <2>8. DraftForms'
    BY <1>0, <2>5, <2>6, <2>7 DEF DraftForms
  <2>9. PublishedHasTotal'
    BY <2>3, <2>5 DEF PublishedHasTotal
  <2>10. lines' = lines /\ UNCHANGED versions /\ evaluation' \in SupplierEvaluation
    BY <2>3, <2>5
  <2>11. form' \in [Evaluator -> Form]
    BY <2>7
  <2> QED BY <2>8, <2>9, <2>10, <2>11, WritesKeepEvaluation
<1>8. ASSUME NEW e \in Evaluator, RecalculateHeader(e) PROVE EvaluationInv'
  <2>1. form[e].of = "policy" /\ form' = [form EXCEPT ![e] = NoForm] /\ UNCHANGED versions
        /\ Recalculate(lines, form[e].row.policy)
    BY <1>8 DEF RecalculateHeader, Submits
  <2>2. form[e].row.policy \in Policy
    <3>1. form[e].row \in SupplierEvaluation
      BY <1>0, <2>1, FormIs
    <3> QED BY <3>1 DEF SupplierEvaluation
  <2>3. lines \in {<<>>} \union EvaluationRows /\ evaluation # NoEvaluation
    BY <1>0, <2>1 DEF EvaluationTypeOK, EvaluationRows
  <2> QED BY <2>1, <2>2, <2>3, RecalculateKeeps
<1> QED BY <1>1, <1>2, <1>3, <1>4, <1>5, <1>6, <1>7, <1>8 DEF HeaderNext

LEMMA EvaluationInitHolds == ASSUME EvaluationInit PROVE EvaluationInv
BY DEF EvaluationInit, EvaluationInv, EvaluationTypeOK, NoEvaluation, NoForm, Form

LEMMA EvaluationNextKeeps ==
  ASSUME EvaluationInv, [EvaluationNext]_evaluationVars
  PROVE  EvaluationInv'
<1>1. CASE UNCHANGED evaluationVars
  BY <1>1 DEF evaluationVars, EvaluationInv, EvaluationTypeOK, AddUp, Scored, Pool
<1> QED BY <1>1, VersionNextKeeps, HeaderNextKeeps DEF EvaluationNext

\* For any number of dimensions that is small against a hundred percent, any weights and
\* any forms: effective weights are those of the version or a hundred together, none is
\* negative, each is its share to half a unit for every other line, and no evaluation is
\* published without a total.
THEOREM WeightsAreShared == EvaluationSpec => []WeightsAddUp
<1>1. EvaluationInv => WeightsAddUp
  BY DEF EvaluationInv, AddUp, WeightsAddUp
<1> QED BY <1>1, EvaluationInitHolds, EvaluationNextKeeps, PTL DEF EvaluationSpec
=============================================================================
