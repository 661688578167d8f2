----------------------------- MODULE StockProofs -----------------------------
(***************************************************************************)
(* Theorems about Stock for every number of materials, locations, business *)
(* documents, drafts and requests; and about Netting, which plans with the *)
(* stock there is, for any bills, order lines, balances and horizon.       *)
(***************************************************************************)
EXTENDS StockRefinement, Netting, SumLemmas, SequenceTheorems, FiniteSetTheorems, TLAPS

\* A posted document passed the checks of _plan_movements.
PostedDocumentsValid ==
  \A n \in 1..Len(docs) : docs[n].status # "draft" => PlanValid(docs[n])

\* The CHECK of StockReservation: no more consumed and released than reserved.
NothingOverdrawn == \A i \in 1..Len(reservations) : Open(reservations[i]) >= 0

ReservationInv ==
  ReservedIsWhatReservationsHold /\ NothingOverdrawn /\ StatusTellsHowItEnded

Inv ==
  /\ TypeOK
  /\ PostedDocumentsValid
  /\ BucketsWithinOnHand
  /\ ReservationInv
  /\ LedgerReplaysToBalance

-----------------------------------------------------------------------------
(* The movements of a document.                                            *)

LEMMA LineOfType ==
  ASSUME NEW doc, doc.type \in DocumentType, doc.lines \in Seq(Line),
         NEW k \in 1..(Legs(doc.type) * Len(doc.lines))
  PROVE  LineOf(doc, k) \in Line
<1>1. Len(doc.lines) \in Nat
  OBVIOUS
<1>2. CASE Legs(doc.type) = 1
  <2>1. (k + Legs(doc.type) - 1) \div Legs(doc.type) \in 1..Len(doc.lines)
    BY <1>1, <1>2
  <2> QED
    BY <2>1, ElementOfSeq DEF LineOf
<1>3. CASE Legs(doc.type) = 2
  <2>1. (k + 1) \div 2 \in 1..Len(doc.lines)
    BY <1>1, <1>3
  <2>2. (k + Legs(doc.type) - 1) \div Legs(doc.type) \in 1..Len(doc.lines)
    BY <2>1, <1>3
  <2> QED
    BY <2>2, ElementOfSeq DEF LineOf
<1> QED
  BY <1>2, <1>3 DEF Legs

\* The movements of a valid document, and those of its reversal, are one per leg
\* and on dimensions of the balance table.
LEMMA PlanType ==
  ASSUME NEW doc, doc.type \in DocumentType, doc.lines \in Seq(Line), PlanValid(doc)
  PROVE  Plan(doc) \in Seq(Movement) /\ ReversalPlan(doc) \in Seq(Movement)
<1> DEFINE n == Legs(doc.type) * Len(doc.lines)
<1>1. n \in Nat
  <2>1. Len(doc.lines) \in Nat
    OBVIOUS
  <2>2. Legs(doc.type) \in {1, 2}
    BY DEF Legs
  <2> QED
    BY <2>1, <2>2
<1>2. ASSUME NEW k \in 1..n
      PROVE  /\ Plan(doc)[k] \in Movement
             /\ ReversalPlan(doc)[k] = [dim |-> Plan(doc)[k].dim, delta |-> -Plan(doc)[k].delta]
             /\ ReversalPlan(doc)[k] \in Movement
  <2> DEFINE l == LineOf(doc, k)
  <2>1. l \in Line
    BY LineOfType
  <2>2. PICK i \in 1..Len(doc.lines) : l = doc.lines[i]
    <3>1. Len(doc.lines) \in Nat
      OBVIOUS
    <3>2. CASE Legs(doc.type) = 1
      <4>1. (k + Legs(doc.type) - 1) \div Legs(doc.type) \in 1..Len(doc.lines)
        BY <3>1, <3>2
      <4> QED
        BY <4>1 DEF LineOf
    <3>3. CASE Legs(doc.type) = 2
      <4>1. (k + 1) \div 2 \in 1..Len(doc.lines)
        BY <3>1, <3>3
      <4>2. (k + Legs(doc.type) - 1) \div Legs(doc.type) \in 1..Len(doc.lines)
        BY <4>1, <3>3
      <4> QED
        BY <4>2 DEF LineOf
    <3> QED
      BY <3>2, <3>3 DEF Legs
  <2>3. doc.type = "quality" => l.targetQuality \in Quality
    BY <2>1, <2>2 DEF PlanValid, Line
  <2>4. Source(l) \in Dim
    BY <2>1 DEF Source, Dim, Line
  <2>5. doc.type \in {"move", "quality"} => Target(doc.type, l) \in Dim
    BY <2>1, <2>3 DEF Target, Dim, Line
  <2>6. Legs(doc.type) = 2 => doc.type \in {"move", "quality"}
    BY DEF Legs
  <2>7. l.quantity \in Int
    BY <2>1 DEF Line, Positive
  <2>8. Plan(doc)[k] =
          [dim |-> IF Legs(doc.type) = 2 /\ k % 2 = 0 THEN Target(doc.type, l) ELSE Source(l),
           delta |-> IF Incoming(doc, k) THEN l.quantity ELSE -l.quantity]
    BY DEF Plan
  <2> HIDE DEF l
  <2>9. Plan(doc)[k] \in Movement
    BY <2>4, <2>5, <2>6, <2>7, <2>8 DEF Movement
  <2>10. ReversalPlan(doc)[k] = [dim |-> Plan(doc)[k].dim, delta |-> -Plan(doc)[k].delta]
    BY DEF ReversalPlan
  <2> QED
    BY <2>9, <2>10 DEF Movement
<1>3. DOMAIN Plan(doc) = 1..n /\ Plan(doc) = [k \in 1..n |-> Plan(doc)[k]]
  BY DEF Plan
<1>4. DOMAIN ReversalPlan(doc) = 1..n /\ ReversalPlan(doc) = [k \in 1..n |-> ReversalPlan(doc)[k]]
  BY DEF ReversalPlan
<1> HIDE DEF n
<1>5. Plan(doc) \in [1..n -> Movement]
  BY <1>2, <1>3
<1>6. ReversalPlan(doc) \in [1..n -> Movement]
  BY <1>2, <1>4
<1> QED
  BY <1>1, <1>5, <1>6, SeqDef

-----------------------------------------------------------------------------
(* What a posting takes from reservations.                                 *)

LEMMA OutOnType ==
  ASSUME NEW mvs \in Seq(Movement), NEW d
  PROVE  /\ OutOn(mvs, d) \in [1..Len(mvs) -> Nat]
         /\ DeltaOn(mvs, d) \in [1..Len(mvs) -> Int]
         /\ Len(mvs) \in Nat
         /\ Required(mvs, d) \in Int
<1>1. Len(mvs) \in Nat
  OBVIOUS
<1>2. \A k \in 1..Len(mvs) : mvs[k] \in Movement
  BY ElementOfSeq
<1>3. \A k \in 1..Len(mvs) : mvs[k].delta \in Int
  BY <1>2 DEF Movement
<1>4. OutOn(mvs, d) \in [1..Len(mvs) -> Nat]
  BY <1>3 DEF OutOn, AtLeastZero
<1>5. DeltaOn(mvs, d) \in [1..Len(mvs) -> Int]
  BY <1>3 DEF DeltaOn
<1>6. OutOn(mvs, d) \in [1..Len(mvs) -> Int]
  BY <1>4
<1>7. Required(mvs, d) \in Int
  BY <1>1, <1>6, SumType DEF Required
<1> QED
  BY <1>1, <1>4, <1>5, <1>7

LEMMA ReservationType ==
  ASSUME TypeOK, NEW i \in 1..Len(reservations)
  PROVE  /\ reservations[i] \in Reservation
         /\ reservations[i].dim \in Dim
         /\ Open(reservations[i]) \in Int
<1>1. reservations[i] \in Reservation
  BY ElementOfSeq DEF TypeOK
<1> QED
  BY <1>1 DEF Reservation, Open, Positive

\* Amounts a call may take: from each reservation no more than is open, and
\* nothing from one that is not active.
Takes(take) ==
  /\ take \in [1..Len(reservations) -> Nat]
  /\ \A i \in 1..Len(reservations) :
       /\ take[i] <= Open(reservations[i])
       /\ take[i] # 0 => reservations[i].status = "active"

\* Consumption is greedy but never takes more than is open, and only from the
\* document's own active reservations.
LEMMA TakenType ==
  ASSUME TypeOK, NothingOverdrawn, NEW b, NEW mvs \in Seq(Movement)
  PROVE  /\ Takes(Taken(b, mvs))
         /\ \A i \in 1..Len(reservations) :
              Taken(b, mvs)[i] # 0 => reservations[i].biz = b
<1> DEFINE n == Len(reservations)
<1>1. n \in Nat
  BY DEF TypeOK
<1>2. ASSUME NEW d PROVE Consumable(b, d) \in [1..n -> Nat]
  BY ReservationType DEF Consumable, NothingOverdrawn
<1>3. ASSUME NEW i \in 1..n
      PROVE  /\ Taken(b, mvs)[i] \in Nat
             /\ Taken(b, mvs)[i] <= Open(reservations[i])
             /\ Taken(b, mvs)[i] # 0 => /\ reservations[i].status = "active"
                                        /\ reservations[i].biz = b
  <2> DEFINE d == reservations[i].dim
             c == Consumable(b, d)
             rest == AtLeastZero(Required(mvs, d) - Prefix(c, n)[i - 1])
  <2>1. c \in [1..n -> Nat] /\ c \in [1..n -> Int]
    BY <1>2
  <2>2. c[i] = IF reservations[i].biz = b /\ reservations[i].status = "active"
               THEN Open(reservations[i]) ELSE 0
    BY DEF Consumable
  <2>3. Taken(b, mvs)[i] = Least(c[i], rest)
    BY DEF Taken
  <2>4. rest \in Nat
    <3>1. i - 1 \in 0..n
      BY <1>1
    <3> HIDE DEF c
    <3>2. Prefix(c, n)[i - 1] \in Int
      BY <1>1, <2>1, <3>1, PrefixDef
    <3> QED
      BY <3>2, OutOnType DEF AtLeastZero
  <2>5. c[i] \in Nat
    BY <2>1
  <2> HIDE DEF rest, c
  <2>6. Taken(b, mvs)[i] \in Nat /\ Taken(b, mvs)[i] <= c[i]
    BY <2>3, <2>4, <2>5 DEF Least
  <2>7. Open(reservations[i]) \in Int /\ Open(reservations[i]) >= 0
    BY ReservationType DEF NothingOverdrawn
  <2> QED
    BY <2>2, <2>5, <2>6, <2>7
<1>4. Taken(b, mvs) = [i \in 1..n |-> Taken(b, mvs)[i]]
  BY DEF Taken
<1> QED
  BY <1>3, <1>4 DEF Takes

LEMMA TakenOnType ==
  ASSUME TypeOK, NEW take, Takes(take), NEW d
  PROVE  /\ TakenOn(take, d) \in [1..Len(reservations) -> Nat]
         /\ ConsumedTotal(take, d) \in Nat
<1>1. Len(reservations) \in Nat
  BY DEF TypeOK
<1>2. TakenOn(take, d) \in [1..Len(reservations) -> Nat]
  BY DEF TakenOn, Takes
<1>3. Prefix(TakenOn(take, d), Len(reservations)) \in [0..Len(reservations) -> Nat]
  BY <1>1, <1>2, PrefixOfNaturals
<1> QED
  BY <1>1, <1>2, <1>3 DEF ConsumedTotal, Sum

LEMMA OpenOnType ==
  ASSUME TypeOK, NEW d
  PROVE  OpenOn(d) \in [1..Len(reservations) -> Int]
BY ReservationType DEF OpenOn

-----------------------------------------------------------------------------
(* Taking from reservations, by posting or by release.                     *)

\* If every reservation loses what was taken from it and the buckets lose the
\* totals, the buckets still equal what is open.
LEMMA ReservedFollows ==
  ASSUME TypeOK, reservations' \in Seq(Reservation), ReservedIsWhatReservationsHold,
         NEW take, Takes(take),
         reserved' = ReservedAfter(take),
         Len(reservations') = Len(reservations),
         \A i \in 1..Len(reservations) :
           /\ reservations'[i].dim = reservations[i].dim
           /\ Open(reservations'[i]) = Open(reservations[i]) - take[i]
  PROVE  ReservedIsWhatReservationsHold'
<1> DEFINE n == Len(reservations)
<1>1. n \in Nat
  BY DEF TypeOK
<1> SUFFICES ASSUME NEW d \in Dim
             PROVE  reserved'[d] = Sum(OpenOn(d)', n)
  BY DEF ReservedIsWhatReservationsHold
<1> DEFINE old == OpenOn(d)
           new == OpenOn(d)'
           usedUp == TakenOn(take, d)
<1>2. old \in [1..n -> Int]
  BY OpenOnType
<1>3. new \in [1..n -> Int]
  <2>1. \A i \in 1..n : reservations'[i] \in Reservation
    BY ElementOfSeq DEF TypeOK
  <2>2. \A i \in 1..n : Open(reservations'[i]) \in Int
    BY <2>1 DEF Reservation, Open, Positive
  <2> QED
    BY <2>2 DEF OpenOn
<1>4. usedUp \in [1..n -> Nat] /\ usedUp \in [1..n -> Int]
  BY TakenOnType
<1>5. \A i \in 1..n : old[i] = new[i] + usedUp[i]
  <2> SUFFICES ASSUME NEW i \in 1..n PROVE old[i] = new[i] + usedUp[i]
    OBVIOUS
  <2>1. old[i] = IF reservations[i].dim = d THEN Open(reservations[i]) ELSE 0
    BY DEF OpenOn
  <2>2. new[i] = IF reservations'[i].dim = d THEN Open(reservations'[i]) ELSE 0
    BY DEF OpenOn
  <2>3. usedUp[i] = IF reservations[i].dim = d THEN take[i] ELSE 0
    BY DEF TakenOn
  <2>4. Open(reservations[i]) \in Int /\ take[i] \in Int
    BY ReservationType DEF Takes
  <2> QED
    BY <2>1, <2>2, <2>3, <2>4
<1> HIDE DEF old, new, usedUp
<1>6. Sum(old, n) = Sum(new, n) + Sum(usedUp, n)
  BY <1>1, <1>2, <1>3, <1>4, <1>5, SumAdd
<1>7. Sum(old, n) \in Int /\ Sum(new, n) \in Int /\ Sum(usedUp, n) \in Int
  BY <1>1, <1>2, <1>3, <1>4, SumType
<1>8. reserved[d] = Sum(old, n)
  BY DEF ReservedIsWhatReservationsHold, old
<1>9. reserved'[d] = reserved[d] - Sum(usedUp, n)
  BY DEF ReservedAfter, ConsumedTotal, usedUp
<1>10. reserved'[d] = Sum(new, n)
  BY <1>6, <1>7, <1>8, <1>9
<1> QED
  BY <1>10 DEF new

\* One row of NothingOverdrawn and StatusTellsHowItEnded.
RowSound(r) ==
  /\ Open(r) >= 0
  /\ r.status = IF Open(r) > 0 THEN "active" ELSE IF r.consumed > 0 THEN "closed" ELSE "cancelled"

LEMMA RowsSound ==
  (\A i \in 1..Len(reservations) : RowSound(reservations[i]))
    <=> NothingOverdrawn /\ StatusTellsHowItEnded
BY DEF RowSound, NothingOverdrawn, StatusTellsHowItEnded

\* A row from which t is taken, by consumption or by release, is again a sound row
\* of the same owner and dimension with t less open.
TakenFrom(r, t, s) ==
  /\ s \in Reservation
  /\ s.dim = r.dim /\ s.biz = r.biz
  /\ Open(s) = Open(r) - t
  /\ RowSound(s)

LEMMA ConsumeOne ==
  ASSUME NEW r \in Reservation, NEW t \in Nat, t # 0, t <= Open(r), r.status = "active"
  PROVE  TakenFrom(r, t, Consume(r, t))
<1> DEFINE s == Consume(r, t)
<1>1. /\ r.quantity \in Nat /\ r.consumed \in Nat /\ r.released \in Nat
      /\ r.key \in RequestKey /\ r.biz \in Biz /\ r.dim \in Dim /\ r.quantity \in Positive
  BY DEF Reservation, Positive
<1>2. /\ s.quantity = r.quantity
      /\ s.consumed = r.consumed + t /\ s.released = r.released
      /\ s.dim = r.dim /\ s.biz = r.biz
      /\ s.status = IF Open(r) <= t THEN "closed" ELSE "active"
  BY DEF Consume, Reservation
<1>3. s \in Reservation
  <2>1. r.consumed + t \in Nat
    BY <1>1
  <2>2. s.status \in {"active", "closed", "cancelled"}
    BY <1>2
  <2> DEFINE w == [r EXCEPT !.consumed = r.consumed + t]
  <2>3. w \in Reservation
    BY <2>1 DEF Reservation
  <2>4. s = [w EXCEPT !.status = s.status]
    BY <1>2 DEF Consume, Reservation
  <2> HIDE DEF w, s
  <2> QED
    BY <2>2, <2>3, <2>4 DEF Reservation
<1> HIDE DEF s
<1>4. Open(s) = Open(r) - t /\ s.consumed > 0
  BY <1>1, <1>2 DEF Open
<1>5. RowSound(s)
  BY <1>1, <1>2, <1>4 DEF RowSound, Open
<1> QED
  BY <1>2, <1>3, <1>4, <1>5 DEF TakenFrom, s

LEMMA ReleaseOne ==
  ASSUME NEW r \in Reservation, NEW t \in Nat, t <= Open(r), RowSound(r), r.status = "active"
  PROVE  TakenFrom(r, t, Release(r, t))
<1> DEFINE s == Release(r, t)
<1>1. /\ r.quantity \in Nat /\ r.consumed \in Nat /\ r.released \in Nat
      /\ r.key \in RequestKey /\ r.biz \in Biz /\ r.dim \in Dim /\ r.quantity \in Positive
  BY DEF Reservation, Positive
<1>2. /\ s.quantity = r.quantity
      /\ s.consumed = r.consumed /\ s.released = r.released + t
      /\ s.dim = r.dim /\ s.biz = r.biz
      /\ s.status = IF Open(r) > t THEN r.status
                      ELSE IF r.consumed = 0 THEN "cancelled" ELSE "closed"
  BY DEF Release, Reservation
<1>3. s \in Reservation
  <2>1. r.released + t \in Nat
    BY <1>1
  <2>2. s.status \in {"active", "closed", "cancelled"}
    BY <1>2
  <2> DEFINE w == [r EXCEPT !.released = r.released + t]
  <2>3. w \in Reservation
    BY <2>1 DEF Reservation
  <2>4. s = [w EXCEPT !.status = s.status]
    BY <1>2 DEF Release, Reservation
  <2> HIDE DEF w, s
  <2> QED
    BY <2>2, <2>3, <2>4 DEF Reservation
<1> HIDE DEF s
<1>4. Open(s) = Open(r) - t
  BY <1>1, <1>2 DEF Open
<1>5. RowSound(s)
  BY <1>1, <1>2, <1>4 DEF RowSound, Open
<1> QED
  BY <1>2, <1>3, <1>4, <1>5 DEF TakenFrom, s

\* Posting and releasing keep the reservations sound and the buckets equal to them.
LEMMA TakingKeepsReservations ==
  ASSUME TypeOK, ReservationInv, NEW take, Takes(take),
         reserved' = ReservedAfter(take),
         NEW rows, reservations' = rows,
         DOMAIN rows = 1..Len(reservations),
         rows = [i \in DOMAIN rows |-> rows[i]],
         \A i \in 1..Len(reservations) : TakenFrom(reservations[i], take[i], rows[i])
  PROVE  reservations' \in Seq(Reservation) /\ ReservationInv'
<1>1. Len(reservations) \in Nat
  BY DEF TypeOK
<1>2. rows \in [1..Len(reservations) -> Reservation]
  BY DEF TakenFrom
<1>3. rows \in Seq(Reservation) /\ Len(rows) = Len(reservations)
  BY <1>1, <1>2, SeqDef
<1>4. \A i \in 1..Len(reservations') : RowSound(reservations'[i])
  BY <1>3 DEF TakenFrom
<1>5. (NothingOverdrawn /\ StatusTellsHowItEnded)'
  BY <1>4 DEF RowSound, NothingOverdrawn, StatusTellsHowItEnded
<1>6. ReservedIsWhatReservationsHold'
  <2>1. \A i \in 1..Len(reservations) :
           /\ reservations'[i].dim = reservations[i].dim
           /\ Open(reservations'[i]) = Open(reservations[i]) - take[i]
    BY DEF TakenFrom
  <2> QED
    BY <1>3, <2>1, ReservedFollows DEF ReservationInv
<1> QED
  BY <1>3, <1>5, <1>6 DEF ReservationInv

-----------------------------------------------------------------------------
(* The ledger.                                                             *)

LEMMA RowsType ==
  ASSUME TypeOK, NEW n \in Positive, NEW mvs \in Seq(Movement), NEW isReversal \in BOOLEAN
  PROVE  /\ Rows(n, mvs, isReversal) \in Seq(Row)
         /\ Len(Rows(n, mvs, isReversal)) = Len(mvs)
<1> DEFINE m == Len(mvs)
           rows == Rows(n, mvs, isReversal)
<1>1. m \in Nat
  OBVIOUS
<1>2. ASSUME NEW k \in 1..m PROVE rows[k] \in Row
  <2> DEFINE d == mvs[k].dim
             before == onHand[d] + Prefix(DeltaOn(mvs, d), m)[k - 1]
  <2>1. mvs[k] \in Movement
    BY ElementOfSeq
  <2>2. d \in Dim /\ mvs[k].delta \in Int
    BY <2>1 DEF Movement
  <2>3. before \in Int
    <3>1. onHand[d] \in Int
      BY <2>2 DEF TypeOK
    <3>2. Prefix(DeltaOn(mvs, d), m) \in [0..m -> Int]
      BY <1>1, OutOnType, PrefixDef
    <3>3. k - 1 \in 0..m
      BY <1>1
    <3> QED
      BY <3>1, <3>2, <3>3
  <2>4. rows[k] = [doc |-> n, reversal |-> isReversal, dim |-> d, delta |-> mvs[k].delta,
                   before |-> before, after |-> before + mvs[k].delta]
    BY DEF Rows
  <2> HIDE DEF d, before, rows
  <2> QED
    BY <2>2, <2>3, <2>4 DEF Row
<1>3. rows = [k \in 1..m |-> rows[k]]
  BY DEF Rows
<1> HIDE DEF rows
<1>4. rows \in [1..m -> Row]
  BY <1>2, <1>3
<1>5. rows \in Seq(Row) /\ Len(rows) = m
  BY <1>1, <1>4, SeqDef
<1> QED
  BY <1>5 DEF rows

LEMMA LedgerColumnType ==
  ASSUME NEW rows \in Seq(Row), NEW d
  PROVE  DeltaOn(rows, d) \in [1..Len(rows) -> Int]
<1>1. \A k \in 1..Len(rows) : rows[k] \in Row
  BY ElementOfSeq
<1>2. \A k \in 1..Len(rows) : rows[k].delta \in Int
  BY <1>1 DEF Row
<1> QED
  BY <1>2 DEF DeltaOn

\* Appending the rows of a posting or reversal keeps ledger and balances equal.
LEMMA WritingKeepsLedger ==
  ASSUME TypeOK, LedgerReplaysToBalance,
         NEW n \in Positive, NEW mvs \in Seq(Movement), NEW isReversal \in BOOLEAN,
         onHand' = OnHandAfter(mvs),
         ledger' = ledger \o Rows(n, mvs, isReversal)
  PROVE  ledger' \in Seq(Row) /\ LedgerReplaysToBalance'
<1> DEFINE l == Len(ledger)
           m == Len(mvs)
           rows == Rows(n, mvs, isReversal)
           all == ledger \o rows
<1>1. l \in Nat /\ m \in Nat
  BY DEF TypeOK
<1>2. rows \in Seq(Row) /\ Len(rows) = m
  BY RowsType
<1>3. ledger \in Seq(Row)
  BY DEF TypeOK
<1> HIDE DEF rows
<1>4. all \in Seq(Row) /\ Len(all) = l + m
  <2>1. all \in Seq(Row)
    BY <1>2, <1>3
  <2>2. Len(all) = Len(ledger) + Len(rows)
    BY <1>2, <1>3, ConcatProperties
  <2> QED
    BY <1>2, <2>1, <2>2
<1>5. \A k \in 1..l : all[k] = ledger[k]
  BY <1>1, <1>2, <1>3, ConcatProperties
<1>6. \A k \in 1..m : all[l + k] = rows[k]
  BY <1>1, <1>2, <1>3, ConcatProperties
<1>7. \A k \in 1..m : rows[k].dim = mvs[k].dim /\ rows[k].delta = mvs[k].delta
  BY DEF Rows, rows
<1>8. ledger' = all
  BY DEF rows
<1> HIDE DEF all
<1>9. ASSUME NEW d
      PROVE  /\ Sum(DeltaOn(all, d), l + m) = Sum(DeltaOn(ledger, d), l) + Sum(DeltaOn(mvs, d), m)
             /\ \A k \in 0..l : Prefix(DeltaOn(all, d), l + m)[k] = Prefix(DeltaOn(ledger, d), l)[k]
             /\ \A k \in 0..m : Prefix(DeltaOn(all, d), l + m)[l + k]
                                  = Sum(DeltaOn(ledger, d), l) + Prefix(DeltaOn(mvs, d), m)[k]
  <2> DEFINE f == DeltaOn(ledger, d)
             g == DeltaOn(mvs, d)
             h == DeltaOn(all, d)
  <2>1. f \in [1..l -> Int] /\ g \in [1..m -> Int] /\ h \in [1..(l + m) -> Int]
    BY <1>3, <1>4, LedgerColumnType, OutOnType
  <2>2. \A k \in 1..l : h[k] = f[k]
    <3>1. \A k \in 1..l : k \in 1..(l + m)
      BY <1>1
    <3> QED
      BY <3>1, <1>4, <1>5 DEF DeltaOn
  <2>3. \A k \in 1..m : h[l + k] = g[k]
    <3>1. \A k \in 1..m : l + k \in 1..(l + m)
      BY <1>1
    <3>2. \A k \in 1..m : h[l + k] = IF all[l + k].dim = d THEN all[l + k].delta ELSE 0
      BY <3>1, <1>4 DEF DeltaOn
    <3> QED
      BY <3>2, <1>6, <1>7 DEF DeltaOn
  <2> HIDE DEF f, g, h, l, m
  <2>4. Sum(h, l + m) = Sum(f, l) + Sum(g, m)
    BY <1>1, <2>1, <2>2, <2>3, SumConcat
  <2>5. /\ \A k \in 0..l : Prefix(h, l + m)[k] = Prefix(f, l)[k]
        /\ \A k \in 0..m : Prefix(h, l + m)[l + k] = Sum(f, l) + Prefix(g, m)[k]
    BY <1>1, <2>1, <2>2, <2>3, PrefixConcat
  <2> QED
    BY <2>4, <2>5 DEF f, g, h
<1>10. \A d \in Dim : onHand'[d] = Sum(DeltaOn(ledger', d), Len(ledger'))
  <2> SUFFICES ASSUME NEW d \in Dim PROVE onHand'[d] = Sum(DeltaOn(all, d), l + m)
    BY <1>4, <1>8
  <2>1. onHand'[d] = onHand[d] + Sum(DeltaOn(mvs, d), m)
    BY DEF OnHandAfter
  <2>2. onHand[d] = Sum(DeltaOn(ledger, d), l)
    BY DEF LedgerReplaysToBalance
  <2> QED
    BY <2>1, <2>2, <1>9
<1>11. ASSUME NEW k \in 1..(l + m)
       PROVE  /\ all[k].before = Prefix(DeltaOn(all, all[k].dim), l + m)[k - 1]
              /\ all[k].after = Prefix(DeltaOn(all, all[k].dim), l + m)[k]
  <2> DEFINE d == all[k].dim
  <2>1. CASE k \in 1..l
    <3>1. all[k] = ledger[k] /\ k - 1 \in 0..l /\ k \in 0..l
      BY <2>1, <1>1, <1>5
    <3>2. /\ ledger[k].before = Prefix(DeltaOn(ledger, d), l)[k - 1]
          /\ ledger[k].after = Prefix(DeltaOn(ledger, d), l)[k]
      BY <2>1, <3>1 DEF LedgerReplaysToBalance
    <3> HIDE DEF d
    <3>3. /\ Prefix(DeltaOn(all, d), l + m)[k - 1] = Prefix(DeltaOn(ledger, d), l)[k - 1]
          /\ Prefix(DeltaOn(all, d), l + m)[k] = Prefix(DeltaOn(ledger, d), l)[k]
      BY <3>1, <1>9
    <3> QED
      BY <3>1, <3>2, <3>3 DEF d
  <2>2. CASE k \notin 1..l
    <3> DEFINE j == k - l
               g == DeltaOn(mvs, d)
    <3>1. j \in 1..m /\ l + j = k /\ j - 1 \in 0..m /\ l + (j - 1) = k - 1 /\ j \in 0..m
      BY <2>2, <1>1
    <3> HIDE DEF j
    <3>2. all[k] = rows[j]
      BY <3>1, <1>6
    <3>3. d = mvs[j].dim /\ d \in Dim
      <4>1. mvs[j] \in Movement
        BY <3>1, ElementOfSeq
      <4> QED
        BY <3>1, <3>2, <4>1, <1>7 DEF Movement
    <3>4. /\ rows[j].before = onHand[d] + Prefix(g, m)[j - 1]
          /\ rows[j].after = onHand[d] + Prefix(g, m)[j - 1] + mvs[j].delta
      BY <3>1, <3>3 DEF Rows, rows
    <3>5. g \in [1..m -> Int] /\ g[j] = mvs[j].delta
      BY <3>1, <3>3, OutOnType DEF DeltaOn
    <3> HIDE DEF d, g
    <3>6. /\ Prefix(g, m)[j] = Prefix(g, m)[j - 1] + g[j]
          /\ Prefix(g, m) \in [0..m -> Int]
      BY <3>1, <3>5, <1>1, PrefixDef
    <3>7. onHand[d] = Sum(DeltaOn(ledger, d), l) /\ onHand[d] \in Int
      BY <3>3 DEF LedgerReplaysToBalance, TypeOK
    <3>8. /\ Prefix(DeltaOn(all, d), l + m)[l + (j - 1)] = Sum(DeltaOn(ledger, d), l) + Prefix(g, m)[j - 1]
          /\ Prefix(DeltaOn(all, d), l + m)[l + j] = Sum(DeltaOn(ledger, d), l) + Prefix(g, m)[j]
      BY <3>1, <1>9 DEF g
    <3>9. Prefix(g, m)[j - 1] \in Int /\ g[j] \in Int
      BY <3>1, <3>5, <3>6
    <3>10. /\ all[k].before = Prefix(DeltaOn(all, d), l + m)[k - 1]
           /\ all[k].after = Prefix(DeltaOn(all, d), l + m)[k]
      BY <3>1, <3>2, <3>4, <3>5, <3>6, <3>7, <3>8, <3>9, SMTT(40)
    <3> QED
      BY <3>10 DEF d
  <2> QED
    BY <2>1, <2>2
<1>12. \A k \in 1..Len(ledger') :
         /\ ledger'[k].before = Prefix(DeltaOn(ledger', ledger'[k].dim), Len(ledger'))[k - 1]
         /\ ledger'[k].after = Prefix(DeltaOn(ledger', ledger'[k].dim), Len(ledger'))[k]
  BY <1>4, <1>8, <1>11
<1> QED
  BY <1>4, <1>8, <1>10, <1>12 DEF LedgerReplaysToBalance

-----------------------------------------------------------------------------
(* The steps.                                                              *)

\* Everything but the documents.
TablesInv ==
  /\ onHand \in [Dim -> Nat] /\ reserved \in [Dim -> Nat]
  /\ ledger \in Seq(Row) /\ reservations \in Seq(Reservation)
  /\ BucketsWithinOnHand /\ ReservationInv /\ LedgerReplaysToBalance

DocumentsInv == docs \in Seq(Document) /\ PostedDocumentsValid

LEMMA InvParts == Inv <=> TablesInv /\ DocumentsInv
BY DEF Inv, TablesInv, DocumentsInv, TypeOK

LEMMA WriteKeepsTables ==
  ASSUME Inv, NEW n \in Positive, NEW mvs \in Seq(Movement), NEW isReversal \in BOOLEAN,
         NEW take, Takes(take),
         BucketsStorable(OnHandAfter(mvs), ReservedAfter(take)),
         WriteMovements(n, mvs, take, isReversal)
  PROVE  TablesInv'
<1>0. TypeOK /\ ReservationInv /\ LedgerReplaysToBalance
  BY DEF Inv
<1>1. ledger' \in Seq(Row) /\ LedgerReplaysToBalance'
  BY <1>0, WritingKeepsLedger DEF WriteMovements
<1>2. ASSUME NEW d \in Dim
      PROVE  onHand'[d] \in Nat /\ reserved'[d] \in Nat /\ reserved'[d] <= onHand'[d]
  <2>1. Sum(DeltaOn(mvs, d), Len(mvs)) \in Int
    BY OutOnType, SumType
  <2>2. ConsumedTotal(take, d) \in Int
    BY <1>0, TakenOnType
  <2>3. onHand[d] \in Int /\ reserved[d] \in Int
    BY <1>0 DEF TypeOK
  <2>4. OnHandAfter(mvs)[d] \in Int /\ ReservedAfter(take)[d] \in Int
    BY <2>1, <2>2, <2>3 DEF OnHandAfter, ReservedAfter
  <2>5. onHand' = OnHandAfter(mvs) /\ reserved' = ReservedAfter(take)
    BY DEF WriteMovements
  <2> QED
    BY <2>4, <2>5 DEF BucketsStorable
<1>3. onHand' = [d \in Dim |-> onHand'[d]] /\ reserved' = [d \in Dim |-> reserved'[d]]
  BY DEF WriteMovements, OnHandAfter, ReservedAfter
<1>4. onHand' \in [Dim -> Nat] /\ reserved' \in [Dim -> Nat]
  BY <1>2, <1>3
<1>5. BucketsWithinOnHand'
  BY <1>2 DEF BucketsWithinOnHand
<1>6. reservations' \in Seq(Reservation) /\ ReservationInv'
  <2> DEFINE rows == [i \in 1..Len(reservations) |->
        IF take[i] = 0 THEN reservations[i] ELSE Consume(reservations[i], take[i])]
  <2>1. ASSUME NEW i \in 1..Len(reservations)
        PROVE  TakenFrom(reservations[i], take[i], rows[i])
    <3>1. reservations[i] \in Reservation /\ Open(reservations[i]) \in Int
      BY <1>0, ReservationType
    <3>2. RowSound(reservations[i])
      BY <1>0, RowsSound DEF ReservationInv
    <3>3. CASE take[i] = 0
      BY <3>1, <3>2, <3>3 DEF TakenFrom
    <3>4. CASE take[i] # 0
      <4>1. TakenFrom(reservations[i], take[i], Consume(reservations[i], take[i]))
        BY <3>1, <3>4, ConsumeOne DEF Takes
      <4> QED
        BY <3>4, <4>1
    <3> QED
      BY <3>3, <3>4
  <2>2. reservations' = rows /\ reserved' = ReservedAfter(take)
    BY DEF WriteMovements
  <2>3. DOMAIN rows = 1..Len(reservations) /\ rows = [i \in DOMAIN rows |-> rows[i]]
    OBVIOUS
  <2> HIDE DEF rows
  <2> QED
    BY <1>0, <2>1, <2>2, <2>3, TakingKeepsReservations
<1> QED
  BY <1>1, <1>4, <1>5, <1>6 DEF TablesInv

LEMMA NothingTaken ==
  ASSUME Inv
  PROVE  Takes(Nothing)
BY DEF Takes, Nothing, Inv, ReservationInv, NothingOverdrawn

LEMMA DocumentAt ==
  ASSUME Inv, NEW n \in 1..Len(docs)
  PROVE  /\ docs[n] \in Document /\ docs[n].type \in DocumentType /\ docs[n].lines \in Seq(Line)
         /\ n \in Positive
<1>1. docs[n] \in Document
  BY ElementOfSeq DEF Inv, TypeOK
<1>2. docs[n].lines \in Seq(Line) \ {<<>>} /\ docs[n].type \in DocumentType
  BY <1>1 DEF Document
<1> QED
  BY <1>1, <1>2 DEF Positive

\* Replacing one document by one of the same type, valid if it is posted.
LEMMA ReplacingKeepsDocuments ==
  ASSUME NEW all \in Seq(Document), NEW n \in 1..Len(all), NEW doc \in Document,
         \A e \in 1..Len(all) : all[e].status # "draft" => PlanValid(all[e]),
         doc.status # "draft" => PlanValid(doc),
         docs' = [all EXCEPT ![n] = doc]
  PROVE  DocumentsInv'
<1>1. docs' \in Seq(Document) /\ Len(docs') = Len(all)
  OBVIOUS
<1>2. \A e \in 1..Len(all) : docs'[e] = IF e = n THEN doc ELSE all[e]
  OBVIOUS
<1>3. \A e \in 1..Len(docs') : docs'[e].status # "draft" => PlanValid(docs'[e])
  BY <1>1, <1>2
<1> QED
  BY <1>1, <1>3 DEF DocumentsInv, PostedDocumentsValid

LEMMA NewDocumentsType ==
  ASSUME Inv, NEW draft \in Draft
  PROVE  /\ Append(docs, NewDocument(draft)) \in Seq(Document)
         /\ Len(Append(docs, NewDocument(draft))) = Len(docs) + 1
         /\ \A e \in 1..(Len(docs) + 1) :
              Append(docs, NewDocument(draft))[e].status # "draft"
                => PlanValid(Append(docs, NewDocument(draft))[e])
<1>1. docs \in Seq(Document) /\ PostedDocumentsValid
  BY DEF Inv, TypeOK
<1>2. NewDocument(draft) \in Document /\ NewDocument(draft).status = "draft"
  BY DEF NewDocument, Document, Draft, Key
<1> DEFINE doc == NewDocument(draft)
<1> HIDE DEF doc
<1>3. Append(docs, doc) \in Seq(Document) /\ Len(Append(docs, doc)) = Len(docs) + 1
  BY <1>1, <1>2, AppendProperties DEF doc
<1>4. ASSUME NEW e \in 1..(Len(docs) + 1), Append(docs, doc)[e].status # "draft"
      PROVE  PlanValid(Append(docs, doc)[e])
  <2>1. CASE e \in 1..Len(docs)
    <3>1. Append(docs, doc)[e] = docs[e]
      BY <1>1, <1>2, <2>1, AppendProperties DEF doc
    <3> QED
      BY <1>1, <1>4, <2>1, <3>1 DEF PostedDocumentsValid
  <2>2. CASE e = Len(docs) + 1
    BY <1>1, <1>2, <1>4, <2>2, AppendProperties DEF doc
  <2> QED
    BY <1>1, <2>1, <2>2
<1> QED
  BY <1>3, <1>4 DEF doc

LEMMA PostKeepsInv ==
  ASSUME Inv, NEW all \in Seq(Document), NEW n \in 1..Len(all), NEW key \in Key, NEW full,
         \A e \in 1..Len(all) : all[e].status # "draft" => PlanValid(all[e]),
         PostAdmitted(all, n, key, full),
         Post(all, n, key)
  PROVE  Inv'
<1> DEFINE doc == all[n]
           mvs == Plan(doc)
           take == Taken(doc.biz, mvs)
           posted == [doc EXCEPT !.status = "posted", !.key = key]
<1>1. doc \in Document /\ doc.type \in DocumentType /\ doc.lines \in Seq(Line) /\ n \in Positive
  <2>1. doc \in Document
    BY ElementOfSeq
  <2>2. doc.lines \in Seq(Line) \ {<<>>} /\ doc.type \in DocumentType
    BY <2>1 DEF Document
  <2> QED
    BY <2>1, <2>2 DEF Positive
<1>2. PlanValid(doc) /\ BucketsStorable(OnHandAfter(mvs), ReservedAfter(take))
  BY DEF PostAdmitted
<1>3. mvs \in Seq(Movement)
  BY <1>1, <1>2, PlanType
<1>4. Takes(take)
  BY <1>3, TakenType DEF Inv, ReservationInv
<1>5. TablesInv'
  BY <1>1, <1>2, <1>3, <1>4, WriteKeepsTables DEF Post
<1>6. posted \in Document /\ posted.type = doc.type /\ posted.lines = doc.lines
  BY <1>1 DEF Document
<1>7. PlanValid(posted)
  BY <1>2, <1>6 DEF PlanValid
<1>8. docs' = [all EXCEPT ![n] = posted]
  BY DEF Post
<1> HIDE DEF posted
<1>9. DocumentsInv'
  BY <1>6, <1>7, <1>8, ReplacingKeepsDocuments
<1> QED
  BY <1>5, <1>9 DEF Inv, TablesInv, DocumentsInv, TypeOK

LEMMA TablesUnchanged ==
  ASSUME Inv, UNCHANGED <<onHand, reserved, ledger, reservations>>
  PROVE  TablesInv'
BY DEF Inv, TablesInv, TypeOK, BucketsWithinOnHand, ReservationInv,
   ReservedIsWhatReservationsHold, NothingOverdrawn, StatusTellsHowItEnded, OpenOn,
   LedgerReplaysToBalance

LEMMA CreateKeepsInv ==
  ASSUME Inv, NEW draft \in DraftInput, CreateDocument(draft)
  PROVE  Inv'
<1>1. draft \in Draft
  BY InputsTyped
<1>2. DocumentsInv'
  BY <1>1, NewDocumentsType DEF CreateDocument, DocumentsInv, PostedDocumentsValid
<1>3. TablesInv'
  BY TablesUnchanged DEF CreateDocument
<1> QED
  BY <1>2, <1>3 DEF Inv, TablesInv, DocumentsInv, TypeOK

LEMMA UpdateKeepsInv ==
  ASSUME Inv, NEW n \in 1..Len(docs), NEW draft \in DraftInput,
         UpdateDraftDocument(n, draft.lines)
  PROVE  Inv'
<1> DEFINE edited == [docs[n] EXCEPT !.lines = draft.lines]
<1>1. draft.lines \in Seq(Line) \ {<<>>}
  <2>1. draft \in Draft
    BY InputsTyped
  <2> QED
    BY <2>1 DEF Draft
<1>2. docs[n] \in Document
  BY DocumentAt
<1>3. edited \in Document /\ edited.status = "draft"
  BY <1>1, <1>2 DEF Document, UpdateDraftDocument
<1>4. docs' = [docs EXCEPT ![n] = edited]
  BY DEF UpdateDraftDocument
<1> HIDE DEF edited
<1>5. DocumentsInv'
  BY <1>3, <1>4, ReplacingKeepsDocuments DEF Inv, TypeOK, PostedDocumentsValid
<1>6. TablesInv'
  BY TablesUnchanged DEF UpdateDraftDocument
<1> QED
  BY <1>5, <1>6 DEF Inv, TablesInv, DocumentsInv, TypeOK

LEMMA PostDocumentKeepsInv ==
  ASSUME Inv, NEW n \in 1..Len(docs), NEW key \in Key, NEW full, PostDocument(n, key, full)
  PROVE  Inv'
BY PostKeepsInv DEF PostDocument, Inv, TypeOK, PostedDocumentsValid

LEMMA ReleaseQualityKeepsInv ==
  ASSUME Inv, NEW draft \in DraftInput, NEW key \in Key, ReleaseQuality(draft, key)
  PROVE  Inv'
<1> DEFINE all == Append(docs, NewDocument(draft))
           n == Len(docs) + 1
<1>1. draft \in Draft
  BY InputsTyped
<1>2. /\ all \in Seq(Document) /\ Len(all) = n
      /\ \A e \in 1..n : all[e].status # "draft" => PlanValid(all[e])
  BY <1>1, NewDocumentsType
<1>3. n \in 1..Len(all)
  BY <1>2 DEF Inv, TypeOK
<1>4. CASE PostAdmitted(all, n, key, FALSE) /\ Post(all, n, key)
  <2> HIDE DEF all, n
  <2> QED
    BY <1>2, <1>3, <1>4, PostKeepsInv
<1>5. CASE docs' = all /\ UNCHANGED <<onHand, reserved, ledger, reservations>>
  <2>1. TablesInv'
    BY <1>5, TablesUnchanged
  <2> HIDE DEF all
  <2>2. DocumentsInv'
    BY <1>2, <1>5 DEF DocumentsInv, PostedDocumentsValid
  <2> QED
    BY <2>1, <2>2 DEF Inv, TablesInv, DocumentsInv, TypeOK
<1> QED
  BY <1>4, <1>5 DEF ReleaseQuality

LEMMA ReverseKeepsInv ==
  ASSUME Inv, NEW n \in 1..Len(docs), ReverseDocument(n)
  PROVE  Inv'
<1> DEFINE doc == docs[n]
           mvs == ReversalPlan(doc)
           undone == [doc EXCEPT !.status = "reversed"]
<1>1. /\ doc \in Document /\ doc.type \in DocumentType /\ doc.lines \in Seq(Line)
      /\ n \in Positive
  BY DocumentAt
<1>2. PlanValid(doc) /\ BucketsStorable(OnHandAfter(mvs), ReservedAfter(Nothing))
  BY DEF ReverseDocument, Inv, PostedDocumentsValid
<1>3. mvs \in Seq(Movement)
  BY <1>1, <1>2, PlanType
<1>4. Takes(Nothing)
  BY NothingTaken
<1>5. TablesInv'
  BY <1>1, <1>2, <1>3, <1>4, WriteKeepsTables DEF ReverseDocument
<1>6. undone \in Document /\ undone.type = doc.type /\ undone.lines = doc.lines
  BY <1>1 DEF Document
<1>7. PlanValid(undone)
  BY <1>2, <1>6 DEF PlanValid
<1>8. docs' = [docs EXCEPT ![n] = undone]
  BY DEF ReverseDocument
<1> HIDE DEF undone
<1>9. DocumentsInv'
  BY <1>6, <1>7, <1>8, ReplacingKeepsDocuments DEF Inv, TypeOK, PostedDocumentsValid
<1> QED
  BY <1>5, <1>9 DEF Inv, TablesInv, DocumentsInv, TypeOK

LEMMA DocumentsUnchanged ==
  ASSUME Inv, UNCHANGED docs
  PROVE  DocumentsInv'
BY DEF Inv, TypeOK, DocumentsInv, PostedDocumentsValid

\* Taking by release: the ledger and the stock stay, the buckets shrink.
LEMMA GivingBackKeepsInv ==
  ASSUME Inv, NEW give, Takes(give),
         \A d \in Dim : ConsumedTotal(give, d) <= reserved[d],
         reserved' = ReservedAfter(give),
         reservations' = [i \in 1..Len(reservations) |->
           IF give[i] = 0 THEN reservations[i] ELSE Release(reservations[i], give[i])],
         UNCHANGED <<docs, onHand, ledger>>
  PROVE  Inv'
<1>0. TypeOK /\ ReservationInv
  BY DEF Inv
<1>1. ASSUME NEW d \in Dim PROVE reserved'[d] \in Nat /\ reserved'[d] <= onHand[d]
  <2>1. ConsumedTotal(give, d) \in Nat
    BY <1>0, TakenOnType
  <2>2. reserved[d] \in Nat /\ onHand[d] \in Nat /\ reserved[d] <= onHand[d]
    BY DEF Inv, TypeOK, BucketsWithinOnHand
  <2>3. reserved'[d] = reserved[d] - ConsumedTotal(give, d)
    BY DEF ReservedAfter
  <2> QED
    BY <2>1, <2>2, <2>3
<1>2. reserved' \in [Dim -> Nat]
  BY <1>1 DEF ReservedAfter
<1>3. reservations' \in Seq(Reservation) /\ ReservationInv'
  <2> DEFINE rows == [i \in 1..Len(reservations) |->
        IF give[i] = 0 THEN reservations[i] ELSE Release(reservations[i], give[i])]
  <2>1. ASSUME NEW i \in 1..Len(reservations)
        PROVE  TakenFrom(reservations[i], give[i], rows[i])
    <3>1. reservations[i] \in Reservation /\ Open(reservations[i]) \in Int
      BY <1>0, ReservationType
    <3>2. RowSound(reservations[i])
      BY <1>0, RowsSound DEF ReservationInv
    <3>3. CASE give[i] = 0
      BY <3>1, <3>2, <3>3 DEF TakenFrom
    <3>4. CASE give[i] # 0
      <4>1. TakenFrom(reservations[i], give[i], Release(reservations[i], give[i]))
        BY <3>1, <3>2, <3>4, ReleaseOne DEF Takes
      <4> QED
        BY <3>4, <4>1
    <3> QED
      BY <3>3, <3>4
  <2>2. DOMAIN rows = 1..Len(reservations) /\ rows = [i \in DOMAIN rows |-> rows[i]]
    OBVIOUS
  <2>3. reservations' = rows
    OBVIOUS
  <2> HIDE DEF rows
  <2> QED
    BY <1>0, <2>1, <2>2, <2>3, TakingKeepsReservations
<1>4. BucketsWithinOnHand'
  BY <1>1 DEF BucketsWithinOnHand
<1>5. LedgerReplaysToBalance'
  BY DEF Inv, LedgerReplaysToBalance
<1>6. TablesInv'
  BY <1>0, <1>2, <1>3, <1>4, <1>5 DEF TablesInv, TypeOK
<1>7. DocumentsInv'
  BY DocumentsUnchanged
<1> QED
  BY <1>6, <1>7 DEF Inv, TablesInv, DocumentsInv, TypeOK

\* Releasing one reservation gives back from that row alone.
LEMMA ReleaseReservationGivesBack ==
  ASSUME Inv, NEW i \in 1..Len(reservations),
         NEW amount \in Amount \union {Open(reservations[i])},
         ReleaseReservation(i, amount)
  PROVE  \E give :
           /\ Takes(give)
           /\ \A j \in 1..Len(reservations) : give[j] # 0 => j = i
           /\ \A d \in Dim : ConsumedTotal(give, d) <= reserved[d]
           /\ reserved' = ReservedAfter(give)
           /\ reservations' = [j \in 1..Len(reservations) |->
                IF give[j] = 0 THEN reservations[j] ELSE Release(reservations[j], give[j])]
<1> DEFINE n == Len(reservations)
           r == reservations[i]
           give == [j \in 1..n |-> IF j = i THEN amount ELSE 0]
<1>0. TypeOK /\ n \in Nat /\ r \in Reservation /\ r.dim \in Dim /\ Open(r) \in Int
  BY ReservationType DEF Inv, TypeOK
<1>1. amount \in Nat /\ amount # 0 /\ r.status = "active"
  BY <1>0, InputsTyped DEF ReleaseReservation, IsOpen, Positive
<1>2. Takes(give)
  BY <1>1 DEF Takes, Inv, ReservationInv, NothingOverdrawn, ReleaseReservation
<1>3. ASSUME NEW d \in Dim
      PROVE  ConsumedTotal(give, d) = IF d = r.dim THEN amount ELSE 0
  <2> DEFINE f == TakenOn(give, d)
  <2>1. f \in [1..n -> Int]
    BY <1>0, <1>2, TakenOnType
  <2>2. \A k \in 1..n : k # i => f[k] = 0
    BY DEF TakenOn
  <2>3. f[i] = IF d = r.dim THEN amount ELSE 0
    BY DEF TakenOn
  <2> HIDE DEF f
  <2>4. Sum(f, n) = f[i]
    BY <1>0, <2>1, <2>2, SumPoint
  <2> QED
    BY <2>3, <2>4 DEF ConsumedTotal, f
<1>4. \A d \in Dim : ConsumedTotal(give, d) <= reserved[d]
  <2>1. amount <= reserved[r.dim]
    BY DEF ReleaseReservation
  <2>2. \A d \in Dim : reserved[d] \in Nat
    BY <1>0 DEF TypeOK
  <2> HIDE DEF give, r
  <2> QED
    BY <1>3, <2>1, <2>2
<1>5. reserved' = ReservedAfter(give)
  <2>1. reserved' = [reserved EXCEPT ![r.dim] = @ - amount]
    BY DEF ReleaseReservation
  <2>2. reserved \in [Dim -> Nat]
    BY <1>0 DEF TypeOK
  <2> HIDE DEF give, r
  <2>3. reserved' = [d \in Dim |-> IF d = r.dim THEN reserved[d] - amount ELSE reserved[d]]
    BY <2>1, <2>2
  <2>4. ReservedAfter(give) = [d \in Dim |-> reserved[d] - ConsumedTotal(give, d)]
    BY DEF ReservedAfter
  <2>5. \A d \in Dim : (IF d = r.dim THEN reserved[d] - amount ELSE reserved[d])
                         = reserved[d] - ConsumedTotal(give, d)
    BY <1>1, <1>3, <2>2
  <2> QED
    BY <2>3, <2>4, <2>5
<1>6. reservations' = [j \in 1..n |->
         IF give[j] = 0 THEN reservations[j] ELSE Release(reservations[j], give[j])]
  <2>1. reservations' = [reservations EXCEPT ![i] = Release(r, amount)]
    BY DEF ReleaseReservation
  <2>2. reservations = [j \in 1..n |-> reservations[j]]
    BY <1>0 DEF TypeOK
  <2>3. reservations' = [j \in 1..n |-> IF j = i THEN Release(r, amount) ELSE reservations[j]]
    BY <2>1, <2>2
  <2> QED
    BY <1>1, <2>3
<1>7. \A j \in 1..n : give[j] # 0 => j = i
  OBVIOUS
<1> HIDE DEF give
<1> QED
  BY <1>2, <1>4, <1>5, <1>6, <1>7

LEMMA ReleaseReservationKeepsInv ==
  ASSUME Inv, NEW i \in 1..Len(reservations),
         NEW amount \in Amount \union {Open(reservations[i])},
         ReleaseReservation(i, amount)
  PROVE  Inv'
<1>1. UNCHANGED <<docs, onHand, ledger>>
  BY DEF ReleaseReservation
<1> QED
  BY <1>1, ReleaseReservationGivesBack, GivingBackKeepsInv

LEMMA ReleaseForBizKeepsInv ==
  ASSUME Inv, NEW b, ReleaseReservationsForBiz(b)
  PROVE  Inv'
<1> DEFINE give == [i \in 1..Len(reservations) |->
             IF reservations[i].biz = b /\ IsOpen(reservations[i])
             THEN Open(reservations[i]) ELSE 0]
<1>1. Takes(give)
  BY ReservationType DEF Takes, IsOpen, Inv, ReservationInv, NothingOverdrawn
<1>2. /\ \A d \in Dim : ConsumedTotal(give, d) <= reserved[d]
      /\ reserved' = ReservedAfter(give)
      /\ reservations' = [i \in 1..Len(reservations) |->
           IF give[i] = 0 THEN reservations[i] ELSE Release(reservations[i], give[i])]
      /\ UNCHANGED <<docs, onHand, ledger>>
  BY DEF ReleaseReservationsForBiz
<1> HIDE DEF give
<1> QED
  BY <1>1, <1>2, GivingBackKeepsInv

LEMMA ReserveKeepsInv ==
  ASSUME Inv, NEW key \in RequestKey, NEW b \in Biz, NEW d \in Dim, NEW amount \in Amount,
         ReserveStock(key, b, d, amount)
  PROVE  Inv'
<1> DEFINE n == Len(reservations)
           row == [key |-> key, biz |-> b, dim |-> d, quantity |-> amount,
                   consumed |-> 0, released |-> 0, status |-> "active"]
<1>0. TypeOK /\ n \in Nat /\ reservations \in Seq(Reservation) /\ amount \in Positive
  BY InputsTyped DEF Inv, TypeOK
<1>1. row \in Reservation /\ row.dim = d /\ Open(row) = amount /\ RowSound(row)
  BY <1>0 DEF Reservation, Open, RowSound, Positive
<1>2. reservations' = Append(reservations, row)
  BY DEF ReserveStock
<1> HIDE DEF row
<1>3. /\ reservations' \in Seq(Reservation) /\ Len(reservations') = n + 1
      /\ \A i \in 1..n : reservations'[i] = reservations[i]
      /\ reservations'[n + 1] = row
  BY <1>0, <1>1, <1>2, AppendProperties
<1>4. \A i \in 1..(n + 1) : RowSound(reservations'[i])
  <2>1. \A i \in 1..n : RowSound(reservations[i])
    BY RowsSound DEF Inv, ReservationInv
  <2>2. \A i \in 1..(n + 1) : i \in 1..n \/ i = n + 1
    BY <1>0
  <2> QED
    BY <1>1, <1>3, <2>1, <2>2
<1>5. NothingOverdrawn' /\ StatusTellsHowItEnded'
  BY <1>3, <1>4 DEF RowSound, NothingOverdrawn, StatusTellsHowItEnded
<1>6. \A e \in Dim : reserved'[e] = reserved[e] + (IF e = d THEN amount ELSE 0)
  BY <1>0 DEF ReserveStock, TypeOK, Positive
<1>7. ReservedIsWhatReservationsHold'
  <2> SUFFICES ASSUME NEW e \in Dim PROVE reserved'[e] = Sum(OpenOn(e)', n + 1)
    BY <1>3 DEF ReservedIsWhatReservationsHold
  <2> DEFINE f == OpenOn(e)
             h == OpenOn(e)'
  <2>1. f \in [1..n -> Int]
    BY <1>0, OpenOnType
  <2>2. h = [i \in 1..(n + 1) |->
               IF reservations'[i].dim = e THEN Open(reservations'[i]) ELSE 0]
    BY <1>3 DEF OpenOn
  <2>3. \A i \in 1..n : h[i] = f[i]
    <3>1. \A i \in 1..n : i \in 1..(n + 1)
      BY <1>0
    <3> QED
      BY <1>3, <2>2, <3>1 DEF OpenOn
  <2>4. h[n + 1] = IF d = e THEN amount ELSE 0
    <3>1. n + 1 \in 1..(n + 1)
      BY <1>0
    <3> QED
      BY <1>1, <1>3, <2>2, <3>1
  <2>5. h \in [1..(n + 1) -> Int]
    <3>1. \A i \in 1..(n + 1) : reservations'[i] \in Reservation
      BY <1>3, ElementOfSeq
    <3>2. \A i \in 1..(n + 1) : Open(reservations'[i]) \in Int
      BY <3>1 DEF Reservation, Open, Positive
    <3> QED
      BY <2>2, <3>2
  <2> HIDE DEF f, h
  <2>6. Sum(h, n + 1) = Sum(f, n) + h[n + 1]
    BY <1>0, <2>1, <2>3, <2>5, SumAppend
  <2>7. reserved[e] = Sum(f, n)
    BY DEF f, Inv, ReservationInv, ReservedIsWhatReservationsHold
  <2>8. reserved'[e] = Sum(h, n + 1)
    BY <1>6, <2>4, <2>6, <2>7
  <2> QED
    BY <2>8 DEF h
<1>8. reserved' \in [Dim -> Nat] /\ BucketsWithinOnHand'
  <2>1. \A e \in Dim : reserved'[e] \in Nat /\ reserved'[e] <= onHand[e]
    BY <1>0, <1>6 DEF ReserveStock, Available, Inv, TypeOK, BucketsWithinOnHand, Positive
  <2> QED
    BY <2>1, <1>0 DEF ReserveStock, BucketsWithinOnHand, TypeOK
<1>9. UNCHANGED <<docs, onHand, ledger>>
  BY DEF ReserveStock
<1>10. TablesInv'
  BY <1>0, <1>3, <1>5, <1>7, <1>8, <1>9
     DEF TablesInv, ReservationInv, TypeOK, Inv, LedgerReplaysToBalance
<1>11. DocumentsInv'
  BY <1>9, DocumentsUnchanged
<1> QED
  BY <1>10, <1>11 DEF Inv, TablesInv, DocumentsInv, TypeOK

LEMMA InitInv == Init => Inv
<1> SUFFICES ASSUME Init PROVE Inv
  OBVIOUS
<1>1. \A f \in [1..0 -> Int] : Sum(f, 0) = 0
  <2> SUFFICES ASSUME NEW f \in [1..0 -> Int] PROVE Sum(f, 0) = 0
    OBVIOUS
  <2> QED
    BY PrefixDef DEF Sum
<1>2. TypeOK /\ PostedDocumentsValid /\ BucketsWithinOnHand
  BY DEF Init, TypeOK, PostedDocumentsValid, BucketsWithinOnHand
<1>3. NothingOverdrawn /\ StatusTellsHowItEnded
  BY DEF Init, NothingOverdrawn, StatusTellsHowItEnded
<1>4. ASSUME NEW d \in Dim PROVE Sum(OpenOn(d), Len(reservations)) = 0
  <2>1. Len(reservations) = 0
    BY DEF Init
  <2>2. OpenOn(d) \in [1..0 -> Int]
    BY <1>2, <2>1, OpenOnType
  <2> QED
    BY <1>1, <2>1, <2>2
<1>5. ASSUME NEW d \in Dim PROVE Sum(DeltaOn(ledger, d), Len(ledger)) = 0
  <2>1. Len(ledger) = 0 /\ ledger \in Seq(Row)
    BY <1>2 DEF Init, TypeOK
  <2>2. DeltaOn(ledger, d) \in [1..0 -> Int]
    BY <2>1, LedgerColumnType
  <2> QED
    BY <1>1, <2>1, <2>2
<1>6. ReservedIsWhatReservationsHold
  BY <1>4 DEF Init, ReservedIsWhatReservationsHold
<1>7. LedgerReplaysToBalance
  BY <1>5 DEF Init, LedgerReplaysToBalance
<1> QED
  BY <1>2, <1>3, <1>6, <1>7 DEF Inv, ReservationInv

LEMMA NextKeepsInv == Inv /\ [Next]_vars => Inv'
<1> SUFFICES ASSUME Inv, [Next]_vars PROVE Inv'
  OBVIOUS
<1>1. ASSUME NEW draft \in DraftInput, CreateDocument(draft) PROVE Inv'
  BY <1>1, CreateKeepsInv
<1>2. ASSUME NEW n \in 1..Len(docs), NEW draft \in DraftInput,
             UpdateDraftDocument(n, draft.lines)
      PROVE  Inv'
  BY <1>2, UpdateKeepsInv
<1>3. ASSUME NEW n \in 1..Len(docs), NEW key \in Key, NEW full \in BOOLEAN,
             PostDocument(n, key, full)
      PROVE  Inv'
  BY <1>3, PostDocumentKeepsInv
<1>4. ASSUME NEW n \in 1..Len(docs), ReverseDocument(n) PROVE Inv'
  BY <1>4, ReverseKeepsInv
<1>5. ASSUME NEW draft \in DraftInput, NEW key \in Key, ReleaseQuality(draft, key) PROVE Inv'
  BY <1>5, ReleaseQualityKeepsInv
<1>6. ASSUME NEW key \in RequestKey, NEW b \in Biz, NEW d \in Dim, NEW amount \in Amount,
             ReserveStock(key, b, d, amount)
      PROVE  Inv'
  BY <1>6, ReserveKeepsInv
<1>7. ASSUME NEW i \in 1..Len(reservations),
             NEW amount \in Amount \union {Open(reservations[i])},
             ReleaseReservation(i, amount)
      PROVE  Inv'
  BY <1>7, ReleaseReservationKeepsInv
<1>8. ASSUME NEW b \in Biz, ReleaseReservationsForBiz(b) PROVE Inv'
  BY <1>8, ReleaseForBizKeepsInv
<1>9. ASSUME UNCHANGED vars PROVE Inv'
  BY <1>9, TablesUnchanged, DocumentsUnchanged
     DEF vars, Inv, TablesInv, DocumentsInv, TypeOK
<1> QED
  BY <1>1, <1>2, <1>3, <1>4, <1>5, <1>6, <1>7, <1>8, <1>9 DEF Next

LEMMA InvHolds == Spec => []Inv
BY InitInv, NextKeepsInv, PTL DEF Spec

-----------------------------------------------------------------------------
(* The theorems.                                                           *)

\* Every reachable state is typed: no stock, no reserved bucket is negative.
THEOREM TypeCorrect == Spec => []TypeOK
<1>1. Inv => TypeOK
  BY DEF Inv
<1> QED
  BY <1>1, InvHolds, PTL

\* Reserving, releasing and posting keep the reserved bucket of every dimension
\* equal to what the reservations on it still hold open.
THEOREM ReservedMatchesReservations == Spec => []ReservedIsWhatReservationsHold
<1>1. Inv => ReservedIsWhatReservationsHold
  BY DEF Inv, ReservationInv
<1> QED
  BY <1>1, InvHolds, PTL

\* What is promised in a dimension never exceeds the stock there.
THEOREM PromisesAreCovered == Spec => []BucketsWithinOnHand
<1>1. Inv => BucketsWithinOnHand
  BY DEF Inv
<1> QED
  BY <1>1, InvHolds, PTL

\* The ledger, replayed, gives every balance it states and the balance table.
THEOREM LedgerIsTheBalance == Spec => []LedgerReplaysToBalance
<1>1. Inv => LedgerReplaysToBalance
  BY DEF Inv
<1> QED
  BY <1>1, InvHolds, PTL

\* A reservation's status says whether something is left, and how the rest went.
THEOREM StatusIsTruthful == Spec => []StatusTellsHowItEnded
<1>1. Inv => StatusTellsHowItEnded
  BY DEF Inv, ReservationInv
<1> QED
  BY <1>1, InvHolds, PTL

-----------------------------------------------------------------------------
(* Who a step concerns.                                                    *)

\* All reservations a step changes belong to b.
OnlyOf(b) ==
  \A i \in 1..Len(reservations) :
    reservations'[i] # reservations[i] => reservations[i].biz = b

LEMMA WriteTouchesOnlyOf ==
  ASSUME Inv, NEW n, NEW mvs \in Seq(Movement), NEW isReversal, NEW b,
         WriteMovements(n, mvs, Taken(b, mvs), isReversal)
  PROVE  OnlyOf(b)
<1>1. \A i \in 1..Len(reservations) : Taken(b, mvs)[i] # 0 => reservations[i].biz = b
  BY TakenType DEF Inv, ReservationInv
<1> QED
  BY <1>1 DEF WriteMovements, OnlyOf

LEMMA PostTouchesOnlyOf ==
  ASSUME Inv, NEW all \in Seq(Document), NEW n \in 1..Len(all), NEW key, NEW full,
         PostAdmitted(all, n, key, full), Post(all, n, key)
  PROVE  OnlyOf(all[n].biz)
<1>1. all[n] \in Document
  BY ElementOfSeq
<1>2. all[n].type \in DocumentType /\ all[n].lines \in Seq(Line) \ {<<>>}
  BY <1>1 DEF Document
<1>3. Plan(all[n]) \in Seq(Movement)
  BY <1>2, PlanType DEF PostAdmitted
<1>4. WriteMovements(n, Plan(all[n]), Taken(all[n].biz, Plan(all[n])), FALSE)
  BY DEF Post
<1> QED
  BY <1>3, <1>4, WriteTouchesOnlyOf

\* No posting, reversal, release or new reservation touches what another
\* business document reserved.
THEOREM OwnersAreSeparate == Spec => OthersReservationsUntouched
<1>1. ASSUME Inv, [Next]_vars PROVE \E b : OnlyOf(b)
  <2>1. ASSUME UNCHANGED reservations PROVE \E b : OnlyOf(b)
    BY <2>1 DEF OnlyOf
  <2>2. ASSUME NEW n \in 1..Len(docs), NEW key \in Key, NEW full \in BOOLEAN,
               PostDocument(n, key, full)
        PROVE  \E b : OnlyOf(b)
    BY <1>1, <2>2, PostTouchesOnlyOf DEF PostDocument, Inv, TypeOK
  <2>3. ASSUME NEW n \in 1..Len(docs), ReverseDocument(n) PROVE \E b : OnlyOf(b)
    BY <2>3 DEF ReverseDocument, WriteMovements, Nothing, OnlyOf
  <2>4. ASSUME NEW draft \in DraftInput, NEW key \in Key, ReleaseQuality(draft, key)
        PROVE  \E b : OnlyOf(b)
    <3> DEFINE all == Append(docs, NewDocument(draft))
               n == Len(docs) + 1
    <3>1. draft \in Draft
      BY InputsTyped
    <3>2. all \in Seq(Document) /\ Len(all) = n
      BY <1>1, <3>1, NewDocumentsType
    <3>3. n \in 1..Len(all)
      BY <1>1, <3>2 DEF Inv, TypeOK
    <3>4. CASE PostAdmitted(all, n, key, FALSE) /\ Post(all, n, key)
      <4> HIDE DEF all, n
      <4> QED
        BY <1>1, <3>2, <3>3, <3>4, PostTouchesOnlyOf
    <3>5. CASE UNCHANGED reservations
      BY <3>5, <2>1
    <3> QED
      BY <2>4, <3>4, <3>5 DEF ReleaseQuality
  <2>5. ASSUME NEW key \in RequestKey, NEW b \in Biz, NEW d \in Dim, NEW amount \in Amount,
               ReserveStock(key, b, d, amount)
        PROVE  \E o : OnlyOf(o)
    BY <1>1, <2>5 DEF ReserveStock, OnlyOf, Inv, TypeOK
  <2>6. ASSUME NEW i \in 1..Len(reservations),
               NEW amount \in Amount \union {Open(reservations[i])},
               ReleaseReservation(i, amount)
        PROVE  \E b : OnlyOf(b)
    <3>1. \A j \in 1..Len(reservations) : j # i => reservations'[j] = reservations[j]
      BY <1>1, <2>6 DEF ReleaseReservation, Inv, TypeOK
    <3>2. OnlyOf(reservations[i].biz)
      BY <3>1 DEF OnlyOf
    <3> QED
      BY <3>2
  <2>7. ASSUME NEW b \in Biz, ReleaseReservationsForBiz(b) PROVE \E o : OnlyOf(o)
    BY <2>7 DEF ReleaseReservationsForBiz, OnlyOf
  <2> QED
    BY <1>1, <2>1, <2>2, <2>3, <2>4, <2>5, <2>6, <2>7
       DEF Next, vars, CreateDocument, UpdateDraftDocument
<1>2. Inv /\ [Next]_vars => [OneOwnerAtATime]_vars
  BY <1>1 DEF OnlyOf, OneOwnerAtATime
<1> QED
  BY <1>2, InvHolds, PTL DEF Spec, OthersReservationsUntouched

-----------------------------------------------------------------------------
(* What the service promises (StockRefinement).                            *)

\* A step that takes from reservations, by amounts and from rows of b only.
Gives(b, take) ==
  /\ Takes(take)
  /\ \A i \in 1..Len(reservations) : take[i] # 0 => reservations[i].biz = b
  /\ reserved' = ReservedAfter(take)
  /\ Len(reservations') = Len(reservations)
  /\ \A i \in 1..Len(reservations) :
       /\ reservations'[i].dim = reservations[i].dim
       /\ reservations'[i].biz = reservations[i].biz
       /\ Open(reservations'[i]) = Open(reservations[i]) - take[i]

LEMMA OpenOfType ==
  ASSUME TypeOK, NothingOverdrawn, NEW b, NEW d
  PROVE  /\ OpenOf(b, d) \in [1..Len(reservations) -> Nat]
         /\ Len(reservations) \in Nat
<1>1. \A i \in 1..Len(reservations) : Open(reservations[i]) \in Nat
  BY ReservationType DEF NothingOverdrawn
<1> QED
  BY <1>1 DEF OpenOf, TypeOK

OpenOfTyped ==
  \A b, d : /\ OpenOf(b, d) \in [1..Len(reservations) -> Nat]
            /\ OpenOf(b, d) \in [1..Len(reservations) -> Int]
            /\ Len(reservations) \in Nat
            /\ Sum(OpenOf(b, d), Len(reservations)) \in Nat

LEMMA OpenOfTypes == Inv => OpenOfTyped
<1> SUFFICES ASSUME Inv, NEW b, NEW d
             PROVE  /\ OpenOf(b, d) \in [1..Len(reservations) -> Nat]
                    /\ OpenOf(b, d) \in [1..Len(reservations) -> Int]
                    /\ Len(reservations) \in Nat
                    /\ Sum(OpenOf(b, d), Len(reservations)) \in Nat
  BY DEF OpenOfTyped
<1>1. OpenOf(b, d) \in [1..Len(reservations) -> Nat] /\ Len(reservations) \in Nat
  BY OpenOfType DEF Inv, ReservationInv
<1>2. Sum(OpenOf(b, d), Len(reservations)) \in Nat
  BY <1>1, SumOfNaturals
<1> QED
  BY <1>1, <1>2

LEMMA OpenOfTypesNext == Inv' => OpenOfTyped'
BY OpenOfTypes, PTL

\* What another owner holds stays; what b holds and the bucket shrink alike.
LEMMA GivingMoves ==
  ASSUME Inv, Inv', NEW b, NEW take, Gives(b, take), NEW d \in Dim
  PROVE  /\ \A c : c # b => PromisedTo(c)'[d] = PromisedTo(c)[d]
         /\ PromisedTo(b)'[d] \in Nat /\ PromisedTo(b)[d] \in Nat
         /\ ConsumedTotal(take, d) \in Nat
         /\ PromisedTo(b)[d] = PromisedTo(b)'[d] + ConsumedTotal(take, d)
<1> DEFINE n == Len(reservations)
<1>1. OpenOfTyped /\ OpenOfTyped'
  BY OpenOfTypes, OpenOfTypesNext
<1>2. n \in Nat /\ Len(reservations') = n
  BY <1>1 DEF OpenOfTyped, Gives
<1>3. TypeOK /\ Takes(take)
  BY DEF Inv, Gives
<1>4. \A i \in 1..n :
        /\ reservations'[i].dim = reservations[i].dim
        /\ reservations'[i].biz = reservations[i].biz
        /\ Open(reservations'[i]) = Open(reservations[i]) - take[i]
        /\ take[i] \in Nat /\ Open(reservations[i]) \in Int
        /\ (take[i] # 0 => reservations[i].biz = b)
  BY <1>3, ReservationType DEF Gives, Takes
<1>5. ASSUME NEW c, c # b PROVE OpenOf(c, d)' = OpenOf(c, d)
  <2>1. \A i \in 1..n : reservations[i].biz = c => Open(reservations'[i]) = Open(reservations[i])
    BY <1>4, <1>5
  <2> QED
    BY <1>2, <1>4, <2>1 DEF OpenOf
<1>6. \A c : c # b => PromisedTo(c)'[d] = PromisedTo(c)[d]
  BY <1>2, <1>5 DEF PromisedTo
<1> DEFINE old == OpenOf(b, d)
           new == OpenOf(b, d)'
           usedUp == TakenOn(take, d)
<1>7. old \in [1..n -> Int] /\ new \in [1..n -> Int] /\ usedUp \in [1..n -> Int]
      /\ ConsumedTotal(take, d) \in Nat
  BY <1>1, <1>2, <1>3, TakenOnType DEF OpenOfTyped
<1>8. \A i \in 1..n : old[i] = new[i] + usedUp[i]
  <2> SUFFICES ASSUME NEW i \in 1..n PROVE old[i] = new[i] + usedUp[i]
    OBVIOUS
  <2>1. old[i] = IF reservations[i].biz = b /\ reservations[i].dim = d
                 THEN Open(reservations[i]) ELSE 0
    BY DEF OpenOf
  <2>2. new[i] = IF reservations'[i].biz = b /\ reservations'[i].dim = d
                 THEN Open(reservations'[i]) ELSE 0
    BY <1>2 DEF OpenOf
  <2>3. usedUp[i] = IF reservations[i].dim = d THEN take[i] ELSE 0
    BY DEF TakenOn
  <2> HIDE DEF old, new, usedUp
  <2> QED
    BY <1>4, <2>1, <2>2, <2>3
<1>9. PromisedTo(b)[d] = Sum(old, n) /\ PromisedTo(b)'[d] = Sum(new, n)
      /\ ConsumedTotal(take, d) = Sum(usedUp, n)
  BY <1>2 DEF PromisedTo, ConsumedTotal
<1>10. PromisedTo(b)'[d] \in Nat /\ PromisedTo(b)[d] \in Nat
  BY <1>1 DEF OpenOfTyped, PromisedTo
<1> HIDE DEF old, new, usedUp
<1>11. Sum(old, n) = Sum(new, n) + Sum(usedUp, n)
  BY <1>2, <1>7, <1>8, SumAdd
<1> QED
  BY <1>6, <1>7, <1>9, <1>10, <1>11

LEMMA GivingIsSpending ==
  ASSUME Inv, Inv', NEW b \in BizRef, NEW take, Gives(b, take)
  PROVE  Promises!Next
<1> DEFINE held == [c \in BizRef |-> PromisedTo(c)]
           heldThen == [c \in BizRef |-> PromisedTo(c)']
<1>1. ASSUME NEW c \in BizRef, c # b PROVE PromisedTo(c)' = PromisedTo(c)
  <2>1. \A d \in Dim : PromisedTo(c)'[d] = PromisedTo(c)[d]
    BY <1>1, GivingMoves
  <2>2. PromisedTo(c)' = [d \in Dim |-> PromisedTo(c)'[d]] /\ PromisedTo(c) = [d \in Dim |-> PromisedTo(c)[d]]
    BY DEF PromisedTo
  <2> QED
    BY <2>1, <2>2
<1>2. Promises!OnlyFor(b)
  BY <1>1 DEF Promises!OnlyFor
<1>3. ASSUME NEW d \in Dim
      PROVE  /\ 0 <= PromisedTo(b)'[d] /\ PromisedTo(b)'[d] <= PromisedTo(b)[d]
             /\ reserved'[d] = reserved[d] - (PromisedTo(b)[d] - PromisedTo(b)'[d])
  <2>1. reserved'[d] = reserved[d] - ConsumedTotal(take, d) /\ reserved[d] \in Int
    BY DEF Gives, ReservedAfter, Inv, TypeOK
  <2> QED
    BY <2>1, GivingMoves
<1>4. \A d \in Dim : reserved'[d] <= onHand'[d]
  BY DEF Inv, BucketsWithinOnHand
<1>5. Promises!Spend(b)
  BY <1>3, <1>4 DEF Promises!Spend
<1> QED
  BY <1>2, <1>5 DEF Promises!Next

LEMMA WriteGives ==
  ASSUME Inv, NEW n, NEW mvs, NEW isReversal, NEW b, NEW take, Takes(take),
         \A i \in 1..Len(reservations) : take[i] # 0 => reservations[i].biz = b,
         WriteMovements(n, mvs, take, isReversal)
  PROVE  Gives(b, take)
<1>1. TypeOK /\ Len(reservations) \in Nat
  BY DEF Inv, TypeOK
<1>2. Len(reservations') = Len(reservations)
  BY <1>1 DEF WriteMovements
<1>3. ASSUME NEW i \in 1..Len(reservations)
      PROVE  /\ reservations'[i].dim = reservations[i].dim
             /\ reservations'[i].biz = reservations[i].biz
             /\ Open(reservations'[i]) = Open(reservations[i]) - take[i]
  <2>1. reservations[i] \in Reservation /\ Open(reservations[i]) \in Int
    BY <1>1, ReservationType
  <2>2. reservations'[i] = IF take[i] = 0 THEN reservations[i]
                           ELSE Consume(reservations[i], take[i])
    BY DEF WriteMovements
  <2>3. take[i] # 0 => TakenFrom(reservations[i], take[i], Consume(reservations[i], take[i]))
    BY <2>1, ConsumeOne DEF Takes
  <2> QED
    BY <2>1, <2>2, <2>3 DEF TakenFrom
<1> QED
  BY <1>2, <1>3 DEF Gives, WriteMovements

LEMMA ReleasingGives ==
  ASSUME Inv, NEW b, NEW give, Takes(give),
         \A i \in 1..Len(reservations) : give[i] # 0 => reservations[i].biz = b,
         reserved' = ReservedAfter(give),
         reservations' = [i \in 1..Len(reservations) |->
           IF give[i] = 0 THEN reservations[i] ELSE Release(reservations[i], give[i])]
  PROVE  Gives(b, give)
<1>1. TypeOK /\ Len(reservations) \in Nat /\ ReservationInv
  BY DEF Inv, TypeOK
<1>2. Len(reservations') = Len(reservations)
  BY <1>1
<1>3. ASSUME NEW i \in 1..Len(reservations)
      PROVE  /\ reservations'[i].dim = reservations[i].dim
             /\ reservations'[i].biz = reservations[i].biz
             /\ Open(reservations'[i]) = Open(reservations[i]) - give[i]
  <2>1. /\ reservations[i] \in Reservation /\ Open(reservations[i]) \in Int
        /\ RowSound(reservations[i])
    BY <1>1, ReservationType, RowsSound DEF ReservationInv
  <2>2. reservations'[i] = IF give[i] = 0 THEN reservations[i]
                           ELSE Release(reservations[i], give[i])
    OBVIOUS
  <2>3. give[i] # 0 => TakenFrom(reservations[i], give[i], Release(reservations[i], give[i]))
    BY <2>1, ReleaseOne DEF Takes
  <2> QED
    BY <2>1, <2>2, <2>3 DEF TakenFrom
<1> QED
  BY <1>2, <1>3 DEF Gives

LEMMA PostGives ==
  ASSUME Inv, NEW all \in Seq(Document), NEW n \in 1..Len(all), NEW key, NEW full,
         PostAdmitted(all, n, key, full), Post(all, n, key)
  PROVE  \E b \in BizRef : \E take : Gives(b, take)
<1> DEFINE mvs == Plan(all[n])
           b == all[n].biz
<1>1. all[n] \in Document
  BY ElementOfSeq
<1>2. all[n].type \in DocumentType /\ all[n].lines \in Seq(Line) \ {<<>>} /\ b \in BizRef
  BY <1>1 DEF Document
<1>3. mvs \in Seq(Movement)
  BY <1>2, PlanType DEF PostAdmitted
<1>4. WriteMovements(n, mvs, Taken(b, mvs), FALSE)
  BY DEF Post
<1> HIDE DEF mvs, b
<1>5. /\ Takes(Taken(b, mvs))
      /\ \A i \in 1..Len(reservations) : Taken(b, mvs)[i] # 0 => reservations[i].biz = b
  BY <1>3, TakenType DEF Inv, ReservationInv
<1>6. Gives(b, Taken(b, mvs))
  BY <1>4, <1>5, WriteGives
<1> QED
  BY <1>2, <1>6 DEF b

LEMMA ReverseGives ==
  ASSUME Inv, NEW n \in 1..Len(docs), ReverseDocument(n)
  PROVE  Gives(NoBiz, Nothing)
<1>1. WriteMovements(n, ReversalPlan(docs[n]), Nothing, TRUE)
  BY DEF ReverseDocument
<1>2. Takes(Nothing) /\ \A i \in 1..Len(reservations) : Nothing[i] = 0
  BY NothingTaken DEF Nothing
<1> QED
  BY <1>1, <1>2, WriteGives

LEMMA ReleaseForBizGives ==
  ASSUME Inv, NEW b, ReleaseReservationsForBiz(b)
  PROVE  \E take : Gives(b, take)
<1> DEFINE give == [i \in 1..Len(reservations) |->
             IF reservations[i].biz = b /\ IsOpen(reservations[i])
             THEN Open(reservations[i]) ELSE 0]
<1>1. Takes(give)
  BY ReservationType DEF Takes, IsOpen, Inv, ReservationInv, NothingOverdrawn
<1>2. \A i \in 1..Len(reservations) : give[i] # 0 => reservations[i].biz = b
  OBVIOUS
<1>3. /\ reserved' = ReservedAfter(give)
      /\ reservations' = [i \in 1..Len(reservations) |->
           IF give[i] = 0 THEN reservations[i] ELSE Release(reservations[i], give[i])]
  BY DEF ReleaseReservationsForBiz
<1> HIDE DEF give
<1> QED
  BY <1>1, <1>2, <1>3, ReleasingGives

LEMMA ReleaseReservationGives ==
  ASSUME Inv, NEW i \in 1..Len(reservations),
         NEW amount \in Amount \union {Open(reservations[i])},
         ReleaseReservation(i, amount)
  PROVE  \E take : Gives(reservations[i].biz, take)
<1>1. PICK give :
        /\ Takes(give)
        /\ \A j \in 1..Len(reservations) : give[j] # 0 => j = i
        /\ reserved' = ReservedAfter(give)
        /\ reservations' = [j \in 1..Len(reservations) |->
             IF give[j] = 0 THEN reservations[j] ELSE Release(reservations[j], give[j])]
  BY ReleaseReservationGivesBack
<1>2. \A j \in 1..Len(reservations) : give[j] # 0 => reservations[j].biz = reservations[i].biz
  BY <1>1
<1> QED
  BY <1>1, <1>2, ReleasingGives

\* A new reservation adds its amount to what its owner holds, and to nothing else.
LEMMA ReservingIsPromising ==
  ASSUME Inv, Inv', NEW key \in RequestKey, NEW b \in Biz, NEW d \in Dim,
         NEW amount \in Amount, ReserveStock(key, b, d, amount)
  PROVE  Promises!Next
<1> DEFINE n == Len(reservations)
           row == [key |-> key, biz |-> b, dim |-> d, quantity |-> amount,
                   consumed |-> 0, released |-> 0, status |-> "active"]
<1>1. /\ TypeOK /\ n \in Nat /\ reservations \in Seq(Reservation)
      /\ amount \in Positive /\ amount \in Nat
  BY InputsTyped DEF Inv, TypeOK, Positive
<1>2. row \in Reservation /\ row.dim = d /\ row.biz = b /\ Open(row) = amount
  BY <1>1 DEF Reservation, Open, Positive
<1>3. reservations' = Append(reservations, row)
  BY DEF ReserveStock
<1> HIDE DEF row
<1>4. /\ Len(reservations') = n + 1
      /\ \A i \in 1..n : reservations'[i] = reservations[i]
      /\ reservations'[n + 1] = row
  BY <1>1, <1>2, <1>3, AppendProperties
<1>5. OpenOfTyped /\ OpenOfTyped'
  BY OpenOfTypes, OpenOfTypesNext
<1>6. ASSUME NEW c, NEW e \in Dim
      PROVE  /\ PromisedTo(c)[e] \in Nat
             /\ PromisedTo(c)'[e] = PromisedTo(c)[e] + (IF c = b /\ e = d THEN amount ELSE 0)
  <2> DEFINE f == OpenOf(c, e)
             h == OpenOf(c, e)'
  <2>1. f \in [1..n -> Int] /\ h \in [1..(n + 1) -> Int] /\ Sum(f, n) \in Nat
    BY <1>4, <1>5 DEF OpenOfTyped
  <2>2. \A i \in 1..n : h[i] = f[i]
    BY <1>1, <1>4 DEF OpenOf
  <2>3. h[n + 1] = IF c = b /\ e = d THEN amount ELSE 0
    <3>1. n + 1 \in 1..(n + 1)
      BY <1>1
    <3> QED
      BY <1>2, <1>4, <3>1 DEF OpenOf
  <2>4. PromisedTo(c)[e] = Sum(f, n) /\ PromisedTo(c)'[e] = Sum(h, n + 1)
    BY <1>4 DEF PromisedTo
  <2> HIDE DEF f, h
  <2>5. Sum(h, n + 1) = Sum(f, n) + h[n + 1]
    BY <1>1, <2>1, <2>2, SumAppend
  <2> QED
    BY <2>1, <2>3, <2>4, <2>5
<1>7. ASSUME NEW c, c # b PROVE PromisedTo(c)' = PromisedTo(c)
  <2>1. \A e \in Dim : PromisedTo(c)'[e] = PromisedTo(c)[e]
    BY <1>6, <1>7
  <2>2. PromisedTo(c)' = [e \in Dim |-> PromisedTo(c)'[e]] /\ PromisedTo(c) = [e \in Dim |-> PromisedTo(c)[e]]
    BY DEF PromisedTo
  <2> QED
    BY <2>1, <2>2
<1>8. b \in BizRef /\ Promises!OnlyFor(b)
  BY <1>7 DEF Promises!OnlyFor, BizRef
<1>9. UNCHANGED onHand /\ reserved' = [reserved EXCEPT ![d] = @ + amount]
  BY DEF ReserveStock
<1>10. ASSUME NEW e \in Dim
       PROVE  /\ PromisedTo(b)'[e] >= PromisedTo(b)[e]
              /\ reserved'[e] = reserved[e] + (PromisedTo(b)'[e] - PromisedTo(b)[e])
              /\ reserved'[e] <= onHand[e]
  <2>1. reserved[e] \in Nat /\ reserved'[e] = IF e = d THEN reserved[e] + amount ELSE reserved[e]
    BY <1>1, <1>9 DEF TypeOK
  <2>2. reserved'[e] <= onHand[e]
    BY <1>9 DEF Inv, BucketsWithinOnHand
  <2> QED
    BY <1>1, <1>6, <2>1, <2>2
<1>11. Promises!Promise(b)
  BY <1>8, <1>9, <1>10 DEF Promises!Promise
<1> QED
  BY <1>8, <1>11 DEF Promises!Next

LEMMA InitPromises == Init => Promises!Init
<1> SUFFICES ASSUME Init PROVE Promises!Init
  OBVIOUS
<1>1. Inv
  BY InitInv
<1>2. Len(reservations) = 0
  BY DEF Init
<1>3. ASSUME NEW b, NEW d \in Dim PROVE PromisedTo(b)[d] = 0
  <2>1. OpenOf(b, d) \in [1..0 -> Int]
    BY <1>1, <1>2, OpenOfTypes DEF OpenOfTyped
  <2>2. Sum(OpenOf(b, d), 0) = 0
    BY <2>1, PrefixDef DEF Sum
  <2> QED
    BY <1>2, <2>2 DEF PromisedTo
<1>4. \A b : PromisedTo(b) = [d \in Dim |-> 0]
  <2> SUFFICES ASSUME NEW b PROVE PromisedTo(b) = [d \in Dim |-> 0]
    OBVIOUS
  <2>1. PromisedTo(b) = [d \in Dim |-> PromisedTo(b)[d]]
    BY DEF PromisedTo
  <2> QED
    BY <1>3, <2>1
<1> QED
  BY <1>4 DEF Init, Promises!Init

\* No step of the service takes what was promised to another, or promises it twice.
LEMMA StepsArePromised == Inv /\ Inv' /\ [Next]_vars => [Promises!Next]_(Promises!vars)
<1> SUFFICES ASSUME Inv, Inv', [Next]_vars PROVE [Promises!Next]_(Promises!vars)
  OBVIOUS
<1>1. ASSUME UNCHANGED <<onHand, reserved, reservations>> PROVE UNCHANGED Promises!vars
  <2>1. \A b, d : OpenOf(b, d)' = OpenOf(b, d)
    BY <1>1 DEF OpenOf
  <2>2. \A b : PromisedTo(b)' = PromisedTo(b)
    BY <1>1, <2>1 DEF PromisedTo
  <2> QED
    BY <1>1, <2>2 DEF Promises!vars
<1>2. ASSUME NEW n \in 1..Len(docs), NEW key \in Key, NEW full \in BOOLEAN,
             PostDocument(n, key, full)
      PROVE  Promises!Next
  BY <1>2, PostGives, GivingIsSpending DEF PostDocument, Inv, TypeOK
<1>3. ASSUME NEW n \in 1..Len(docs), ReverseDocument(n) PROVE Promises!Next
  BY <1>3, ReverseGives, GivingIsSpending DEF BizRef
<1>4. ASSUME NEW draft \in DraftInput, NEW key \in Key, ReleaseQuality(draft, key)
      PROVE  [Promises!Next]_(Promises!vars)
  <2> DEFINE all == Append(docs, NewDocument(draft))
             n == Len(docs) + 1
  <2>1. draft \in Draft
    BY InputsTyped
  <2>2. all \in Seq(Document) /\ Len(all) = n
    BY <2>1, NewDocumentsType DEF Inv
  <2>3. n \in 1..Len(all)
    BY <2>2 DEF Inv, TypeOK
  <2>4. CASE PostAdmitted(all, n, key, FALSE) /\ Post(all, n, key)
    <3> HIDE DEF all, n
    <3> QED
      BY <2>2, <2>3, <2>4, PostGives, GivingIsSpending
  <2>5. CASE UNCHANGED <<onHand, reserved, reservations>>
    BY <2>5, <1>1
  <2> QED
    BY <1>4, <2>4, <2>5 DEF ReleaseQuality
<1>5. ASSUME NEW key \in RequestKey, NEW b \in Biz, NEW d \in Dim, NEW amount \in Amount,
             ReserveStock(key, b, d, amount)
      PROVE  Promises!Next
  BY <1>5, ReservingIsPromising
<1>6. ASSUME NEW i \in 1..Len(reservations),
             NEW amount \in Amount \union {Open(reservations[i])},
             ReleaseReservation(i, amount)
      PROVE  Promises!Next
  <2>1. reservations[i].biz \in BizRef
    BY ReservationType DEF Inv, Reservation, BizRef
  <2> QED
    BY <1>6, <2>1, ReleaseReservationGives, GivingIsSpending
<1>7. ASSUME NEW b \in Biz, ReleaseReservationsForBiz(b) PROVE Promises!Next
  BY <1>7, ReleaseForBizGives, GivingIsSpending DEF BizRef
<1> QED
  BY <1>1, <1>2, <1>3, <1>4, <1>5, <1>6, <1>7
     DEF Next, vars, CreateDocument, UpdateDraftDocument

\* The service keeps the promises of StockPromises, for any stock, any documents and any
\* owners: every posting, reversal, reservation and release is a promise of free stock to
\* one owner, or a use or return of what that owner was promised.
THEOREM ServiceKeepsPromises == Spec => ImplementsPromises
BY InitPromises, StepsArePromised, InvHolds, PTL
   DEF Spec, ImplementsPromises, Promises!Spec

-----------------------------------------------------------------------------
(* Documents and the ledger.                                               *)

\* LedgerMatchesDocuments for any list of documents and any table of rows.
Listed(table, n, doc) ==
  /\ Recorded(table, n, FALSE, IF doc.status = "draft" THEN <<>> ELSE Plan(doc))
  /\ Recorded(table, n, TRUE, IF doc.status = "reversed" THEN ReversalPlan(doc) ELSE <<>>)

Matches(all, table) ==
  /\ \A k \in 1..Len(table) : table[k].doc \in 1..Len(all)
  /\ \A n \in 1..Len(all) : Listed(table, n, all[n])

LEMMA LedgerMatches == LedgerMatchesDocuments <=> Matches(docs, ledger)
BY DEF LedgerMatchesDocuments, Matches, Listed

\* Rows of other postings, written behind, change nothing.
LEMMA RowsOfOthers ==
  ASSUME NEW table \in Seq(Row), NEW new \in Seq(Row), NEW n, NEW r, NEW mvs,
         \A k \in 1..Len(new) : ~ (new[k].doc = n /\ new[k].reversal = r),
         Recorded(table, n, r, mvs)
  PROVE  Recorded(table \o new, n, r, mvs)
<1> DEFINE a == Len(table)
           b == Len(new)
           both == table \o new
<1>1. a \in Nat /\ b \in Nat
  OBVIOUS
<1>2. /\ Len(both) = a + b
      /\ \A k \in 1..a : both[k] = table[k]
      /\ \A k \in (a + 1)..(a + b) : both[k] = new[k - a] /\ k - a \in 1..b
  BY <1>1, ConcatProperties
<1>3. PICK s \in 0..a :
        /\ {k \in 1..a : table[k].doc = n /\ table[k].reversal = r} = (s + 1)..(s + Len(mvs))
        /\ \A k \in 1..Len(mvs) :
             table[s + k].dim = mvs[k].dim /\ table[s + k].delta = mvs[k].delta
  BY DEF Recorded
<1> HIDE DEF both
<1>4. ASSUME NEW k \in 1..(a + b)
      PROVE  both[k].doc = n /\ both[k].reversal = r
               <=> k \in 1..a /\ table[k].doc = n /\ table[k].reversal = r
  <2>1. k \in 1..a \/ k \in (a + 1)..(a + b)
    BY <1>1
  <2>2. ASSUME k \in (a + 1)..(a + b)
        PROVE  k \notin 1..a /\ ~ (both[k].doc = n /\ both[k].reversal = r)
    BY <1>1, <1>2, <2>2
  <2> QED
    BY <1>2, <2>1, <2>2
<1>5. {k \in 1..(a + b) : both[k].doc = n /\ both[k].reversal = r}
        = {k \in 1..a : table[k].doc = n /\ table[k].reversal = r}
  <2>1. 1..a \subseteq 1..(a + b)
    BY <1>1
  <2> QED
    BY <1>4, <2>1
<1>6. ASSUME NEW k \in 1..Len(mvs)
      PROVE  both[s + k].dim = mvs[k].dim /\ both[s + k].delta = mvs[k].delta
  <2>1. s + k \in (s + 1)..(s + Len(mvs))
    BY <1>1
  <2>2. s + k \in 1..a
    BY <1>3, <2>1
  <2> QED
    BY <1>2, <1>3, <2>2
<1>7. s \in 0..Len(both)
  BY <1>1, <1>2
<1> QED
  BY <1>2, <1>3, <1>5, <1>6, <1>7 DEF Recorded, both

\* The rows of a posting, written behind those of the others.
LEMMA RowsOfItsOwn ==
  ASSUME NEW table \in Seq(Row), NEW new \in Seq(Row), NEW n, NEW r, NEW mvs,
         Len(mvs) = Len(new),
         \A k \in 1..Len(new) :
           /\ new[k].doc = n /\ new[k].reversal = r
           /\ new[k].dim = mvs[k].dim /\ new[k].delta = mvs[k].delta,
         Recorded(table, n, r, <<>>)
  PROVE  Recorded(table \o new, n, r, mvs)
<1> DEFINE a == Len(table)
           b == Len(new)
           both == table \o new
<1>1. a \in Nat /\ b \in Nat
  OBVIOUS
<1>2. /\ Len(both) = a + b
      /\ \A k \in 1..a : both[k] = table[k]
      /\ \A k \in (a + 1)..(a + b) : both[k] = new[k - a] /\ k - a \in 1..b
      /\ \A k \in 1..b : both[a + k] = new[k]
  BY <1>1, ConcatProperties
<1>3. \A k \in 1..a : ~ (table[k].doc = n /\ table[k].reversal = r)
  <2>1. PICK s \in 0..a :
          {k \in 1..a : table[k].doc = n /\ table[k].reversal = r} = (s + 1)..(s + Len(<<>>))
    BY DEF Recorded
  <2>2. (s + 1)..(s + Len(<<>>)) = {}
    BY <1>1
  <2> QED
    BY <2>1, <2>2
<1> HIDE DEF both
<1>4. ASSUME NEW k \in 1..(a + b)
      PROVE  both[k].doc = n /\ both[k].reversal = r <=> k \in (a + 1)..(a + b)
  <2>1. k \in 1..a \/ k \in (a + 1)..(a + b)
    BY <1>1
  <2>2. k \in 1..a => k \notin (a + 1)..(a + b)
    BY <1>1
  <2> QED
    BY <1>2, <1>3, <2>1, <2>2
<1>5. {k \in 1..(a + b) : both[k].doc = n /\ both[k].reversal = r} = (a + 1)..(a + b)
  <2>1. (a + 1)..(a + b) \subseteq 1..(a + b)
    BY <1>1
  <2> QED
    BY <1>4, <2>1
<1>6. a \in 0..Len(both)
  BY <1>1, <1>2
<1>7. {k \in 1..Len(both) : both[k].doc = n /\ both[k].reversal = r} = (a + 1)..(a + Len(mvs))
  BY <1>2, <1>5
<1>8. \A k \in 1..Len(mvs) : both[a + k].dim = mvs[k].dim /\ both[a + k].delta = mvs[k].delta
  BY <1>2
<1>9. Recorded(both, n, r, mvs)
  BY <1>6, <1>7, <1>8 DEF Recorded
<1> QED
  BY <1>9 DEF both

\* A document that was never posted has no rows, wherever the search starts.
LEMMA DraftsHaveNoRows ==
  ASSUME NEW table \in Seq(Row), NEW n, NEW doc, doc.status = "draft",
         \A k \in 1..Len(table) : table[k].doc # n
  PROVE  Listed(table, n, doc)
<1>1. Len(table) \in Nat
  OBVIOUS
<1>2. 0 \in 0..Len(table) /\ (0 + 1)..(0 + Len(<<>>)) = {} /\ 1..Len(<<>>) = {}
  BY <1>1
<1>3. \A r : {k \in 1..Len(table) : table[k].doc = n /\ table[k].reversal = r}
               = (0 + 1)..(0 + Len(<<>>))
  BY <1>2
<1>4. \A r : Recorded(table, n, r, <<>>)
  <2> SUFFICES ASSUME NEW r PROVE Recorded(table, n, r, <<>>)
    OBVIOUS
  <2> QED
    BY <1>2, <1>3 DEF Recorded
<1> QED
  BY <1>4 DEF Listed

LEMMA NewDraftMatches ==
  ASSUME NEW all \in Seq(Document), NEW table \in Seq(Row), NEW doc \in Document,
         doc.status = "draft", Matches(all, table)
  PROVE  Matches(Append(all, doc), table)
<1> DEFINE n == Len(all)
           more == Append(all, doc)
<1>1. /\ n \in Nat /\ Len(more) = n + 1 /\ more[n + 1] = doc
      /\ \A e \in 1..n : more[e] = all[e]
  BY AppendProperties
<1> HIDE DEF more
<1>2. \A k \in 1..Len(table) : table[k].doc \in 1..n /\ table[k].doc # n + 1
  BY <1>1 DEF Matches
<1>3. \A k \in 1..Len(table) : table[k].doc \in 1..(n + 1)
  BY <1>1, <1>2
<1>4. \A e \in 1..n : Listed(table, e, more[e])
  BY <1>1 DEF Matches
<1>5. Listed(table, n + 1, more[n + 1])
  BY <1>1, <1>2, DraftsHaveNoRows
<1>6. \A e \in 1..(n + 1) : e \in 1..n \/ e = n + 1
  BY <1>1
<1> QED
  BY <1>1, <1>3, <1>4, <1>5, <1>6 DEF Matches, more

LEMMA EditedDraftMatches ==
  ASSUME NEW all \in Seq(Document), NEW table \in Seq(Row), NEW n \in 1..Len(all),
         NEW doc \in Document, all[n].status = "draft", doc.status = "draft",
         Matches(all, table)
  PROVE  Matches([all EXCEPT ![n] = doc], table)
<1> DEFINE new == [all EXCEPT ![n] = doc]
<1>1. /\ Len(new) = Len(all) /\ new[n] = doc
      /\ \A e \in 1..Len(all) : e # n => new[e] = all[e]
  OBVIOUS
<1> HIDE DEF new
<1>2. Listed(table, n, doc)
  BY DEF Matches, Listed
<1> QED
  BY <1>1, <1>2 DEF Matches, new

\* The plan of a document is that of its type and lines.
LEMMA SamePlan ==
  ASSUME NEW d, NEW e, d.type = e.type, d.lines = e.lines
  PROVE  Plan(d) = Plan(e) /\ ReversalPlan(d) = ReversalPlan(e)
<1>1. \A k : LineOf(d, k) = LineOf(e, k)
  BY DEF LineOf
<1>2. \A k : Incoming(d, k) = Incoming(e, k)
  BY <1>1 DEF Incoming
<1>3. Plan(d) = Plan(e)
  BY <1>1, <1>2 DEF Plan
<1> QED
  BY <1>3 DEF ReversalPlan

\* The rows that are written are of document n, its reversal or not, and say what mvs say.
RowsOf(new, n, r, mvs) ==
  /\ Len(mvs) = Len(new)
  /\ \A k \in 1..Len(new) :
       /\ new[k].doc = n /\ new[k].reversal = r
       /\ new[k].dim = mvs[k].dim /\ new[k].delta = mvs[k].delta

\* Posting or reversing document n turns all[n] into doc and writes its movements.
LEMMA WrittenMatches ==
  ASSUME NEW all \in Seq(Document), NEW table \in Seq(Row), NEW new \in Seq(Row),
         NEW n \in 1..Len(all), NEW doc \in Document, NEW mvs, NEW r \in BOOLEAN,
         Matches(all, table), RowsOf(new, n, r, mvs),
         doc.type = all[n].type, doc.lines = all[n].lines,
         \/ ~ r /\ all[n].status = "draft" /\ doc.status = "posted" /\ mvs = Plan(doc)
         \/ r /\ all[n].status = "posted" /\ doc.status = "reversed" /\ mvs = ReversalPlan(doc)
  PROVE  Matches([all EXCEPT ![n] = doc], table \o new)
<1> DEFINE after == [all EXCEPT ![n] = doc]
           both == table \o new
<1>0. /\ Len(mvs) = Len(new)
      /\ \A k \in 1..Len(new) :
           /\ new[k].doc = n /\ new[k].reversal = r
           /\ new[k].dim = mvs[k].dim /\ new[k].delta = mvs[k].delta
  BY DEF RowsOf
<1>1. /\ Len(after) = Len(all) /\ after[n] = doc
      /\ \A e \in 1..Len(all) : e # n => after[e] = all[e]
  OBVIOUS
<1>2. /\ Len(table) \in Nat /\ Len(new) \in Nat /\ Len(both) = Len(table) + Len(new)
      /\ \A k \in 1..Len(table) : both[k] = table[k]
      /\ \A k \in (Len(table) + 1)..(Len(table) + Len(new)) :
           both[k] = new[k - Len(table)] /\ k - Len(table) \in 1..Len(new)
  BY ConcatProperties
<1> HIDE DEF after, both
<1>3. ASSUME NEW k \in 1..Len(both) PROVE both[k].doc \in 1..Len(after)
  <2>1. k \in 1..Len(table) \/ k \in (Len(table) + 1)..(Len(table) + Len(new))
    BY <1>2
  <2> QED
    BY <1>0, <1>1, <1>2, <2>1 DEF Matches
<1>4. ASSUME NEW e \in 1..Len(all), e # n PROVE Listed(both, e, after[e])
  <2>1. Listed(table, e, all[e]) /\ after[e] = all[e]
    BY <1>1, <1>4 DEF Matches
  <2>2. \A k \in 1..Len(new) : \A q : ~ (new[k].doc = e /\ new[k].reversal = q)
    BY <1>0, <1>4
  <2> QED
    BY <2>1, <2>2, RowsOfOthers DEF Listed, both
<1>5. Plan(doc) = Plan(all[n]) /\ ReversalPlan(doc) = ReversalPlan(all[n])
  BY SamePlan
<1>6. CASE ~ r /\ all[n].status = "draft" /\ doc.status = "posted" /\ mvs = Plan(doc)
  <2>1. Recorded(table, n, FALSE, <<>>) /\ Recorded(table, n, TRUE, <<>>)
    BY <1>6 DEF Matches, Listed
  <2>2. Recorded(both, n, FALSE, Plan(doc))
    BY <1>0, <1>6, <2>1, RowsOfItsOwn DEF both
  <2>3. Recorded(both, n, TRUE, <<>>)
    BY <1>0, <1>6, <2>1, RowsOfOthers DEF both
  <2> QED
    BY <1>1, <1>3, <1>4, <1>6, <2>2, <2>3 DEF Matches, Listed, after, both
<1>7. CASE r /\ all[n].status = "posted" /\ doc.status = "reversed" /\ mvs = ReversalPlan(doc)
  <2>1. Recorded(table, n, FALSE, Plan(doc)) /\ Recorded(table, n, TRUE, <<>>)
    BY <1>5, <1>7 DEF Matches, Listed
  <2>2. Recorded(both, n, TRUE, ReversalPlan(doc))
    BY <1>0, <1>7, <2>1, RowsOfItsOwn DEF both
  <2>3. Recorded(both, n, FALSE, Plan(doc))
    BY <1>0, <1>7, <2>1, RowsOfOthers DEF both
  <2> QED
    BY <1>1, <1>3, <1>4, <1>7, <2>2, <2>3 DEF Matches, Listed, after, both
<1> QED
  BY <1>6, <1>7

LEMMA DocumentsMatch ==
  ASSUME NEW all, NEW table, docs' = all, ledger' = table, Matches(all, table)
  PROVE  LedgerMatchesDocuments'
BY DEF LedgerMatchesDocuments, Matches, Listed

LEMMA PostWrites ==
  ASSUME Inv, NEW all \in Seq(Document), NEW n \in 1..Len(all), NEW key \in Key, NEW full,
         PostAdmitted(all, n, key, full), Post(all, n, key), Matches(all, ledger)
  PROVE  LedgerMatchesDocuments'
<1> DEFINE mvs == Plan(all[n])
           posted == [all[n] EXCEPT !.status = "posted", !.key = key]
           written == Rows(n, mvs, FALSE)
<1>1. all[n] \in Document /\ all[n].type \in DocumentType /\ all[n].lines \in Seq(Line)
      /\ n \in Positive
  <2>1. all[n] \in Document
    BY ElementOfSeq
  <2>2. all[n].lines \in Seq(Line) \ {<<>>} /\ all[n].type \in DocumentType
    BY <2>1 DEF Document
  <2> QED
    BY <2>1, <2>2 DEF Positive
<1>2. mvs \in Seq(Movement)
  BY <1>1, PlanType DEF PostAdmitted
<1>3. /\ posted \in Document /\ posted.type = all[n].type /\ posted.lines = all[n].lines
      /\ posted.status = "posted" /\ all[n].status = "draft"
  BY <1>1 DEF Document, PostAdmitted
<1>4. docs' = [all EXCEPT ![n] = posted] /\ ledger' = ledger \o written
  BY DEF Post, WriteMovements
<1>5. mvs = Plan(posted)
  BY <1>3, SamePlan
<1> HIDE DEF mvs, posted
<1>6. /\ written \in Seq(Row) /\ Len(written) = Len(mvs)
      /\ \A k \in 1..Len(mvs) :
           /\ written[k].doc = n /\ written[k].reversal = FALSE
           /\ written[k].dim = mvs[k].dim /\ written[k].delta = mvs[k].delta
  <2>1. written \in Seq(Row) /\ Len(written) = Len(mvs)
    BY <1>1, <1>2, RowsType DEF Inv, written
  <2>2. \A k \in 1..Len(mvs) :
          /\ written[k].doc = n /\ written[k].reversal = FALSE
          /\ written[k].dim = mvs[k].dim /\ written[k].delta = mvs[k].delta
    BY <1>2 DEF Rows, written
  <2> QED
    BY <2>1, <2>2
<1> HIDE DEF written
<1>7. Matches([all EXCEPT ![n] = posted], ledger \o written)
  <2>1. all \in Seq(Document) /\ ledger \in Seq(Row) /\ FALSE \in BOOLEAN
    BY DEF Inv, TypeOK
  <2>2. RowsOf(written, n, FALSE, mvs)
    BY <1>6 DEF RowsOf
  <2> QED
    BY <1>3, <1>5, <1>6, <2>1, <2>2, WrittenMatches
<1> QED
  BY <1>4, <1>7, DocumentsMatch

LEMMA ReverseWrites ==
  ASSUME Inv, NEW n \in 1..Len(docs), ReverseDocument(n), Matches(docs, ledger)
  PROVE  LedgerMatchesDocuments'
<1> DEFINE mvs == ReversalPlan(docs[n])
           undone == [docs[n] EXCEPT !.status = "reversed"]
           written == Rows(n, mvs, TRUE)
<1>1. /\ docs[n] \in Document /\ docs[n].type \in DocumentType /\ docs[n].lines \in Seq(Line)
      /\ n \in Positive
  BY DocumentAt
<1>2. mvs \in Seq(Movement)
  BY <1>1, PlanType DEF ReverseDocument, Inv, PostedDocumentsValid
<1>3. /\ undone \in Document /\ undone.type = docs[n].type /\ undone.lines = docs[n].lines
      /\ undone.status = "reversed" /\ docs[n].status = "posted"
  BY <1>1 DEF Document, ReverseDocument
<1>4. docs' = [docs EXCEPT ![n] = undone] /\ ledger' = ledger \o written
  BY DEF ReverseDocument, WriteMovements
<1>5. mvs = ReversalPlan(undone)
  BY <1>3, SamePlan
<1> HIDE DEF mvs, undone
<1>6. /\ written \in Seq(Row) /\ Len(written) = Len(mvs)
      /\ \A k \in 1..Len(mvs) :
           /\ written[k].doc = n /\ written[k].reversal = TRUE
           /\ written[k].dim = mvs[k].dim /\ written[k].delta = mvs[k].delta
  <2>1. written \in Seq(Row) /\ Len(written) = Len(mvs)
    BY <1>1, <1>2, RowsType DEF Inv, written
  <2>2. \A k \in 1..Len(mvs) :
          /\ written[k].doc = n /\ written[k].reversal = TRUE
          /\ written[k].dim = mvs[k].dim /\ written[k].delta = mvs[k].delta
    BY <1>2 DEF Rows, written
  <2> QED
    BY <2>1, <2>2
<1> HIDE DEF written
<1>7. Matches([docs EXCEPT ![n] = undone], ledger \o written)
  <2>1. docs \in Seq(Document) /\ ledger \in Seq(Row) /\ TRUE \in BOOLEAN
    BY DEF Inv, TypeOK
  <2>2. RowsOf(written, n, TRUE, mvs)
    BY <1>6 DEF RowsOf
  <2> QED
    BY <1>3, <1>5, <1>6, <2>1, <2>2, WrittenMatches
<1> QED
  BY <1>4, <1>7, DocumentsMatch

LEMMA StepsMatch ==
  Inv /\ LedgerMatchesDocuments /\ [Next]_vars => LedgerMatchesDocuments'
<1> SUFFICES ASSUME Inv, LedgerMatchesDocuments, [Next]_vars
             PROVE  LedgerMatchesDocuments'
  OBVIOUS
<1>1. docs \in Seq(Document) /\ ledger \in Seq(Row) /\ Matches(docs, ledger)
  BY LedgerMatches DEF Inv, TypeOK
<1>2. ASSUME NEW draft \in DraftInput
      PROVE  NewDocument(draft) \in Document /\ NewDocument(draft).status = "draft"
  <2>1. draft \in Draft
    BY InputsTyped
  <2> QED
    BY <2>1 DEF NewDocument, Document, Draft, Key
<1>3. ASSUME NEW draft \in DraftInput, CreateDocument(draft) PROVE LedgerMatchesDocuments'
  <2>1. Matches(Append(docs, NewDocument(draft)), ledger)
    BY <1>1, <1>2, NewDraftMatches
  <2> QED
    BY <1>3, <2>1, DocumentsMatch DEF CreateDocument
<1>4. ASSUME NEW n \in 1..Len(docs), NEW draft \in DraftInput,
             UpdateDraftDocument(n, draft.lines)
      PROVE  LedgerMatchesDocuments'
  <2> DEFINE edited == [docs[n] EXCEPT !.lines = draft.lines]
  <2>1. draft.lines \in Seq(Line) \ {<<>>}
    <3>1. draft \in Draft
      BY InputsTyped
    <3> QED
      BY <3>1 DEF Draft
  <2>2. edited \in Document /\ edited.status = "draft" /\ docs[n].status = "draft"
    BY <1>4, <2>1, DocumentAt DEF Document, UpdateDraftDocument
  <2>3. docs' = [docs EXCEPT ![n] = edited] /\ ledger' = ledger
    BY <1>4 DEF UpdateDraftDocument
  <2> HIDE DEF edited
  <2>4. Matches([docs EXCEPT ![n] = edited], ledger)
    BY <1>1, <2>2, EditedDraftMatches
  <2> QED
    BY <2>3, <2>4, DocumentsMatch
<1>5. ASSUME NEW n \in 1..Len(docs), NEW key \in Key, NEW full \in BOOLEAN,
             PostDocument(n, key, full)
      PROVE  LedgerMatchesDocuments'
  BY <1>1, <1>5, PostWrites DEF PostDocument
<1>6. ASSUME NEW n \in 1..Len(docs), ReverseDocument(n) PROVE LedgerMatchesDocuments'
  BY <1>1, <1>6, ReverseWrites
<1>7. ASSUME NEW draft \in DraftInput, NEW key \in Key, ReleaseQuality(draft, key)
      PROVE  LedgerMatchesDocuments'
  <2> DEFINE all == Append(docs, NewDocument(draft))
             n == Len(docs) + 1
  <2>1. all \in Seq(Document) /\ Len(all) = n /\ n \in 1..Len(all)
    BY <1>1, <1>2, AppendProperties
  <2>2. Matches(all, ledger)
    BY <1>1, <1>2, NewDraftMatches
  <2>3. CASE PostAdmitted(all, n, key, FALSE) /\ Post(all, n, key)
    <3> HIDE DEF all, n
    <3> QED
      BY <2>1, <2>2, <2>3, PostWrites
  <2>4. CASE docs' = all /\ UNCHANGED <<onHand, reserved, ledger, reservations>>
    <3> HIDE DEF all
    <3> QED
      BY <2>2, <2>4, DocumentsMatch
  <2> QED
    BY <1>7, <2>3, <2>4 DEF ReleaseQuality
<1>8. ASSUME UNCHANGED <<docs, ledger>> PROVE LedgerMatchesDocuments'
  BY <1>1, <1>8, DocumentsMatch
<1>9. ASSUME NEW key \in RequestKey, NEW b \in Biz, NEW d \in Dim, NEW amount \in Amount,
             ReserveStock(key, b, d, amount)
      PROVE  LedgerMatchesDocuments'
  BY <1>8, <1>9 DEF ReserveStock
<1>10. ASSUME NEW i \in 1..Len(reservations),
              NEW amount \in Amount \union {Open(reservations[i])},
              ReleaseReservation(i, amount)
       PROVE  LedgerMatchesDocuments'
  BY <1>8, <1>10 DEF ReleaseReservation
<1>11. ASSUME NEW b \in Biz, ReleaseReservationsForBiz(b) PROVE LedgerMatchesDocuments'
  BY <1>8, <1>11 DEF ReleaseReservationsForBiz
<1>12. ASSUME UNCHANGED vars PROVE LedgerMatchesDocuments'
  BY <1>8, <1>12 DEF vars
<1> QED
  BY <1>3, <1>4, <1>5, <1>6, <1>7, <1>9, <1>10, <1>11, <1>12 DEF Next

\* The rows of a document are, at any time, those of its lines: written once when
\* it is posted and once more, with the opposite signs, when it is reversed, each
\* time in one block no other document's rows fall into.
THEOREM LedgerIsOfDocuments == Spec => []LedgerMatchesDocuments
<1>1. Init => LedgerMatchesDocuments
  BY DEF Init, LedgerMatchesDocuments
<1> QED
  BY <1>1, InvHolds, StepsMatch, PTL DEF Spec

(***************************************************************************)
(* Netting: days and buckets.                                              *)
(***************************************************************************)

LEMMA BucketIs ==
  ASSUME NEW day \in Nat
  PROVE  BucketOf(day) \in Nat /\ BucketOf(day) <= day
<1>1. BucketLength \in Nat /\ BucketLength > 0
  BY NettingSizes
<1>2. day % BucketLength \in 0..(BucketLength - 1)
  BY <1>1
<1>3. day = BucketLength * (day \div BucketLength) + (day % BucketLength)
  BY <1>1
<1>4. day \div BucketLength \in Nat
  BY <1>1
<1>5. BucketLength * (day \div BucketLength) \in Nat
  BY <1>1, <1>4
<1> QED
  BY <1>2, <1>3, <1>5 DEF BucketOf

LEMMA BucketsAscend ==
  ASSUME NEW day \in Nat, NEW late \in Nat, day <= late
  PROVE  BucketOf(day) <= BucketOf(late)
<1>1. BucketLength \in Nat /\ BucketLength > 0
  BY NettingSizes
<1> DEFINE q == day \div BucketLength
           r == late \div BucketLength
<1>2. BucketOf(day) = BucketLength * q /\ BucketOf(late) = BucketLength * r
  BY <1>1 DEF BucketOf
<1>3. q \in Nat /\ r \in Nat /\ q <= r
  BY <1>1
<1> HIDE DEF q, r
<1>4. BucketLength * r = BucketLength * q + BucketLength * (r - q)
  BY <1>1, <1>3
<1>5. r - q \in Nat
  BY <1>3
<1>6. BucketLength * (r - q) \in Nat /\ BucketLength * q \in Nat
  BY <1>1, <1>3, <1>5
<1> QED
  BY <1>2, <1>4, <1>6

\* Buckets are days of the horizon's first bucket or later, none after its end.
LEMMA BucketsLie ==
  /\ Start \in Nat /\ End \in Nat /\ Start <= End
  /\ BucketOf(Start) \in Nat /\ BucketOf(Start) <= Start
  /\ Buckets \subseteq BucketOf(Start)..End
<1>1. Start \in Nat /\ End \in Nat /\ Start <= End
  BY NettingSizes
<1>2. BucketOf(Start) \in Nat /\ BucketOf(Start) <= Start
  BY <1>1, BucketIs
<1>3. ASSUME NEW day \in Start..End PROVE BucketOf(day) \in BucketOf(Start)..End
  <2>1. day \in Nat /\ Start <= day
    BY <1>1
  <2> QED
    BY <1>1, <1>2, <2>1, BucketIs, BucketsAscend
<1> QED
  BY <1>1, <1>2, <1>3 DEF Buckets

\* The tables a run reads.
TablesOK ==
  /\ bill \in Bill /\ sales \in Seq(SalesLine) /\ purchases \in Seq(PurchaseLine)
  /\ work \in Seq(WorkOrder) /\ stock \in [MaterialId -> Balance]

LEMMA AtLeastZeroIs ==
  ASSUME NEW x \in Int
  PROVE  AtLeastZero(x) \in Nat /\ AtLeastZero(x) >= x /\ (AtLeastZero(x) = 0 \/ AtLeastZero(x) = x)
BY DEF AtLeastZero

LEMMA OpenIs ==
  /\ \A line \in SalesLine : SalesOpen(line) \in Int
  /\ \A line \in PurchaseLine : PurchaseOpen(line) \in Int
  /\ \A order \in WorkOrder : WorkOpen(order) \in Int
BY DEF SalesOpen, PurchaseOpen, WorkOpen, SalesLine, PurchaseLine, WorkOrder

\* What is open in a bucket is never negative.
LEMMA DemandAndSupplyAreNatural ==
  ASSUME TablesOK, NEW m, NEW b
  PROVE  SalesDemand(m, b) \in Nat /\ Inbound(m, b) \in Nat
<1> DEFINE f == [k \in 1..Len(sales) |->
                   IF /\ sales[k].material = m /\ SalesCount(sales[k]) /\ InHorizon(sales[k])
                      /\ BucketOf(Later(sales[k].due)) = b
                   THEN AtLeastZero(SalesOpen(sales[k])) ELSE 0]
           g == [k \in 1..Len(purchases) |->
                   IF /\ purchases[k].material = m /\ PurchaseCounts(purchases[k])
                      /\ InHorizon(purchases[k]) /\ BucketOf(Later(purchases[k].due)) = b
                   THEN AtLeastZero(PurchaseOpen(purchases[k])) ELSE 0]
           h == [k \in 1..Len(work) |->
                   IF /\ work[k].material = m /\ WorkCounts(work[k]) /\ InHorizon(work[k])
                      /\ BucketOf(Later(work[k].due)) = b
                   THEN AtLeastZero(WorkOpen(work[k])) ELSE 0]
<1>1. /\ Len(sales) \in Nat /\ \A k \in 1..Len(sales) : sales[k] \in SalesLine
      /\ Len(purchases) \in Nat /\ \A k \in 1..Len(purchases) : purchases[k] \in PurchaseLine
      /\ Len(work) \in Nat /\ \A k \in 1..Len(work) : work[k] \in WorkOrder
  BY LenProperties, ElementOfSeq DEF TablesOK
<1>2. f \in [1..Len(sales) -> Nat]
  BY <1>1, OpenIs, AtLeastZeroIs
<1>3. g \in [1..Len(purchases) -> Nat]
  BY <1>1, OpenIs, AtLeastZeroIs
<1>4. h \in [1..Len(work) -> Nat]
  BY <1>1, OpenIs, AtLeastZeroIs
<1>5. SalesDemand(m, b) = Sum(f, Len(sales))
  BY DEF SalesDemand, OpenIn
<1>6. Inbound(m, b) = Sum(g, Len(purchases)) + Sum(h, Len(work))
  BY DEF Inbound, OpenIn
<1> HIDE DEF f, g, h
<1>7. Sum(f, Len(sales)) \in Nat /\ Sum(g, Len(purchases)) \in Nat /\ Sum(h, Len(work)) \in Nat
  BY <1>1, <1>2, <1>3, <1>4, SumOfNaturals
<1> QED
  BY <1>5, <1>6, <1>7

LEMMA OnHandIsNatural ==
  ASSUME TablesOK, NEW m \in MaterialId
  PROVE  OnHand(m) \in Nat
<1>1. stock[m] \in Balance
  BY DEF TablesOK
<1>2. stock[m].onHand - stock[m].frozen - stock[m].reserved \in Int
  BY <1>1 DEF Balance
<1> QED
  BY <1>2, AtLeastZeroIs DEF OnHand

\* Totals by bucket start from nothing and grow by each bucket's quantity.
LEMMA UpToStarts ==
  ASSUME NEW f
  PROVE  UpTo(f, BucketOf(Start) - 1) = 0
<1> DEFINE n == BucketOf(Start)
           g == [k \in 1..n |-> IF k - 1 \in Buckets THEN f[k - 1] ELSE 0]
<1>1. n \in Nat /\ (n - 1) + 1 = n
  BY BucketsLie
<1>2. \A b \in Buckets : b \in Int /\ n <= b
  BY BucketsLie
<1>3. UpTo(f, n - 1) = Sum(g, n)
  BY <1>1 DEF UpTo
<1> HIDE DEF n
<1>4. \A k \in 1..n : k - 1 \notin Buckets
  BY <1>1, <1>2
<1>5. g \in [1..n -> Int] /\ \A k \in 1..n : g[k] = 0
  BY <1>4
<1> HIDE DEF g
<1> QED
  BY <1>1, <1>3, <1>5, SumZero DEF n

At(f, d) == IF d \in Buckets THEN f[d] ELSE 0

LEMMA UpToGrows ==
  ASSUME NEW f \in [Buckets -> Int], NEW d \in Nat
  PROVE  /\ UpTo(f, d - 1) \in Int /\ At(f, d) \in Int
         /\ UpTo(f, d) = UpTo(f, d - 1) + At(f, d)
<1> DEFINE g == [k \in 1..d |-> IF k - 1 \in Buckets THEN f[k - 1] ELSE 0]
           h == [k \in 1..(d + 1) |-> IF k - 1 \in Buckets THEN f[k - 1] ELSE 0]
<1>1. g \in [1..d -> Int] /\ h \in [1..(d + 1) -> Int] /\ h[d + 1] = At(f, d)
      /\ \A k \in 1..d : h[k] = g[k]
  BY DEF At
<1>2. (d - 1) + 1 = d
  OBVIOUS
<1>3. UpTo(f, d - 1) = Sum(g, d) /\ UpTo(f, d) = Sum(h, d + 1)
  BY <1>2 DEF UpTo
<1> HIDE DEF g, h
<1>4. d + 1 \in 1..(d + 1)
  OBVIOUS
<1>5. h[d + 1] \in Int
  BY <1>1, <1>4
<1> QED
  BY <1>1, <1>3, <1>5, SumType, SumAppend

\* What is left of a material: by induction over the days.
LEMMA LeftIs ==
  ASSUME TablesOK, NEW m \in MaterialId, demands[m] \in [Buckets -> Nat]
  PROVE  /\ Left(m)[BucketOf(Start) - 1] = OnHand(m)
         /\ \A d \in BucketOf(Start)..End :
              /\ Left(m)[d - 1] \in Nat /\ Left(m)[d] \in Nat
              /\ Left(m)[d] = IF d \in Buckets THEN LeftAfter(m, Left(m)[d - 1], d)
                              ELSE Left(m)[d - 1]
<1> DEFINE B == BucketOf(Start)
           Goes(x, d) == IF d \in Buckets THEN LeftAfter(m, x, d) ELSE x
           N == End - B + 1
           step == [p \in Nat \X (1..N) |-> Goes(p[1], B - 1 + p[2])]
           start == OnHand(m)
           Solves(s) == s = [d \in (B - 1)..End |-> IF d < B THEN start ELSE Goes(s[d - 1], d)]
<1>1. B \in Nat /\ End \in Nat /\ B <= End /\ N \in Nat
  BY BucketsLie
<1>2. \A d : \A x \in Nat : Goes(x, d) \in Nat
  <2>1. ASSUME NEW x \in Nat, NEW d \in Buckets PROVE LeftAfter(m, x, d) \in Nat
    <3>1. demands[m][d] \in Nat /\ Inbound(m, d) \in Nat
      BY DemandAndSupplyAreNatural
    <3>2. x + Inbound(m, d) - demands[m][d] \in Int
      BY <3>1
    <3> QED
      BY <3>2, AtLeastZeroIs DEF LeftAfter
  <2> QED
    BY <2>1
<1>3. start \in Nat
  BY OnHandIsNatural
<1>4. Left(m) = CHOOSE s : Solves(s)
  BY DEF Left
<1>5. \A d : \A x : Goes(x, d) = IF d \in Buckets THEN LeftAfter(m, x, d) ELSE x
  OBVIOUS
<1> HIDE DEF start, Goes, B
<1>6. step \in [Nat \X (1..N) -> Nat]
  BY <1>2
<1>7. PICK g : Repeats(g, N, Nat, start, step)
  <2> HIDE DEF step, N
  <2> QED
    BY <1>1, <1>3, <1>6, RecursionUpTo
<1>8. g \in [0..N -> Nat] /\ g[0] = start
  BY <1>7 DEF Repeats
<1>9. ASSUME NEW k \in 1..N PROVE g[k] = Goes(g[k - 1], B - 1 + k)
  <2>1. k - 1 \in 0..N
    BY <1>1
  <2>2. <<g[k - 1], k>> \in Nat \X (1..N)
    BY <1>8, <2>1
  <2>3. g[k] = step[<<g[k - 1], k>>]
    BY <1>7 DEF Repeats
  <2> QED
    BY <2>2, <2>3
<1> DEFINE s == [d \in (B - 1)..End |-> g[d - B + 1]]
<1>10. s \in [(B - 1)..End -> Nat]
  BY <1>1, <1>8
<1>11. Solves(s)
  <2>1. ASSUME NEW d \in (B - 1)..End
        PROVE  s[d] = IF d < B THEN start ELSE Goes(s[d - 1], d)
    <3>1. CASE d < B
      <4>1. d = B - 1
        BY <1>1, <3>1
      <4>2. s[d] = g[0]
        BY <1>1, <4>1
      <4> QED
        BY <1>8, <3>1, <4>2
    <3>2. CASE ~ (d < B)
      <4>1. d - B + 1 \in 1..N /\ d - 1 \in (B - 1)..End /\ B - 1 + (d - B + 1) = d
            /\ (d - 1) - B + 1 = (d - B + 1) - 1
        BY <1>1, <3>2
      <4>2. s[d] = g[d - B + 1] /\ s[d - 1] = g[(d - B + 1) - 1]
        BY <4>1
      <4>3. g[d - B + 1] = Goes(g[(d - B + 1) - 1], d)
        BY <1>9, <4>1
      <4> QED
        BY <3>2, <4>2, <4>3
    <3> QED
      BY <3>1, <3>2
  <2> QED
    BY <2>1
<1> HIDE DEF s
<1>12. \A v : Solves(v) => /\ v[B - 1] = start
                           /\ \A d \in B..End : v[d] = Goes(v[d - 1], d)
  <2>1. B - 1 \in (B - 1)..End /\ B - 1 < B
    BY <1>1
  <2>2. \A d \in B..End : d \in (B - 1)..End /\ ~ (d < B)
    BY <1>1
  <2> QED
    BY <2>1, <2>2
<1> DEFINE w == CHOOSE v : Solves(v)
<1>13. Solves(w)
  <2> HIDE DEF Solves
  <2> QED
    BY <1>11
<1>14. Left(m) = w
  BY <1>4
<1> HIDE DEF w, Solves
<1>15. w[B - 1] = start /\ \A d \in B..End : w[d] = Goes(w[d - 1], d)
  BY <1>12, <1>13
<1> DEFINE S == {k \in 0..N : w[B - 1 + k] \in Nat}
<1>16. 0 \in S
  <2>1. B - 1 + 0 = B - 1 /\ 0 \in 0..N
    BY <1>1
  <2> QED
    BY <1>3, <1>15, <2>1
<1>17. ASSUME NEW k \in 0..N, k < N, k \in S PROVE k + 1 \in S
  <2>1. B - 1 + (k + 1) \in B..End /\ (B - 1 + (k + 1)) - 1 = B - 1 + k /\ k + 1 \in 0..N
    BY <1>1, <1>17
  <2>2. w[B - 1 + (k + 1)] = Goes(w[B - 1 + k], B - 1 + (k + 1))
    BY <1>15, <2>1
  <2>3. w[B - 1 + k] \in Nat
    BY <1>17
  <2> QED
    BY <1>2, <2>1, <2>2, <2>3
<1> HIDE DEF S
<1>18. \A k \in 0..N : k \in S
  BY <1>1, <1>16, <1>17, InductionUpTo
<1>19. ASSUME NEW d \in B..End PROVE w[d - 1] \in Nat /\ w[d] \in Nat
  <2>1. d - B \in 0..N /\ d - B + 1 \in 0..N /\ B - 1 + (d - B) = d - 1 /\ B - 1 + (d - B + 1) = d
    BY <1>1
  <2>2. d - B \in S /\ d - B + 1 \in S
    BY <1>18, <2>1
  <2> QED
    BY <2>1, <2>2 DEF S
<1> QED
  BY <1>5, <1>14, <1>15, <1>19 DEF start, B

\* Net requirements cover what was wanted of a material.
Covered(m, wanted, missing) ==
  \A b \in Buckets :
    UpTo(missing, b) = Max({0} \union {UpTo(wanted, c) - SupplyUpTo(m, c) : c \in {c \in Buckets : c <= b}})

LEMMA MaxIs ==
  ASSUME NEW S, S \subseteq Int, NEW x \in S, \A y \in S : y <= x
  PROVE  Max(S) = x
<1> DEFINE P(y) == \A z \in S : y >= z
<1>1. P(x)
  OBVIOUS
<1>2. \A y \in S : P(y) => y = x
  OBVIOUS
<1>3. Max(S) = CHOOSE y \in S : P(y)
  BY DEF Max
<1> HIDE DEF P
<1> QED
  BY <1>1, <1>2, <1>3

\* The greatest of gap up to day d, or 0 if none is greater.
Worst(x, gap, d) ==
  /\ x \in Nat
  /\ \A c \in Buckets : c <= d => x >= gap[c]
  /\ x = 0 \/ \E c \in Buckets : c <= d /\ x = gap[c]

LEMMA NetRequirementsAre ==
  ASSUME TablesOK, NEW m \in MaterialId, demands[m] \in [Buckets -> Nat]
  PROVE  LET missing == [b \in Buckets |-> NetRequirement(m, b)]
         IN  missing \in [Buckets -> Nat] /\ Covered(m, demands[m], missing)
<1> DEFINE B == BucketOf(Start)
           L == Left(m)
           wanted == demands[m]
           inbound == [c \in Buckets |-> Inbound(m, c)]
           missing == [b \in Buckets |-> NetRequirement(m, b)]
           gap == [c \in Buckets |-> UpTo(wanted, c) - SupplyUpTo(m, c)]
           N == End - B + 1
           h == OnHand(m)
<1>1. /\ B \in Nat /\ End \in Nat /\ B <= End /\ N \in Nat
      /\ \A b \in Buckets : b \in B..End
  BY BucketsLie
<1>2. /\ L[B - 1] = h /\ h \in Nat
      /\ \A d \in B..End : L[d - 1] \in Nat /\ L[d] \in Nat
                           /\ L[d] = IF d \in Buckets THEN LeftAfter(m, L[d - 1], d) ELSE L[d - 1]
  BY LeftIs, OnHandIsNatural
<1>3. wanted \in [Buckets -> Nat] /\ inbound \in [Buckets -> Nat]
  BY DemandAndSupplyAreNatural
<1>4. ASSUME NEW b \in Buckets
      PROVE  /\ missing[b] = AtLeastZero(wanted[b] - inbound[b] - L[b - 1])
             /\ LeftAfter(m, L[b - 1], b) = AtLeastZero(L[b - 1] + inbound[b] - wanted[b])
  BY DEF NetRequirement, LeftAfter
<1>5. \A c : SupplyUpTo(m, c) = h + UpTo(inbound, c)
  BY DEF SupplyUpTo
<1> HIDE DEF missing, L, wanted, inbound, h
<1>6. missing \in [Buckets -> Nat]
  <2>1. \A b \in Buckets : missing[b] \in Nat
    <3>1. ASSUME NEW b \in Buckets PROVE missing[b] \in Nat
      <4>1. wanted[b] \in Nat /\ inbound[b] \in Nat /\ L[b - 1] \in Nat
        BY <1>1, <1>2, <1>3
      <4>2. wanted[b] - inbound[b] - L[b - 1] \in Int
        BY <4>1
      <4> QED
        BY <1>4, <4>2, AtLeastZeroIs
    <3> QED
      BY <3>1
  <2> QED
    BY <2>1 DEF missing
<1>7. ASSUME NEW d \in B..End
      PROVE  /\ UpTo(wanted, d - 1) \in Int /\ UpTo(wanted, d) = UpTo(wanted, d - 1) + At(wanted, d)
             /\ UpTo(inbound, d - 1) \in Int /\ UpTo(inbound, d) = UpTo(inbound, d - 1) + At(inbound, d)
             /\ UpTo(missing, d - 1) \in Int /\ UpTo(missing, d) = UpTo(missing, d - 1) + At(missing, d)
             /\ At(wanted, d) \in Int /\ At(inbound, d) \in Int /\ At(missing, d) \in Int
  <2>1. d \in Nat
    BY <1>1
  <2>2. \A f : f \in [Buckets -> Nat] => f \in [Buckets -> Int]
    OBVIOUS
  <2> QED
    BY <1>3, <1>6, <2>1, <2>2, UpToGrows
<1>8. \A c \in Buckets : gap[c] = UpTo(wanted, c) - (h + UpTo(inbound, c)) /\ gap[c] \in Int
  <2>1. ASSUME NEW c \in Buckets PROVE UpTo(wanted, c) \in Int /\ UpTo(inbound, c) \in Int
    BY <1>1, <1>7
  <2> QED
    BY <1>2, <1>5, <2>1
<1> HIDE DEF gap
<1> DEFINE Holds(d) == /\ UpTo(wanted, d) \in Int /\ UpTo(inbound, d) \in Int
                       /\ L[d] = h + UpTo(inbound, d) - UpTo(wanted, d) + UpTo(missing, d)
                       /\ Worst(UpTo(missing, d), gap, d)
           S == {k \in 0..N : Holds(B - 1 + k)}
<1>9. Holds(B - 1)
  <2>1. UpTo(wanted, B - 1) = 0 /\ UpTo(inbound, B - 1) = 0 /\ UpTo(missing, B - 1) = 0
    BY UpToStarts
  <2>2. \A c \in Buckets : ~ (c <= B - 1)
    BY <1>1
  <2>3. Worst(0, gap, B - 1)
    BY <2>2 DEF Worst
  <2> QED
    BY <1>2, <2>1, <2>3
<1>10. ASSUME NEW d \in B..End, Holds(d - 1) PROVE Holds(d)
  <2> DEFINE x == UpTo(missing, d - 1)
             y == UpTo(missing, d)
  <2>1. /\ x \in Nat /\ \A c \in Buckets : c <= d - 1 => x >= gap[c]
        /\ x = 0 \/ \E c \in Buckets : c <= d - 1 /\ x = gap[c]
    BY <1>10 DEF Worst
  <2>2. d \in Int /\ \A c \in Buckets : c \in Int
    BY <1>1
  <2>3. UpTo(wanted, d) \in Int /\ UpTo(inbound, d) \in Int /\ y = x + At(missing, d)
    BY <1>7
  <2>4. L[d - 1] = h + UpTo(inbound, d - 1) - UpTo(wanted, d - 1) + x
    BY <1>10
  <2>5. CASE d \notin Buckets
    <3>1. At(wanted, d) = 0 /\ At(inbound, d) = 0 /\ At(missing, d) = 0 /\ L[d] = L[d - 1]
      BY <1>2, <2>5 DEF At
    <3>2. y = x /\ UpTo(wanted, d) = UpTo(wanted, d - 1) /\ UpTo(inbound, d) = UpTo(inbound, d - 1)
      BY <1>7, <2>1, <2>3, <3>1
    <3>3. \A c \in Buckets : c <= d <=> c <= d - 1
      BY <2>2, <2>5
    <3>4. Worst(y, gap, d)
      BY <2>1, <3>2, <3>3 DEF Worst
    <3> QED
      BY <2>3, <2>4, <3>1, <3>2, <3>4
  <2>6. CASE d \in Buckets
    <3> DEFINE a == wanted[d]
               i == inbound[d]
               left == L[d - 1]
    <3>1. At(wanted, d) = a /\ At(inbound, d) = i /\ At(missing, d) = missing[d]
      BY <2>6 DEF At
    <3>2. /\ a \in Nat /\ i \in Nat /\ left \in Nat
          /\ missing[d] = IF a - i - left < 0 THEN 0 ELSE a - i - left
          /\ L[d] = IF left + i - a < 0 THEN 0 ELSE left + i - a
      BY <1>2, <1>3, <1>4, <2>6 DEF AtLeastZero
    <3>3. /\ UpTo(wanted, d) = UpTo(wanted, d - 1) + a /\ UpTo(wanted, d - 1) \in Int
          /\ UpTo(inbound, d) = UpTo(inbound, d - 1) + i /\ UpTo(inbound, d - 1) \in Int
      BY <1>7, <3>1
    <3>4. gap[d] = UpTo(wanted, d) - (h + UpTo(inbound, d)) /\ gap[d] \in Int
      BY <1>8, <2>6
    <3> HIDE DEF a, i, left
    <3>5. left = h + UpTo(inbound, d - 1) - UpTo(wanted, d - 1) + x
      BY <2>4 DEF left
    <3>6. y = IF gap[d] <= x THEN x ELSE gap[d]
      BY <1>2, <2>1, <2>3, <3>1, <3>2, <3>3, <3>4, <3>5
    <3>7. L[d] = h + UpTo(inbound, d) - UpTo(wanted, d) + y
      BY <1>2, <2>1, <2>3, <3>1, <3>2, <3>3, <3>4, <3>5
    <3>8. \A c \in Buckets : c <= d <=> (c <= d - 1 \/ c = d)
      BY <2>2
    <3> HIDE DEF x, y
    <3>9. Worst(y, gap, d)
      <4>1. y \in Nat /\ y >= x /\ y >= gap[d]
        BY <2>1, <3>4, <3>6
      <4>2. \A c \in Buckets : c <= d => y >= gap[c]
        BY <1>8, <2>1, <3>8, <4>1
      <4>3. y = 0 \/ \E c \in Buckets : c <= d /\ y = gap[c]
        BY <2>1, <2>6, <3>6, <3>8
      <4> QED
        BY <4>1, <4>2, <4>3 DEF Worst
    <3> QED
      BY <2>3, <3>7, <3>9 DEF y
  <2> QED
    BY <2>5, <2>6
<1>11. 0 \in S
  <2>1. B - 1 + 0 = B - 1 /\ 0 \in 0..N
    BY <1>1
  <2> QED
    BY <1>9, <2>1
<1>12. ASSUME NEW k \in 0..N, k < N, k \in S PROVE k + 1 \in S
  <2>1. B - 1 + (k + 1) \in B..End /\ (B - 1 + (k + 1)) - 1 = B - 1 + k /\ k + 1 \in 0..N
    BY <1>1, <1>12
  <2>2. Holds(B - 1 + k)
    BY <1>12
  <2> HIDE DEF Holds
  <2>3. Holds(B - 1 + (k + 1))
    BY <1>10, <2>1, <2>2
  <2> QED
    BY <2>1, <2>3
<1> HIDE DEF S, Holds
<1>13. \A k \in 0..N : k \in S
  BY <1>1, <1>11, <1>12, InductionUpTo
<1>14. ASSUME NEW b \in Buckets
       PROVE  UpTo(missing, b)
                = Max({0} \union {UpTo(wanted, c) - SupplyUpTo(m, c) : c \in {c \in Buckets : c <= b}})
  <2>1. b - B + 1 \in 0..N /\ B - 1 + (b - B + 1) = b
    BY <1>1
  <2>2. b - B + 1 \in S
    BY <1>13, <2>1
  <2>3. Holds(b)
    BY <2>1, <2>2 DEF S
  <2>4. Worst(UpTo(missing, b), gap, b)
    BY <2>3 DEF Holds
  <2> DEFINE x == UpTo(missing, b)
             T == {0} \union {gap[c] : c \in {c \in Buckets : c <= b}}
  <2>5. T \subseteq Int /\ x \in T /\ \A y \in T : y <= x
    BY <1>8, <2>4 DEF Worst
  <2> HIDE DEF T, x
  <2>6. Max(T) = x
    BY <2>5, MaxIs
  <2>7. T = {0} \union {UpTo(wanted, c) - SupplyUpTo(m, c) : c \in {c \in Buckets : c <= b}}
    <3>1. \A c \in Buckets : gap[c] = UpTo(wanted, c) - SupplyUpTo(m, c)
      BY DEF gap
    <3> QED
      BY <3>1 DEF T
  <2> QED
    BY <2>6, <2>7 DEF x
<1> QED
  BY <1>6, <1>14 DEF Covered, missing, wanted

(***************************************************************************)
(* Netting: what materials reach by their bills.                           *)
(***************************************************************************)

Roots == {sales[i].material : i \in DemandRows}

LEMMA TablesAre ==
  ASSUME TablesOK
  PROVE  /\ MaterialCount \in Nat /\ MaxLevel \in Nat
         /\ Len(sales) \in Nat /\ DemandRows \subseteq 1..Len(sales)
         /\ \A i \in 1..Len(sales) : sales[i].material \in MaterialId
         /\ Roots \subseteq MaterialId
         /\ \A m \in MaterialId : Len(bill[m]) \in Nat /\ \A k \in 1..Len(bill[m]) : bill[m][k] \in BillLine
         /\ \A m \in MaterialId : ChildrenOf(m) \subseteq MaterialId
<1>1. MaterialCount \in Nat /\ MaxLevel \in Nat
  BY NettingSizes
<1>2. Len(sales) \in Nat /\ \A i \in 1..Len(sales) : sales[i] \in SalesLine
  BY LenProperties, ElementOfSeq DEF TablesOK
<1>3. \A i \in 1..Len(sales) : sales[i].material \in MaterialId
  BY <1>2 DEF SalesLine
<1>4. DemandRows \subseteq 1..Len(sales)
  BY DEF DemandRows
<1>5. ASSUME NEW m \in MaterialId
      PROVE  Len(bill[m]) \in Nat /\ \A k \in 1..Len(bill[m]) : bill[m][k] \in BillLine
  <2>1. bill[m] \in Seq(BillLine)
    BY DEF TablesOK, Bill
  <2> QED
    BY <2>1, LenProperties, ElementOfSeq
<1>6. ASSUME NEW m \in MaterialId PROVE ChildrenOf(m) \subseteq MaterialId
  BY <1>5 DEF ChildrenOf, BillLine
<1> QED
  BY <1>1, <1>2, <1>3, <1>4, <1>5, <1>6 DEF Roots

Depths == MaterialCount + MaxLevel + 1

LEMMA LayerIs ==
  ASSUME TablesOK
  PROVE  /\ Depths \in Nat
         /\ Layer[0] = Roots
         /\ \A k \in 1..Depths : Layer[k] = UNION {ChildrenOf(m) : m \in Layer[k - 1]}
<1> DEFINE Further(S) == UNION {ChildrenOf(m) : m \in S}
           step == [p \in (SUBSET MaterialId) \X (1..Depths) |-> Further(p[1])]
           Solves(s) == s = [k \in 0..Depths |-> IF k = 0 THEN Roots ELSE Further(s[k - 1])]
<1>1. Depths \in Nat /\ Roots \in SUBSET MaterialId
  BY TablesAre DEF Depths
<1>2. \A S \in SUBSET MaterialId : Further(S) \in SUBSET MaterialId
  BY TablesAre
<1>3. Layer = CHOOSE s : Solves(s)
  BY DEF Layer, Depths, Roots
<1>4. \A S : Further(S) = UNION {ChildrenOf(m) : m \in S}
  OBVIOUS
<1> HIDE DEF Further
<1>5. step \in [(SUBSET MaterialId) \X (1..Depths) -> SUBSET MaterialId]
  BY <1>2
<1>6. PICK g : Repeats(g, Depths, SUBSET MaterialId, Roots, step)
  <2> HIDE DEF step
  <2> QED
    BY <1>1, <1>5, RecursionUpTo
<1>7. g \in [0..Depths -> SUBSET MaterialId] /\ g[0] = Roots
  BY <1>6 DEF Repeats
<1>8. ASSUME NEW k \in 1..Depths PROVE g[k] = Further(g[k - 1])
  <2>1. k - 1 \in 0..Depths
    BY <1>1
  <2>2. <<g[k - 1], k>> \in (SUBSET MaterialId) \X (1..Depths)
    BY <1>7, <2>1
  <2>3. g[k] = step[<<g[k - 1], k>>]
    BY <1>6 DEF Repeats
  <2> QED
    BY <2>2, <2>3
<1>9. Solves(g)
  <2>1. \A k \in 0..Depths : k # 0 => k \in 1..Depths
    BY <1>1
  <2> QED
    BY <1>7, <1>8, <2>1
<1>10. \A s : Solves(s) => s[0] = Roots /\ \A k \in 1..Depths : s[k] = Further(s[k - 1])
  BY <1>1
<1> HIDE DEF Solves
<1> QED
  BY <1>1, <1>3, <1>4, <1>9, <1>10

\* A set of materials that has the roots and what its bills name has all there is.
LEMMA ReachedIsClosed ==
  ASSUME TablesOK, NEW S, Roots \subseteq S, \A m \in S : ChildrenOf(m) \subseteq S
  PROVE  Reached \subseteq S
<1> DEFINE T == {k \in 0..Depths : Layer[k] \subseteq S}
<1>1. Depths \in Nat
  BY LayerIs
<1>2. 0 \in T
  BY <1>1, LayerIs
<1>3. ASSUME NEW k \in 0..Depths, k < Depths, k \in T PROVE k + 1 \in T
  <2>1. k + 1 \in 1..Depths /\ (k + 1) - 1 = k /\ k + 1 \in 0..Depths
    BY <1>1, <1>3
  <2>2. Layer[k + 1] = UNION {ChildrenOf(m) : m \in Layer[k]}
    BY <2>1, LayerIs
  <2>3. Layer[k] \subseteq S
    BY <1>3
  <2> QED
    BY <2>1, <2>2, <2>3
<1> HIDE DEF T
<1>4. \A k \in 0..Depths : k \in T
  BY <1>1, <1>2, <1>3, InductionUpTo
<1>5. \A k \in 0..(MaterialCount - 1) : k \in 0..Depths
  BY TablesAre DEF Depths
<1> QED
  BY <1>4, <1>5 DEF Reached, T

\* The sets Below is computed from.
Descends(b, m) ==
  /\ b[0] = ChildrenOf(m)
  /\ \A k \in 1..MaterialCount : b[k] = b[k - 1] \union UNION {ChildrenOf(n) : n \in b[k - 1]}

LEMMA BelowIs ==
  ASSUME TablesOK, NEW m \in MaterialId
  PROVE  \E b : Descends(b, m) /\ Below(m) = b[MaterialCount]
<1> DEFINE N == MaterialCount
           start == ChildrenOf(m)
           Further(S) == S \union UNION {ChildrenOf(n) : n \in S}
           step == [p \in (SUBSET MaterialId) \X (1..N) |-> Further(p[1])]
           Solves(s) == s = [k \in 0..N |-> IF k = 0 THEN start ELSE Further(s[k - 1])]
<1>1. N \in Nat /\ start \in SUBSET MaterialId
  BY TablesAre
<1>2. \A S \in SUBSET MaterialId : Further(S) \in SUBSET MaterialId
  BY TablesAre
<1>3. Below(m) = (CHOOSE s : Solves(s))[N]
  BY DEF Below
<1>4. \A S : Further(S) = S \union UNION {ChildrenOf(n) : n \in S}
  OBVIOUS
<1> HIDE DEF Further, N, start
<1>5. step \in [(SUBSET MaterialId) \X (1..N) -> SUBSET MaterialId]
  BY <1>2
<1>6. PICK g : Repeats(g, N, SUBSET MaterialId, start, step)
  <2> HIDE DEF step
  <2> QED
    BY <1>1, <1>5, RecursionUpTo
<1>7. g \in [0..N -> SUBSET MaterialId] /\ g[0] = start
  BY <1>6 DEF Repeats
<1>8. ASSUME NEW k \in 1..N PROVE g[k] = Further(g[k - 1])
  <2>1. k - 1 \in 0..N
    BY <1>1
  <2>2. <<g[k - 1], k>> \in (SUBSET MaterialId) \X (1..N)
    BY <1>7, <2>1
  <2>3. g[k] = step[<<g[k - 1], k>>]
    BY <1>6 DEF Repeats
  <2> QED
    BY <2>2, <2>3
<1>9. Solves(g)
  <2>1. \A k \in 0..N : k # 0 => k \in 1..N
    BY <1>1
  <2> QED
    BY <1>7, <1>8, <2>1
<1>10. \A s : Solves(s) => s[0] = start /\ \A k \in 1..N : s[k] = Further(s[k - 1])
  BY <1>1
<1> DEFINE w == CHOOSE v : Solves(v)
<1>11. Solves(w)
  <2> HIDE DEF Solves
  <2> QED
    BY <1>9
<1> HIDE DEF w, Solves
<1>12. Below(m) = w[N] /\ w[0] = start /\ \A k \in 1..N : w[k] = Further(w[k - 1])
  BY <1>3, <1>10, <1>11 DEF w
<1>13. Descends(w, m)
  BY <1>4, <1>12 DEF Descends, N, start
<1> QED
  BY <1>12, <1>13 DEF N

\* MaterialId in an order in which all that each one's bill names comes before it.
Ordered(S, rank, top) ==
  \A m \in S : /\ rank[m] < top
               /\ \A n \in ChildrenOf(m) : n \in S /\ rank[n] < rank[m]
Ranked(S) == \E rank \in [MaterialId -> Nat], top \in Nat : Ordered(S, rank, top)

LEMMA RankedHasNoCycle ==
  ASSUME TablesOK, NEW S, S \subseteq MaterialId, Ranked(S), NEW m \in S
  PROVE  m \notin Below(m)
<1>1. PICK rank \in [MaterialId -> Nat], top \in Nat : Ordered(S, rank, top)
  BY DEF Ranked
<1>2. PICK b : Descends(b, m) /\ Below(m) = b[MaterialCount]
  BY BelowIs
<1> DEFINE T == {k \in 0..MaterialCount : \A n \in b[k] : n \in S /\ rank[n] < rank[m]}
<1>3. MaterialCount \in Nat
  BY TablesAre
<1>4. 0 \in T
  BY <1>1, <1>2, <1>3 DEF Descends, Ordered
<1>5. ASSUME NEW k \in 0..MaterialCount, k < MaterialCount, k \in T PROVE k + 1 \in T
  <2>1. k + 1 \in 1..MaterialCount /\ (k + 1) - 1 = k /\ k + 1 \in 0..MaterialCount
    <3> HIDE DEF T
    <3> QED
      BY <1>3, <1>5
  <2>2. b[k + 1] = b[k] \union UNION {ChildrenOf(n) : n \in b[k]}
    BY <1>2, <2>1 DEF Descends
  <2>3. \A n \in b[k] : n \in S /\ rank[n] < rank[m]
    BY <1>5
  <2>4. ASSUME NEW n \in b[k + 1] PROVE n \in S /\ rank[n] < rank[m]
    <3>1. CASE n \in b[k]
      BY <2>3, <3>1
    <3>2. CASE n \notin b[k]
      <4>1. PICK p \in b[k] : n \in ChildrenOf(p)
        BY <2>2, <3>2
      <4>2. n \in S /\ p \in S /\ rank[n] < rank[p] /\ rank[p] < rank[m]
        BY <1>1, <2>3, <4>1 DEF Ordered
      <4>3. rank[n] \in Nat /\ rank[p] \in Nat /\ rank[m] \in Nat
        BY <4>2
      <4> QED
        BY <4>2, <4>3
    <3> QED
      BY <3>1, <3>2
  <2> QED
    BY <2>1, <2>4
<1> HIDE DEF T
<1>6. MaterialCount \in T
  <2>1. \A k \in 0..MaterialCount : k \in T
    BY <1>3, <1>4, <1>5, InductionUpTo
  <2> QED
    BY <1>3, <2>1
<1>7. m \in Below(m) => rank[m] < rank[m]
  BY <1>2, <1>6 DEF T
<1>8. rank[m] \in Nat
  OBVIOUS
<1> QED
  BY <1>7, <1>8

\* One that a chain of bills leads to is below where the chain starts.
LEMMA ChainsLeadBelow ==
  ASSUME TablesOK, NEW l \in 1..(MaterialCount + 1), NEW c \in [0..l -> MaterialId],
         \A i \in 1..l : c[i] \in ChildrenOf(c[i - 1])
  PROVE  c[l] \in Below(c[0])
<1>1. MaterialCount \in Nat
  BY TablesAre
<1>2. c[0] \in MaterialId /\ l \in Nat
  BY <1>1
<1>3. PICK b : Descends(b, c[0]) /\ Below(c[0]) = b[MaterialCount]
  BY <1>2, BelowIs
<1> DEFINE T == {k \in 0..MaterialCount : \A i \in 1..l : i <= k + 1 => c[i] \in b[k]}
<1>4. 0 \in T
  <2>1. ASSUME NEW i \in 1..l, i <= 0 + 1 PROVE c[i] \in b[0]
    <3>1. i = 1 /\ i - 1 = 0
      BY <1>2, <2>1
    <3> QED
      BY <1>3, <3>1 DEF Descends
  <2>2. \A i \in 1..l : i <= 0 + 1 => c[i] \in b[0]
    BY <2>1
  <2>3. 0 \in 0..MaterialCount
    BY <1>1
  <2> QED
    BY <2>2, <2>3
<1>5. ASSUME NEW k \in 0..MaterialCount, k < MaterialCount, k \in T PROVE k + 1 \in T
  <2>1. k + 1 \in 1..MaterialCount /\ (k + 1) - 1 = k /\ k + 1 \in 0..MaterialCount
    <3> HIDE DEF T
    <3> QED
      BY <1>1, <1>5
  <2>2. b[k + 1] = b[k] \union UNION {ChildrenOf(n) : n \in b[k]}
    BY <1>3, <2>1 DEF Descends
  <2>3. \A i \in 1..l : i <= k + 1 => c[i] \in b[k]
    BY <1>5
  <2>4. ASSUME NEW i \in 1..l, i <= (k + 1) + 1 PROVE c[i] \in b[k + 1]
    <3>1. CASE i <= k + 1
      BY <2>2, <2>3, <3>1
    <3>2. CASE ~ (i <= k + 1)
      <4>1. i - 1 \in 1..l /\ i - 1 <= k + 1
        BY <1>2, <2>1, <2>4, <3>2
      <4>2. c[i - 1] \in b[k]
        BY <2>3, <4>1
      <4>3. c[i] \in ChildrenOf(c[i - 1])
        OBVIOUS
      <4> QED
        BY <2>2, <4>2, <4>3
    <3> QED
      BY <3>1, <3>2
  <2> QED
    BY <2>1, <2>4
<1> HIDE DEF T
<1>6. MaterialCount \in T
  <2>1. \A k \in 0..MaterialCount : k \in T
    BY <1>1, <1>4, <1>5, InductionUpTo
  <2> QED
    BY <1>1, <2>1
<1>7. l \in 1..l /\ l <= MaterialCount + 1
  BY <1>1
<1> QED
  BY <1>3, <1>6, <1>7 DEF T

\* The tables do not change, nor does what is computed from them.
LEMMA TablesStay ==
  ASSUME UNCHANGED tables
  PROVE  /\ DemandRows' = DemandRows /\ Layer' = Layer /\ Reached' = Reached
         /\ (TablesOK' <=> TablesOK)
         /\ \A m : ChildrenOf(m)' = ChildrenOf(m)
         /\ \A m : Below(m)' = Below(m)
<1>1. bill' = bill /\ sales' = sales /\ purchases' = purchases /\ work' = work /\ stock' = stock
  BY DEF tables
<1>2. DemandRows' = DemandRows
  BY <1>1 DEF DemandRows, SalesCount, SalesOpen, InHorizon
<1>3. Layer' = Layer
  BY <1>1, SMT DEF Layer, ChildrenOf, DemandRows, SalesCount, SalesOpen, InHorizon
<1>4. Reached' = Reached
  BY <1>3 DEF Reached
<1>5. TablesOK' <=> TablesOK
  BY <1>1 DEF TablesOK
<1>6. \A m : ChildrenOf(m)' = ChildrenOf(m)
  BY <1>1 DEF ChildrenOf
<1>7. \A m : Below(m)' = Below(m)
  BY <1>1, SMT DEF Below, ChildrenOf
<1> QED
  BY <1>2, <1>3, <1>4, <1>5, <1>6, <1>7

(***************************************************************************)
(* Netting: the walk down the bills.                                       *)
(***************************************************************************)

\* The materials whose calls of walk are in progress.
On(stk) == {stk[k].material : k \in 1..Len(stk)}

\* Of the lines a call has begun, the last one is the call above it.
LinesDone(stk, k) == IF k < Len(stk) THEN stk[k].next - 2 ELSE stk[k].next - 1

\* One call in progress: how deep it is, and what became of the lines it has begun.
Walking(stk, sn, k) ==
  LET m == stk[k].material IN
  /\ m \in sn /\ stk[k].depth = k - 1 /\ k - 1 <= MaxLevel /\ m \in Layer[k - 1]
  /\ stk[k].next <= Len(bill[m]) + 1
  /\ \A j \in 1..LinesDone(stk, k) : bill[m][j].child \in sn \ On(stk)
  /\ k < Len(stk) => stk[k].next >= 2 /\ bill[m][stk[k].next - 1].child = stk[k + 1].material

Distinct(stk) ==
  \A j, k \in 1..Len(stk) : stk[j].material = stk[k].material => j = k

\* Low-level codes, and the materials that have been met.
Codes(lv) == lv \in [MaterialId -> -1..MaxLevel]
Met(lv) == {n \in MaterialId : lv[n] >= 0}

Walk(stk, sn, lv, wk) ==
  /\ stk \in Seq(Frame) /\ wk \in Nat /\ Codes(lv) /\ sn = Met(lv)
  /\ sn \subseteq Reached
  /\ \A k \in 1..Len(stk) : Walking(stk, sn, k)
  /\ Distinct(stk)
  /\ Ranked(sn \ On(stk))
  /\ \A k \in DemandRows : k <= wk => sales[k].material \in sn

LEMMA FramesAre ==
  ASSUME NEW stk \in Seq(Frame)
  PROVE  /\ Len(stk) \in Nat
         /\ \A k \in 1..Len(stk) :
              /\ stk[k] \in Frame /\ stk[k].material \in MaterialId
              /\ stk[k].next \in Nat /\ stk[k].next >= 1
<1>1. Len(stk) \in Nat /\ \A k \in 1..Len(stk) : stk[k] \in Frame
  BY LenProperties, ElementOfSeq
<1> QED
  BY <1>1 DEF Frame

\* No more calls are in progress than there are materials.
LEMMA StackIsShort ==
  ASSUME TablesOK, NEW stk \in Seq(Frame), Distinct(stk)
  PROVE  Len(stk) <= MaterialCount
<1> DEFINE f == [k \in 1..Len(stk) |-> stk[k].material]
<1>1. Len(stk) \in Nat /\ MaterialCount \in Nat
  BY FramesAre, TablesAre
<1>2. f \in Injection(1..Len(stk), MaterialId)
  BY FramesAre DEF Distinct, Injection, IsInjective
<1> HIDE DEF f
<1>3. \A n \in Nat : IsFiniteSet(1..n) /\ Cardinality(1..n) = n
  <2>1. ASSUME NEW n \in Nat PROVE IsFiniteSet(1..n) /\ Cardinality(1..n) = n
    BY FS_Interval
  <2> QED
    BY <2>1
<1>4. IsFiniteSet(MaterialId)
  BY <1>1, <1>3 DEF MaterialId
<1>5. Cardinality(1..Len(stk)) <= Cardinality(MaterialId)
  BY <1>2, <1>4, FS_Injection
<1> QED
  BY <1>1, <1>3, <1>5 DEF MaterialId

\* The code of a material that is entered: those met so far, and it.
Entered(lv, m, depth) == [lv EXCEPT ![m] = IF depth > @ THEN depth ELSE @]

LEMMA EnteredLevel ==
  ASSUME TablesOK, NEW lv, Codes(lv), NEW m \in MaterialId, NEW depth \in Nat, depth <= MaxLevel
  PROVE  Codes(Entered(lv, m, depth)) /\ Met(Entered(lv, m, depth)) = Met(lv) \union {m}
<1> DEFINE top == IF depth > lv[m] THEN depth ELSE lv[m]
           after == [lv EXCEPT ![m] = top]
<1>1. MaxLevel \in Nat /\ lv[m] \in -1..MaxLevel
  BY TablesAre DEF Codes
<1>2. top \in -1..MaxLevel /\ top >= 0
  BY <1>1
<1> HIDE DEF top
<1>3. after \in [MaterialId -> -1..MaxLevel] /\ after[m] = top
      /\ \A n \in MaterialId : n # m => after[n] = lv[n]
  BY <1>2 DEF Codes
<1> HIDE DEF after
<1>4. Met(after) = Met(lv) \union {m}
  BY <1>2, <1>3 DEF Met
<1> QED
  BY <1>3, <1>4 DEF after, top, Entered, Codes

LEMMA WalkIs ==
  ASSUME TablesOK, NEW stk, NEW sn, NEW lv, NEW wk, Walk(stk, sn, lv, wk)
  PROVE  /\ Len(stk) \in Nat /\ Len(stk) <= MaterialCount /\ Len(stk) <= MaxLevel + 1
         /\ sn \subseteq MaterialId
         /\ On(stk) \subseteq sn
<1>1. stk \in Seq(Frame) /\ Len(stk) \in Nat
  BY FramesAre DEF Walk
<1>2. Len(stk) <= MaterialCount
  BY StackIsShort DEF Walk
<1>3. Len(stk) <= MaxLevel + 1
  <2>1. CASE Len(stk) = 0
    BY <2>1, TablesAre
  <2>2. CASE Len(stk) # 0
    <3>1. Len(stk) \in 1..Len(stk)
      BY <1>1, <2>2
    <3>2. Len(stk) - 1 <= MaxLevel
      BY <3>1 DEF Walk, Walking
    <3> QED
      BY <1>1, <3>2, TablesAre
  <2> QED
    BY <2>1, <2>2
<1>4. sn \subseteq MaterialId
  BY DEF Walk, Met
<1>5. On(stk) \subseteq sn
  BY DEF Walk, Walking, On
<1> QED
  BY <1>1, <1>2, <1>3, <1>4, <1>5

\* A material in the first layers is reached.
LEMMA LayersAreReached ==
  ASSUME TablesOK, NEW k \in Nat, k < MaterialCount, NEW m \in Layer[k]
  PROVE  m \in Reached
<1>1. k \in 0..(MaterialCount - 1)
  BY TablesAre
<1> QED
  BY <1>1 DEF Reached

\* A demand row's material, new or known.
LEMMA RootIsWalked ==
  ASSUME TablesOK, NEW sn, NEW lv, NEW wk, Walk(<<>>, sn, lv, wk),
         NEW k \in DemandRows, \A j \in DemandRows : j > wk => k <= j, NEW m, m = sales[k].material,
         NEW new, new = IF m \in sn THEN <<>>
                        ELSE Append(<<>>, [material |-> m, depth |-> 0, next |-> 1])
  PROVE  Walk(new, sn \union {m}, Entered(lv, m, 0), k)
<1> DEFINE after == Entered(lv, m, 0)
           frame == [material |-> m, depth |-> 0, next |-> 1]
<1>1. /\ m \in MaterialId /\ m \in Roots /\ k \in Nat /\ MaterialCount \in Nat /\ MaxLevel \in Nat
      /\ DemandRows \subseteq Nat
  BY TablesAre DEF Roots
<1>2. Codes(lv) /\ sn = Met(lv) /\ wk \in Nat /\ sn \subseteq Reached
  BY DEF Walk
<1>3. Codes(after) /\ sn \union {m} = Met(after)
  <2>1. 0 \in Nat /\ 0 <= MaxLevel
    BY <1>1
  <2> QED
    BY <1>1, <1>2, <2>1, EnteredLevel
<1>4. m \in Layer[0] /\ m \in Reached
  <2>1. m \in Layer[0]
    BY <1>1, LayerIs
  <2>2. 0 < MaterialCount
    BY <1>1 DEF MaterialId
  <2> QED
    BY <2>1, <2>2, LayersAreReached
<1>5. \A j \in DemandRows : j <= k => sales[j].material \in sn \union {m}
  <2>1. ASSUME NEW j \in DemandRows, j <= k PROVE sales[j].material \in sn \union {m}
    <3>1. CASE j <= wk
      BY <3>1 DEF Walk
    <3>2. CASE ~ (j <= wk)
      <4>1. k <= j
        BY <1>1, <1>2, <3>2
      <4>2. j = k
        BY <1>1, <2>1, <4>1
      <4> QED
        BY <4>2
    <3> QED
      BY <3>1, <3>2
  <2> QED
    BY <2>1
<1> HIDE DEF after, frame
<1>6. On(<<>>) = {} /\ Len(<<>>) = 0
  BY DEF On
<1>7. CASE m \in sn
  <2>1. new = <<>> /\ sn \union {m} = sn
    BY <1>7
  <2>2. Ranked(sn \ On(<<>>)) /\ <<>> \in Seq(Frame)
    BY DEF Walk
  <2>3. Distinct(<<>>) /\ \A j \in 1..Len(<<>>) : Walking(<<>>, sn, j)
    BY <1>6 DEF Distinct
  <2> QED
    BY <1>1, <1>2, <1>3, <1>5, <2>1, <2>2, <2>3 DEF Walk, after
<1>8. CASE m \notin sn
  <2>1. new = Append(<<>>, frame)
    BY <1>8 DEF frame
  <2>2. frame \in Frame /\ frame.material = m /\ frame.depth = 0 /\ frame.next = 1
    BY <1>1 DEF Frame, frame
  <2>3. new \in Seq(Frame) /\ Len(new) = 1 /\ new[1] = frame
    <3>1. <<>> \in Seq(Frame)
      BY DEF Walk
    <3>2. /\ Append(<<>>, frame) \in Seq(Frame)
          /\ Len(Append(<<>>, frame)) = Len(<<>>) + 1
          /\ Append(<<>>, frame)[Len(<<>>) + 1] = frame
      <4> HIDE DEF frame
      <4> QED
        BY <2>2, <3>1, AppendProperties
    <3> QED
      BY <1>6, <2>1, <3>2
  <2>4. On(new) = {m}
    BY <2>2, <2>3 DEF On
  <2>5. (sn \union {m}) \ On(new) = sn \ On(<<>>)
    BY <1>6, <1>8, <2>4
  <2>6. Ranked((sn \union {m}) \ On(new))
    BY <2>5 DEF Walk
  <2>7. Len(bill[m]) \in Nat
    BY <1>1, TablesAre
  <2>8. Walking(new, sn \union {m}, 1)
    BY <1>1, <1>4, <2>2, <2>3, <2>7 DEF Walking, LinesDone
  <2>9. Distinct(new) /\ \A j \in 1..Len(new) : Walking(new, sn \union {m}, j)
    BY <2>3, <2>8 DEF Distinct
  <2> QED
    BY <1>1, <1>2, <1>3, <1>4, <1>5, <2>3, <2>6, <2>9 DEF Walk, after
<1> QED
  BY <1>7, <1>8

\* What the line that is walked next names.
LEMMA NextLine ==
  ASSUME TablesOK, NEW stk, NEW sn, NEW lv, NEW wk, Walk(stk, sn, lv, wk), stk # <<>>,
         stk[Len(stk)].next <= Len(bill[stk[Len(stk)].material])
  PROVE  LET L == Len(stk)
             m == stk[L].material
             c == bill[m][stk[L].next].child
         IN  /\ L \in Nat /\ L >= 1 /\ stk[L] \in Frame
             /\ m \in MaterialId /\ c \in ChildrenOf(m) /\ c \in MaterialId /\ c \in Layer[L]
<1> DEFINE L == Len(stk)
           m == stk[L].material
           i == stk[L].next
           c == bill[m][i].child
<1>1. stk \in Seq(Frame) /\ L \in Nat /\ L >= 1 /\ L <= MaxLevel + 1
  <2>1. stk \in Seq(Frame)
    BY DEF Walk
  <2> QED
    BY <2>1, WalkIs, EmptySeq
<1>2. L \in 1..L
  BY <1>1
<1>3. stk[L] \in Frame /\ m \in MaterialId /\ i \in Nat /\ i >= 1
  BY <1>1, <1>2, FramesAre
<1>4. m \in Layer[L - 1]
  BY <1>2 DEF Walk, Walking
<1> HIDE DEF m
<1>5. Len(bill[m]) \in Nat /\ i <= Len(bill[m])
  BY <1>3, TablesAre DEF m
<1>6. i \in 1..Len(bill[m])
  BY <1>3, <1>5
<1>7. c \in ChildrenOf(m)
  BY <1>6 DEF ChildrenOf
<1>8. c \in MaterialId
  BY <1>3, <1>7, TablesAre
<1> HIDE DEF c, L
<1>9. L \in 1..Depths
  BY <1>1, TablesAre DEF Depths
<1>10. c \in Layer[L]
  BY <1>4, <1>7, <1>9, LayerIs
<1> QED
  BY <1>1, <1>3, <1>7, <1>8, <1>10 DEF m, c, L

\* The stack when the call at its top begins its next line.
Turned(stk) == [stk EXCEPT ![Len(stk)].next = @ + 1]

LEMMA TurnedIs ==
  ASSUME NEW stk \in Seq(Frame), Len(stk) >= 1
  PROVE  /\ Turned(stk) \in Seq(Frame) /\ Len(Turned(stk)) = Len(stk)
         /\ \A k \in 1..Len(stk) :
              /\ Turned(stk)[k].material = stk[k].material /\ Turned(stk)[k].depth = stk[k].depth
              /\ Turned(stk)[k].next = IF k = Len(stk) THEN stk[k].next + 1 ELSE stk[k].next
         /\ On(Turned(stk)) = On(stk)
<1> DEFINE L == Len(stk)
           frame == [stk[L] EXCEPT !.next = @ + 1]
<1>1. L \in 1..L /\ L \in Nat
  BY FramesAre
<1>2. stk[L] \in Frame /\ stk[L].next \in Nat
  BY <1>1, FramesAre
<1>3. frame \in Frame /\ frame.material = stk[L].material /\ frame.depth = stk[L].depth
      /\ frame.next = stk[L].next + 1
  BY <1>2 DEF Frame
<1> HIDE DEF frame
<1>4. Turned(stk) = [stk EXCEPT ![L] = frame]
  BY <1>1 DEF Turned, frame
<1>5. /\ Turned(stk) \in Seq(Frame) /\ Len(Turned(stk)) = L
      /\ \A k \in 1..L : Turned(stk)[k] = IF k = L THEN frame ELSE stk[k]
  BY <1>1, <1>3, <1>4, ExceptSeq
<1>6. \A k \in 1..L : /\ Turned(stk)[k].material = stk[k].material
                      /\ Turned(stk)[k].depth = stk[k].depth
                      /\ Turned(stk)[k].next = IF k = L THEN stk[k].next + 1 ELSE stk[k].next
  BY <1>3, <1>5
<1>7. On(Turned(stk)) = On(stk)
  BY <1>5, <1>6 DEF On
<1> QED
  BY <1>5, <1>6, <1>7

\* A line that names a known material.
LEMMA KnownLineIsWalked ==
  ASSUME TablesOK, NEW stk, NEW sn, NEW lv, NEW wk, Walk(stk, sn, lv, wk), stk # <<>>,
         stk[Len(stk)].next <= Len(bill[stk[Len(stk)].material]),
         NEW c, c = bill[stk[Len(stk)].material][stk[Len(stk)].next].child,
         c \in sn, c \notin On(stk),
         NEW depth \in Nat, depth <= MaxLevel
  PROVE  Walk(Turned(stk), sn, Entered(lv, c, depth), wk)
<1> DEFINE L == Len(stk)
           after == Entered(lv, c, depth)
           new == Turned(stk)
<1>1. L \in Nat /\ L >= 1 /\ c \in MaterialId
  BY NextLine
<1>2. /\ stk \in Seq(Frame) /\ Codes(lv) /\ wk \in Nat
      /\ sn = Met(lv) /\ sn \subseteq Reached
  BY DEF Walk
<1>3. Codes(after) /\ sn = Met(after)
  <2>1. Codes(after) /\ Met(after) = Met(lv) \union {c}
    BY <1>1, <1>2, EnteredLevel
  <2> QED
    BY <1>2, <2>1
<1> HIDE DEF after
<1>4. /\ new \in Seq(Frame) /\ Len(new) = L /\ On(new) = On(stk)
      /\ \A k \in 1..L : /\ new[k].material = stk[k].material /\ new[k].depth = stk[k].depth
                         /\ new[k].next = IF k = L THEN stk[k].next + 1 ELSE stk[k].next
  BY <1>1, <1>2, TurnedIs
<1> HIDE DEF new
<1>5. Distinct(new)
  BY <1>4 DEF Walk, Distinct
<1>6. Ranked(sn \ On(new))
  BY <1>4 DEF Walk
<1>7. ASSUME NEW k \in 1..L PROVE Walking(new, sn, k)
  <2> DEFINE m == stk[k].material
  <2>1. /\ m \in sn /\ stk[k].depth = k - 1 /\ k - 1 <= MaxLevel /\ m \in Layer[k - 1]
        /\ stk[k].next <= Len(bill[m]) + 1
        /\ \A j \in 1..LinesDone(stk, k) : bill[m][j].child \in sn \ On(stk)
        /\ k < L => stk[k].next >= 2 /\ bill[m][stk[k].next - 1].child = stk[k + 1].material
    BY DEF Walk, Walking
  <2>2. m \in MaterialId /\ stk[k].next \in Nat /\ Len(bill[m]) \in Nat
    BY <1>2, FramesAre, TablesAre
  <2>3. new[k].material = m /\ new[k].depth = k - 1
    BY <1>4, <2>1
  <2>4. CASE k < L
    <3>1. new[k].next = stk[k].next /\ k + 1 \in 1..L
      BY <1>1, <1>4, <2>4
    <3>2. new[k + 1].material = stk[k + 1].material /\ LinesDone(new, k) = LinesDone(stk, k)
      BY <1>4, <3>1 DEF LinesDone
    <3> HIDE DEF m
    <3> QED
      BY <1>4, <2>1, <2>3, <2>4, <3>1, <3>2 DEF Walking
  <2>5. CASE k = L
    <3>1. new[k].next = stk[k].next + 1 /\ stk[k].next <= Len(bill[m])
          /\ c = bill[m][stk[k].next].child
      BY <1>4, <2>5
    <3>2. LinesDone(new, k) = stk[k].next /\ LinesDone(stk, k) = stk[k].next - 1
      BY <1>1, <1>4, <2>2, <2>5, <3>1 DEF LinesDone
    <3> HIDE DEF m
    <3>3. \A j \in 1..LinesDone(new, k) : bill[m][j].child \in sn \ On(new)
      <4>1. ASSUME NEW j \in 1..LinesDone(new, k) PROVE bill[m][j].child \in sn \ On(new)
        <5>1. j \in 1..LinesDone(stk, k) \/ j = stk[k].next
          BY <2>2, <3>2
        <5> QED
          BY <1>4, <2>1, <3>1, <5>1
      <4> QED
        BY <4>1
    <3>4. new[k].next <= Len(bill[m]) + 1 /\ ~ (k < L)
      BY <2>2, <2>5, <3>1
    <3> QED
      BY <1>4, <2>1, <2>3, <3>3, <3>4 DEF Walking
  <2> QED
    BY <1>1, <2>4, <2>5
<1>8. \A k \in DemandRows : k <= wk => sales[k].material \in sn
  BY DEF Walk
<1> QED
  BY <1>2, <1>3, <1>4, <1>5, <1>6, <1>7, <1>8 DEF Walk, new, after

\* A line that names a new material, which is entered.
LEMMA NewLineIsWalked ==
  ASSUME TablesOK, NEW stk, NEW sn, NEW lv, NEW wk, Walk(stk, sn, lv, wk), stk # <<>>,
         stk[Len(stk)].next <= Len(bill[stk[Len(stk)].material]),
         NEW c, c = bill[stk[Len(stk)].material][stk[Len(stk)].next].child,
         c \notin sn,
         NEW depth, depth = stk[Len(stk)].depth + 1, depth <= MaxLevel
  PROVE  Walk(Append(Turned(stk), [material |-> c, depth |-> depth, next |-> 1]), sn \union {c},
              Entered(lv, c, depth), wk)
<1> DEFINE L == Len(stk)
           after == Entered(lv, c, depth)
           frame == [material |-> c, depth |-> depth, next |-> 1]
           new == Append(Turned(stk), frame)
           now == sn \union {c}
<1>1. L \in Nat /\ L >= 1 /\ c \in MaterialId /\ c \in Layer[L] /\ MaxLevel \in Nat
      /\ MaterialCount \in Nat
  BY NextLine, TablesAre
<1>2. /\ stk \in Seq(Frame) /\ Codes(lv) /\ wk \in Nat
      /\ sn = Met(lv) /\ sn \subseteq Reached /\ On(stk) \subseteq sn
  BY WalkIs DEF Walk
<1>3. depth = L /\ depth \in Nat
  <2>1. L \in 1..L
    BY <1>1
  <2>2. stk[L].depth = L - 1
    BY <2>1 DEF Walk, Walking
  <2> QED
    BY <1>1, <2>2
<1>4. Codes(after) /\ now = Met(after)
  BY <1>1, <1>2, <1>3, EnteredLevel
<1>5. frame \in Frame /\ frame.material = c /\ frame.depth = L /\ frame.next = 1
  BY <1>1, <1>3 DEF Frame
<1> HIDE DEF after, frame
<1>6. /\ Turned(stk) \in Seq(Frame) /\ Len(Turned(stk)) = L
      /\ \A k \in 1..L :
           /\ Turned(stk)[k].material = stk[k].material /\ Turned(stk)[k].depth = stk[k].depth
           /\ Turned(stk)[k].next = IF k = L THEN stk[k].next + 1 ELSE stk[k].next
  BY <1>1, <1>2, TurnedIs
<1>7. /\ new \in Seq(Frame) /\ Len(new) = L + 1 /\ new[L + 1] = frame
      /\ \A k \in 1..L : new[k] = Turned(stk)[k]
  BY <1>5, <1>6, AppendProperties
<1> HIDE DEF new
<1>8. \A k \in 1..L : /\ new[k].material = stk[k].material /\ new[k].depth = stk[k].depth
                      /\ new[k].next = IF k = L THEN stk[k].next + 1 ELSE stk[k].next
  BY <1>6, <1>7
<1>9. \A k \in 1..(L + 1) : k \in 1..L \/ k = L + 1
  BY <1>1
<1>10. On(new) = On(stk) \union {c}
  <2>1. \A k \in 1..L : k \in 1..(L + 1)
    BY <1>1
  <2>2. L + 1 \in 1..(L + 1)
    BY <1>1
  <2>0. new[L + 1].material = c /\ \A k \in 1..L : new[k].material = stk[k].material
    BY <1>5, <1>7, <1>8
  <2>3. ASSUME NEW m \in On(new) PROVE m \in On(stk) \union {c}
    <3>1. PICK k \in 1..(L + 1) : m = new[k].material
      BY <1>7 DEF On
    <3>2. CASE k \in 1..L
      BY <2>0, <3>1, <3>2 DEF On
    <3>3. CASE k = L + 1
      BY <2>0, <3>1, <3>3
    <3> QED
      BY <1>9, <3>2, <3>3
  <2>4. ASSUME NEW m \in On(stk) \union {c} PROVE m \in On(new)
    <3>1. CASE m \in On(stk)
      <4>1. PICK k \in 1..L : m = stk[k].material
        BY <3>1 DEF On
      <4>2. k \in 1..Len(new) /\ m = new[k].material
        BY <1>7, <2>0, <2>1, <4>1
      <4> QED
        BY <4>2 DEF On
    <3>2. CASE m = c
      <4>1. L + 1 \in 1..Len(new) /\ m = new[L + 1].material
        BY <1>7, <2>0, <2>2, <3>2
      <4> QED
        BY <4>1 DEF On
    <3> QED
      BY <3>1, <3>2
  <2> QED
    BY <2>3, <2>4
<1>11. now \ On(new) = sn \ On(stk)
  BY <1>10
<1>12. Ranked(now \ On(new))
  BY <1>11 DEF Walk
<1>13. Distinct(new)
  <2>1. \A k \in 1..L : stk[k].material # c
    BY <1>2 DEF On
  <2>2. \A j, k \in 1..L : stk[j].material = stk[k].material => j = k
    BY DEF Walk, Distinct
  <2> SUFFICES ASSUME NEW j \in 1..(L + 1), NEW k \in 1..(L + 1), new[j].material = new[k].material
               PROVE  j = k
    BY <1>7 DEF Distinct
  <2>3. new[L + 1].material = c
    BY <1>5, <1>7
  <2>4. CASE j \in 1..L /\ k \in 1..L
    BY <1>8, <2>2, <2>4
  <2>5. CASE j \in 1..L /\ k = L + 1
    BY <1>8, <2>1, <2>3, <2>5
  <2>6. CASE j = L + 1 /\ k \in 1..L
    BY <1>8, <2>1, <2>3, <2>6
  <2> QED
    BY <1>9, <2>4, <2>5, <2>6
<1>14. L < MaterialCount
  <2>1. L + 1 <= MaterialCount
    BY <1>7, <1>13, StackIsShort
  <2> QED
    BY <1>1, <2>1
<1>15. now \subseteq Reached
  BY <1>1, <1>2, <1>14, LayersAreReached
<1>16. ASSUME NEW k \in 1..L PROVE Walking(new, now, k)
  <2> DEFINE m == stk[k].material
  <2>1. /\ m \in sn /\ stk[k].depth = k - 1 /\ k - 1 <= MaxLevel /\ m \in Layer[k - 1]
        /\ stk[k].next <= Len(bill[m]) + 1
        /\ \A j \in 1..LinesDone(stk, k) : bill[m][j].child \in sn \ On(stk)
        /\ k < L => stk[k].next >= 2 /\ bill[m][stk[k].next - 1].child = stk[k + 1].material
    BY DEF Walk, Walking
  <2>2. m \in MaterialId /\ stk[k].next \in Nat /\ stk[k].next >= 1 /\ Len(bill[m]) \in Nat
    BY <1>2, FramesAre, TablesAre
  <2>3. new[k].material = m /\ new[k].depth = k - 1 /\ k < Len(new) /\ m \in now
    <3>1. new[k].material = stk[k].material /\ new[k].depth = stk[k].depth
      BY <1>8
    <3>2. k < L + 1
      BY <1>1
    <3> QED BY <1>7, <2>1, <3>1, <3>2
  <2>4. CASE k < L
    <3>1. new[k].next = stk[k].next /\ k + 1 \in 1..L
      BY <1>1, <1>8, <2>4
    <3>2. new[k + 1].material = stk[k + 1].material /\ LinesDone(new, k) = LinesDone(stk, k)
      BY <1>8, <2>3, <2>4, <3>1 DEF LinesDone
    <3> HIDE DEF m, now
    <3> QED
      BY <1>11, <2>1, <2>3, <2>4, <3>1, <3>2 DEF Walking
  <2>5. CASE k = L
    <3>1. new[k].next = stk[k].next + 1 /\ stk[k].next <= Len(bill[m])
          /\ c = bill[m][stk[k].next].child
      BY <1>8, <2>5
    <3>2. LinesDone(new, k) = stk[k].next - 1 /\ LinesDone(stk, k) = stk[k].next - 1
      BY <1>1, <2>2, <2>3, <2>5, <3>1 DEF LinesDone
    <3>3. new[k].next - 1 = stk[k].next /\ new[k].next >= 2 /\ new[k].next <= Len(bill[m]) + 1
      BY <2>2, <3>1
    <3>4. new[k + 1].material = c
      BY <1>5, <1>7, <2>5
    <3> HIDE DEF m, now
    <3> QED
      BY <1>11, <2>1, <2>3, <3>1, <3>2, <3>3, <3>4 DEF Walking
  <2> QED
    BY <1>1, <2>4, <2>5
<1>17. Walking(new, now, L + 1)
  <2>1. Len(bill[c]) \in Nat
    BY <1>1, TablesAre
  <2>2. LinesDone(new, L + 1) = 0
    BY <1>1, <1>5, <1>7 DEF LinesDone
  <2>3. L <= MaxLevel
    BY <1>1, <1>3
  <2>4. 1 <= Len(bill[c]) + 1 /\ (L + 1) - 1 = L /\ ~ (L + 1 < Len(new))
    <3>1. 1 <= Len(bill[c]) + 1
      <4>1. \A n \in Nat : 1 <= n + 1
        OBVIOUS
      <4> QED
        BY <2>1, <4>1
    <3>2. Len(new) = L + 1 /\ L \in Nat
      BY <1>1, <1>7
    <3> HIDE DEF L
    <3> QED
      BY <3>1, <3>2
  <2>5. new[L + 1].material = c /\ new[L + 1].depth = L /\ new[L + 1].next = 1 /\ c \in now
    BY <1>5, <1>7
  <2>6. \A j \in 1..LinesDone(new, L + 1) : FALSE
    BY <2>2
  <2> HIDE DEF L, now
  <2> QED
    BY <1>1, <2>3, <2>4, <2>5, <2>6 DEF Walking
<1>18. \A k \in DemandRows : k <= wk => sales[k].material \in now
  BY DEF Walk
<1>19. \A k \in 1..Len(new) : Walking(new, now, k)
  BY <1>7, <1>9, <1>16, <1>17
<1> HIDE DEF now
<1>20. Walk(new, now, after, wk)
  BY <1>2, <1>4, <1>7, <1>12, <1>13, <1>15, <1>18, <1>19 DEF Walk
<1> QED
  BY <1>20 DEF new, now, after, frame

\* A call whose lines are all done returns, and its material comes after all that its bill
\* names.
LEMMA ReturnIsWalked ==
  ASSUME TablesOK, NEW stk, NEW sn, NEW lv, NEW wk, Walk(stk, sn, lv, wk), stk # <<>>,
         ~ (stk[Len(stk)].next <= Len(bill[stk[Len(stk)].material]))
  PROVE  Walk(SubSeq(stk, 1, Len(stk) - 1), sn, lv, wk)
<1> DEFINE L == Len(stk)
           m == stk[L].material
           new == SubSeq(stk, 1, L - 1)
           done == sn \ On(stk)
<1>1. stk \in Seq(Frame) /\ L \in Nat /\ L >= 1 /\ L \in 1..L
  <2>1. stk \in Seq(Frame)
    BY DEF Walk
  <2> QED
    BY <2>1, FramesAre, EmptySeq
<1>2. /\ new \in Seq(Frame) /\ Len(new) = L - 1
      /\ \A k \in 1..(L - 1) : new[k] = stk[k]
  <2> DEFINE last == L - 1
  <2>1. 1 \in 1..(Len(stk) + 1) /\ last \in (1 - 1)..Len(stk) /\ last \in Nat
    BY <1>1
  <2> HIDE DEF last
  <2>2. /\ SubSeq(stk, 1, last) \in Seq(Frame)
        /\ Len(SubSeq(stk, 1, last)) = IF 1 <= last THEN last - 1 + 1 ELSE 0
        /\ \A k \in 1..(last - 1 + 1) : SubSeq(stk, 1, last)[k] = stk[1 + k - 1]
    BY <1>1, <2>1, SubSeqProperties
  <2>3. Len(SubSeq(stk, 1, last)) = last
    BY <2>1, <2>2
  <2>4. ASSUME NEW k \in 1..last PROVE SubSeq(stk, 1, last)[k] = stk[k]
    <3>1. k \in 1..(last - 1 + 1) /\ 1 + k - 1 = k
      BY <2>1
    <3>2. SubSeq(stk, 1, last)[k] = stk[1 + k - 1]
      BY <2>2, <3>1
    <3> QED
      BY <3>1, <3>2
  <2> QED
    BY <2>2, <2>3, <2>4 DEF last
<1> HIDE DEF new
<1>3. \A k \in 1..L : k \in 1..(L - 1) \/ k = L
  BY <1>1
<1>4. \A k \in 1..(L - 1) : k \in 1..L /\ k # L
  BY <1>1
<1>5. /\ stk[L].next \in Nat /\ m \in MaterialId /\ Len(bill[m]) \in Nat
      /\ stk[L].next = Len(bill[m]) + 1 /\ m \in sn
      /\ \A j \in 1..Len(bill[m]) : bill[m][j].child \in done
  <2>1. stk[L].next \in Nat /\ m \in MaterialId /\ Len(bill[m]) \in Nat
    BY <1>1, FramesAre, TablesAre
  <2>2. /\ stk[L].next <= Len(bill[m]) + 1 /\ m \in sn
        /\ \A j \in 1..LinesDone(stk, L) : bill[m][j].child \in done
    BY <1>1 DEF Walk, Walking
  <2>3. LinesDone(stk, L) = stk[L].next - 1
    BY <1>1 DEF LinesDone
  <2>4. stk[L].next = Len(bill[m]) + 1
    BY <2>1, <2>2
  <2>5. LinesDone(stk, L) = Len(bill[m])
    BY <2>1, <2>3, <2>4
  <2> QED
    BY <2>1, <2>2, <2>4, <2>5
<1>6. On(new) = On(stk) \ {m}
  <2>1. \A k \in 1..(L - 1) : stk[k].material # m
    BY <1>1, <1>4 DEF Walk, Distinct
  <2>2. On(stk) = {stk[k].material : k \in 1..(L - 1)} \union {m}
    <3>1. On(stk) \subseteq {stk[k].material : k \in 1..(L - 1)} \union {m}
      BY <1>3 DEF On
    <3>2. {stk[k].material : k \in 1..(L - 1)} \union {m} \subseteq On(stk)
      BY <1>1, <1>4 DEF On
    <3> QED
      BY <3>1, <3>2
  <2>3. On(new) = {stk[k].material : k \in 1..(L - 1)}
    BY <1>2 DEF On
  <2> QED
    BY <2>1, <2>2, <2>3
<1>7. sn \ On(new) = done \union {m} /\ m \notin done
  <2>1. m \in On(stk)
    BY <1>1 DEF On
  <2> QED
    BY <1>5, <1>6, <2>1
<1> HIDE DEF m
<1>8. ChildrenOf(m) \subseteq done
  BY <1>5 DEF ChildrenOf
<1>9. Ranked(done \union {m})
  <2>1. PICK rank \in [MaterialId -> Nat], top \in Nat : Ordered(done, rank, top)
    BY DEF Walk, Ranked
  <2> DEFINE after == [rank EXCEPT ![m] = top]
  <2>2. after \in [MaterialId -> Nat] /\ top + 1 \in Nat /\ after[m] = top
        /\ \A n \in MaterialId : n # m => after[n] = rank[n]
    BY <1>5
  <2>3. done \subseteq MaterialId
    BY WalkIs
  <2> HIDE DEF after, done
  <2>4. ASSUME NEW p \in done
        PROVE  /\ after[p] < top + 1
               /\ \A n \in ChildrenOf(p) : n \in done \union {m} /\ after[n] < after[p]
    <3>1. /\ rank[p] < top /\ rank[p] \in Nat
          /\ \A n \in ChildrenOf(p) : n \in done /\ rank[n] < rank[p]
      BY <2>1, <2>3 DEF Ordered
    <3>2. after[p] = rank[p] /\ \A n \in ChildrenOf(p) : after[n] = rank[n]
      BY <1>7, <2>2, <2>3, <3>1
    <3> QED
      BY <3>1, <3>2
  <2>5. \A n \in ChildrenOf(m) : n \in done /\ after[n] < after[m]
    <3>1. ASSUME NEW n \in ChildrenOf(m) PROVE n \in done /\ after[n] < after[m]
      <4>1. n \in done
        BY <1>8
      <4>2. n \in MaterialId /\ n # m /\ rank[n] < top
        BY <1>7, <2>1, <2>3, <4>1 DEF Ordered
      <4> QED
        BY <2>2, <4>1, <4>2
    <3> QED
      BY <3>1
  <2>6. Ordered(done \union {m}, after, top + 1)
    BY <2>2, <2>4, <2>5 DEF Ordered
  <2> QED
    BY <2>2, <2>6 DEF Ranked
<1>10. Distinct(new)
  BY <1>2, <1>4 DEF Walk, Distinct
<1>11. ASSUME NEW k \in 1..(L - 1) PROVE Walking(new, sn, k)
  <2> DEFINE p == stk[k].material
  <2>1. /\ p \in sn /\ stk[k].depth = k - 1 /\ k - 1 <= MaxLevel /\ p \in Layer[k - 1]
        /\ stk[k].next <= Len(bill[p]) + 1
        /\ \A j \in 1..LinesDone(stk, k) : bill[p][j].child \in done
        /\ k < L => stk[k].next >= 2 /\ bill[p][stk[k].next - 1].child = stk[k + 1].material
    BY <1>4 DEF Walk, Walking
  <2>2. stk[k].next \in Nat /\ new[k] = stk[k] /\ k < L /\ k \in Nat
    <3>1. k \in 1..L /\ k < L /\ k \in Nat
      BY <1>1
    <3>2. stk[k].next \in Nat
      BY <1>1, <3>1, FramesAre
    <3>3. new[k] = stk[k]
      BY <1>2
    <3> QED
      BY <3>1, <3>2, <3>3
  <2>3. CASE k < L - 1
    <3>1. LinesDone(new, k) = LinesDone(stk, k) /\ k + 1 \in 1..(L - 1)
      BY <1>1, <1>2, <2>2, <2>3 DEF LinesDone
    <3>2. new[k + 1] = stk[k + 1]
      BY <1>2, <3>1
    <3>3. \A j \in 1..LinesDone(new, k) : bill[p][j].child \in sn \ On(new)
      BY <1>7, <2>1, <3>1
    <3> HIDE DEF p, done
    <3> QED
      BY <2>1, <2>2, <3>2, <3>3 DEF Walking, p
  <2>4. CASE ~ (k < L - 1)
    <3>1. k = L - 1 /\ ~ (k < Len(new)) /\ k + 1 = L
      BY <1>1, <1>2, <2>2, <2>4
    <3>2. LinesDone(new, k) = stk[k].next - 1 /\ LinesDone(stk, k) = stk[k].next - 2
      BY <2>2, <3>1 DEF LinesDone
    <3>3. bill[p][stk[k].next - 1].child = m
      BY <2>1, <2>2, <3>1 DEF m
    <3> HIDE DEF p, done
    <3>4. ASSUME NEW j \in 1..LinesDone(new, k) PROVE bill[p][j].child \in sn \ On(new)
      <4>1. j \in 1..LinesDone(stk, k) \/ j = stk[k].next - 1
        BY <2>2, <3>2
      <4> QED
        BY <1>7, <2>1, <3>3, <4>1
    <3> QED
      BY <2>1, <2>2, <3>1, <3>4 DEF Walking, p
  <2> QED
    BY <2>3, <2>4
<1>12. \A k \in 1..Len(new) : Walking(new, sn, k)
  BY <1>2, <1>11
<1>13. Ranked(sn \ On(new))
  BY <1>7, <1>9
<1> HIDE DEF done
<1>14. Walk(new, sn, lv, wk)
  BY <1>2, <1>10, <1>12, <1>13 DEF Walk
<1> QED
  BY <1>14 DEF new

\* What a refusal shows: the calls in progress go down to the material whose line closes a
\* cycle, or further than the deepest level.
LEMMA RefusalIsRight ==
  ASSUME TablesOK, NEW stk, NEW sn, NEW lv, NEW wk, Walk(stk, sn, lv, wk), stk # <<>>,
         stk[Len(stk)].next <= Len(bill[stk[Len(stk)].material]),
         NEW c, c = bill[stk[Len(stk)].material][stk[Len(stk)].next].child,
         \/ \E k \in 1..Len(stk) : stk[k].material = c
         \/ stk[Len(stk)].depth + 1 > MaxLevel
  PROVE  (\E m \in Reached : m \in Below(m)) \/ Layer[MaxLevel + 1] # {}
<1> DEFINE L == Len(stk)
<1>1. /\ L \in Nat /\ L >= 1 /\ L \in 1..L /\ L <= MaterialCount /\ L <= MaxLevel + 1
      /\ stk \in Seq(Frame) /\ MaterialCount \in Nat /\ MaxLevel \in Nat
  <2>1. stk \in Seq(Frame) /\ Distinct(stk)
    BY DEF Walk
  <2>2. L \in Nat /\ L >= 1
    BY NextLine
  <2>3. L <= MaterialCount /\ L <= MaxLevel + 1
    BY WalkIs
  <2>4. MaterialCount \in Nat /\ MaxLevel \in Nat
    BY TablesAre
  <2> HIDE DEF L
  <2> QED
    BY <2>1, <2>2, <2>3, <2>4
<1>2. c \in Layer[L] /\ c \in MaterialId /\ c \in ChildrenOf(stk[L].material)
  BY NextLine
<1>3. CASE stk[L].depth + 1 > MaxLevel
  <2>1. stk[L].depth = L - 1
    BY <1>1 DEF Walk, Walking
  <2>2. L = MaxLevel + 1
    BY <1>1, <1>3, <2>1
  <2> QED
    BY <1>2, <2>2
<1>4. CASE \E k \in 1..L : stk[k].material = c
  <2>1. PICK k \in 1..L : stk[k].material = c
    BY <1>4
  <2> DEFINE l == L - k + 1
             chain == [i \in 0..l |-> IF i = l THEN c ELSE stk[k + i].material]
  <2>2. l \in 1..(MaterialCount + 1) /\ l \in Nat
    BY <1>1
  <2>3. \A i \in 0..l : i # l => k + i \in 1..L
    BY <1>1
  <2>4. \A j \in 1..L : stk[j].material \in MaterialId
    BY <1>1, FramesAre
  <2>5. chain \in [0..l -> MaterialId]
    BY <1>2, <2>3, <2>4
  <2>6. ASSUME NEW i \in 1..l PROVE chain[i] \in ChildrenOf(chain[i - 1])
    <3>1. i - 1 \in 0..l /\ i - 1 # l /\ i \in 0..l
      BY <2>2
    <3> DEFINE j == k + (i - 1)
    <3>2. chain[i - 1] = stk[j].material /\ j \in 1..L
      BY <2>3, <3>1
    <3>3. CASE i = l
      <4>1. j = L
        BY <1>1, <3>3
      <4>2. chain[i] = c
        BY <3>1, <3>3
      <4>3. chain[i - 1] = stk[L].material
        BY <3>2, <4>1
      <4> HIDE DEF chain
      <4> QED
        BY <1>2, <4>2, <4>3
    <3>4. CASE i # l
      <4>1. chain[i] = stk[j + 1].material /\ j < L
        <5>1. k + i \in 1..L /\ k + i = j + 1 /\ L \in Nat /\ j \in Nat
          BY <1>1, <2>3, <3>1, <3>2, <3>4
        <5>2. chain[i] = stk[k + i].material
          BY <3>1, <3>4
        <5> HIDE DEF chain, j
        <5> QED
          BY <5>1, <5>2
      <4> DEFINE m == stk[j].material
      <4>2. /\ stk[j].next >= 2 /\ stk[j].next <= Len(bill[m]) + 1
            /\ bill[m][stk[j].next - 1].child = stk[j + 1].material
        BY <3>2, <4>1 DEF Walk, Walking
      <4>3. stk[j].next \in Nat /\ m \in MaterialId /\ Len(bill[m]) \in Nat
        <5>1. stk[j].next \in Nat /\ m \in MaterialId
          BY <1>1, <3>2, FramesAre
        <5>2. \A q \in MaterialId : Len(bill[q]) \in Nat
          BY TablesAre
        <5> HIDE DEF m, j
        <5> QED
          BY <5>1, <5>2
      <4>4. stk[j].next - 1 \in 1..Len(bill[m])
        <5>1. \A x, y \in Nat : x >= 2 /\ x <= y + 1 => x - 1 \in 1..y
          OBVIOUS
        <5>2. stk[j].next >= 2 /\ stk[j].next <= Len(bill[m]) + 1
          BY <4>2
        <5> HIDE DEF m, j
        <5> QED
          BY <4>3, <5>1, <5>2
      <4>5. stk[j + 1].material \in ChildrenOf(m)
        BY <4>2, <4>4 DEF ChildrenOf
      <4> QED
        BY <3>2, <4>1, <4>5
    <3> QED
      BY <3>3, <3>4
  <2>7. chain[0] = c /\ chain[l] = c
    <3>1. 0 \in 0..l /\ 0 # l /\ l \in 0..l /\ k + 0 = k
      BY <2>2
    <3> QED
      BY <2>1, <3>1
  <2> HIDE DEF chain, l
  <2>8. c \in Below(c)
    BY <2>2, <2>5, <2>6, <2>7, ChainsLeadBelow
  <2>9. c \in Reached
    BY <2>1 DEF Walk, Walking
  <2> QED
    BY <2>8, <2>9
<1> QED
  BY <1>3, <1>4

\* When the walk is over, it has met just what demand reaches, and no cycle.
LEMMA SeenIsReached ==
  ASSUME TablesOK, NEW sn, NEW lv, NEW wk, Walk(<<>>, sn, lv, wk),
         \A k \in DemandRows : k <= wk
  PROVE  Reached = sn /\ \A m \in Reached : m \notin Below(m)
<1>1. sn \subseteq Reached /\ sn \subseteq MaterialId
  BY WalkIs DEF Walk
<1>2. Ranked(sn)
  <2>1. On(<<>>) = {}
    BY DEF On
  <2>2. sn \ On(<<>>) = sn
    BY <2>1
  <2> QED
    BY <2>2 DEF Walk
<1>3. Roots \subseteq sn
  BY DEF Walk, Roots
<1>4. \A m \in sn : ChildrenOf(m) \subseteq sn
  BY <1>2 DEF Ranked, Ordered
<1>5. Reached \subseteq sn
  BY <1>3, <1>4, ReachedIsClosed
<1>6. \A m \in sn : m \notin Below(m)
  BY <1>1, <1>2, RankedHasNoCycle
<1> QED
  BY <1>1, <1>5, <1>6

(***************************************************************************)
(* Netting: the steps of the walk.                                         *)
(***************************************************************************)

LEMMA WalkStays ==
  ASSUME UNCHANGED tables, Walk(stack', seen', level', walked')
  PROVE  Walk(stack, seen, level, walked)'
<1>1. bill' = bill /\ sales' = sales
  BY DEF tables
<1>2. DemandRows' = DemandRows /\ Layer' = Layer /\ Reached' = Reached
  BY TablesStay
<1>3. /\ stack' \in Seq(Frame) /\ walked' \in Nat /\ Codes(level') /\ seen' = Met(level')
      /\ seen' \subseteq Reached /\ Distinct(stack')
      /\ \A k \in DemandRows : k <= walked' => sales[k].material \in seen'
      /\ \A k \in 1..Len(stack') : Walking(stack', seen', k)
      /\ Ranked(seen' \ On(stack'))
  BY DEF Walk
<1>4. \A k \in 1..Len(stack') : Walking(stack, seen, k)'
  BY <1>1, <1>2, <1>3 DEF Walking
<1>5. Ranked(seen \ On(stack))'
  <2>1. PICK rank \in [MaterialId -> Nat], top \in Nat : Ordered(seen' \ On(stack'), rank, top)
    BY <1>3 DEF Ranked
  <2>2. \A m : ChildrenOf(m)' = ChildrenOf(m)
    BY TablesStay
  <2>3. Ordered(seen \ On(stack), rank, top)'
    BY <2>1, <2>2 DEF Ordered
  <2> QED
    BY <2>3 DEF Ranked
<1> QED
  BY <1>1, <1>2, <1>3, <1>4, <1>5 DEF Walk

LEMMA WalkRootWalks ==
  ASSUME TablesOK, Walk(stack, seen, level, walked), WalkRoot
  PROVE  Walk(stack', seen', level', walked')
<1>1. PICK k \in RowsLeft : /\ \A j \in RowsLeft : k <= j
                            /\ Enter(sales[k].material, 0, <<>>)
                            /\ walked' = k
  BY DEF WalkRoot
<1>2. k \in DemandRows /\ \A j \in DemandRows : j > walked => k <= j
  BY <1>1 DEF RowsLeft
<1> DEFINE m == sales[k].material
<1>3. /\ stack' = IF m \in seen THEN <<>> ELSE Append(<<>>, [material |-> m, depth |-> 0, next |-> 1])
      /\ seen' = seen \union {m} /\ level' = Entered(level, m, 0)
  BY <1>1 DEF Enter, Entered
<1>4. Walk(<<>>, seen, level, walked)
  BY DEF WalkRoot
<1> HIDE DEF m
<1>5. m = sales[k].material
  BY DEF m
<1>6. Walk(stack', seen \union {m}, Entered(level, m, 0), k)
  BY <1>2, <1>3, <1>4, <1>5, RootIsWalked
<1> QED
  BY <1>1, <1>3, <1>6

LEMMA WalkLineWalks ==
  ASSUME TablesOK, Walk(stack, seen, level, walked), WalkLine
  PROVE  Walk(stack', seen', level', walked')
<1> DEFINE depth == stack[Len(stack)].depth + 1
           c == Child
<1>1. /\ stack # <<>> /\ stack[Len(stack)].next <= Len(bill[stack[Len(stack)].material])
      /\ c = bill[stack[Len(stack)].material][stack[Len(stack)].next].child
      /\ walked' = walked
  BY DEF WalkLine, LinesLeft, Child, Top
<1>2. /\ depth <= MaxLevel /\ level' = Entered(level, c, depth) /\ seen' = seen \union {c}
      /\ stack' = IF c \in seen THEN Turned(stack)
                  ELSE Append(Turned(stack), [material |-> c, depth |-> depth, next |-> 1])
  BY DEF WalkLine, Enter, Entered, Turned, Top
<1>3. c \notin On(stack)
  BY DEF WalkLine, ClosesCycle, On
<1>4. depth \in Nat
  <2>1. Len(stack) \in Nat /\ Len(stack) >= 1
    BY <1>1, NextLine
  <2>2. Len(stack) \in 1..Len(stack)
    BY <2>1
  <2>3. stack[Len(stack)].depth = Len(stack) - 1
    BY <2>2 DEF Walk, Walking
  <2> QED
    BY <2>1, <2>3
<1>5. depth = stack[Len(stack)].depth + 1
  OBVIOUS
<1> HIDE DEF c, depth
<1>6. CASE c \in seen
  <2>1. Walk(Turned(stack), seen, Entered(level, c, depth), walked)
    BY <1>1, <1>2, <1>3, <1>4, <1>6, KnownLineIsWalked
  <2>2. seen' = seen /\ stack' = Turned(stack)
    BY <1>2, <1>6
  <2> QED
    BY <1>1, <1>2, <2>1, <2>2
<1>7. CASE c \notin seen
  <2>1. Walk(Append(Turned(stack), [material |-> c, depth |-> depth, next |-> 1]), seen \union {c},
             Entered(level, c, depth), walked)
    BY <1>1, <1>2, <1>5, <1>7, NewLineIsWalked
  <2>2. stack' = Append(Turned(stack), [material |-> c, depth |-> depth, next |-> 1])
    BY <1>2, <1>7
  <2> QED
    BY <1>1, <1>2, <2>1, <2>2
<1> QED
  BY <1>6, <1>7

LEMMA ReturnWalks ==
  ASSUME TablesOK, Walk(stack, seen, level, walked), Return
  PROVE  Walk(stack', seen', level', walked')
<1>1. /\ stack # <<>> /\ ~ (stack[Len(stack)].next <= Len(bill[stack[Len(stack)].material]))
      /\ stack' = SubSeq(stack, 1, Len(stack) - 1)
      /\ seen' = seen /\ level' = level /\ walked' = walked
  BY DEF Return, LinesLeft, Top
<1>2. Walk(SubSeq(stack, 1, Len(stack) - 1), seen, level, walked)
  BY <1>1, ReturnIsWalked
<1> QED
  BY <1>1, <1>2

LEMMA RefuseIsRight ==
  ASSUME TablesOK, Walk(stack, seen, level, walked), Refuse
  PROVE  (\E m \in Reached : m \in Below(m)) \/ Layer[MaxLevel + 1] # {}
<1> DEFINE c == Child
<1>1. /\ stack # <<>> /\ stack[Len(stack)].next <= Len(bill[stack[Len(stack)].material])
      /\ c = bill[stack[Len(stack)].material][stack[Len(stack)].next].child
  BY DEF Refuse, LinesLeft, Child, Top
<1>2. \/ \E k \in 1..Len(stack) : stack[k].material = c
      \/ stack[Len(stack)].depth + 1 > MaxLevel
  BY DEF Refuse, ClosesCycle, Top
<1> HIDE DEF c
<1> QED
  BY <1>1, <1>2, RefusalIsRight

(***************************************************************************)
(* Netting: what is netted.                                                *)
(***************************************************************************)

\* What a material's lines use of another, and that a material they do not name is not used.
LEMMA UsageIs ==
  ASSUME TablesOK, NEW m \in MaterialId, NEW n
  PROVE  Usage(m, n) \in Nat /\ (n \notin ChildrenOf(m) => Usage(m, n) = 0)
<1> DEFINE f == [k \in 1..Len(bill[m]) |-> IF bill[m][k].child = n THEN bill[m][k].usage ELSE 0]
<1>1. Len(bill[m]) \in Nat /\ \A k \in 1..Len(bill[m]) : bill[m][k] \in BillLine
  BY TablesAre
<1>2. f \in [1..Len(bill[m]) -> Nat]
  BY <1>1 DEF BillLine
<1>3. Usage(m, n) = Sum(f, Len(bill[m]))
  BY DEF Usage
<1>4. n \notin ChildrenOf(m) => \A k \in 1..Len(bill[m]) : f[k] = 0
  BY DEF ChildrenOf
<1> HIDE DEF f
<1>5. f \in [1..Len(bill[m]) -> Int]
  BY <1>2
<1> QED
  BY <1>1, <1>2, <1>3, <1>4, <1>5, SumOfNaturals, SumZero

\* Each material's share of what is lacked of n.
Shares(S, short, n, b) == [m \in MaterialId |-> IF m \in S THEN Usage(m, n) * short[m][b] ELSE 0]

LEMMA SharesAre ==
  ASSUME TablesOK, NEW S, NEW short \in [MaterialId -> [Buckets -> Nat]], NEW n, NEW b \in Buckets
  PROVE  /\ Shares(S, short, n, b) \in [1..MaterialCount -> Int]
         /\ Sum(Shares(S, short, n, b), MaterialCount) \in Int
<1>1. \A m \in MaterialId : Usage(m, n) \in Nat /\ short[m][b] \in Nat
  BY UsageIs
<1>2. \A x, y \in Nat : x * y \in Int
  OBVIOUS
<1>3. Shares(S, short, n, b) \in [MaterialId -> Int]
  BY <1>1, <1>2 DEF Shares
<1> QED
  BY <1>3, TablesAre, SumType DEF MaterialId

LEMMA NothingLacking ==
  ASSUME TablesOK, NEW n, NEW b \in Buckets
  PROVE  Lacking({}, n, b) = 0
<1> DEFINE f == [m \in MaterialId |-> IF m \in {} THEN Usage(m, n) * shortages[m][b] ELSE 0]
<1>1. f \in [1..MaterialCount -> Int] /\ \A k \in 1..MaterialCount : f[k] = 0
  BY DEF MaterialId
<1>2. Lacking({}, n, b) = Sum(f, MaterialCount)
  BY DEF Lacking
<1> HIDE DEF f
<1> QED
  BY <1>1, <1>2, TablesAre, SumZero

\* The material that is netted next is one of those that wait with the lowest code.
LEMMA NextIsLowest ==
  ASSUME level \in [MaterialId -> -1..MaxLevel], Waiting # {}
  PROVE  NextMaterial \in Waiting /\ \A n \in Waiting : level[NextMaterial] <= level[n]
<1> DEFINE First(m) == \A n \in Waiting : level[m] < level[n] \/ (level[m] = level[n] /\ m <= n)
           T == {level[m] : m \in Waiting}
<1>1. Waiting \subseteq MaterialId /\ \A m \in Waiting : level[m] \in Nat
  BY NettingSizes DEF Waiting
<1> HIDE DEF First
<1>2. PICK x \in T : \A y \in T : x <= y
  <2>1. T \subseteq Nat /\ T # {}
    BY <1>1
  <2> HIDE DEF T
  <2> QED
    BY <2>1, LeastNatural
<1> DEFINE U == {m \in Waiting : level[m] = x}
<1>3. PICK w \in U : \A n \in U : w <= n
  <2>1. U \subseteq Nat
    <3>1. \A p \in MaterialId : p \in Nat
      BY DEF MaterialId
    <3>2. \A p \in U : p \in MaterialId
      BY <1>1
    <3> QED
      BY <3>1, <3>2
  <2>2. U # {}
    <3>1. PICK p \in Waiting : level[p] = x
      BY <1>2
    <3> QED
      BY <3>1
  <2> HIDE DEF U
  <2> QED
    BY <2>1, <2>2, LeastNatural
<1>4. w \in Waiting /\ First(w)
  <2>1. ASSUME NEW n \in Waiting PROVE level[w] < level[n] \/ (level[w] = level[n] /\ w <= n)
    <3>1. level[w] = x /\ x <= level[n] /\ level[n] \in Nat /\ x \in Nat
      BY <1>1, <1>2, <1>3
    <3>2. level[n] = x => w <= n
      BY <1>3
    <3> QED
      BY <3>1, <3>2
  <2> QED
    BY <1>3, <2>1 DEF First
<1>5. NextMaterial = CHOOSE m \in Waiting : First(m)
  BY DEF NextMaterial, First
<1>6. \A m \in Waiting : First(m) => \A n \in Waiting : level[m] <= level[n]
  BY <1>1 DEF First
<1> QED
  BY <1>4, <1>5, <1>6

\* With m and what it is short of, this much of n is lacked in bucket b.
LackGrows(S, m, short, n, b) ==
  /\ Lacking(S, n, b) \in Int
  /\ Sum(Shares(S \union {m}, short, n, b), MaterialCount)
       = Lacking(S, n, b) + Usage(m, n) * short[m][b]
OnlyChanged(short, m) == \A p \in MaterialId : p # m => short[p] = shortages[p]

\* Netting a material adds its share to what is lacked.
LEMMA LackingGrows ==
  ASSUME TablesOK, shortages \in [MaterialId -> [Buckets -> Nat]], NEW S, NEW m \in MaterialId, m \notin S,
         NEW short \in [MaterialId -> [Buckets -> Nat]],
         OnlyChanged(short, m), NEW n, NEW b \in Buckets
  PROVE  LackGrows(S, m, short, n, b)
<1> DEFINE f == Shares(S, shortages, n, b)
           g == Shares(S \union {m}, short, n, b)
           N == MaterialCount
<1>1. /\ f \in [1..N -> Int] /\ g \in [1..N -> Int] /\ Sum(f, N) \in Int
      /\ N \in Nat /\ m \in 1..N
  BY SharesAre, TablesAre DEF MaterialId
<1>2. f[m] = 0 /\ g[m] = Usage(m, n) * short[m][b]
  BY DEF Shares
<1>3. \A k \in 1..N : k # m => g[k] = f[k]
  BY DEF Shares, MaterialId, OnlyChanged
<1>4. Lacking(S, n, b) = Sum(f, N)
  BY DEF Lacking, Shares
<1> DEFINE x == Usage(m, n) * short[m][b]
<1> HIDE DEF f, g, N
<1>5. Sum(g, N) = Sum(f, N) + g[m] - f[m]
  BY <1>1, <1>3, SumChange
<1>6. x = g[m] /\ g[m] \in Int
  BY <1>1, <1>2
<1> HIDE DEF x
<1>7. Sum(g, N) = Sum(f, N) + x
  BY <1>1, <1>2, <1>5, <1>6
<1> QED
  BY <1>1, <1>4, <1>7 DEF x, g, N, LackGrows

(***************************************************************************)
(* Netting: the invariant.                                                 *)
(***************************************************************************)

\* What is netted is netted once, in the order of the codes, and the demand so far is that
\* of customers and what the netted materials lack.
NetsOnce ==
  /\ netted \subseteq seen
  /\ \A m \in netted : \A n \in Waiting : level[m] <= level[n]
  /\ \A n \in MaterialId : \A b \in Buckets :
       demands[n][b] = SalesDemand(n, b) + Lacking(netted, n, b)
  /\ CodesDescend => \A n \in netted : taken[n] = demands[n]

AllCovered == \A m \in netted : Covered(m, taken[m], shortages[m])

PhasesFit ==
  /\ phase \in {"netting", "completed"} => stack = <<>> /\ RowsLeft = {}
  /\ phase \in {"walking", "failed"} => netted = {}
  /\ phase = "completed" => Waiting = {}

NettingInv ==
  /\ NettingTypeOK /\ TablesOK /\ Walk(stack, seen, level, walked)
  /\ PhasesFit /\ CyclesAreRefused /\ NetsOnce /\ AllCovered

\* What netting a material does, with the shares in it named.
LEMMA NettingIs ==
  ASSUME NettingInv, NetMaterial, NEW m, m = NextMaterial
  PROVE  /\ m \in MaterialId /\ m \in seen /\ m \notin netted
         /\ \A n \in Waiting : level[m] <= level[n]
         /\ netted' = netted \union {m}
         /\ taken' \in [MaterialId -> [Buckets -> Nat]] /\ shortages' \in [MaterialId -> [Buckets -> Nat]]
         /\ taken'[m] = demands[m] /\ Covered(m, demands[m], shortages'[m])
         /\ \A p \in MaterialId : p # m => taken'[p] = taken[p] /\ shortages'[p] = shortages[p]
         /\ demands' \in [MaterialId -> [Buckets -> Nat]]
         /\ \A n \in MaterialId : \A b \in Buckets :
              demands'[n][b] = demands[n][b] + Usage(m, n) * shortages'[m][b]
<1> USE DEF NettingInv
<1>1. /\ m \in Waiting /\ \A n \in Waiting : level[m] <= level[n]
      /\ m \in MaterialId /\ m \notin netted /\ m \in seen
  <2>1. level \in [MaterialId -> -1..MaxLevel] /\ seen = Met(level)
    BY DEF NettingTypeOK, Walk
  <2>2. m \in Waiting /\ \A n \in Waiting : level[m] <= level[n]
    BY <2>1, NextIsLowest DEF NetMaterial
  <2> QED
    BY <2>1, <2>2 DEF Waiting, Met
<1> DEFINE missing == [b \in Buckets |-> NetRequirement(m, b)]
<1>2. /\ demands \in [MaterialId -> [Buckets -> Nat]] /\ taken \in [MaterialId -> [Buckets -> Nat]]
      /\ shortages \in [MaterialId -> [Buckets -> Nat]]
  BY DEF NettingTypeOK
<1>3. missing \in [Buckets -> Nat] /\ Covered(m, demands[m], missing)
  BY <1>1, <1>2, NetRequirementsAre
<1>4. /\ netted' = netted \union {m} /\ taken' = [taken EXCEPT ![m] = demands[m]]
      /\ shortages' = [shortages EXCEPT ![m] = missing]
      /\ demands' = [n \in MaterialId |->
            [b \in Buckets |-> demands[n][b] + Usage(m, n) * missing[b]]]
  BY DEF NetMaterial, Exploded
<1> HIDE DEF missing
<1>5. shortages' \in [MaterialId -> [Buckets -> Nat]] /\ shortages'[m] = missing
  BY <1>1, <1>2, <1>3, <1>4
<1>6. taken' \in [MaterialId -> [Buckets -> Nat]] /\ taken'[m] = demands[m]
  BY <1>1, <1>2, <1>4
<1>7. \A p \in MaterialId : p # m => taken'[p] = taken[p] /\ shortages'[p] = shortages[p]
  BY <1>2, <1>4
<1>8. \A n \in MaterialId : \A b \in Buckets :
        demands'[n][b] = demands[n][b] + Usage(m, n) * shortages'[m][b]
  BY <1>4, <1>5
<1>9. demands' \in [MaterialId -> [Buckets -> Nat]]
  <2>1. ASSUME NEW n \in MaterialId, NEW b \in Buckets
        PROVE  demands[n][b] + Usage(m, n) * missing[b] \in Nat
    <3>1. demands[n][b] \in Nat /\ Usage(m, n) \in Nat /\ missing[b] \in Nat
      BY <1>1, <1>2, <1>3, UsageIs
    <3>2. \A x, y, z \in Nat : x + y * z \in Nat
      OBVIOUS
    <3> QED
      BY <3>1, <3>2
  <2> QED
    BY <1>4, <2>1
<1> QED
  BY <1>1, <1>3, <1>4, <1>5, <1>6, <1>7, <1>8, <1>9

\* What is computed from the tables only stays as it is.
LEMMA SuppliesStay ==
  ASSUME UNCHANGED tables
  PROVE  /\ \A m, b : SalesDemand(m, b)' = SalesDemand(m, b) /\ Inbound(m, b)' = Inbound(m, b)
         /\ \A m : OnHand(m)' = OnHand(m)
         /\ \A m, n : Usage(m, n)' = Usage(m, n)
<1>1. bill' = bill /\ sales' = sales /\ purchases' = purchases /\ work' = work /\ stock' = stock
  BY DEF tables
<1>2. \A m, b : SalesDemand(m, b)' = SalesDemand(m, b)
  BY <1>1 DEF SalesDemand, OpenIn, SalesCount, SalesOpen, InHorizon
<1>3. \A m, b : Inbound(m, b)' = Inbound(m, b)
  BY <1>1 DEF Inbound, OpenIn, PurchaseCounts, PurchaseOpen, WorkCounts, WorkOpen, InHorizon
<1>4. \A m : OnHand(m)' = OnHand(m)
  BY <1>1 DEF OnHand
<1>5. \A m, n : Usage(m, n)' = Usage(m, n)
  BY <1>1 DEF Usage
<1> QED
  BY <1>2, <1>3, <1>4, <1>5

LEMMA CoverStays ==
  ASSUME UNCHANGED tables, \A m \in netted' : Covered(m, taken'[m], shortages'[m])
  PROVE  AllCovered'
<1>1. \A m, b : Inbound(m, b)' = Inbound(m, b)
  BY SuppliesStay
<1>2. \A m : OnHand(m)' = OnHand(m)
  BY SuppliesStay
<1> QED
  BY <1>1, <1>2 DEF AllCovered, Covered, SupplyUpTo

\* Lower codes for what is further down, by the codes that are passed.
Descending(lv) == \A m \in Reached : \A n \in ChildrenOf(m) : lv[n] > lv[m]

LEMMA OrderStays ==
  ASSUME UNCHANGED tables, TablesOK,
         shortages' \in [MaterialId -> [Buckets -> Nat]],
         netted' \subseteq seen',
         \A m \in netted' : \A n \in {p \in MaterialId : level'[p] >= 0 /\ p \notin netted'} :
           level'[m] <= level'[n],
         \A n \in MaterialId : \A b \in Buckets :
           demands'[n][b] = SalesDemand(n, b) + Sum(Shares(netted', shortages', n, b), MaterialCount),
         Descending(level') => \A n \in netted' : taken'[n] = demands'[n]
  PROVE  NetsOnce'
<1>1. Waiting' = {p \in MaterialId : level'[p] >= 0 /\ p \notin netted'}
  BY DEF Waiting
<1>2. CodesDescend' <=> Descending(level')
  <2>1. Reached' = Reached /\ \A m : ChildrenOf(m)' = ChildrenOf(m)
    BY TablesStay
  <2> QED
    BY <2>1 DEF CodesDescend, Descending
<1>3. \A n, b : Lacking(netted, n, b)' = Sum(Shares(netted', shortages', n, b), MaterialCount)
  <2>1. \A m, n : Usage(m, n)' = Usage(m, n)
    BY SuppliesStay
  <2> QED
    BY <2>1 DEF Lacking, Shares
<1>4. \A m, b : SalesDemand(m, b)' = SalesDemand(m, b)
  BY SuppliesStay
<1> QED
  BY <1>1, <1>2, <1>3, <1>4 DEF NetsOnce

\* The order is kept by a step that nets nothing, in netting, and by any in the walk.
LEMMA NettingOrder ==
  ASSUME NettingInv, NetMaterial
  PROVE  NetsOnce'
<1> DEFINE m == NextMaterial
<1> USE DEF NettingInv
<1>1. /\ UNCHANGED tables /\ level' = level /\ seen' = seen
      /\ phase = "netting" /\ stack = <<>> /\ RowsLeft = {}
  BY DEF NetMaterial, PhasesFit
<1>2. m = NextMaterial
  OBVIOUS
<1> HIDE DEF m
<1>3. /\ m \in MaterialId /\ m \in seen /\ m \notin netted
      /\ \A n \in Waiting : level[m] <= level[n]
      /\ netted' = netted \union {m}
      /\ shortages' \in [MaterialId -> [Buckets -> Nat]] /\ taken'[m] = demands[m]
      /\ \A p \in MaterialId : p # m => taken'[p] = taken[p] /\ shortages'[p] = shortages[p]
      /\ demands' \in [MaterialId -> [Buckets -> Nat]]
      /\ \A n \in MaterialId : \A b \in Buckets :
           demands'[n][b] = demands[n][b] + Usage(m, n) * shortages'[m][b]
  BY <1>2, NettingIs
<1>4. /\ demands \in [MaterialId -> [Buckets -> Nat]] /\ shortages \in [MaterialId -> [Buckets -> Nat]]
      /\ level \in [MaterialId -> -1..MaxLevel] /\ netted \subseteq MaterialId
  BY DEF NettingTypeOK
<1>5. /\ netted \subseteq seen /\ \A p \in netted : \A n \in Waiting : level[p] <= level[n]
      /\ \A n \in MaterialId : \A b \in Buckets :
           demands[n][b] = SalesDemand(n, b) + Lacking(netted, n, b)
      /\ CodesDescend => \A n \in netted : taken[n] = demands[n]
  BY DEF NetsOnce
<1>6. m \in Waiting /\ seen = Met(level)
  BY <1>3 DEF Walk, Waiting, Met
<1>7. netted' \subseteq seen'
  BY <1>1, <1>3, <1>5
<1>8. \A p \in netted' : \A n \in {q \in MaterialId : level'[q] >= 0 /\ q \notin netted'} :
        level'[p] <= level'[n]
  BY <1>1, <1>3, <1>5 DEF Waiting
<1>9. ASSUME NEW n \in MaterialId, NEW b \in Buckets
      PROVE  demands'[n][b] = SalesDemand(n, b) + Sum(Shares(netted', shortages', n, b), MaterialCount)
  <2>1. /\ Lacking(netted, n, b) \in Int
        /\ Sum(Shares(netted \union {m}, shortages', n, b), MaterialCount)
             = Lacking(netted, n, b) + Usage(m, n) * shortages'[m][b]
    <3>1. PICK short : short = shortages'
      OBVIOUS
    <3>2. /\ short \in [MaterialId -> [Buckets -> Nat]]
          /\ OnlyChanged(short, m)
          /\ m \in MaterialId /\ m \notin netted
          /\ shortages \in [MaterialId -> [Buckets -> Nat]]
      BY <1>3, <1>4, <3>1 DEF OnlyChanged
    <3>3. TablesOK
      OBVIOUS
    <3>4. LackGrows(netted, m, short, n, b)
      <4> HIDE DEF NettingInv
      <4> QED
        BY <3>2, <3>3, LackingGrows
    <3> QED
      BY <3>1, <3>4 DEF LackGrows
  <2>2. SalesDemand(n, b) \in Nat /\ Usage(m, n) \in Nat /\ shortages'[m][b] \in Nat
    BY <1>3, UsageIs, DemandAndSupplyAreNatural
  <2> DEFINE x == Usage(m, n) * shortages'[m][b]
             l == Lacking(netted, n, b)
             s == SalesDemand(n, b)
             t == Sum(Shares(netted \union {m}, shortages', n, b), MaterialCount)
             d == demands[n][b]
             e == demands'[n][b]
  <2>3. x \in Int
    BY <2>2
  <2>4. e = d + x
    BY <1>3
  <2>5. d = s + l
    BY <1>5
  <2>6. t = l + x /\ l \in Int /\ s \in Int
    BY <2>1, <2>2
  <2> HIDE DEF x, l, s, t, d, e
  <2>7. e = s + t
    BY <2>3, <2>4, <2>5, <2>6
  <2> QED
    BY <1>3, <2>7 DEF s, t, e
<1>10. ASSUME Descending(level') PROVE \A n \in netted' : taken'[n] = demands'[n]
  <2>1. CodesDescend
    BY <1>1, <1>10 DEF Descending, CodesDescend
  <2>2. m \in Reached
    BY <1>3 DEF Walk
  <2>3. \A n \in ChildrenOf(m) : level[n] > level[m]
    BY <2>1, <2>2 DEF CodesDescend
  <2>4. ASSUME NEW n \in netted' PROVE n \in MaterialId /\ n \notin ChildrenOf(m)
    <3>1. n \in MaterialId /\ level[n] <= level[m]
      BY <1>3, <1>4, <1>5, <1>6
    <3>2. level[n] \in Int /\ level[m] \in Int
      BY <1>3, <1>4, <3>1, NettingSizes
    <3> QED
      BY <2>3, <3>1, <3>2
  <2>5. ASSUME NEW n \in netted' PROVE demands'[n] = demands[n]
    <3>1. n \in MaterialId /\ Usage(m, n) = 0
      BY <1>3, <2>4, UsageIs
    <3>2. ASSUME NEW b \in Buckets PROVE demands'[n][b] = demands[n][b]
      <4>1. /\ shortages'[m][b] \in Nat /\ demands[n][b] \in Nat
            /\ demands'[n][b] = demands[n][b] + 0 * shortages'[m][b]
        BY <1>3, <1>4, <3>1
      <4> QED
        BY <4>1
    <3>3. demands[n] \in [Buckets -> Nat] /\ demands'[n] \in [Buckets -> Nat]
      BY <1>3, <1>4, <3>1
    <3> QED
      BY <3>2, <3>3
  <2>6. ASSUME NEW n \in netted' PROVE taken'[n] = demands[n]
    BY <1>3, <1>5, <2>1, <2>4
  <2> QED
    BY <2>5, <2>6
<1> QED
  BY <1>1, <1>3, <1>7, <1>8, <1>9, <1>10, OrderStays

\* A step that nets nothing keeps what is netted: the codes change only before netting.
LEMMA QuietOrder ==
  ASSUME NettingInv, UNCHANGED <<tables, demands, netted, taken, shortages>>,
         netted = {} \/ UNCHANGED <<level, seen>>
  PROVE  NetsOnce' /\ AllCovered'
<1>1. /\ UNCHANGED tables /\ demands' = demands /\ netted' = netted /\ taken' = taken
      /\ shortages' = shortages /\ TablesOK
  BY DEF NettingInv, tables
<1>2. shortages' \in [MaterialId -> [Buckets -> Nat]]
  BY <1>1 DEF NettingInv, NettingTypeOK
<1>3. \A n \in MaterialId : \A b \in Buckets :
        demands'[n][b] = SalesDemand(n, b) + Sum(Shares(netted', shortages', n, b), MaterialCount)
  BY <1>1 DEF NettingInv, NetsOnce, Lacking, Shares
<1>4. \A m \in netted' : Covered(m, taken'[m], shortages'[m])
  BY <1>1 DEF NettingInv, AllCovered
<1>5. netted' \subseteq seen'
  BY <1>1 DEF NettingInv, NetsOnce
<1>6. \A m \in netted' : \A n \in {p \in MaterialId : level'[p] >= 0 /\ p \notin netted'} :
        level'[m] <= level'[n]
  BY <1>1 DEF NettingInv, NetsOnce, Waiting
<1>7. Descending(level') => \A n \in netted' : taken'[n] = demands'[n]
  BY <1>1 DEF NettingInv, NetsOnce, Descending, CodesDescend
<1>8. NetsOnce'
  BY <1>1, <1>2, <1>3, <1>5, <1>6, <1>7, OrderStays
<1> QED
  BY <1>1, <1>4, <1>8, CoverStays

\* What a run that goes on, and one that is refused, have found.
RefusedRightly(p) ==
  /\ p \in {"netting", "completed"} => \A m \in Reached : m \notin Below(m)
  /\ p = "failed" => (\E m \in Reached : m \in Below(m)) \/ Layer[MaxLevel + 1] # {}

LEMMA RefusalsStay ==
  ASSUME UNCHANGED tables, RefusedRightly(phase')
  PROVE  CyclesAreRefused'
<1>1. Reached' = Reached /\ Layer' = Layer /\ \A m : Below(m)' = Below(m)
  BY TablesStay
<1> QED
  BY <1>1 DEF CyclesAreRefused, RefusedRightly

LEMMA WalkTyped ==
  ASSUME NEW stk, NEW sn, NEW lv, NEW wk, Walk(stk, sn, lv, wk)
  PROVE  /\ stk \in Seq(Frame) /\ wk \in Nat /\ lv \in [MaterialId -> -1..MaxLevel]
         /\ sn \subseteq MaterialId
BY DEF Walk, Codes, Met

\* Steps of the walk.
LEMMA WalkKeeps ==
  ASSUME NettingInv, WalkRoot \/ WalkLine \/ Return
  PROVE  NettingInv'
<1>1. /\ UNCHANGED tables /\ phase' = phase /\ phase = "walking"
      /\ demands' = demands /\ netted' = netted /\ taken' = taken /\ shortages' = shortages
  BY DEF WalkRoot, WalkLine, Return
<1>2. TablesOK /\ Walk(stack, seen, level, walked) /\ netted = {} /\ NettingTypeOK
      /\ CyclesAreRefused
  BY <1>1 DEF NettingInv, PhasesFit
<1>3. Walk(stack', seen', level', walked')
  BY <1>2, WalkRootWalks, WalkLineWalks, ReturnWalks
<1>4. Walk(stack, seen, level, walked)' /\ TablesOK'
  BY <1>1, <1>2, <1>3, WalkStays, TablesStay
<1>5. NettingTypeOK'
  <2>1. stack' \in Seq(Frame) /\ walked' \in Nat /\ level' \in [MaterialId -> -1..MaxLevel]
        /\ seen' \subseteq MaterialId
    BY <1>3, WalkTyped
  <2>2. bill' = bill
    BY <1>1 DEF tables
  <2> QED
    BY <1>1, <1>2, <2>1, <2>2 DEF NettingTypeOK
<1>6. NetsOnce' /\ AllCovered'
  BY <1>1, <1>2, QuietOrder
<1>7. PhasesFit'
  BY <1>1, <1>2 DEF PhasesFit
<1>8. CyclesAreRefused'
  BY <1>1, RefusalsStay DEF RefusedRightly
<1> QED
  BY <1>4, <1>5, <1>6, <1>7, <1>8 DEF NettingInv

LEMMA RefuseKeeps ==
  ASSUME NettingInv, Refuse
  PROVE  NettingInv'
<1>1. /\ UNCHANGED <<tables, stack, walked, level, seen, demands, netted, taken, shortages>>
      /\ phase' = "failed" /\ phase = "walking" /\ UNCHANGED tables
  BY DEF Refuse, Fail, tables
<1>2. TablesOK /\ Walk(stack, seen, level, walked) /\ netted = {} /\ NettingTypeOK
  BY <1>1 DEF NettingInv, PhasesFit
<1>3. Walk(stack, seen, level, walked)' /\ TablesOK'
  BY <1>1, <1>2, WalkStays, TablesStay
<1>4. NettingTypeOK'
  BY <1>1, <1>2 DEF NettingTypeOK, tables
<1>5. NetsOnce' /\ AllCovered'
  BY <1>1, <1>2, QuietOrder
<1>6. PhasesFit'
  BY <1>1, <1>2 DEF PhasesFit
<1>7. CyclesAreRefused'
  <2>1. (\E m \in Reached : m \in Below(m)) \/ Layer[MaxLevel + 1] # {}
    BY <1>2, RefuseIsRight
  <2>2. RefusedRightly(phase')
    BY <1>1, <2>1 DEF RefusedRightly
  <2> QED
    BY <1>1, <2>2, RefusalsStay
<1> QED
  BY <1>3, <1>4, <1>5, <1>6, <1>7 DEF NettingInv

LEMMA StartKeeps ==
  ASSUME NettingInv, StartNetting
  PROVE  NettingInv'
<1>1. /\ UNCHANGED <<tables, stack, walked, level, seen, demands, netted, taken, shortages>>
      /\ phase' = "netting" /\ phase = "walking" /\ UNCHANGED tables
      /\ stack = <<>> /\ RowsLeft = {}
  BY DEF StartNetting, tables
<1>2. TablesOK /\ Walk(stack, seen, level, walked) /\ netted = {} /\ NettingTypeOK
  BY <1>1 DEF NettingInv, PhasesFit
<1>3. Walk(stack, seen, level, walked)' /\ TablesOK' /\ DemandRows' = DemandRows
  BY <1>1, <1>2, WalkStays, TablesStay
<1>4. NettingTypeOK'
  BY <1>1, <1>2 DEF NettingTypeOK, tables
<1>5. NetsOnce' /\ AllCovered'
  BY <1>1, <1>2, QuietOrder
<1>6. PhasesFit'
  BY <1>1, <1>3 DEF PhasesFit, RowsLeft
<1>7. CyclesAreRefused'
  <2>1. \A k \in DemandRows : k <= walked
    <3>1. \A k \in DemandRows : k \in Nat
      BY <1>2, TablesAre
    <3>2. walked \in Nat
      BY <1>2 DEF NettingTypeOK
    <3> QED
      BY <1>1, <3>1, <3>2 DEF RowsLeft
  <2>2. Walk(<<>>, seen, level, walked)
    BY <1>1, <1>2
  <2>3. \A m \in Reached : m \notin Below(m)
    BY <1>2, <2>1, <2>2, SeenIsReached
  <2>4. RefusedRightly(phase')
    BY <1>1, <2>3 DEF RefusedRightly
  <2> QED
    BY <1>1, <2>4, RefusalsStay
<1> QED
  BY <1>3, <1>4, <1>5, <1>6, <1>7 DEF NettingInv

LEMMA NettingKeeps ==
  ASSUME NettingInv, NetMaterial
  PROVE  NettingInv'
<1>1. /\ UNCHANGED <<tables, phase, stack, walked, level, seen>>
      /\ phase = "netting" /\ UNCHANGED tables
  BY DEF NetMaterial, tables
<1>2. TablesOK /\ Walk(stack, seen, level, walked) /\ NettingTypeOK /\ PhasesFit
      /\ CyclesAreRefused /\ AllCovered
  BY DEF NettingInv
<1>3. Walk(stack, seen, level, walked)' /\ TablesOK' /\ DemandRows' = DemandRows
  BY <1>1, <1>2, WalkStays, TablesStay
<1> DEFINE m == NextMaterial
<1>4. m = NextMaterial
  OBVIOUS
<1> HIDE DEF m
<1>5. /\ m \in MaterialId /\ netted' = netted \union {m}
      /\ taken' \in [MaterialId -> [Buckets -> Nat]] /\ shortages' \in [MaterialId -> [Buckets -> Nat]]
      /\ taken'[m] = demands[m] /\ Covered(m, demands[m], shortages'[m])
      /\ \A p \in MaterialId : p # m => taken'[p] = taken[p] /\ shortages'[p] = shortages[p]
      /\ demands' \in [MaterialId -> [Buckets -> Nat]]
  BY <1>4, NettingIs
<1>6. NettingTypeOK'
  BY <1>1, <1>2, <1>5 DEF NettingTypeOK, tables
<1>7. NetsOnce'
  BY NettingOrder
<1>8. AllCovered'
  <2>1. ASSUME NEW p \in netted' PROVE Covered(p, taken'[p], shortages'[p])
    <3>1. CASE p = m
      BY <1>5, <3>1
    <3>2. CASE p # m
      <4>1. p \in netted /\ p \in MaterialId
        BY <1>2, <1>5, <3>2 DEF NettingTypeOK
      <4>2. taken'[p] = taken[p] /\ shortages'[p] = shortages[p]
        BY <1>5, <3>2, <4>1
      <4> QED
        BY <1>2, <4>1, <4>2 DEF AllCovered
    <3> QED
      BY <3>1, <3>2
  <2> QED
    BY <1>1, <2>1, CoverStays
<1>9. PhasesFit'
  BY <1>1, <1>2, <1>3 DEF PhasesFit, RowsLeft
<1>10. CyclesAreRefused'
  BY <1>1, <1>2, RefusalsStay DEF RefusedRightly, CyclesAreRefused
<1> QED
  BY <1>3, <1>6, <1>7, <1>8, <1>9, <1>10 DEF NettingInv

LEMMA CompleteKeeps ==
  ASSUME NettingInv, Complete
  PROVE  NettingInv'
<1>1. /\ UNCHANGED <<tables, stack, walked, level, seen, demands, netted, taken, shortages>>
      /\ phase' = "completed" /\ phase = "netting" /\ UNCHANGED tables
      /\ Waiting = {}
  BY DEF Complete, tables
<1>2. TablesOK /\ Walk(stack, seen, level, walked) /\ NettingTypeOK /\ PhasesFit
      /\ CyclesAreRefused
  BY DEF NettingInv
<1>3. Walk(stack, seen, level, walked)' /\ TablesOK' /\ DemandRows' = DemandRows
  BY <1>1, <1>2, WalkStays, TablesStay
<1>4. NettingTypeOK'
  BY <1>1, <1>2 DEF NettingTypeOK, tables
<1>5. NetsOnce' /\ AllCovered'
  BY <1>1, <1>2, QuietOrder
<1>6. PhasesFit'
  BY <1>1, <1>2, <1>3 DEF PhasesFit, RowsLeft, Waiting
<1>7. CyclesAreRefused'
  BY <1>1, <1>2, RefusalsStay DEF RefusedRightly, CyclesAreRefused
<1> QED
  BY <1>3, <1>4, <1>5, <1>6, <1>7 DEF NettingInv

LEMMA NothingKeeps ==
  ASSUME NettingInv, UNCHANGED nettingVars
  PROVE  NettingInv'
<1>1. /\ UNCHANGED <<tables, phase, stack, walked, level, seen, demands, netted, taken, shortages>>
      /\ UNCHANGED tables
  BY DEF nettingVars, tables
<1>2. TablesOK /\ Walk(stack, seen, level, walked) /\ NettingTypeOK /\ PhasesFit
      /\ CyclesAreRefused
  BY DEF NettingInv
<1>3. Walk(stack, seen, level, walked)' /\ TablesOK' /\ DemandRows' = DemandRows
  BY <1>1, <1>2, WalkStays, TablesStay
<1>4. NettingTypeOK'
  BY <1>1, <1>2 DEF NettingTypeOK, tables
<1>5. NetsOnce' /\ AllCovered'
  BY <1>1, <1>2, QuietOrder
<1>6. PhasesFit'
  BY <1>1, <1>2, <1>3 DEF PhasesFit, RowsLeft, Waiting
<1>7. CyclesAreRefused'
  BY <1>1, <1>2, RefusalsStay DEF RefusedRightly, CyclesAreRefused
<1> QED
  BY <1>3, <1>4, <1>5, <1>6, <1>7 DEF NettingInv

LEMMA NettingInvStart == NettingInit => NettingInv
<1> SUFFICES ASSUME NettingInit PROVE NettingInv
  OBVIOUS
<1>1. TablesOK
  BY NettingInputs DEF NettingInit, TablesOK
<1>2. /\ stack = <<>> /\ walked = 0 /\ seen = {} /\ phase = "walking" /\ netted = {}
      /\ level = [m \in MaterialId |-> -1]
      /\ demands = [m \in MaterialId |-> [b \in Buckets |-> SalesDemand(m, b)]]
      /\ taken = [m \in MaterialId |-> NoQuantities] /\ shortages = [m \in MaterialId |-> NoQuantities]
  BY DEF NettingInit
<1>3. level \in [MaterialId -> -1..MaxLevel] /\ Met(level) = {}
  <2>1. -1 \in -1..MaxLevel
    BY NettingSizes
  <2> QED
    BY <1>2, <2>1 DEF Met
<1>4. Walk(stack, seen, level, walked)
  <2>1. <<>> \in Seq(Frame) /\ Len(<<>>) = 0
    BY EmptySeq
  <2>2. Distinct(<<>>) /\ \A k \in 1..Len(<<>>) : Walking(<<>>, {}, k)
    BY <2>1 DEF Distinct
  <2>3. Ranked({} \ On(<<>>))
    <3>1. [m \in MaterialId |-> 0] \in [MaterialId -> Nat] /\ 0 \in Nat
      OBVIOUS
    <3>2. Ordered({} \ On(<<>>), [m \in MaterialId |-> 0], 0)
      BY DEF Ordered
    <3> QED
      BY <3>1, <3>2 DEF Ranked
  <2>4. \A k \in DemandRows : ~ (k <= 0)
    <3>1. DemandRows \subseteq 1..Len(sales) /\ Len(sales) \in Nat
      BY <1>1, TablesAre
    <3> QED
      BY <3>1
  <2> QED
    BY <1>2, <1>3, <2>1, <2>2, <2>3, <2>4 DEF Walk, Codes
<1>5. NettingTypeOK
  <2>1. demands \in [MaterialId -> [Buckets -> Nat]]
    BY <1>1, <1>2, DemandAndSupplyAreNatural
  <2>2. taken \in [MaterialId -> [Buckets -> Nat]] /\ shortages \in [MaterialId -> [Buckets -> Nat]]
    BY <1>2 DEF NoQuantities
  <2>3. stack \in Seq(Frame) /\ walked \in Nat
    BY <1>4 DEF Walk
  <2> QED
    BY <1>1, <1>2, <1>3, <2>1, <2>2, <2>3 DEF NettingTypeOK, TablesOK
<1>6. NetsOnce
  <2>1. \A n \in MaterialId : \A b \in Buckets : demands[n][b] = SalesDemand(n, b) + Lacking({}, n, b)
    <3>1. ASSUME NEW n \in MaterialId, NEW b \in Buckets
          PROVE  demands[n][b] = SalesDemand(n, b) + Lacking({}, n, b)
      <4>1. Lacking({}, n, b) = 0 /\ SalesDemand(n, b) \in Nat
        BY <1>1, NothingLacking, DemandAndSupplyAreNatural
      <4>2. demands[n][b] = SalesDemand(n, b)
        BY <1>2
      <4> QED
        BY <4>1, <4>2
    <3> QED
      BY <3>1
  <2> QED
    BY <1>2, <2>1 DEF NetsOnce
<1>7. PhasesFit /\ CyclesAreRefused /\ AllCovered
  BY <1>2 DEF PhasesFit, CyclesAreRefused, AllCovered
<1> QED
  BY <1>1, <1>4, <1>5, <1>6, <1>7 DEF NettingInv

LEMMA NettingInvAlways == NettingSpec => []NettingInv
<1>1. ASSUME NettingInv, [NettingNext]_nettingVars PROVE NettingInv'
  BY <1>1, WalkKeeps, RefuseKeeps, StartKeeps, NettingKeeps, CompleteKeeps, NothingKeeps
     DEF NettingNext, RunIsOver
<1> QED
  BY <1>1, NettingInvStart, PTL DEF NettingSpec

\* Everything a planning run keeps has its type: the calls in progress, the codes, and the
\* quantities by bucket (mrp.py).
THEOREM NettingTyping == NettingSpec => []NettingTypeOK
<1>1. NettingInv => NettingTypeOK
  BY DEF NettingInv
<1> QED
  BY <1>1, NettingInvAlways, PTL

\* Whatever the orders, balances and bills: the net requirements that _net_item makes of a
\* material up to any bucket are the worst its supply ever fell short of its demand by then.
THEOREM NetRequirementsCover == NettingSpec => []NetRequirementsCoverTheWorstShortfall
<1>1. NettingInv => NetRequirementsCoverTheWorstShortfall
  BY DEF NettingInv, AllCovered, Covered, NetRequirementsCoverTheWorstShortfall, DemandUpTo
<1> QED
  BY <1>1, NettingInvAlways, PTL

\* Whatever the bills: _build_graph refuses cycles and chains beyond MAX_LEVEL, and nothing
\* else, and what _compute nets of a material is all that customers and parents want, when
\* the codes put it below all of these.
THEOREM BillsAreFollowedDown == NettingSpec => []BillsAreFollowed
<1>1. ASSUME NettingInv PROVE BillsAreFollowed
  <2>1. TablesOK /\ Walk(stack, seen, level, walked) /\ NettingTypeOK /\ PhasesFit
        /\ CyclesAreRefused /\ NetsOnce
    BY <1>1 DEF NettingInv
  <2>2. ASSUME phase = "completed", CodesDescend, NEW n \in Reached, NEW b \in Buckets
        PROVE  taken[n][b] = SalesDemand(n, b) + Lacking(Reached, n, b)
    <3>1. stack = <<>> /\ RowsLeft = {} /\ Waiting = {}
      BY <2>1, <2>2 DEF PhasesFit
    <3>2. \A k \in DemandRows : k <= walked
      <4>1. \A k \in DemandRows : k \in Nat
        BY <2>1, TablesAre
      <4>2. walked \in Nat
        BY <2>1 DEF NettingTypeOK
      <4> QED
        BY <3>1, <4>1, <4>2 DEF RowsLeft
    <3>3. Walk(<<>>, seen, level, walked)
      BY <2>1, <3>1
    <3>4. Reached = seen
      BY <2>1, <3>2, <3>3, SeenIsReached
    <3>5. seen = Met(level)
      BY <2>1 DEF Walk
    <3>6. netted = Reached
      BY <2>1, <3>1, <3>4, <3>5 DEF NetsOnce, Waiting, Met
    <3>7. n \in MaterialId
      BY <2>1, <3>6 DEF NettingTypeOK
    <3>8. taken[n] = demands[n] /\ demands[n][b] = SalesDemand(n, b) + Lacking(netted, n, b)
      BY <2>1, <2>2, <3>6, <3>7 DEF NetsOnce
    <3> QED
      BY <3>6, <3>8
  <2> QED
    BY <2>1, <2>2 DEF BillsAreFollowed, DerivedDemandIsNetted
<1> QED
  BY <1>1, NettingInvAlways, PTL
=============================================================================
