-------------------------------- MODULE Stock --------------------------------
(***************************************************************************)
(* The unified stock service (apps/wms/services/stock.py over the tables   *)
(* of apps/wms/models/inventory.py): stock documents that are drafted,     *)
(* posted and reversed, the balance of each stock dimension, the           *)
(* append-only ledger, and the reservations business documents hold.       *)
(*                                                                         *)
(* Every service call runs in one database transaction under row locks on  *)
(* all it writes, so an action here is a whole committed call; a call that *)
(* is refused rolls back and is not a step.  How the locks interleave is   *)
(* module StockLocks.                                                      *)
(*                                                                         *)
(* Abstracted: company, warehouse, batch and roll (fixed parts of a        *)
(* dimension), permissions, document numbers, timestamps, audit records    *)
(* and outbox events, and the frozen bucket, which no service ever writes  *)
(* (it stays 0).  Quantities are decimals of fixed scale: integers here.   *)
(***************************************************************************)
EXTENDS Sums, Sequences

CONSTANTS
  Material, Location,
  Home,          \* the locations inside the documents' warehouse
  NoLocation,    \* a line without location, a target left blank
  Biz,           \* business documents (biz_type, biz_id) that own reservations
  NoBiz,         \* a stock document without business reference
  PostKey,       \* idempotency keys of post calls
  NoKey,
  RequestKey,    \* request keys of reserve calls
  DraftInput,    \* the documents callers draft
  Amount,        \* the amounts callers reserve and release
  MaxDocuments   \* bound on the documents of a behaviour

DocumentType == {"receipt", "issue", "move", "adjustment", "quality"}
Quality == {"quarantine", "qualified", "rejected"}
NoQuality == "none"
Place == Location \union {NoLocation}
BizRef == Biz \union {NoBiz}
Key == PostKey \union {NoKey}
Positive == Nat \ {0}

Line == [material : Material, location : Place, target : Place,
         quality : Quality, targetQuality : Quality \union {NoQuality},
         direction : {"in", "out"}, quantity : Positive]
Draft == [type : DocumentType, biz : BizRef, lines : Seq(Line) \ {<<>>}]
Document == [type : DocumentType, biz : BizRef, lines : Seq(Line) \ {<<>>},
             status : {"draft", "posted", "reversed"}, key : Key]
Dim == [material : Material, location : Place, quality : Quality]
Movement == [dim : Dim, delta : Int]
Row == [doc : Positive, reversal : BOOLEAN, dim : Dim, delta : Int,
        before : Int, after : Int]
Reservation == [key : RequestKey, biz : Biz, dim : Dim, quantity : Positive,
                consumed : Nat, released : Nat,
                status : {"active", "closed", "cancelled"}]

ASSUME SentinelsFresh ==
  NoLocation \notin Location /\ NoBiz \notin Biz /\ NoKey \notin PostKey
ASSUME HomeLocations == Home \subseteq Location
ASSUME InputsTyped == DraftInput \subseteq Draft /\ Amount \subseteq Positive
ASSUME BoundTyped == MaxDocuments \in Nat

VARIABLES
  docs,          \* stock documents in creation order
  onHand,        \* InventoryBalance.on_hand of each dimension
  reserved,      \* InventoryBalance.reserved of each dimension
  ledger,        \* InventoryTransaction rows in insertion order
  reservations   \* StockReservation rows in insertion order

vars == <<docs, onHand, reserved, ledger, reservations>>

TypeOK ==
  /\ docs \in Seq(Document)
  /\ onHand \in [Dim -> Nat]
  /\ reserved \in [Dim -> Nat]
  /\ ledger \in Seq(Row)
  /\ reservations \in Seq(Reservation)

Init ==
  /\ docs = <<>>
  /\ onHand = [d \in Dim |-> 0]
  /\ reserved = [d \in Dim |-> 0]
  /\ ledger = <<>>
  /\ reservations = <<>>

-----------------------------------------------------------------------------
(* From a document to its stock movements.                                 *)

Source(l) == [material |-> l.material, location |-> l.location, quality |-> l.quality]

\* A move keeps the quality; a quality conversion may keep the location.
Target(type, l) ==
  IF type = "move"
  THEN [material |-> l.material, location |-> l.target, quality |-> l.quality]
  ELSE [material |-> l.material,
        location |-> IF l.target = NoLocation THEN l.location ELSE l.target,
        quality |-> l.targetQuality]

\* A line of a move or of a quality conversion moves stock out and in again.
Legs(type) == IF type \in {"move", "quality"} THEN 2 ELSE 1

LineOf(doc, k) == doc.lines[(k + Legs(doc.type) - 1) \div Legs(doc.type)]

\* Bug: the incoming leg of a transfer is taken for a second outgoing one.
IncomingWithoutLegs(doc, k) ==
  doc.type = "receipt" \/ (doc.type = "adjustment" /\ LineOf(doc, k).direction # "out")

Incoming(doc, k) ==
  \/ doc.type = "receipt"
  \/ doc.type = "adjustment" /\ LineOf(doc, k).direction # "out"
  \/ Legs(doc.type) = 2 /\ k % 2 = 0

Plan(doc) ==
  [k \in 1..(Legs(doc.type) * Len(doc.lines)) |->
    LET l == LineOf(doc, k) IN
    [dim |-> IF Legs(doc.type) = 2 /\ k % 2 = 0 THEN Target(doc.type, l) ELSE Source(l),
     delta |-> IF Incoming(doc, k) THEN l.quantity ELSE -l.quantity]]

\* The same movements with the opposite sign.
ReversalPlan(doc) ==
  [k \in 1..(Legs(doc.type) * Len(doc.lines)) |->
    [dim |-> Plan(doc)[k].dim, delta |-> -Plan(doc)[k].delta]]

\* A move and a quality conversion must name where the stock goes.
PlanValid(doc) ==
  \A i \in 1..Len(doc.lines) : LET l == doc.lines[i] IN
    /\ doc.type = "move" => l.target \notin {NoLocation, l.location}
    /\ doc.type = "quality" => l.targetQuality \notin {NoQuality, l.quality}

LocationsInWarehouse(doc) ==
  \A i \in 1..Len(doc.lines) :
    {doc.lines[i].location, doc.lines[i].target} \subseteq Home \union {NoLocation}

QualityAllowed(doc) ==
  doc.type = "issue" => \A i \in 1..Len(doc.lines) : doc.lines[i].quality = "qualified"

-----------------------------------------------------------------------------
(* Balances and reservations touched by a list of movements.               *)

DeltaOn(mvs, d) == [k \in 1..Len(mvs) |-> IF mvs[k].dim = d THEN mvs[k].delta ELSE 0]

OutOn(mvs, d) ==
  [k \in 1..Len(mvs) |-> IF mvs[k].dim = d THEN AtLeastZero(-mvs[k].delta) ELSE 0]

\* What the movements take out of dimension d, all lines together.
Required(mvs, d) == Sum(OutOn(mvs, d), Len(mvs))

Open(r) == r.quantity - r.consumed - r.released

IsOpen(r) == r.status = "active" /\ Open(r) > 0

\* Bug: the reservations of every business document may be consumed.
ConsumableOfAnyone(b, d) ==
  [i \in 1..Len(reservations) |-> LET r == reservations[i] IN
    IF b # NoBiz /\ r.dim = d /\ r.status = "active" THEN Open(r) ELSE 0]

\* The reservations of business document b on dimension d, as the amounts a
\* posting may consume, in primary-key order.
Consumable(b, d) ==
  [i \in 1..Len(reservations) |-> LET r == reservations[i] IN
    IF r.biz = b /\ r.dim = d /\ r.status = "active" THEN Open(r) ELSE 0]

\* Consumption is greedy: each reservation gives what it has, as far as the
\* ones before it leave something to cover.
Taken(b, mvs) ==
  [i \in 1..Len(reservations) |-> LET d == reservations[i].dim IN
    Least(Consumable(b, d)[i],
          AtLeastZero(Required(mvs, d) - Prefix(Consumable(b, d), Len(reservations))[i - 1]))]

Nothing == [i \in 1..Len(reservations) |-> 0]

TakenOn(take, d) ==
  [i \in 1..Len(reservations) |-> IF reservations[i].dim = d THEN take[i] ELSE 0]

ConsumedTotal(take, d) == Sum(TakenOn(take, d), Len(reservations))

Available(d) == onHand[d] - reserved[d]

\* Each outgoing movement is checked by itself against the balance as it was.
AssertAvailable(mvs, take) ==
  \A k \in 1..Len(mvs) : mvs[k].delta < 0 =>
    Available(mvs[k].dim) + ConsumedTotal(take, mvs[k].dim) >= -mvs[k].delta

\* Asked for by sales shipments: all that goes out was reserved by the same
\* business document.
ReservationCovers(doc, mvs, take) ==
  /\ doc.type = "issue" /\ doc.biz # NoBiz
  /\ \A d \in Dim : ConsumedTotal(take, d) >= Required(mvs, d)

OnHandAfter(mvs) == [d \in Dim |-> onHand[d] + Sum(DeltaOn(mvs, d), Len(mvs))]

\* Bug: consuming a reservation does not lower the bucket.
ReservedKept(take) == reserved

ReservedAfter(take) == [d \in Dim |-> reserved[d] - ConsumedTotal(take, d)]

\* The CHECK constraints of InventoryBalance: a row that breaks one aborts the
\* transaction.
BucketsStorable(hand, res) ==
  \A d \in Dim : 0 <= res[d] /\ 0 <= hand[d] /\ res[d] <= hand[d]

\* Bug: every line starts from the balance as it was before the document.
RowsFromOldBalance(n, mvs, isReversal) ==
  [k \in 1..Len(mvs) |->
    LET d == mvs[k].dim
    IN  [doc |-> n, reversal |-> isReversal, dim |-> d, delta |-> mvs[k].delta,
         before |-> onHand[d], after |-> onHand[d] + mvs[k].delta]]

Rows(n, mvs, isReversal) ==
  [k \in 1..Len(mvs) |->
    LET d == mvs[k].dim
        before == onHand[d] + Prefix(DeltaOn(mvs, d), Len(mvs))[k - 1]
    IN  [doc |-> n, reversal |-> isReversal, dim |-> d, delta |-> mvs[k].delta,
         before |-> before, after |-> before + mvs[k].delta]]

\* refresh_status closes a reservation with nothing left open.
Consume(r, t) ==
  [r EXCEPT !.consumed = @ + t,
            !.status = IF @ = "active" /\ Open(r) <= t THEN "closed" ELSE @]

WriteMovements(n, mvs, take, isReversal) ==
  /\ onHand' = OnHandAfter(mvs)
  /\ reserved' = ReservedAfter(take)
  /\ ledger' = ledger \o Rows(n, mvs, isReversal)
  /\ reservations' = [i \in 1..Len(reservations) |->
       IF take[i] = 0 THEN reservations[i] ELSE Consume(reservations[i], take[i])]

-----------------------------------------------------------------------------
(* Documents.                                                              *)

NewDocument(draft) ==
  [type |-> draft.type, biz |-> draft.biz, lines |-> draft.lines,
   status |-> "draft", key |-> NoKey]

CreateDocument(draft) ==
  /\ Len(docs) < MaxDocuments
  /\ docs' = Append(docs, NewDocument(draft))
  /\ UNCHANGED <<onHand, reserved, ledger, reservations>>

\* Bug: the lines of a posted document can still be replaced.
UpdateAnyDocument(n, lines) ==
  /\ docs' = [docs EXCEPT ![n].lines = lines]
  /\ UNCHANGED <<onHand, reserved, ledger, reservations>>

\* Only the lines of a draft can be replaced; its type and business reference
\* are fixed at creation.
UpdateDraftDocument(n, lines) ==
  /\ docs[n].status = "draft"
  /\ docs' = [docs EXCEPT ![n].lines = lines]
  /\ UNCHANGED <<onHand, reserved, ledger, reservations>>

KeyFree(all, n, key) == key = NoKey \/ \A e \in 1..Len(all) : e # n => all[e].key # key

\* All that _post_locked requires of document n of the table `all`, and the
\* constraints the commit must meet.
PostAdmitted(all, n, key, full) ==
  LET doc == all[n]
      mvs == Plan(doc)
      take == Taken(doc.biz, mvs)
  IN  /\ doc.status = "draft"
      /\ KeyFree(all, n, key)
      /\ LocationsInWarehouse(doc) /\ QualityAllowed(doc) /\ PlanValid(doc)
      /\ full => ReservationCovers(doc, mvs, take)
      /\ AssertAvailable(mvs, take)
      /\ BucketsStorable(OnHandAfter(mvs), ReservedAfter(take))

Post(all, n, key) ==
  LET mvs == Plan(all[n]) IN
  /\ WriteMovements(n, mvs, Taken(all[n].biz, mvs), FALSE)
  /\ docs' = [all EXCEPT ![n].status = "posted", ![n].key = key]

\* A second call with the key of a posted document returns that document and
\* changes nothing; it is not a step.
PostDocument(n, key, full) ==
  /\ PostAdmitted(docs, n, key, full)
  /\ Post(docs, n, key)

ReverseDocument(n) ==
  LET mvs == ReversalPlan(docs[n]) IN
  /\ docs[n].status = "posted"
  /\ AssertAvailable(mvs, Nothing)
  /\ BucketsStorable(OnHandAfter(mvs), ReservedAfter(Nothing))
  /\ WriteMovements(n, mvs, Nothing, TRUE)
  /\ docs' = [docs EXCEPT ![n].status = "reversed"]

\* The document is committed as a draft before it is posted: a refused post
\* leaves the draft behind.
ReleaseQuality(draft, key) ==
  LET all == Append(docs, NewDocument(draft))
      n == Len(docs) + 1
  IN  /\ Len(docs) < MaxDocuments
      /\ draft.type = "quality" /\ Len(draft.lines) = 1 /\ PlanValid(draft)
      /\ \/ /\ PostAdmitted(all, n, key, FALSE)
            /\ Post(all, n, key)
         \/ /\ ~ PostAdmitted(all, n, key, FALSE)
            /\ docs' = all
            /\ UNCHANGED <<onHand, reserved, ledger, reservations>>

-----------------------------------------------------------------------------
(* Reservations.                                                           *)

\* A call whose request key is taken returns the row that has it, whatever its
\* status, and changes nothing; it is not a step.
ReserveStock(key, b, d, amount) ==
  /\ d.quality = "qualified" /\ d.location \in Home \union {NoLocation}
  /\ \A i \in 1..Len(reservations) : reservations[i].key # key
  /\ Available(d) >= amount
  /\ reserved' = [reserved EXCEPT ![d] = @ + amount]
  /\ reservations' = Append(reservations,
       [key |-> key, biz |-> b, dim |-> d, quantity |-> amount,
        consumed |-> 0, released |-> 0, status |-> "active"])
  /\ UNCHANGED <<docs, onHand, ledger>>

\* A reservation that ends without having been consumed is cancelled.
Release(r, amount) ==
  [r EXCEPT !.released = @ + amount,
            !.status = IF Open(r) > amount THEN @
                       ELSE IF r.consumed = 0 THEN "cancelled" ELSE "closed"]

ReleaseReservation(i, amount) ==
  LET r == reservations[i] IN
  /\ IsOpen(r)
  /\ amount <= Open(r) /\ amount <= reserved[r.dim]
  /\ reserved' = [reserved EXCEPT ![r.dim] = @ - amount]
  /\ reservations' = [reservations EXCEPT ![i] = Release(r, amount)]
  /\ UNCHANGED <<docs, onHand, ledger>>

\* Callers run it inside their own transaction: all of them or none.
ReleaseReservationsForBiz(b) ==
  LET give == [i \in 1..Len(reservations) |->
                IF reservations[i].biz = b /\ IsOpen(reservations[i])
                THEN Open(reservations[i]) ELSE 0]
  IN  /\ \E i \in 1..Len(reservations) : give[i] > 0
      /\ \A d \in Dim : ConsumedTotal(give, d) <= reserved[d]
      /\ reserved' = ReservedAfter(give)
      /\ reservations' = [i \in 1..Len(reservations) |->
           IF give[i] = 0 THEN reservations[i] ELSE Release(reservations[i], give[i])]
      /\ UNCHANGED <<docs, onHand, ledger>>

-----------------------------------------------------------------------------
Next ==
  \/ \E draft \in DraftInput : CreateDocument(draft)
  \/ \E n \in 1..Len(docs), draft \in DraftInput :
       draft.type = docs[n].type /\ UpdateDraftDocument(n, draft.lines)
  \/ \E n \in 1..Len(docs), key \in Key, full \in BOOLEAN : PostDocument(n, key, full)
  \/ \E n \in 1..Len(docs) : ReverseDocument(n)
  \/ \E draft \in DraftInput, key \in Key : ReleaseQuality(draft, key)
  \/ \E key \in RequestKey, b \in Biz, d \in Dim, amount \in Amount :
       ReserveStock(key, b, d, amount)
  \/ \E i \in 1..Len(reservations) :
       \E amount \in Amount \union {Open(reservations[i])} : ReleaseReservation(i, amount)
  \/ \E b \in Biz : ReleaseReservationsForBiz(b)

Spec == Init /\ [][Next]_vars

-----------------------------------------------------------------------------
(* What the tables must agree on.                                          *)

OpenOn(d) ==
  [i \in 1..Len(reservations) |->
    IF reservations[i].dim = d THEN Open(reservations[i]) ELSE 0]

\* docs/inventory-rules.md 10.1: the reserved bucket of a dimension is the sum
\* of what its reservations still hold open.  Reserve, release, release-all and
\* the consumption of a posting each write the two tables separately.
ReservedIsWhatReservationsHold ==
  \A d \in Dim : reserved[d] = Sum(OpenOn(d), Len(reservations))

\* What is promised is there: the buckets never exceed the stock on hand, for
\* documents with several lines on one dimension too.
BucketsWithinOnHand == \A d \in Dim : reserved[d] <= onHand[d]

\* Replaying the ledger gives, row by row, the balances the rows state, and at
\* its end the balance table.
LedgerReplaysToBalance ==
  /\ \A d \in Dim : onHand[d] = Sum(DeltaOn(ledger, d), Len(ledger))
  /\ \A k \in 1..Len(ledger) :
       /\ ledger[k].before = Prefix(DeltaOn(ledger, ledger[k].dim), Len(ledger))[k - 1]
       /\ ledger[k].after = Prefix(DeltaOn(ledger, ledger[k].dim), Len(ledger))[k]

\* The rows a table has for a posting or reversal of document n are these
\* movements, in their order and one after the other.
Recorded(table, n, isReversal, mvs) ==
  \E s \in 0..Len(table) :
    /\ {k \in 1..Len(table) : table[k].doc = n /\ table[k].reversal = isReversal}
         = (s + 1)..(s + Len(mvs))
    /\ \A k \in 1..Len(mvs) :
         table[s + k].dim = mvs[k].dim /\ table[s + k].delta = mvs[k].delta

\* Every row of the ledger is a document's, and a document reaches the ledger
\* exactly once when posted, with the lines it has now, and once more with
\* opposite signs when reversed: no second posting, no edit of a posted document,
\* no partial reversal, no rows of two documents mixed.
LedgerMatchesDocuments ==
  /\ \A k \in 1..Len(ledger) : ledger[k].doc \in 1..Len(docs)
  /\ \A n \in 1..Len(docs) : LET doc == docs[n] IN
       /\ Recorded(ledger, n, FALSE, IF doc.status = "draft" THEN <<>> ELSE Plan(doc))
       /\ Recorded(ledger, n, TRUE, IF doc.status = "reversed" THEN ReversalPlan(doc) ELSE <<>>)

\* docs/inventory-rules.md 10.3: a reservation is active as long as it holds
\* something, closed when all is gone and some was consumed, cancelled when all
\* was given back.
StatusTellsHowItEnded ==
  \A i \in 1..Len(reservations) : LET r == reservations[i] IN
    r.status = IF Open(r) > 0 THEN "active"
               ELSE IF r.consumed > 0 THEN "closed" ELSE "cancelled"

OneOwnerAtATime ==
  \A i, j \in 1..Len(reservations) :
    /\ reservations'[i] # reservations[i]
    /\ reservations'[j] # reservations[j]
    => reservations[i].biz = reservations[j].biz

\* A step changes the reservations of one business document at most: posting
\* consumes only its own, releasing touches only its own.
OthersReservationsUntouched == [][OneOwnerAtATime]_vars
=============================================================================
