------------------------------ MODULE StockLocks ------------------------------
(***************************************************************************)
(* The row locks under the stock service: calls that reserve, ship, issue  *)
(* and close run as concurrent database transactions, lock order,          *)
(* balance and reservation rows one statement at a time, work on the       *)
(* values they read under the locks, and write on commit.  Module Stock    *)
(* takes each call as one step; this module shows what that rests on.      *)
(*                                                                         *)
(* An order has one line per dimension, so its reservation on a dimension  *)
(* is one row.  Dimension keys are numbers, locked in ascending order      *)
(* where the code sorts them.  Orders are open for shipment until closed.  *)
(* Left out: the lock on the stock document, which only its own posting    *)
(* takes, and lock wait timeouts, which abort a call like a deadlock does. *)
(***************************************************************************)
EXTENDS Integers, Sequences, FiniteSets

CONSTANTS
  Call,          \* concurrent service calls
  Order,         \* business documents that own reservations
  Keys,          \* dimension keys are 1..Keys
  Supply,        \* the stock on hand in each dimension
  OrderLines,    \* the lines of each order, in line_no order
  Request,       \* what callers ask for
  MaxRetries     \* MAX_LOCK_RETRIES of post_document

Dim == 1..Keys
Line == [dim : Dim, quantity : Nat \ {0}]
Kind == {"reserve", "ship", "document", "close"}

ASSUME RequestsTyped ==
  /\ Keys \in Nat /\ MaxRetries \in Nat
  /\ Supply \in [Dim -> Nat]
  /\ OrderLines \in [Order -> Seq(Line)]
  /\ Request \subseteq [kind : Kind, order : Order, lines : Seq(Line)]
\* A dimension occurs once in an order and once in a request.
ASSUME OneLinePerDimension ==
  \A lines \in {OrderLines[o] : o \in Order} \union {r.lines : r \in Request} :
    \A i, j \in 1..Len(lines) : lines[i].dim = lines[j].dim => i = j

OrderLock(o) == <<"order", o>>
BalanceLock(d) == <<"balance", d>>
RowLock(o, d) == <<"reservation", o, d>>
Lock == {OrderLock(o) : o \in Order} \union {BalanceLock(d) : d \in Dim}
          \union {RowLock(o, d) : o \in Order, d \in Dim}

VARIABLES
  onHand, reserved,  \* InventoryBalance, as committed
  made,              \* the reservations each order has, open or ended, as committed
  open,              \* their open quantities, as committed
  closed,            \* the orders that were closed
  request,           \* what each call was asked
  stage,             \* how far it is
  todo,              \* the locks it asks for next, in order
  held,              \* the row locks it holds
  seen,              \* the values it read, of balances and of its order's reservations
  tries              \* how often it started over

tables == <<onHand, reserved, made, open, closed>>
lockVars == <<onHand, reserved, made, open, closed, request, stage, todo, held, seen, tries>>

Ended == {"idle", "done", "refused", "failed"}
Stage == Ended \union {"order", "balances", "rows"}
Unread == [onHand |-> [d \in Dim |-> 0], reserved |-> [d \in Dim |-> 0],
           open |-> [d \in Dim |-> 0]]

LocksTypeOK ==
  /\ onHand \in [Dim -> Nat] /\ reserved \in [Dim -> Nat]
  /\ made \in [Order -> SUBSET Dim] /\ open \in [Order -> [Dim -> Nat]]
  /\ closed \subseteq Order
  /\ request \in [Call -> Request]
  /\ stage \in [Call -> Stage]
  /\ todo \in [Call -> Seq(Lock)]
  /\ held \in [Call -> SUBSET Lock]
  /\ seen \in [Call -> [onHand : [Dim -> Nat], reserved : [Dim -> Nat], open : [Dim -> Nat]]]
  /\ tries \in [Call -> 0..MaxRetries]

LocksInit ==
  /\ onHand = Supply /\ reserved = [d \in Dim |-> 0]
  /\ made = [o \in Order |-> {}] /\ open = [o \in Order |-> [d \in Dim |-> 0]]
  /\ closed = {}
  /\ request \in [Call -> Request]
  /\ stage = [c \in Call |-> "idle"]
  /\ todo = [c \in Call |-> <<>>]
  /\ held = [c \in Call |-> {}]
  /\ seen = [c \in Call |-> Unread]
  /\ tries = [c \in Call |-> 0]

-----------------------------------------------------------------------------
(* What a call locks.                                                      *)

Dims(lines) == {lines[i].dim : i \in 1..Len(lines)}
QuantityOf(lines, d) == lines[CHOOSE i \in 1..Len(lines) : lines[i].dim = d].quantity

\* The members of a set of numbers, the smallest first.
Ascending(S) ==
  CHOOSE s \in [1..Cardinality(S) -> S] :
    /\ \A x \in S : \E i \in 1..Cardinality(S) : s[i] = x
    /\ \A i, j \in 1..Cardinality(S) : i < j => s[i] < s[j]

\* _lock_balances sorts the dimension keys of a document.
BalancesInOrder(D) == [i \in 1..Cardinality(D) |-> BalanceLock(Ascending(D)[i])]

RowsInOrder(o, D) == [i \in 1..Cardinality(D) |-> RowLock(o, Ascending(D)[i])]

\* reserve_order_stock goes through the lines by line_no; reserve_stock inserts
\* the reservation, which locks the new row, and locks the balance after that.
LinesInOrder(o) ==
  LET new == {i \in 1..Len(OrderLines[o]) : OrderLines[o][i].dim \notin made[o]}
  IN  [i \in 1..(2 * Cardinality(new)) |->
        LET d == OrderLines[o][Ascending(new)[(i + 1) \div 2]].dim
        IN  IF i % 2 = 1 THEN RowLock(o, d) ELSE BalanceLock(d)]

OpenDims(o) == {d \in Dim : open[o][d] > 0}

\* Bug: a release locks the reservation before its balance.
RowsBeforeBalances(o) ==
  [i \in 1..(2 * Cardinality(OpenDims(o))) |->
    LET d == Ascending(OpenDims(o))[(i + 1) \div 2]
    IN  IF i % 2 = 1 THEN RowLock(o, d) ELSE BalanceLock(d)]

\* release_reservations_for_biz lists the active reservations by dimension key;
\* release_reservation locks the balance of each, and then the reservation.
ReleasesInOrder(o) ==
  [i \in 1..(2 * Cardinality(OpenDims(o))) |->
    LET d == Ascending(OpenDims(o))[(i + 1) \div 2]
    IN  IF i % 2 = 1 THEN BalanceLock(d) ELSE RowLock(o, d)]

\* The rows a locking read for the active reservations of o finds: committed
\* ones, and ones another call has inserted and not yet committed.
RowsFound(o, D) ==
  {d \in D : \/ open[o][d] > 0
             \/ d \notin made[o] /\ \E e \in Call : RowLock(o, d) \in held[e]}

-----------------------------------------------------------------------------
Free(l) == \A e \in Call : l \notin held[e]

Reserving(c) == Dims(OrderLines[request[c].order]) \ made[request[c].order]

\* The check reserve_stock makes as soon as it holds a balance.
Insufficient(c) ==
  LET o == request[c].order IN
  /\ request[c].kind = "reserve"
  /\ \E d \in Reserving(c) : /\ BalanceLock(d) \in held[c]
                             /\ seen[c].onHand[d] - seen[c].reserved[d]
                                  < QuantityOf(OrderLines[o], d)

\* Bug: a transaction is left open.
EndHoldingLocks(c, how) ==
  /\ stage' = [stage EXCEPT ![c] = how]
  /\ todo' = [todo EXCEPT ![c] = <<>>]
  /\ seen' = [seen EXCEPT ![c] = Unread]
  /\ UNCHANGED held

EndWith(c, how) ==
  /\ stage' = [stage EXCEPT ![c] = how]
  /\ todo' = [todo EXCEPT ![c] = <<>>]
  /\ held' = [held EXCEPT ![c] = {}]
  /\ seen' = [seen EXCEPT ![c] = Unread]

\* Every call but a stock document's posting starts from the order.
Start(c) ==
  LET r == request[c] IN
  /\ stage' = [stage EXCEPT ![c] = IF r.kind = "document" THEN "balances" ELSE "order"]
  /\ todo' = [todo EXCEPT ![c] = IF r.kind = "document" THEN BalancesInOrder(Dims(r.lines))
                                 ELSE <<OrderLock(r.order)>>]
  /\ held' = [held EXCEPT ![c] = {}]
  /\ seen' = [seen EXCEPT ![c] = Unread]

Begin(c) ==
  /\ stage[c] = "idle"
  /\ Start(c)
  /\ UNCHANGED <<tables, request, tries>>

\* Bug: rows are read without FOR UPDATE.
AcquireUnlocked(c) ==
  /\ todo[c] # <<>> /\ ~ Insufficient(c)
  /\ held' = [held EXCEPT ![c] = @ \union {Head(todo[c])}]
  /\ todo' = [todo EXCEPT ![c] = Tail(@)]
  /\ seen' = [seen EXCEPT ![c] =
       [onHand |-> [d \in Dim |-> IF Head(todo[c]) = BalanceLock(d) THEN onHand[d] ELSE @.onHand[d]],
        reserved |-> [d \in Dim |-> IF Head(todo[c]) = BalanceLock(d) THEN reserved[d] ELSE @.reserved[d]],
        open |-> [d \in Dim |-> IF Head(todo[c]) = RowLock(request[c].order, d)
                                THEN open[request[c].order][d] ELSE @.open[d]]]]
  /\ UNCHANGED <<tables, request, stage, tries>>

\* SELECT ... FOR UPDATE, or an INSERT: wait for the row, lock it, read it.
Acquire(c) ==
  /\ todo[c] # <<>> /\ Free(Head(todo[c])) /\ ~ Insufficient(c)
  /\ held' = [held EXCEPT ![c] = @ \union {Head(todo[c])}]
  /\ todo' = [todo EXCEPT ![c] = Tail(@)]
  /\ seen' = [seen EXCEPT ![c] =
       [onHand |-> [d \in Dim |-> IF Head(todo[c]) = BalanceLock(d) THEN onHand[d] ELSE @.onHand[d]],
        reserved |-> [d \in Dim |-> IF Head(todo[c]) = BalanceLock(d) THEN reserved[d] ELSE @.reserved[d]],
        open |-> [d \in Dim |-> IF Head(todo[c]) = RowLock(request[c].order, d)
                                THEN open[request[c].order][d] ELSE @.open[d]]]]
  /\ UNCHANGED <<tables, request, stage, tries>>

\* Bug: the order's status is not looked at again under the lock.
AdmitAnyOrder(c) ==
  LET r == request[c] IN
  /\ stage[c] = "order" /\ todo[c] = <<>>
  /\ stage' = [stage EXCEPT ![c] = "balances"]
  /\ todo' = [todo EXCEPT ![c] =
       CASE r.kind = "reserve" -> LinesInOrder(r.order)
         [] r.kind = "ship" -> BalancesInOrder(Dims(r.lines))
         [] r.kind = "close" -> ReleasesInOrder(r.order)]
  /\ seen' = [seen EXCEPT ![c].open = open[r.order]]
  /\ UNCHANGED <<tables, request, held, tries>>

\* With the order locked, its status is looked at.
AdmitOrder(c) ==
  LET r == request[c] IN
  /\ stage[c] = "order" /\ todo[c] = <<>> /\ r.order \notin closed
  /\ stage' = [stage EXCEPT ![c] = "balances"]
  /\ todo' = [todo EXCEPT ![c] =
       CASE r.kind = "reserve" -> LinesInOrder(r.order)
         [] r.kind = "ship" -> BalancesInOrder(Dims(r.lines))
         [] r.kind = "close" -> ReleasesInOrder(r.order)]
  /\ seen' = [seen EXCEPT ![c].open = open[r.order]]
  /\ UNCHANGED <<tables, request, held, tries>>

\* A reservation listed for release has ended meanwhile: it is passed over.
SkipEnded(c) ==
  /\ request[c].kind = "close" /\ stage[c] = "balances" /\ Len(todo[c]) > 1
  /\ \E d \in Dim : /\ Head(todo[c]) = BalanceLock(d) /\ open[request[c].order][d] = 0
                    /\ seen' = [seen EXCEPT ![c].open[d] = 0]
  /\ todo' = [todo EXCEPT ![c] = Tail(Tail(@))]
  /\ UNCHANGED <<tables, request, stage, held, tries>>

\* With the balances locked, a posting locks the reservations it may consume.
FindReservations(c) ==
  LET r == request[c] IN
  /\ r.kind \in {"ship", "document"} /\ stage[c] = "balances" /\ todo[c] = <<>>
  /\ stage' = [stage EXCEPT ![c] = "rows"]
  /\ todo' = [todo EXCEPT ![c] = RowsInOrder(r.order, RowsFound(r.order, Dims(r.lines)))]
  /\ seen' = [seen EXCEPT ![c].open = [d \in Dim |-> 0]]
  /\ UNCHANGED <<tables, request, held, tries>>

-----------------------------------------------------------------------------
(* What a call writes, from the values it read.                            *)

Taken(c, d) ==
  LET out == QuantityOf(request[c].lines, d)
  IN  IF seen[c].open[d] < out THEN seen[c].open[d] ELSE out

\* A shipment must be covered by its order's reservations; what a document has
\* no reservation for, it takes from the available stock.
Covered(c) ==
  \A d \in Dims(request[c].lines) :
    LET out == QuantityOf(request[c].lines, d) IN
    /\ request[c].kind = "ship" => Taken(c, d) = out
    /\ seen[c].onHand[d] - seen[c].reserved[d] + Taken(c, d) >= out

CommitReserve(c) ==
  LET o == request[c].order
      amount == [d \in Dim |-> IF d \in Reserving(c) THEN QuantityOf(OrderLines[o], d) ELSE 0]
  IN  /\ request[c].kind = "reserve" /\ stage[c] = "balances" /\ todo[c] = <<>>
      /\ ~ Insufficient(c)
      /\ reserved' = [d \in Dim |-> IF d \in Reserving(c) THEN seen[c].reserved[d] + amount[d]
                                    ELSE reserved[d]]
      /\ open' = [open EXCEPT ![o] = [d \in Dim |-> IF d \in Reserving(c) THEN amount[d] ELSE @[d]]]
      /\ made' = [made EXCEPT ![o] = @ \union Reserving(c)]
      /\ UNCHANGED <<onHand, closed>>
      /\ EndWith(c, "done")
      /\ UNCHANGED <<request, tries>>

CommitPosting(c) ==
  LET o == request[c].order
      out == Dims(request[c].lines)
  IN  /\ stage[c] = "rows" /\ todo[c] = <<>> /\ Covered(c)
      /\ onHand' = [d \in Dim |-> IF d \in out
                                  THEN seen[c].onHand[d] - QuantityOf(request[c].lines, d)
                                  ELSE onHand[d]]
      /\ reserved' = [d \in Dim |-> IF d \in out THEN seen[c].reserved[d] - Taken(c, d)
                                    ELSE reserved[d]]
      /\ open' = [open EXCEPT ![o] =
           [d \in Dim |-> IF d \in out /\ Taken(c, d) > 0 THEN seen[c].open[d] - Taken(c, d)
                          ELSE @[d]]]
      /\ UNCHANGED <<made, closed>>
      /\ EndWith(c, "done")
      /\ UNCHANGED <<request, tries>>

CommitClose(c) ==
  LET o == request[c].order
      freed == {d \in Dim : RowLock(o, d) \in held[c]}
  IN  /\ request[c].kind = "close" /\ stage[c] = "balances" /\ todo[c] = <<>>
      /\ \A d \in freed : seen[c].open[d] <= seen[c].reserved[d]
      /\ reserved' = [d \in Dim |-> IF d \in freed THEN seen[c].reserved[d] - seen[c].open[d]
                                    ELSE reserved[d]]
      /\ open' = [open EXCEPT ![o] = [d \in Dim |-> IF d \in freed THEN 0 ELSE @[d]]]
      /\ closed' = closed \union {o}
      /\ UNCHANGED <<onHand, made>>
      /\ EndWith(c, "done")
      /\ UNCHANGED <<request, tries>>

\* A check fails: the transaction rolls back.
Refuse(c) ==
  /\ \/ stage[c] = "order" /\ todo[c] = <<>> /\ request[c].order \in closed
     \/ stage[c] = "balances" /\ Insufficient(c)
     \/ stage[c] = "rows" /\ todo[c] = <<>> /\ ~ Covered(c)
     \/ /\ stage[c] = "balances" /\ todo[c] = <<>> /\ request[c].kind = "close"
        /\ \E d \in Dim : /\ RowLock(request[c].order, d) \in held[c]
                          /\ seen[c].open[d] > seen[c].reserved[d]
  /\ EndWith(c, "refused")
  /\ UNCHANGED <<tables, request, tries>>

-----------------------------------------------------------------------------
WaitsFor(c, e) == todo[c] # <<>> /\ ~ Insufficient(c) /\ Head(todo[c]) \in held[e]

\* Calls that wait for each other in a circle.
Circle(S) ==
  /\ S # {}
  /\ \A c \in S : (\E e \in S : WaitsFor(c, e)) /\ (\E e \in S : WaitsFor(e, c))

\* The database rolls one of them back (error 1213).  post_document runs the
\* whole transaction again, MaxRetries times in all; the other calls fail.
RollBack(c) ==
  /\ \E S \in SUBSET Call : c \in S /\ Circle(S)
  /\ IF request[c].kind = "document" /\ tries[c] + 1 < MaxRetries
     THEN Start(c) /\ tries' = [tries EXCEPT ![c] = @ + 1]
     ELSE EndWith(c, "failed") /\ UNCHANGED tries
  /\ UNCHANGED <<tables, request>>

Step(c) ==
  \/ Acquire(c) \/ AdmitOrder(c) \/ SkipEnded(c) \/ FindReservations(c)
  \/ CommitReserve(c) \/ CommitPosting(c) \/ CommitClose(c) \/ Refuse(c)

LocksNext == \E c \in Call : Begin(c) \/ Step(c) \/ RollBack(c)

\* A call that was started runs on, and the database finds every deadlock.
LocksFairness == (\A c \in Call : WF_lockVars(Step(c))) /\ WF_lockVars(\E c \in Call : RollBack(c))

LocksSpec == LocksInit /\ [][LocksNext]_lockVars
FairLocksSpec == LocksSpec /\ LocksFairness

-----------------------------------------------------------------------------
(* What the locks are for.                                                 *)

Promises == INSTANCE StockPromises WITH
  Owner <- Order, stock <- onHand, pledged <- reserved, promised <- open

\* Interleaved at their row locks, the calls still do what StockPromises allows
\* one at a time: no update of a bucket is lost, no reservation is consumed and
\* released at once, nothing is promised twice.
ImplementsPromises == Promises!Spec

\* close_order lists the reservations before it locks them, and a document of the
\* order needs no lock on the order; still nothing stays reserved for a closed
\* order, and nothing is reserved for it again.
ClosedOrdersHoldNothing == \A o \in closed, d \in Dim : open[o][d] = 0

\* Postings, shipments and releases lock balances in one order and reservations
\* under their balances: they never wait in a circle by themselves.
DeadlocksNeedReserving ==
  \A S \in SUBSET Call : Circle(S) => \E c \in S : request[c].kind = "reserve"

\* A call that was started ends, even if it is rolled back: nobody waits forever.
EveryCallEnds == \A c \in Call : (stage[c] \notin Ended) ~> (stage[c] \in Ended)
=============================================================================
