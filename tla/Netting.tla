------------------------------- MODULE Netting -------------------------------
(***************************************************************************)
(* A run of material requirements planning (apps/planning/mrp.py): what    *)
(* sales orders still demand is netted, material by material, against      *)
(* stock, purchase orders and production orders; what is missing of a      *)
(* manufactured material is exploded by its bill of materials into demand  *)
(* for its components.                                                     *)
(*                                                                         *)
(* The computation is sequential.  It first walks the bills depth first    *)
(* from the demanded materials, to find each material's low-level code and *)
(* to refuse cycles, and then nets the materials in the order of their     *)
(* codes, so that each one comes after all that it goes into.              *)
(*                                                                         *)
(* Dates are days, materials are their primary keys.  Abstracted: one      *)
(* company and warehouse, units, rounding to six places, the texts of      *)
(* reasons and paths, and suggestion types, which do not steer anything.   *)
(***************************************************************************)
EXTENDS Sums, Sequences, FiniteSetsExt

CONSTANTS
  MaterialCount,     \* materials are 1..MaterialCount
  MaxLevel,          \* MAX_LEVEL
  BucketLength,      \* days of a time bucket: 1 or those of a week
  Start, End,        \* the horizon
  Bills,             \* the bills of materials that may be in force
  SalesLists, PurchaseLists, WorkLists,   \* the order lines there may be
  Stocks             \* the balances there may be

MaterialId == 1..MaterialCount
Day == 0..(End + 1)
\* gross_quantity of each normal line; a material without a bill has no lines.
BillLine == [child : MaterialId, usage : Nat \ {0}]
Bill == [MaterialId -> Seq(BillLine)]
SalesStatus == {"draft", "submitted", "approved", "partially_shipped", "shipped",
                "closed", "cancelled"}
SalesLine == [material : MaterialId, status : SalesStatus, quantity : Nat, shipped : Nat, due : Day]
PurchaseStatus == {"draft", "submitted", "approved", "partially_received", "received",
                   "closed", "cancelled"}
PurchaseLine ==
  [material : MaterialId, status : PurchaseStatus, quantity : Nat, received : Nat, due : Day]
WorkStatus == {"draft", "released", "in_progress", "completed", "closed", "cancelled"}
WorkOrder == [material : MaterialId, status : WorkStatus, quantity : Nat, completed : Nat, due : Day]
\* The qualified balance of a material.
Balance == [onHand : Nat, frozen : Nat, reserved : Nat]

ASSUME NettingSizes ==
  /\ MaterialCount \in Nat /\ MaxLevel \in Nat
  /\ BucketLength \in Nat \ {0} /\ Start \in Nat /\ End \in Nat /\ Start <= End
ASSUME NettingInputs ==
  /\ Bills \subseteq Bill
  /\ SalesLists \subseteq Seq(SalesLine) /\ PurchaseLists \subseteq Seq(PurchaseLine)
  /\ WorkLists \subseteq Seq(WorkOrder) /\ Stocks \subseteq [MaterialId -> Balance]

VARIABLES
  bill, sales, purchases, work, stock,   \* the tables the run reads; they do not change
  phase,       \* walking, netting, completed or failed
  stack,       \* the calls of walk in progress, the outermost first
  walked,      \* the last demand row that was walked from
  level,       \* low_level; -1: not met yet
  seen,        \* the materials in bom_of: their lines have been walked
  demands,     \* quantities demanded of each material by bucket
  netted,      \* the materials netted so far
  taken,       \* what was demanded of a material when it was netted
  shortages    \* the net requirements, which become suggestions

tables == <<bill, sales, purchases, work, stock>>
nettingVars == <<bill, sales, purchases, work, stock,
          phase, stack, walked, level, seen, demands, netted, taken, shortages>>

-----------------------------------------------------------------------------
(* Demand and supply by bucket.                                            *)

BucketOf(day) == day - (day % BucketLength)
Later(day) == IF day > Start THEN day ELSE Start
Buckets == {BucketOf(day) : day \in Start..End}
NoQuantities == [b \in Buckets |-> 0]

InHorizon(line) == line.due <= End

\* Sum over the lines that count, of what is open on them in bucket b.
OpenIn(lines, counts(_), open(_), m, b) ==
  Sum([k \in 1..Len(lines) |->
         IF /\ lines[k].material = m /\ counts(lines[k]) /\ InHorizon(lines[k])
            /\ BucketOf(Later(lines[k].due)) = b
         THEN AtLeastZero(open(lines[k])) ELSE 0], Len(lines))

SalesCount(line) == line.status \in {"approved", "partially_shipped"}
SalesOpen(line) == line.quantity - line.shipped
PurchaseCounts(line) == line.status \in {"approved", "partially_received"}
PurchaseOpen(line) == line.quantity - line.received
WorkCounts(order) == order.status \in {"released", "in_progress"}
WorkOpen(order) == order.quantity - order.completed

SalesDemand(m, b) == OpenIn(sales, SalesCount, SalesOpen, m, b)

\* The demand rows, which are walked from in the order of their lines.
DemandRows ==
  {k \in 1..Len(sales) :
     SalesCount(sales[k]) /\ SalesOpen(sales[k]) > 0 /\ InHorizon(sales[k])}

OnHand(m) == AtLeastZero(stock[m].onHand - stock[m].frozen - stock[m].reserved)
Inbound(m, b) ==
  OpenIn(purchases, PurchaseCounts, PurchaseOpen, m, b) + OpenIn(work, WorkCounts, WorkOpen, m, b)

-----------------------------------------------------------------------------
Frame == [material : MaterialId, depth : Nat, next : Nat \ {0}]

NettingTypeOK ==
  /\ bill \in Bill
  /\ phase \in {"walking", "netting", "completed", "failed"}
  /\ stack \in Seq(Frame) /\ walked \in Nat
  /\ level \in [MaterialId -> -1..MaxLevel] /\ seen \subseteq MaterialId
  /\ demands \in [MaterialId -> [Buckets -> Nat]]
  /\ netted \subseteq MaterialId
  /\ taken \in [MaterialId -> [Buckets -> Nat]] /\ shortages \in [MaterialId -> [Buckets -> Nat]]

NettingInit ==
  /\ bill \in Bills /\ sales \in SalesLists /\ purchases \in PurchaseLists
  /\ work \in WorkLists /\ stock \in Stocks
  /\ phase = "walking" /\ stack = <<>> /\ walked = 0
  /\ level = [m \in MaterialId |-> -1] /\ seen = {}
  /\ demands = [m \in MaterialId |-> [b \in Buckets |-> SalesDemand(m, b)]]
  /\ netted = {}
  /\ taken = [m \in MaterialId |-> NoQuantities] /\ shortages = [m \in MaterialId |-> NoQuantities]

-----------------------------------------------------------------------------
(* _build_graph: the walk.                                                 *)

Fail ==
  /\ phase' = "failed"
  /\ UNCHANGED <<tables, stack, walked, level, seen, demands, netted, taken, shortages>>

\* walk(m) at a depth, called from the frames below.  A material that has been
\* walked before only gets the deeper code: its own lines are not walked again.
Enter(m, depth, below) ==
  /\ depth <= MaxLevel
  /\ level' = [level EXCEPT ![m] = IF depth > @ THEN depth ELSE @]
  /\ seen' = seen \union {m}
  /\ stack' = IF m \in seen THEN below
              ELSE Append(below, [material |-> m, depth |-> depth, next |-> 1])

RowsLeft == {k \in DemandRows : k > walked}

WalkRoot ==
  /\ phase = "walking" /\ stack = <<>>
  /\ \E k \in RowsLeft :
       /\ \A j \in RowsLeft : k <= j
       /\ Enter(sales[k].material, 0, <<>>)
       /\ walked' = k
  /\ UNCHANGED <<tables, phase, demands, netted, taken, shortages>>

Top == stack[Len(stack)]
LinesLeft == stack # <<>> /\ Top.next <= Len(bill[Top.material])
Child == bill[Top.material][Top.next].child

\* Bug: only a material that lists itself is a cycle.
ListsItself == Child = Top.material

ClosesCycle == \E k \in 1..Len(stack) : stack[k].material = Child

WalkLine ==
  /\ phase = "walking" /\ LinesLeft /\ ~ ClosesCycle
  /\ Enter(Child, Top.depth + 1, [stack EXCEPT ![Len(stack)].next = @ + 1])
  /\ UNCHANGED <<tables, phase, walked, demands, netted, taken, shortages>>

Refuse ==
  /\ phase = "walking" /\ LinesLeft
  /\ ClosesCycle \/ Top.depth + 1 > MaxLevel
  /\ Fail

Return ==
  /\ phase = "walking" /\ stack # <<>> /\ ~ LinesLeft
  /\ stack' = SubSeq(stack, 1, Len(stack) - 1)
  /\ UNCHANGED <<tables, phase, walked, level, seen, demands, netted, taken, shortages>>

StartNetting ==
  /\ phase = "walking" /\ stack = <<>> /\ RowsLeft = {}
  /\ phase' = "netting"
  /\ UNCHANGED <<tables, stack, walked, level, seen, demands, netted, taken, shortages>>

-----------------------------------------------------------------------------
(* _compute and _net_item: the netting.                                    *)

\* Bug: what is missing in one bucket is demanded again in the next.
BacklogAfter(m, before, b) == before + Inbound(m, b) - demands[m][b]

\* What is left of m after bucket b, when this much was left before it.
LeftAfter(m, before, b) == AtLeastZero(before + Inbound(m, b) - demands[m][b])

Left(m) ==
  LET left[day \in (BucketOf(Start) - 1)..End] ==
        IF day < BucketOf(Start) THEN OnHand(m)
        ELSE IF day \in Buckets THEN LeftAfter(m, left[day - 1], day) ELSE left[day - 1]
  IN  left

NetRequirement(m, b) == AtLeastZero(demands[m][b] - Inbound(m, b) - Left(m)[b - 1])

Waiting == {m \in MaterialId : level[m] >= 0 /\ m \notin netted}

\* sorted(low_level, key=(level, id))
NextMaterial ==
  CHOOSE m \in Waiting : \A n \in Waiting :
    level[m] < level[n] \/ (level[m] = level[n] /\ m <= n)

\* What a material's net requirements add to the demand for n.
Usage(m, n) ==
  Sum([k \in 1..Len(bill[m]) |-> IF bill[m][k].child = n THEN bill[m][k].usage ELSE 0],
      Len(bill[m]))

\* Bug: components are made for all that is demanded, whatever there is of it.
ExplodeGross(m, n, b) == Usage(m, n) * demands[m][b]

Exploded(m, n, b) == Usage(m, n) * NetRequirement(m, b)

\* Demand that reaches a material after its turn is not netted any more.
NetMaterial ==
  /\ phase = "netting" /\ Waiting # {}
  /\ LET m == NextMaterial IN
       /\ netted' = netted \union {m}
       /\ taken' = [taken EXCEPT ![m] = demands[m]]
       /\ shortages' = [shortages EXCEPT ![m] = [b \in Buckets |-> NetRequirement(m, b)]]
       /\ demands' = [n \in MaterialId |->
            [b \in Buckets |-> demands[n][b] + Exploded(m, n, b)]]
  /\ UNCHANGED <<tables, phase, stack, walked, level, seen>>

Complete ==
  /\ phase = "netting" /\ Waiting = {}
  /\ phase' = "completed"
  /\ UNCHANGED <<tables, stack, walked, level, seen, demands, netted, taken, shortages>>

-----------------------------------------------------------------------------
RunIsOver == phase \in {"completed", "failed"} /\ UNCHANGED nettingVars

NettingNext ==
  \/ WalkRoot \/ WalkLine \/ Refuse \/ Return \/ StartNetting
  \/ NetMaterial \/ Complete \/ RunIsOver

NettingSpec == NettingInit /\ [][NettingNext]_nettingVars

-----------------------------------------------------------------------------
(* Properties.                                                             *)

ChildrenOf(m) == {bill[m][k].child : k \in 1..Len(bill[m])}

\* What the demand rows reach in exactly k steps down, and in any number.
Layer ==
  LET layer[k \in 0..(MaterialCount + MaxLevel + 1)] ==
        IF k = 0 THEN {sales[i].material : i \in DemandRows}
        ELSE UNION {ChildrenOf(m) : m \in layer[k - 1]}
  IN  layer
Reached == UNION {Layer[k] : k \in 0..(MaterialCount - 1)}

Below(m) ==
  LET below[k \in 0..MaterialCount] ==
        IF k = 0 THEN ChildrenOf(m)
        ELSE below[k - 1] \union UNION {ChildrenOf(n) : n \in below[k - 1]}
  IN  below[MaterialCount]

\* A run that gets to netting has no cycle below its demand, and one that is
\* refused has one, or a chain of more than MAX_LEVEL steps.
CyclesAreRefused ==
  /\ phase \in {"netting", "completed"} => \A m \in Reached : m \notin Below(m)
  /\ phase = "failed" => (\E m \in Reached : m \in Below(m)) \/ Layer[MaxLevel + 1] # {}

\* What quantities by bucket add up to by day b: those of day 0, 1, ...
UpTo(f, b) == Sum([k \in 1..(b + 1) |-> IF k - 1 \in Buckets THEN f[k - 1] ELSE 0], b + 1)

\* Demand and supply of m up to bucket b.
DemandUpTo(m, b) == UpTo(taken[m], b)
SupplyUpTo(m, b) == OnHand(m) + UpTo([c \in Buckets |-> Inbound(m, c)], b)

\* The net requirements of a material up to any bucket are what its supply ever
\* fell short of its demand by then: no more, however often it was short, and
\* no less.  Overdue orders count in the first bucket, those beyond the horizon
\* and those not in force do not.
NetRequirementsCoverTheWorstShortfall ==
  \A m \in netted : \A b \in Buckets :
    UpTo(shortages[m], b)
      = Max({0} \union {DemandUpTo(m, c) - SupplyUpTo(m, c) : c \in {c \in Buckets : c <= b}})

\* A parent of a material is netted before it is.
NettedAfterItsParents ==
  \A n \in netted : \A m \in Reached : n \in ChildrenOf(m) => m \in netted

\* What the materials of S lack of n for what is missing of them.
Lacking(S, n, b) ==
  Sum([m \in MaterialId |-> IF m \in S THEN Usage(m, n) * shortages[m][b] ELSE 0], MaterialCount)

CodesDescend == \A m \in Reached : \A n \in ChildrenOf(m) : level[n] > level[m]

\* When the codes put every material below all that it goes into, what is netted
\* of it at the end is all that customers demand and all that its parents lack.
DerivedDemandIsNetted ==
  phase = "completed" /\ CodesDescend =>
    \A n \in Reached, b \in Buckets :
      taken[n][b] = SalesDemand(n, b) + Lacking(Reached, n, b)

\* Bills are followed to their ends, or the run is refused.
BillsAreFollowed == CyclesAreRefused /\ DerivedDemandIsNetted
=============================================================================
