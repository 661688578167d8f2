------------------------------- MODULE MCStock -------------------------------
(***************************************************************************)
(* Instances of Stock for TLC: one material, a few locations, the drafts   *)
(* that callers write in the runs.                                         *)
(***************************************************************************)
EXTENDS StockRefinement, TLC

CONSTANTS m1, l1, l2, l3, b1, b2

A(from, quality, q) ==
  [material |-> m1, location |-> from, target |-> NoLocation, quality |-> quality,
   targetQuality |-> NoQuality, direction |-> "in", quantity |-> q]

Doc(type, biz, lines) == [type |-> type, biz |-> biz, lines |-> lines]

Receive(q) == Doc("receipt", NoBiz, <<A(l1, "qualified", q)>>)
Quarantine(q) == Doc("receipt", NoBiz, <<A(l1, "quarantine", q)>>)
Pass(q) == Doc("quality", NoBiz, <<[A(l1, "quarantine", q) EXCEPT !.targetQuality = "qualified"]>>)
Issue(b, q) == Doc("issue", b, <<A(l1, "qualified", q)>>)
IssueTwice(b, q, r) == Doc("issue", b, <<A(l1, "qualified", q), A(l1, "qualified", r)>>)
Move(b, q) == Doc("move", b, <<[A(l1, "qualified", q) EXCEPT !.target = l2]>>)
WriteOff(q) == Doc("adjustment", NoBiz, <<[A(l1, "qualified", q) EXCEPT !.direction = "out"]>>)

\* Stock comes in, is promised to two orders, and is issued and moved for them.
OrderDrafts == {Receive(2), IssueTwice(b1, 1, 1), Move(b2, 1)}

\* Stock comes in unchecked and is passed; drafts that must be refused.
QualityDrafts ==
  {Quarantine(2), Pass(2), WriteOff(1), Issue(NoBiz, 1), Move(b1, 1),
   Doc("issue", NoBiz, <<A(l1, "quarantine", 1)>>),
   Doc("receipt", NoBiz, <<A(l3, "qualified", 1)>>),
   Doc("move", NoBiz, <<[A(l1, "quarantine", 1) EXCEPT !.target = l1]>>),
   Doc("quality", NoBiz, <<[A(l1, "quarantine", 1) EXCEPT !.targetQuality = "quarantine"]>>)}

MCDrafts == OrderDrafts \union QualityDrafts

-----------------------------------------------------------------------------
\* A behaviour is about one of the two, chosen at its start: several reservations of
\* what comes in once, without keys of postings, or keys and one reservation of little.
VARIABLE scenario

Fits ==
  LET drafts == IF scenario = "orders" THEN OrderDrafts ELSE QualityDrafts
  IN  /\ \A n \in 1..Len(docs) :
           /\ \E draft \in drafts : draft.type = docs[n].type /\ draft.lines = docs[n].lines
           /\ docs[n].biz \in {draft.biz : draft \in drafts}
           /\ scenario = "orders" => docs[n].key = NoKey /\ (docs[n].type = "receipt" <=> n = 1)
      /\ scenario = "quality" =>
           /\ Len(reservations) <= 1
           /\ \A i \in 1..Len(reservations) : reservations[i].biz = b1 /\ reservations[i].quantity = 1

MCInit == scenario \in {"orders", "quality"} /\ Init
MCNext == Next /\ UNCHANGED scenario /\ Fits'
MCSpec == MCInit /\ [][MCNext]_<<vars, scenario>>

\* Request keys are only compared, so the runs may identify their permutations.
RequestKeySymmetry == Permutations(RequestKey)
=============================================================================
