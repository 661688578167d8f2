------------------------------- MODULE MCSupply -------------------------------
(***************************************************************************)
(* A small instance of what supplies a factory: a netting run, planners at *)
(* work on the suggestions of several runs, clerks who order and receive,  *)
(* and inspectors.  What a behaviour is about is one of Subjects, chosen   *)
(* at its start.                                                           *)
(***************************************************************************)
EXTENDS Procurement, Netting, Suggestions, Inspections, TLC

CONSTANTS Subjects, p1, q1, ann, ben, h1, length, look, noLimit

VARIABLE subject

-----------------------------------------------------------------------------
(* Netting.                                                                *)

\* One line for each component in S.
Lines(S) == LET ordered[k \in 0..MaterialCount] ==
                  IF k = 0 THEN <<>>
                  ELSE IF k \in S THEN Append(ordered[k - 1], [child |-> k, usage |-> k])
                  ELSE ordered[k - 1]
            IN  ordered[MaterialCount]
\* Every bill over the materials 1..3, and a chain of four that is too deep.
MCBills ==
  {[m \in MaterialId |-> IF m = 4 THEN <<>> ELSE Lines(children[m])]
     : children \in [1..3 -> SUBSET (1..3)]}
    \union {[m \in MaterialId |-> Lines({m + 1} \cap MaterialId)]}

Demand(m, status, shipped, due) ==
  [material |-> m, status |-> status, quantity |-> 3, shipped |-> shipped, due |-> due]
Promise(m, status, day) == [material |-> m, status |-> status, quantity |-> 2, received |-> 1, due |-> day]
Work(m, status, day) == [material |-> m, status |-> status, quantity |-> 2, completed |-> 1, due |-> day]

\* An overdue line, one in a later bucket, one beyond the horizon, one not in force.
MCSales ==
  {<<Demand(m, "partially_shipped", 1, 0), Demand(1 + (m % 3), "approved", 0, 3)>> : m \in 1..3}
    \union {<<Demand(1, "approved", 0, 2), Demand(1, "approved", 0, 3),
              Demand(1, "submitted", 0, 2), Demand(2, "approved", 0, 5)>>}
MCPurchases == {<<>>, <<Promise(3, "approved", 0), Promise(1, "draft", 2)>>,
                <<Promise(2, "partially_received", 3), Promise(3, "approved", 5)>>}
MCWorks == {<<>>, <<Work(1, "released", 3), Work(2, "draft", 2)>>}
MCStocks == {[m \in MaterialId |-> [onHand |-> 0, frozen |-> 0, reserved |-> 0]],
             [m \in MaterialId |-> [onHand |-> 4, frozen |-> 1, reserved |-> m]]}

MCResults == {<<"purchase", "production">>, <<"production_without_style">>}

-----------------------------------------------------------------------------
(* Orders, receipts, inspections.                                          *)

MCRequested == [q \in Requisition |-> 2]
\* One line, or two.
MCOrderLines == {<<3>>, <<2, 1>>}

Line(k, n) == [line |-> k, quantity |-> n]
\* Part of a line, a line in two deliveries, and one of each line.
MCReceiptLines ==
  {<<Line(1, 1)>>, <<Line(1, 2)>>, <<Line(1, 1), Line(1, 1)>>, <<Line(1, 1), Line(2, 1)>>}

MCLower == [i \in Item |-> IF i = length THEN 1 ELSE noLimit]
MCUpper == [i \in Item |-> IF i = length THEN 2 ELSE noLimit]

-----------------------------------------------------------------------------
MCInit ==
  /\ subject \in Subjects
  /\ ProcurementInit /\ SuggestionsInit /\ InspectionsInit /\ NettingInit
  \* One input of a netting run is enough where none runs.
  /\ subject # "netting" =>
       /\ bill = [m \in MaterialId |-> Lines({})] /\ Len(sales) = 4
       /\ purchases = <<>> /\ work = <<>> /\ stock[1].onHand = 0

MCNext ==
  /\ \/ /\ subject = "netting" /\ NettingNext
        /\ UNCHANGED <<suggestionVars, procurementVars, qualityVars>>
     \/ /\ subject = "suggestions" /\ SuggestionsNext
        /\ UNCHANGED <<nettingVars, procurementVars, qualityVars>>
     \/ /\ subject = "procurement" /\ ProcurementNext
        /\ UNCHANGED <<nettingVars, suggestionVars, qualityVars>>
     \/ /\ subject = "inspections" /\ InspectionsNext
        /\ UNCHANGED <<nettingVars, suggestionVars, procurementVars>>
  /\ UNCHANGED subject

MCSpec ==
  MCInit /\ [][MCNext]_<<subject, nettingVars, suggestionVars, procurementVars, qualityVars>>

\* The same people plan, receive and inspect.
People == Permutations(Planner)
=============================================================================
