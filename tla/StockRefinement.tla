--------------------------- MODULE StockRefinement ---------------------------
(***************************************************************************)
(* The stock service implements StockPromises: the reserved bucket is the  *)
(* pledged total, and an owner's open reservations are what it holds.      *)
(***************************************************************************)
EXTENDS Stock

OpenOf(b, d) ==
  [i \in 1..Len(reservations) |->
    IF reservations[i].biz = b /\ reservations[i].dim = d THEN Open(reservations[i]) ELSE 0]

PromisedTo(b) == [d \in Dim |-> Sum(OpenOf(b, d), Len(reservations))]

Promises == INSTANCE StockPromises WITH
  Owner <- BizRef, stock <- onHand, pledged <- reserved,
  promised <- [b \in BizRef |-> PromisedTo(b)]

\* No posting, reversal or release of anyone takes stock that was promised to
\* another business document, and no reservation promises stock twice.
ImplementsPromises == Promises!Spec
=============================================================================
