---------------------------- MODULE StockPromises ----------------------------
(***************************************************************************)
(* What the stock service promises to the modules that use it: an owner    *)
(* who was promised a quantity of a stock dimension keeps it until it      *)
(* gives it back or its own document uses it up, and what is promised in   *)
(* all never exceeds the stock.  How documents, lines, the ledger and the  *)
(* reservation rows bring this about is module Stock.                      *)
(***************************************************************************)
EXTENDS Integers

CONSTANTS Dim, Owner

VARIABLES
  stock,     \* the quantity in each dimension
  pledged,   \* how much of it is promised to anyone
  promised   \* how much of it is promised to each owner

vars == <<stock, pledged, promised>>

Init ==
  /\ stock \in [Dim -> Nat]
  /\ pledged = [d \in Dim |-> 0]
  /\ promised = [o \in Owner |-> [d \in Dim |-> 0]]

OnlyFor(o) == \A p \in Owner \ {o} : promised'[p] = promised[p]

\* Owner o gets free stock promised, in one or several dimensions.
Promise(o) ==
  /\ UNCHANGED stock
  /\ \A d \in Dim :
       /\ promised'[o][d] >= promised[o][d]
       /\ pledged'[d] = pledged[d] + (promised'[o][d] - promised[o][d])
       /\ pledged'[d] <= stock[d]

\* What o holds shrinks, in any dimensions, and the pledged total with it: it is
\* given back, or a document uses it up and changes the stock in any way that
\* leaves the promises to all others covered.
Spend(o) ==
  /\ \A d \in Dim :
       /\ 0 <= promised'[o][d] /\ promised'[o][d] <= promised[o][d]
       /\ pledged'[d] = pledged[d] - (promised[o][d] - promised'[o][d])
  /\ UNCHANGED stock \/ \A d \in Dim : pledged'[d] <= stock'[d]

Next == \E o \in Owner : OnlyFor(o) /\ (Promise(o) \/ Spend(o))

Spec == Init /\ [][Next]_vars
=============================================================================
