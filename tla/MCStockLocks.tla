----------------------------- MODULE MCStockLocks -----------------------------
(***************************************************************************)
(* Instances of StockLocks for TLC: two orders that ask for the same two   *)
(* dimensions, in opposite line order, and not enough stock for both.      *)
(***************************************************************************)
EXTENDS StockLocks, TLC

CONSTANTS oA, oB

L(d, q) == [dim |-> d, quantity |-> q]
Ask(kind, o, lines) == [kind |-> kind, order |-> o, lines |-> lines]

TwoOne == <<2, 1>>
OppositeLines == (oA :> <<L(1, 1), L(2, 1)>>) @@ (oB :> <<L(2, 1), L(1, 1)>>)

\* Both orders are reserved, one of them is shipped, issued by hand and closed.
AllRequests ==
  {Ask("reserve", oA, <<>>), Ask("reserve", oB, <<>>),
   Ask("ship", oA, <<L(2, 1), L(1, 1)>>), Ask("document", oA, <<L(1, 1)>>),
   Ask("document", oA, <<L(2, 2), L(1, 1)>>), Ask("close", oA, <<>>)}
=============================================================================
