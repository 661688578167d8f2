\* Concurrent calls on two orders.
CONSTANTS
  oA = oA
  oB = oB
  Call = {c1, c2, c3}
  Order = {oA, oB}
  Keys = 2
  Supply <- TwoOne
  OrderLines <- OppositeLines
  Request <- AllRequests
  MaxRetries = 2
SPECIFICATION FairLocksSpec
INVARIANTS
  ClosedOrdersHoldNothing
  DeadlocksNeedReserving
PROPERTIES
  ImplementsPromises
  EveryCallEnds
CHECK_DEADLOCK FALSE
