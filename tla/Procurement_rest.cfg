SPECIFICATION MCSpec
CONSTANTS
  Subjects = {"procurement"}
  ann = ann
  ben = ben
  p1 = p1
  q1 = q1
  h1 = h1
  length = length
  look = look
  noLimit = noLimit
  MaterialCount = 4
  MaxLevel = 2
  BucketLength = 2
  Start = 1
  End = 4
  Bills <- MCBills
  SalesLists <- MCSales
  PurchaseLists <- MCPurchases
  WorkLists <- MCWorks
  Stocks <- MCStocks
  Planner = {ann, ben}
  Results <- MCResults
  MaxRuns = 3
  None = None
  Requisition = {q1}
  Order = {p1}
  Clerk = {ann, ben}
  Requested <- MCRequested
  OrderLines <- MCOrderLines
  ReceiptLines <- MCReceiptLines
  MaxReceipts = 2
  NoLimit = noLimit
  Inspector = {ann, ben}
  Handler = {h1}
  Item = {length, look}
  Quantitative = {length}
  Lower <- MCLower
  Upper <- MCUpper
  Value = {0, 2}
  MaxInspections = 1
  MaxAlerts = 2
INVARIANTS
  RestCanBeReceived
CHECK_DEADLOCK FALSE
