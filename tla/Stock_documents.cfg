CONSTANTS
  m1 = m1
  l1 = l1
  l2 = l2
  l3 = l3
  b1 = b1
  b2 = b2
  Material = {m1}
  Location = {l1, l2, l3}
  Home = {l1, l2}
  NoLocation = NoLocation
  Biz = {b1, b2}
  NoBiz = NoBiz
  PostKey = {p1}
  NoKey = NoKey
  RequestKey = {k1, k2}
  DraftInput <- MCDrafts
  Amount = {1, 2}
  MaxDocuments = 3
SPECIFICATION MCSpec
INVARIANTS
  ReservedIsWhatReservationsHold
  LedgerReplaysToBalance
  LedgerMatchesDocuments
PROPERTIES
  ImplementsPromises
SYMMETRY RequestKeySymmetry
CHECK_DEADLOCK FALSE
