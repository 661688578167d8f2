SPECIFICATION Spec
CONSTANTS
  o1 = o1
  o2 = o2
  m1 = m1
  a = a
  b = b
  none = none
  Order = {o1, o2}
  Material = {m1}
  Location = {a, b}
  NoLocation = none
  LineCount = 3
  OrderOf <- MCOrderOf
  MaterialOf <- MCMaterialOf
  Ordered <- MCOrdered
  Supply <- MCSupply
  RowInput <- MCRowInput
  Amount = {1}
  MaxShipments = 2
  MaxReturns = 1
INVARIANTS
  ShippedComesFromReservations
  QuantitiesFollowDocuments
  QuarantineAwaitsInspection
