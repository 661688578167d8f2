SPECIFICATION Spec
CONSTANTS
  o1 = o1
  i1 = i1
  length = length
  cloth = cloth
  shirt = shirt
  noLimit = noLimit
  NoLimit = noLimit
  Inspector = {i1}
  Handler = {}
  Item = {length}
  Quantitative = {length}
  Lower <- MCLower
  Upper <- MCUpper
  Value = {0, 1}
  MaxInspections = 1
  MaxAlerts = 1
  Order = {o1}
  Material = {cloth, shirt}
  Product = shirt
  Quantity = {1, 2}
  Outcome <- MCOutcome
  Routing <- MCRouting
  Bom <- MCBom
  Materials <- MCMaterials
  Supply <- MCSupply
INVARIANTS
  OneDocumentEach
  DeliveredWhatWasMade
  StepsFollowReports
  FinishedOrdersPassedTheirGates
