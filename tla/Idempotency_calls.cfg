CONSTANTS
  x = x
  y = y
  Call = {c1, c2, c3}
  Key = {k1, k2}
  Content = {x, y}
  Fingerprint <- Whole
  MaxCleanups = 1
  companyA = companyA
  companyB = companyB
  factoryA = factoryA
  factoryB = factoryB
  parent = parent
  child = child
  store = store
  someone = someone
  Company = {companyA, companyB}
  Factory = {factoryA, factoryB}
  Department = {parent, child}
  Warehouse = {store}
  Parent <- MCParent
  LEVELS = 2
  Nothing = nothing
  GivenScopes <- MCScopes
  Tables <- MCTables
  GivenRows <- MCRows
  Self = self
  MaxRoles = 2
  Value = {v1}
  Empty = empty
  PageNumber = {1, 2}
  Order = {o1}
  MaxRows = 2
  MaxPageCalls = 4
SPECIFICATION MCFairSpec
INVARIANTS
  WorkIsDoneOnce
  ListTellsTheTruth
PROPERTIES
  EveryCallAnswered
  RolesAddUp
CHECK_DEADLOCK FALSE
