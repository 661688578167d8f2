SPECIFICATION MCSpec
CONSTANTS
  ann = ann
  ben = ben
  so = so
  pr = pr
  bomA = bomA
  bomB = bomB
  Document = {so, pr, bomA, bomB}
  Kind <- MCKind
  Scope <- MCScope
  User = {ann, ben}
  Applicants = {ann}
  Filers = {ann}
  Template <- MCTemplate
  TemplateOf <- MCTemplateOf
  Route <- MCRoute
  SelfApproval = {"own"}
  ScansByStatus = FALSE
  MaxInstances = 3
  MaxEdits = 2
  Caller = {c1, c2}
  MaxDay = 2
  MaxNumber = 2
  GivenLines <- MCLines
  TypedCodes <- MCTyped
  NoCode = noCode
  MaxVersions = 2
  Account = {a1}
  Role = {r1, r2}
  Permission = {p1}
  Admin = {d1, d2}
  Reader = {q1}
  MaxVersion = 2
  MaxAdminCalls = 3
INVARIANTS ApprovedAsSubmitted SubmittedAwaitsDecision OneVersionInForce VersionsRunOn CodesAreNew LatestApprovalServes CachedCodesAreCurrent
SYMMETRY Alike
CHECK_DEADLOCK FALSE
