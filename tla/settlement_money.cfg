SPECIFICATION Spec
CONSTANTS
  None = None
  o1 = o1
  k1 = k1
  Org = {o1}
  Key = {k1}
  Call = {c1, c2, c3}
  TaskCall = {c3}
  Order = {p1}
  Clerk = {x1, x2}
  KeyOrg <- OneKeyOrg
  CallKey <- OneCallKey
  OrderOrg <- OneOrderOrg
  Charge = {0, 2}
  Amount = {1}
  Limit = {0, 2}
  Credit = 0
  MaxInFlight = 2
  MaxManual = 1
  MaxEdits = 1
  MaxFaults = 1
SYMMETRY Symmetry
CHECK_DEADLOCK FALSE
INVARIANTS PaidIffCredited LogIffDebited BudgetIsSumOfLogs OverdraftBounded
PROPERTIES LedgerSpec
