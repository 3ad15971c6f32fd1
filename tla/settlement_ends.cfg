SPECIFICATION FairSpec
CONSTANTS
  None = None
  o1 = o1
  k1 = k1
  Org = {o1}
  Key = {k1}
  Call = {c1, c2}
  TaskCall = {c2}
  Order = {p1}
  Clerk = {x1, x2}
  KeyOrg <- OneKeyOrg
  CallKey <- OneCallKey
  OrderOrg <- OneOrderOrg
  Charge = {0, 1}
  Amount = {1}
  Limit = {0}
  Credit = 0
  MaxInFlight = 2
  MaxManual = 1
  MaxEdits = 0
  MaxFaults = 1
CHECK_DEADLOCK FALSE
PROPERTIES SettlementEnds
