SPECIFICATION IdentitySpec
CONSTANTS
  p1 = p1
  q1 = q1
  q2 = q2
  s1 = s1
  s2 = s2
  boss = boss
  fin = fin
  w1 = w1
  w2 = w2
  w3 = w3
  u1 = u1
  u2 = u2
  o1 = o1
  o2 = o2
  r1 = r1
  StaffRoles <- RolesOfStaff
  PageSize = 1
  Team = {s1, s2, boss}
  TeamPhone = {p1}
  TeamWorker = {w1, w2}
  TeamOrgs = 1
  TeamRows = 3
  TeamWrites = 1
  TeamGrants = 1
  ListStaff = {s1, fin}
  ListPhone = {q1, q2}
  ListWorker = {w3}
  ListOrgs = 3
  ListRows = 2
  ListWrites = 0
  ListGrants = 2
  Reader = {u1, u2}
  Company = {o1, o2}
  CompanyOf <- CompanyOfReaders
  Request = {r1}
  StartRoles <- AtMostTwoRoles
  MaxEdits = 2
  MaxDefs = 1
  Phone = {p1}
  Handler = {h1, h2}
  None = None
  Boot = p1
  CodeTtl = 3
  Cooldown = 2
  MaxAttempts = 2
  MaxCodes = 3
  MaxMisses = 4
  Late = 3
CHECK_DEADLOCK FALSE
SYMMETRY Symmetry
INVARIANTS MissesBounded NoHalfRegistration LoginsHold HistoryIsOwnership CustomersHold
PROPERTY ReportsObeyRoles
