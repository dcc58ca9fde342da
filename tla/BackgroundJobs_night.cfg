\* Two nights that may overlap, in a cycle of two months, while an employee is
\* hired and given the leave type by hand; the worker dies twice.  Jobs that are
\* over leave nothing to do.
SPECIFICATION JobsFairSpec
CONSTANTS
  u1 = u1
  u2 = u2
  u3 = u3
  d1 = d1
  d2 = d2
  d3 = d3
  Jobs = {n1, n2}
  KeepsResult = {}
  MaxTries = 2
  Concurrency = 2
  Notifications = {}
  Org <- OrgOf
  Users = {}
  Employer <- EmployerOf
  PageSize = 2
  Sessions = {}
  Deliveries = {}
  About <- AboutOf
  Marks = {}
  NoJob = NoJob
  Employees = {1}
  Nights = {n1, n2}
  Clerks = {c1}
  Periods = 2
  Count = 1
  Overrides = {2}
  Monthly = TRUE
  MaxDeaths = 2
CONSTRAINT UsualAmounts
INVARIANT NeverOverCredited
PROPERTY JobsEnd
CHECK_DEADLOCK FALSE
