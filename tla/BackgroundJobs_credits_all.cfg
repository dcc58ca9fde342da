\* One night over an employee who has no balance in the cycle yet.
SPECIFICATION JobsSpec
CONSTANTS
  u1 = u1
  u2 = u2
  u3 = u3
  d1 = d1
  d2 = d2
  d3 = d3
  Jobs = {n1}
  KeepsResult = {}
  MaxTries = 1
  Concurrency = 1
  Notifications = {}
  Org <- OrgOf
  Users = {}
  Employer <- EmployerOf
  PageSize = 2
  Sessions = {}
  Deliveries = {}
  About <- AboutOf
  Marks = {}
  NoJob = NoJob
  Employees = {1}
  Nights = {n1}
  Clerks = {}
  Periods = 1
  Count = 1
  Overrides = {}
  Monthly = TRUE
  MaxDeaths = 0
INVARIANT NightCreditsAll
CHECK_DEADLOCK FALSE
