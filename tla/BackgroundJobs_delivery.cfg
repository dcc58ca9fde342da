\* Two deliveries of one notification to two users, who mark it read meanwhile, or one
\* of another that finds the notification of a third organization; the worker dies once.
\* Jobs that are over leave nothing to do.
SPECIFICATION JobsSpec
CONSTANTS
  u1 = u1
  u2 = u2
  u3 = u3
  d1 = d1
  d2 = d2
  d3 = d3
  Jobs = {d1, d2, d3}
  KeepsResult = {d1, d2, d3}
  MaxTries = 2
  Concurrency = 2
  Notifications = {1, 2, 3}
  Org <- OrgOf
  Users = {u1, u2, u3, u4, u5}
  Employer <- EmployerOf
  PageSize = 2
  Sessions = {s1}
  Deliveries = {d1, d2, d3}
  About <- AboutOf
  Marks = {"read"}
  NoJob = NoJob
  Employees = {}
  Nights = {}
  Clerks = {}
  Periods = 1
  Count = 1
  Overrides = {}
  Monthly = TRUE
  MaxDeaths = 1
CONSTRAINT Bounded
SYMMETRY Symmetry
INVARIANTS NoMailBeforeCommit CompletedMeansDelivered
PROPERTY DeliveryKeepsMarks
CHECK_DEADLOCK FALSE
