SPECIFICATION Spec
CONSTANTS
  b1 = b1
  b2 = b2
  d1 = d1
  d2 = d2
  g1 = g1
  g2 = g2
  Employees = {e1, e2}
  Sessions = {s1, s2}
  Branches = {b1, b2}
  Departments = {d1, d2}
  Designations = {g1, g2}
  Home <- TwoBranches
  MaxCode = 2
  LeaveDates = {last}
  None = None
SYMMETRY Symmetry
INVARIANTS StatusIsLastWritten AllocatedCodesAreFree DatesFollowStatus
PROPERTY OnlyReturnsToClosedUnits
CONSTRAINT FewRows
CHECK_DEADLOCK FALSE
