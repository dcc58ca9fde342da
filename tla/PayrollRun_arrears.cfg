\* One employee who has arrears and no loans, one pay period, one run.  The
\* equation of the contract is expected to fail.
SPECIFICATION Spec
CONSTANTS
  e1 = e1
  e2 = e2
  Employees = {e1}
  Loans = {}
  Owner <- OneOwner
  Runs = {r1}
  MaxAmount = 1
  MaxLent = 0
  MaxArrears = 3
  Cycles = {c1}
  LastCycle = c1
  Leavers = {}
  NoRun = NoRun
  BranchRequired = FALSE
INVARIANT ArrearsAddUp
CHECK_DEADLOCK FALSE
