\* Two sessions for one employee with one loan and arrears and one pay period;
\* two runs, so that the period can be finalized twice, at once or one after the
\* other.  Amounts stop at their bounds, so the system may stop.
SPECIFICATION SessionsSpec
CONSTANTS
  e1 = e1
  Employees = {e1}
  Loans = {1}
  Owner <- OneOwner
  Runs = {r1, r2}
  MaxAmount = 1
  MaxLent = 1
  MaxArrears = 1
  Cycles = {c1}
  LastCycle = c1
  Leavers = {e1}
  NoRun = NoRun
  BranchRequired = FALSE
  Sessions = {s1, s2}
CONSTRAINT OneKindOfAccount
SYMMETRY Symmetry
INVARIANTS LockedRunIsActive UndoneRunBooksNothing RepaidIsClosed
PROPERTY SerialSessionsAreHandlers
CHECK_DEADLOCK FALSE
