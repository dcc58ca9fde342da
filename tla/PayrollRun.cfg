\* Two employees and two pay periods; either two loans of up to 2 of one of them,
\* with up to 1 lent on top, or arrears of 2 and of 1.  Two runs, so that a
\* period can be finalized, undone and finalized again.  Amounts stop at their
\* bounds, so the system may stop.
SPECIFICATION Spec
CONSTANTS
  e1 = e1
  e2 = e2
  Employees = {e1, e2}
  Loans = {1, 2}
  Owner <- OneOwner
  Runs = {r1, r2}
  MaxAmount = 2
  MaxLent = 1
  MaxArrears = 2
  Cycles = {c1, c2}
  LastCycle = c1
  Leavers = {e1}
  NoRun = NoRun
  BranchRequired = FALSE
CONSTRAINTS OneKindOfAccount RaisedOneAtATime OneIsOwedLess
SYMMETRY Symmetry
INVARIANTS TypeOK NeverOverCollected LoanMatchesLedger RunsLockTheirRows ArrearsPaidAsOnPayslip
PROPERTIES LockedRowsAreKept ArrearsMoveTogether
CHECK_DEADLOCK FALSE
