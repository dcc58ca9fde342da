\* One session at a time, on a schema that takes what the services write.
SPECIFICATION Spec
CONSTANTS
  Requests = {r1, r2}
  NoRequest = none
  Balances = {b1}
  Slots = {s1, s2}
  Workers = {w1}
  MaxDays = 2
  MaxBalance = 2
  AdminOps = {"credit", "debit", "adjust", "assign", "unassign"}
  StatusCheck <- WithCancelled
  BranchRequired = FALSE
INVARIANTS AdjustedMatchesHistory BalancesAddUp UsedMatchesRequests
PROPERTY LedgerSpec
