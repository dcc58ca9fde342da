\* Two reviewers decide the same envelope.
SPECIFICATION Spec
CONSTANTS
  Requests = {r1}
  NoRequest = none
  Balances = {b1}
  Slots = {s1, s2}
  Workers = {w1, w2}
  MaxDays = 2
  MaxBalance = 2
  AdminOps = {}
  StatusCheck <- HeadStatuses
  BranchRequired = TRUE
PROPERTY DecidedOnce
CHECK_DEADLOCK FALSE
