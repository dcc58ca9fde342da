\* The schema at head, two concurrent sessions deciding, editing, withdrawing and
\* cancelling two requests while their balance is debited.  When all is decided
\* nothing is left to do.
SPECIFICATION FairSpec
CONSTANTS
  Requests = {r1, r2}
  NoRequest = none
  Balances = {b1}
  Slots = {s1, s2}
  Workers = {w1, w2}
  MaxDays = 1
  MaxBalance = 1
  AdminOps = {"debit"}
  StatusCheck <- HeadStatuses
  BranchRequired = TRUE
INVARIANTS TypeOK PendingIsReviewable EnvelopeIsCurrent NoOverdraft
PROPERTIES DecidedNeverReopens SessionsEnd
CHECK_DEADLOCK FALSE
