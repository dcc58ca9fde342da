SPECIFICATION AttendanceSpec
CONSTANTS
  Night = 3
  Dawn = 1
  Kind <- InOutOut
  FullDay = 2
  HalfDay = 1
  Mode = "consider_all_punch"
  WeeklyOff = FALSE
  NoPunch = NoPunch
  Sessions = {s1, s2}
  Finalizer = Finalizer
  Scopes = {"company"}
  Marks = {"present"}
  Corrections <- OneCorrection
  Holiday = FALSE
  MaxRequests = 2
INVARIANTS EnvelopeMatchesRequest ApprovedIsApplied
PROPERTIES CompanyLockFreezes NightsHeal
