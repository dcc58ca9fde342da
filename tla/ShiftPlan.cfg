SPECIFICATION PlanSpec
CONSTANTS
  LastDate = 3
  Shifts = {early, late}
  Slots = {a1, a2, a3}
  RosterDates = {1, 2}
  Weekdays = {sunday, monday}
  OffSlots = {w1, w2}
  Joined = 1
  Lockable = {2}
  None = None
  Open = Open
INVARIANTS PlanTypeOK OneOpenAssignment ResolutionIsUnique UpcomingRosterShiftsExist OneCurrentWeekoff
PROPERTY AssignTakesEffect
CONSTRAINT FewRows
SYMMETRY Symmetry
