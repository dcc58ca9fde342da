---------------------------- MODULE ShiftPlan_proofs ----------------------------
(***************************************************************************)
(* Proofs about ShiftPlan, for any number of dates, shifts and rows.  The  *)
(* inductive invariant adds to the properties of ShiftPlan that two rows   *)
(* that start on one date do not both cover it.                            *)
(***************************************************************************)
EXTENDS ShiftPlan, TLAPS

StartsApart ==
  \A a, b \in Slots :
    /\ IsRow(a) /\ IsRow(b) /\ assignments[a].from = assignments[b].from
    /\ Covers(assignments[a], assignments[a].from)
    /\ Covers(assignments[b], assignments[b].from)
    => a = b

PlanInv ==
  PlanTypeOK /\ OneOpenAssignment /\ StartsApart /\ UpcomingRosterShiftsExist /\ OneCurrentWeekoff

\* Initially there are no rows.
LEMMA InitInv == PlanInit => PlanInv
  BY PlanAssumption
  DEF PlanInit, PlanInv, PlanTypeOK, OneOpenAssignment, StartsApart, UpcomingRosterShiftsExist,
      OneCurrentWeekoff, IsOpen, IsRow, Current

\* A date that two rows cover alike is covered from their common start on.
LEMMA Unambiguous == PlanTypeOK /\ StartsApart => ResolutionIsUnique
<1> SUFFICES ASSUME PlanTypeOK, StartsApart, NEW d \in Dates,
                    NEW a \in Effective(assignments, d), NEW b \in Effective(assignments, d)
             PROVE  a = b
  BY DEF ResolutionIsUnique
<1>1. /\ a \in Slots /\ IsRow(a) /\ assignments[a] \in Assignment /\ Covers(assignments[a], d)
      /\ b \in Slots /\ IsRow(b) /\ assignments[b] \in Assignment /\ Covers(assignments[b], d)
  BY DEF Effective, Covering, IsRow, PlanTypeOK
<1>2. assignments[a].from = assignments[b].from
  BY <1>1 DEF Effective, Covering, IsRow, Assignment, Dates
<1>3. /\ Covers(assignments[a], assignments[a].from)
      /\ Covers(assignments[b], assignments[b].from)
  BY <1>1, PlanAssumption DEF Covers, Assignment, Dates
<1> QED BY <1>1, <1>2, <1>3 DEF StartsApart

\* What Assign leaves of the rows there were: an open one may be closed.
LEMMA AfterAssign ==
  ASSUME PlanInv, NEW a \in Slots, NEW row \in Assignment, Assign(a, row)
  PROVE  /\ assignments' \in [Slots -> Assignment \cup {None}]
         /\ assignments'[a] = row
         /\ \A b \in Slots \ {a} :
              \/ assignments'[b] = assignments[b] /\ ~IsOpen(b)
              \/ /\ LatestOpen(b) /\ assignments[b] \in Assignment
                 /\ assignments[b].from < row.from
                 /\ assignments'[b] = [assignments[b] EXCEPT !.to = row.from - 1]
                 /\ row.from - 1 \in Dates
<1> USE PlanAssumption
<1>1. assignments \in [Slots -> Assignment \cup {None}]
  BY DEF PlanInv, PlanTypeOK
<1>2. \A b \in Slots : IsOpen(b) => LatestOpen(b)
  <2> SUFFICES ASSUME NEW b \in Slots, IsOpen(b), NEW c \in Slots, IsOpen(c)
               PROVE  assignments[c].from <= assignments[b].from
    BY DEF LatestOpen
  <2>1. b = c
    BY DEF PlanInv, OneOpenAssignment
  <2> QED BY <2>1, <1>1 DEF IsOpen, IsRow, Assignment, Dates
<1>3. \A b \in Slots : LatestOpen(b) => /\ assignments[b] \in Assignment
                                        /\ assignments[b].from < row.from
                                        /\ row.from - 1 \in Dates
  BY <1>1 DEF LatestOpen, IsOpen, IsRow, Assign, MayStart, Assignment, Dates
<1>4. assignments' = [Superseded(assignments, row.from) EXCEPT ![a] = row]
  BY DEF Assign
<1>5. assignments'[a] = row
  BY <1>4 DEF Superseded
<1>6. \A b \in Slots \ {a} :
        assignments'[b] = IF LatestOpen(b) THEN [assignments[b] EXCEPT !.to = row.from - 1]
                          ELSE assignments[b]
  BY <1>4 DEF Superseded
<1>7. assignments' \in [Slots -> Assignment \cup {None}]
  <2>1. \A b \in Slots : LatestOpen(b) =>
          [assignments[b] EXCEPT !.to = row.from - 1] \in Assignment
    BY <1>3 DEF Assignment
  <2> QED BY <1>1, <1>4, <2>1 DEF Superseded
<1> QED BY <1>2, <1>3, <1>5, <1>6, <1>7

LEMMA AssignInv ==
  ASSUME PlanInv, NEW a \in Slots, NEW row \in Assignment, Assign(a, row)
  PROVE  PlanInv'
<1> USE PlanAssumption
<1>0. /\ assignments' \in [Slots -> Assignment \cup {None}]
      /\ assignments'[a] = row
      /\ \A b \in Slots \ {a} :
           \/ assignments'[b] = assignments[b] /\ ~IsOpen(b)
           \/ /\ LatestOpen(b) /\ assignments[b] \in Assignment
              /\ assignments[b].from < row.from
              /\ assignments'[b] = [assignments[b] EXCEPT !.to = row.from - 1]
              /\ row.from - 1 \in Dates
  BY AfterAssign
<1>1. PlanTypeOK'
  BY <1>0 DEF PlanInv, PlanTypeOK, Assign, Admitted, Entry, Weekoff, Dates
<1>2. OneOpenAssignment'
  <2>1. \A b \in Slots \ {a} : ~IsOpen(b)'
    BY <1>0 DEF IsOpen, IsRow, Assignment, Dates
  <2> QED BY <2>1 DEF OneOpenAssignment
<1>3. StartsApart'
  <2>1. \A b \in Slots \ {a} : IsRow(b)' => /\ IsRow(b)
                                            /\ assignments'[b].from = assignments[b].from
    BY <1>0 DEF IsRow, LatestOpen, IsOpen, Assignment
  <2>2. \A b \in Slots \ {a} : IsRow(b)' => assignments'[b].from # row.from
    BY <2>1 DEF Assign, MayStart, StartsOn
  <2>3. \A b \in Slots \ {a} : IsRow(b)' /\ Covers(assignments'[b], assignments'[b].from) =>
          Covers(assignments[b], assignments[b].from)
    BY <1>0, <2>1 DEF Covers, LatestOpen, IsOpen, IsRow, Assignment, Dates
  <2> QED BY <1>0, <2>1, <2>2, <2>3 DEF StartsApart, PlanInv
<1>4. UpcomingRosterShiftsExist' /\ OneCurrentWeekoff'
  BY DEF PlanInv, UpcomingRosterShiftsExist, NamesNoDeleted, ShiftExists, OneCurrentWeekoff,
         Current, Assign
<1> QED BY <1>1, <1>2, <1>3, <1>4 DEF PlanInv

LEMMA UpdateInv ==
  ASSUME PlanInv, NEW a \in Slots, NEW row \in Assignment, update_assignment(a, row)
  PROVE  PlanInv'
<1> USE PlanAssumption
<1>0. /\ assignments \in [Slots -> Assignment \cup {None}]
      /\ assignments' = [assignments EXCEPT ![a] = row]
      /\ assignments'[a] = row
      /\ \A b \in Slots \ {a} : assignments'[b] = assignments[b]
  BY DEF PlanInv, PlanTypeOK, update_assignment
<1>1. PlanTypeOK'
  BY <1>0 DEF PlanInv, PlanTypeOK, update_assignment
<1>2. \A b \in Slots \ {a} : IsRow(b) =>
        ~(/\ assignments[b].to = Open \/ row.from <= assignments[b].to
          /\ row.to = Open \/ assignments[b].from <= row.to)
  BY DEF update_assignment, Overlaps
<1>3. OneOpenAssignment'
  <2>1. \A b \in Slots \ {a} : IsOpen(b)' => IsOpen(b)
    BY <1>0 DEF IsOpen, IsRow
  <2>2. row.to = Open => \A b \in Slots \ {a} : ~IsOpen(b)
    BY <1>2 DEF IsOpen
  <2>3. IsOpen(a)' => row.to = Open
    BY <1>0 DEF IsOpen
  <2> QED BY <2>1, <2>2, <2>3 DEF OneOpenAssignment, PlanInv
<1>4. StartsApart'
  <2>1. \A b \in Slots \ {a} : IsRow(b) /\ Covers(assignments[b], assignments[b].from)
          => assignments[b].from # row.from \/ ~Covers(row, row.from)
    BY <1>2 DEF Covers
  <2> QED BY <1>0, <2>1 DEF StartsApart, PlanInv, IsRow
<1>5. UpcomingRosterShiftsExist' /\ OneCurrentWeekoff'
  BY DEF PlanInv, UpcomingRosterShiftsExist, NamesNoDeleted, ShiftExists, OneCurrentWeekoff,
         Current, update_assignment
<1> QED BY <1>1, <1>3, <1>4, <1>5 DEF PlanInv

LEMMA DeleteInv ==
  ASSUME PlanInv, NEW a \in Slots, delete_assignment(a)
  PROVE  PlanInv'
<1>0. /\ assignments' \in [Slots -> Assignment \cup {None}]
      /\ assignments'[a] = None
      /\ \A b \in Slots \ {a} : assignments'[b] = assignments[b]
  BY DEF PlanInv, PlanTypeOK, delete_assignment
<1>1. PlanTypeOK'
  BY <1>0 DEF PlanInv, PlanTypeOK, delete_assignment
<1>2. OneOpenAssignment' /\ StartsApart'
  BY <1>0 DEF PlanInv, OneOpenAssignment, StartsApart, IsOpen, IsRow
<1>3. UpcomingRosterShiftsExist' /\ OneCurrentWeekoff'
  BY DEF PlanInv, UpcomingRosterShiftsExist, NamesNoDeleted, ShiftExists, OneCurrentWeekoff,
         Current, delete_assignment
<1> QED BY <1>1, <1>2, <1>3 DEF PlanInv

\* Of the parts of the invariant the steps below leave these alone.
AssignmentsInv ==
  /\ assignments \in [Slots -> Assignment \cup {None}]
  /\ OneOpenAssignment /\ StartsApart

LEMMA AssignmentsKept == PlanInv /\ UNCHANGED assignments => AssignmentsInv'
  BY DEF PlanInv, PlanTypeOK, AssignmentsInv, OneOpenAssignment, StartsApart, IsOpen, IsRow

\* What each kind of entry may be written as.
LEMMA RosterInv == PlanInv /\ RosterStep => PlanInv'
<1> SUFFICES ASSUME PlanInv, RosterStep PROVE PlanInv'
  OBVIOUS
<1> USE PlanAssumption
<1>0. UNCHANGED <<deleted, assignments, weekoffs, locked, today>>
  BY DEF RosterStep, upsert_roster_entry, update_roster_entry, delete_roster_entry, bulk_set_roster
<1>1. AssignmentsInv' /\ OneCurrentWeekoff'
  BY <1>0, AssignmentsKept DEF PlanInv, OneCurrentWeekoff, Current
<1>2. SUFFICES /\ roster' \in [RosterDates -> Admitted \cup {None}]
               /\ \A d \in RosterDates :
                    \/ roster'[d] = roster[d] \/ roster'[d] = None \/ NamesNoDeleted(roster'[d])
                    \/ roster[d] # None /\ roster'[d].shift = roster[d].shift
  BY <1>0, <1>1, <1>2 DEF PlanInv, PlanTypeOK, AssignmentsInv, UpcomingRosterShiftsExist,
                          NamesNoDeleted, ShiftExists
<1>3. roster \in [RosterDates -> Admitted \cup {None}]
  BY DEF PlanInv, PlanTypeOK
<1>4. ASSUME NEW d \in RosterDates, NEW entry \in Admitted, upsert_roster_entry(d, entry)
      PROVE  /\ roster' \in [RosterDates -> Admitted \cup {None}]
             /\ roster'[d] = entry /\ NamesNoDeleted(entry)
             /\ \A e \in RosterDates \ {d} : roster'[e] = roster[e]
  BY <1>3, <1>4 DEF upsert_roster_entry
<1>5. ASSUME NEW d \in RosterDates, NEW entry \in Entry, update_roster_entry(d, entry)
      PROVE  /\ roster' \in [RosterDates -> Admitted \cup {None}]
             /\ \/ NamesNoDeleted(roster'[d])
                \/ roster[d] # None /\ roster'[d].shift = roster[d].shift
             /\ \A e \in RosterDates \ {d} : roster'[e] = roster[e]
  <2>1. Patched(entry) \in Admitted
    BY DEF Patched, Admitted, Entry
  <2>2. roster' = [roster EXCEPT ![d] = Patched(entry)] /\ roster[d] # None
    BY <1>5 DEF update_roster_entry
  <2>3. roster'[d] = Patched(entry)
    BY <1>3, <2>2
  <2>4. CASE entry.off
    <3>1. Patched(entry).shift = None
      BY <2>4 DEF Patched, Entry
    <3> QED BY <1>3, <2>1, <2>2, <2>3, <3>1 DEF NamesNoDeleted
  <2>5. CASE ~entry.off
    <3>1. Patched(entry) = entry
      BY <2>5 DEF Patched
    <3>2. CASE entry.shift # roster[d].shift
      BY <1>3, <1>5, <2>1, <2>2, <2>3, <2>5, <3>1, <3>2 DEF update_roster_entry
    <3>3. CASE entry.shift = roster[d].shift
      BY <1>3, <2>1, <2>2, <2>3, <3>1, <3>3
    <3> QED BY <3>2, <3>3
  <2> QED BY <2>4, <2>5
<1>6. ASSUME NEW d \in RosterDates, delete_roster_entry(d)
      PROVE  /\ roster' \in [RosterDates -> Admitted \cup {None}]
             /\ \A e \in RosterDates : roster'[e] = None \/ roster'[e] = roster[e]
  BY <1>3, <1>6 DEF delete_roster_entry
<1>7. ASSUME NEW days \in SUBSET RosterDates, NEW entries \in [days -> Admitted],
             bulk_set_roster(entries)
      PROVE  /\ roster' \in [RosterDates -> Admitted \cup {None}]
             /\ \A e \in RosterDates : roster'[e] = roster[e] \/ NamesNoDeleted(roster'[e])
  BY <1>3, <1>7 DEF bulk_set_roster
<1> QED BY <1>4, <1>5, <1>6, <1>7 DEF RosterStep

LEMMA WeekoffInv == PlanInv /\ WeekoffStep => PlanInv'
<1> SUFFICES ASSUME PlanInv, WeekoffStep PROVE PlanInv'
  OBVIOUS
<1>0. UNCHANGED <<deleted, assignments, roster, locked, today>>
  BY DEF WeekoffStep, set_weekly_off, update_weekoff, configure_weekoffs
<1>1. AssignmentsInv' /\ UpcomingRosterShiftsExist'
  BY <1>0, AssignmentsKept DEF PlanInv, UpcomingRosterShiftsExist, NamesNoDeleted, ShiftExists
<1>2. SUFFICES weekoffs' \in [OffSlots -> Weekoff \cup {None}] /\ OneCurrentWeekoff'
  BY <1>0, <1>1, <1>2 DEF PlanInv, PlanTypeOK, AssignmentsInv
<1>3. weekoffs \in [OffSlots -> Weekoff \cup {None}] /\ OneCurrentWeekoff
  BY DEF PlanInv, PlanTypeOK
<1>4. \A days : /\ Closed(days) \in [OffSlots -> Weekoff \cup {None}]
                /\ \A x \in OffSlots :
                     \/ /\ weekoffs[x] = None \/ weekoffs[x].day \notin days
                        /\ Closed(days)[x] = weekoffs[x]
                     \/ ~Closed(days)[x].open
  BY <1>3 DEF Closed, Weekoff
<1>5. ASSUME NEW w \in OffSlots, NEW row \in Weekoff, NEW from \in Dates, set_weekly_off(w, row, from)
      PROVE  weekoffs' \in [OffSlots -> Weekoff \cup {None}] /\ OneCurrentWeekoff'
  <2>1. weekoffs' = [Closed({row.day}) EXCEPT ![w] = row]
    BY <1>5 DEF set_weekly_off
  <2>2. \A x \in OffSlots : weekoffs'[x] = IF x = w THEN row ELSE Closed({row.day})[x]
    BY <1>4, <2>1
  <2>3. \A x \in OffSlots \ {w} : x \in Current(row.day)' => FALSE
    BY <1>4, <2>2 DEF Current
  <2>4. \A x \in OffSlots \ {w}, day \in Weekdays \ {row.day} :
          x \in Current(day)' => x \in Current(day)
    BY <1>4, <2>2 DEF Current
  <2>5. \A day \in Weekdays \ {row.day} : w \notin Current(day)'
    BY <2>2 DEF Current
  <2> QED BY <1>3, <1>4, <2>1, <2>3, <2>4, <2>5 DEF OneCurrentWeekoff, Current
<1>6. ASSUME NEW w \in OffSlots, NEW off \in BOOLEAN, NEW open \in BOOLEAN, update_weekoff(w, off, open)
      PROVE  weekoffs' \in [OffSlots -> Weekoff \cup {None}] /\ OneCurrentWeekoff'
  <2>1. weekoffs' = [weekoffs EXCEPT ![w].off = off, ![w].open = open] /\ weekoffs[w] \in Weekoff
    BY <1>3, <1>6 DEF update_weekoff
  <2>2. /\ weekoffs' \in [OffSlots -> Weekoff \cup {None}]
        /\ weekoffs'[w].day = weekoffs[w].day /\ weekoffs'[w].open = open
        /\ \A x \in OffSlots \ {w} : weekoffs'[x] = weekoffs[x]
    BY <1>3, <2>1 DEF Weekoff
  <2>3. \A x \in OffSlots \ {w}, day \in Weekdays : x \in Current(day)' => x \in Current(day)
    BY <2>2 DEF Current
  <2>4. CASE weekoffs[w].open
    BY <1>3, <1>6, <2>2, <2>3, <2>4 DEF OneCurrentWeekoff, Current, update_weekoff
  <2>5. CASE ~weekoffs[w].open
    <3>1. open => Current(weekoffs[w].day) \subseteq {w}
      BY <1>6, <2>5 DEF update_weekoff, MayReopen
    <3> QED BY <1>3, <2>2, <2>3, <3>1 DEF OneCurrentWeekoff, Current
  <2> QED BY <2>4, <2>5
<1>7. ASSUME NEW ws \in SUBSET OffSlots, NEW rows \in [ws -> Weekoff], configure_weekoffs(rows)
      PROVE  weekoffs' \in [OffSlots -> Weekoff \cup {None}] /\ OneCurrentWeekoff'
  <2>1. \A x \in OffSlots : weekoffs'[x] = IF x \in ws THEN rows[x] ELSE Closed(Weekdays)[x]
    BY <1>7 DEF configure_weekoffs
  <2>2. \A x \in OffSlots, day \in Weekdays : x \in Current(day)' => x \in ws /\ rows[x].day = day
    BY <1>3, <1>4, <2>1 DEF Current
  <2>3. OneCurrentWeekoff'
    BY <1>7, <2>2 DEF OneCurrentWeekoff, Current, configure_weekoffs
  <2>4. weekoffs' \in [OffSlots -> Weekoff \cup {None}]
    BY <1>4, <1>7 DEF configure_weekoffs
  <2> QED BY <2>3, <2>4
<1> QED BY <1>5, <1>6, <1>7 DEF WeekoffStep

LEMMA OtherInv ==
  ASSUME PlanInv,
         \/ \E s \in Shifts : delete_shift(s) \/ restore_shift(s)
         \/ \E d \in Lockable : LockOrUnlock(d)
         \/ Tomorrow
         \/ UNCHANGED vars
  PROVE  PlanInv'
<1>1. UNCHANGED <<assignments, roster, weekoffs>>
  BY DEF delete_shift, restore_shift, LockOrUnlock, Tomorrow, vars
<1>2. AssignmentsInv' /\ OneCurrentWeekoff'
  BY <1>1, AssignmentsKept DEF PlanInv, OneCurrentWeekoff, Current
<1>3. PlanTypeOK'
  BY <1>1, <1>2 DEF PlanInv, PlanTypeOK, AssignmentsInv, delete_shift, restore_shift,
                    LockOrUnlock, Tomorrow, vars, ShiftExists
<1>4. UpcomingRosterShiftsExist'
  <2>1. ASSUME NEW s \in Shifts, delete_shift(s)
        PROVE  UpcomingRosterShiftsExist'
    BY <1>1, <2>1 DEF PlanInv, UpcomingRosterShiftsExist, NamesNoDeleted, ShiftExists,
                      delete_shift, Rostered
  <2>2. ASSUME NEW s \in Shifts, restore_shift(s)
        PROVE  UpcomingRosterShiftsExist'
    BY <1>1, <2>2 DEF PlanInv, UpcomingRosterShiftsExist, NamesNoDeleted, ShiftExists, restore_shift
  <2>3. CASE Tomorrow
    BY <1>1, <2>3, PlanAssumption
    DEF PlanInv, PlanTypeOK, UpcomingRosterShiftsExist, NamesNoDeleted, ShiftExists, Tomorrow, Dates
  <2>4. ASSUME NEW d \in Lockable, LockOrUnlock(d)
        PROVE  UpcomingRosterShiftsExist'
    BY <1>1, <2>4 DEF PlanInv, UpcomingRosterShiftsExist, NamesNoDeleted, ShiftExists, LockOrUnlock
  <2>5. CASE UNCHANGED vars
    BY <2>5 DEF PlanInv, UpcomingRosterShiftsExist, NamesNoDeleted, ShiftExists, vars
  <2> QED BY <2>1, <2>2, <2>3, <2>4, <2>5
<1> QED BY <1>2, <1>3, <1>4 DEF PlanInv, AssignmentsInv

LEMMA AssignmentsStepInv == PlanInv /\ AssignmentStep => PlanInv'
  BY AssignInv, UpdateInv, DeleteInv DEF AssignmentStep, assign_shift, assign_one

LEMMA StepInv == PlanInv /\ [PlanNext]_vars => PlanInv'
  BY AssignmentsStepInv, RosterInv, WeekoffInv, OtherInv DEF PlanNext

LEMMA Invariance == PlanSpec => []PlanInv
  BY InitInv, StepInv, PTL DEF PlanSpec

\* Rows stay rows, and no patch leaves a week off in the roster with a shift.
THEOREM Typed == PlanSpec => []PlanTypeOK
<1>1. PlanInv => PlanTypeOK
  BY DEF PlanInv
<1> QED BY <1>1, Invariance, PTL

\* An employee never has two assignments without an end, whatever is assigned,
\* edited and deleted, in any order.
THEOREM OneOpen == PlanSpec => []OneOpenAssignment
<1>1. PlanInv => OneOpenAssignment
  BY DEF PlanInv
<1> QED BY <1>1, Invariance, PTL

\* No two assignments are equally entitled to a date, so resolve_for_date does
\* not depend on the order in which rows are read.
THEOREM Unique == PlanSpec => []ResolutionIsUnique
<1>1. PlanInv => ResolutionIsUnique
  BY Unambiguous DEF PlanInv
<1> QED BY <1>1, Invariance, PTL

\* A shift that was deleted is rostered on no date from today on.
THEOREM RosterShiftsExist == PlanSpec => []UpcomingRosterShiftsExist
<1>1. PlanInv => UpcomingRosterShiftsExist
  BY DEF PlanInv
<1> QED BY <1>1, Invariance, PTL

\* Closing, replacing and reopening weekly offs leaves one current a weekday.
THEOREM OneRuleADay == PlanSpec => []OneCurrentWeekoff
<1>1. PlanInv => OneCurrentWeekoff
  BY DEF PlanInv
<1> QED BY <1>1, Invariance, PTL

-------------------------------------------------------------------------------
(* An assignment takes effect *)

LEMMA NewRow ==
  ASSUME PlanInv, NEW a \in Slots, NEW row \in Assignment, Assign(a, row),
         NEW b \in Slots, assignments[b] = None, assignments'[b] # None
  PROVE  b = a
  BY AfterAssign DEF LatestOpen, IsOpen, IsRow

LEMMA FirstDay ==
  ASSUME PlanInv, NEW a \in Slots, NEW row \in Assignment, Assign(a, row), Forward(row)
  PROVE  Resolved(assignments', row.from) = {row.shift}
<1>1. assignments' \in [Slots -> Assignment \cup {None}] /\ assignments'[a] = row
  BY AfterAssign
<1>2. ResolutionIsUnique'
  <2>1. PlanTypeOK' /\ StartsApart'
    BY AssignInv DEF PlanInv
  <2> QED BY <2>1, Unambiguous, PTL
<1>c. Covers(row, row.from)
  BY PlanAssumption DEF Forward, Covers, Assignment, Dates
<1>3. a \in Covering(assignments', row.from)
  BY <1>1, <1>c, NoneAssumption DEF Covering
<1>4. \A b \in Covering(assignments', row.from) : assignments'[b].from <= row.from
  BY DEF Covering, Covers
<1>5. a \in Effective(assignments', row.from)
  BY <1>1, <1>3, <1>4 DEF Effective
<1>6. Effective(assignments', row.from) = {a}
  BY <1>2, <1>5 DEF ResolutionIsUnique, Assignment
<1> QED BY <1>1, <1>6 DEF Resolved

LEMMA EarlierDays ==
  ASSUME PlanInv, NEW a \in Slots, NEW row \in Assignment, Assign(a, row),
         NEW d \in 1 .. row.from - 1
  PROVE  Resolved(assignments', d) = Resolved(assignments, d)
<1> USE PlanAssumption, NoneAssumption
<1>0. /\ assignments' \in [Slots -> Assignment \cup {None}]
      /\ assignments'[a] = row
      /\ \A b \in Slots \ {a} :
           \/ assignments'[b] = assignments[b] /\ ~IsOpen(b)
           \/ /\ LatestOpen(b) /\ assignments[b] \in Assignment
              /\ assignments[b].from < row.from
              /\ assignments'[b] = [assignments[b] EXCEPT !.to = row.from - 1]
              /\ row.from - 1 \in Dates
  BY AfterAssign
<1>1. assignments[a] = None
  BY DEF Assign
<1>2. row.from \in Nat /\ d \in Nat /\ d <= row.from - 1
  BY DEF Assignment, Dates
<1>3. ~Covers(assignments'[a], d)
  BY <1>0, <1>2 DEF Covers
<1>4. \A b \in Slots \ {a} :
        /\ assignments'[b] # None <=> assignments[b] # None
        /\ assignments[b] # None => /\ assignments'[b].from = assignments[b].from
                                    /\ assignments'[b].shift = assignments[b].shift
                                    /\ Covers(assignments'[b], d) <=> Covers(assignments[b], d)
  <2> SUFFICES ASSUME NEW b \in Slots \ {a}, LatestOpen(b)
               PROVE  /\ assignments'[b] # None <=> assignments[b] # None
                      /\ assignments'[b].from = assignments[b].from
                      /\ assignments'[b].shift = assignments[b].shift
                      /\ Covers(assignments'[b], d) <=> Covers(assignments[b], d)
    BY <1>0
  <2>1. /\ assignments[b] \in Assignment /\ assignments[b].to = Open
        /\ assignments'[b] = [assignments[b] EXCEPT !.to = row.from - 1]
        /\ row.from - 1 \in Dates
    BY <1>0 DEF LatestOpen, IsOpen
  <2>2. /\ assignments'[b] \in Assignment /\ assignments'[b].to = row.from - 1
        /\ assignments'[b].from = assignments[b].from
        /\ assignments'[b].shift = assignments[b].shift
    BY <2>1 DEF Assignment
  <2> QED BY <1>2, <2>1, <2>2 DEF Covers, Dates
<1>5. Covering(assignments', d) = Covering(assignments, d)
  BY <1>1, <1>3, <1>4 DEF Covering
<1>6. a \notin Covering(assignments, d)
  BY <1>1 DEF Covering
<1>7. \A b \in Covering(assignments, d) : /\ assignments'[b].from = assignments[b].from
                                          /\ assignments'[b].shift = assignments[b].shift
  BY <1>4, <1>6 DEF Covering
<1>8. Effective(assignments', d) = Effective(assignments, d)
  BY <1>5, <1>7 DEF Effective
<1>9. \A b \in Effective(assignments, d) : assignments'[b].shift = assignments[b].shift
  BY <1>7 DEF Effective
<1> QED BY <1>8, <1>9 DEF Resolved

\* Only an assignment adds a row.
LEMMA OtherRows ==
  ASSUME PlanInv, [PlanNext]_vars, NEW a \in Slots, assignments[a] = None, assignments'[a] # None
  PROVE  \E b \in Slots, row \in Assignment : Assign(b, row) /\ Forward(row)
<1>1. assignments \in [Slots -> Assignment \cup {None}]
  BY DEF PlanInv, PlanTypeOK
<1>2. CASE AssignmentStep
  BY <1>1, <1>2 DEF AssignmentStep, assign_shift, assign_one, update_assignment, delete_assignment, IsRow
<1>3. CASE RosterStep
  BY <1>3 DEF RosterStep, upsert_roster_entry, update_roster_entry, delete_roster_entry, bulk_set_roster
<1>4. CASE WeekoffStep
  BY <1>4 DEF WeekoffStep, set_weekly_off, update_weekoff, configure_weekoffs
<1>5. CASE \/ \E s \in Shifts : delete_shift(s) \/ restore_shift(s)
           \/ \E d \in Lockable : LockOrUnlock(d)
           \/ Tomorrow \/ UNCHANGED vars
  BY <1>5 DEF delete_shift, restore_shift, LockOrUnlock, Tomorrow, vars
<1> QED BY <1>2, <1>3, <1>4, <1>5 DEF PlanNext

\* An assignment is what its first day resolves to from then on, and no day
\* before it resolves to another shift than it did.
THEOREM AssignmentTakesEffect == PlanSpec => AssignTakesEffect
<1>1. ASSUME PlanInv, [PlanNext]_vars, NEW a \in Slots,
             assignments[a] = None, assignments'[a] # None
      PROVE  LET row == assignments'[a] IN
               /\ Resolved(assignments', row.from) = {row.shift}
               /\ \A d \in 1 .. row.from - 1 : Resolved(assignments', d) = Resolved(assignments, d)
  <2>1. PICK b \in Slots, row \in Assignment : Assign(b, row) /\ Forward(row)
    BY <1>1, OtherRows
  <2>2. a = b /\ assignments'[a] = row
    BY <1>1, <2>1, NewRow, AfterAssign
  <2> QED BY <1>1, <2>1, <2>2, FirstDay, EarlierDays
<1>2. PlanInv /\ [PlanNext]_vars =>
        [\A a \in Slots : assignments[a] = None /\ assignments'[a] # None =>
           LET row == assignments'[a] IN
             /\ Resolved(assignments', row.from) = {row.shift}
             /\ \A d \in 1 .. row.from - 1 : Resolved(assignments', d) = Resolved(assignments, d)]_vars
  BY <1>1
<1> QED BY <1>2, InitInv, StepInv, PTL DEF PlanSpec, AssignTakesEffect
===============================================================================
