------------------------------- MODULE ShiftPlan -------------------------------
(***************************************************************************)
(* The shift plan of one employee: the shifts of the organization, the     *)
(* dated assignments, the roster and the weekly offs, each with the        *)
(* handlers of ShiftService that change it.  A handler runs to its end     *)
(* before the next one begins; what two at once can do is listed in the    *)
(* README.                                                                 *)
(*                                                                         *)
(* generate_rotation is left out: its roster rows carry no branch, the     *)
(* column is NOT NULL, and the request is refused when they are written.   *)
(* Names, colours and timings of a shift decide nothing here.              *)
(***************************************************************************)
EXTENDS Naturals, FiniteSets

CONSTANTS
  LastDate,         \* bound: dates are 1 .. LastDate
  Shifts,
  Slots,            \* bound: rows of shift_assignments
  RosterDates,      \* bound: dates the roster is kept for
  Weekdays, OffSlots,  \* of the weekly offs; bound: rows of employee_weekoffs
  Joined,           \* date_of_joining
  Lockable,         \* dates whose attendance may be locked
  None, Open        \* no row or no shift; a range without an end

ASSUME PlanAssumption ==
  /\ LastDate \in Nat /\ Joined \in Nat
  /\ Lockable \subseteq 1 .. LastDate /\ RosterDates \subseteq 1 .. LastDate
  /\ None \notin Shifts /\ Open \notin Nat

Dates == 1 .. LastDate

VARIABLES
  deleted,      \* shifts that are soft-deleted
  assignments,  \* shift_assignments, by row
  roster,       \* roster, by date: the unique key allows one row a date
  weekoffs,     \* employee_weekoffs, by row
  locked,       \* dates in a month whose attendance is locked
  today

vars == <<deleted, assignments, roster, weekoffs, locked, today>>

ShiftExists(s) == s \in Shifts \ deleted

Unlocked(dates) == dates \cap locked = {}

-------------------------------------------------------------------------------
(* Assignments *)

Assignment == [from : Dates, to : Dates \cup {Open}, shift : Shifts]

ASSUME NoneAssumption == None \notin Assignment

IsRow(a) == assignments[a] # None
IsOpen(a) == IsRow(a) /\ assignments[a].to = Open

\* resolve_for_date: of the rows that cover the date the latest start wins.
Covers(row, d) == row.from <= d /\ (row.to = Open \/ d <= row.to)

Covering(as, d) == {a \in Slots : as[a] # None /\ Covers(as[a], d)}

EarliestCovering(as, d) ==
  {a \in Covering(as, d) : \A b \in Covering(as, d) : as[a].from <= as[b].from}

Effective(as, d) ==
  {a \in Covering(as, d) : \A b \in Covering(as, d) : as[b].from <= as[a].from}

Resolved(as, d) == {as[a].shift : a \in Effective(as, d)}

StartsOn(f) == \E a \in Slots : IsRow(a) /\ assignments[a].from = f

\* The open assignment that starts last is closed the day before; one that
\* starts no earlier cannot be, and the request is refused.
LatestOpen(a) == IsOpen(a) /\ \A b \in Slots : IsOpen(b) => assignments[b].from <= assignments[a].from

Superseded(as, f) ==
  [a \in Slots |-> IF LatestOpen(a) THEN [as[a] EXCEPT !.to = f - 1] ELSE as[a]]

MayStartTwice(f) ==
  /\ Joined <= f
  /\ \A a \in Slots : LatestOpen(a) => assignments[a].from < f

MayStart(f) ==
  /\ Joined <= f /\ ~StartsOn(f)
  /\ \A a \in Slots : LatestOpen(a) => assignments[a].from < f

Assign(a, row) ==
  /\ assignments[a] = None /\ ShiftExists(row.shift) /\ MayStart(row.from)
  /\ assignments' = [Superseded(assignments, row.from) EXCEPT ![a] = row]
  /\ UNCHANGED <<deleted, roster, weekoffs, locked, today>>

\* No range ends before it begins.
Forward(row) == row.to # Open => row.from <= row.to

assign_shift(a, row) == Forward(row) /\ Unlocked({row.from, row.to}) /\ Assign(a, row)

\* One employee of bulk_assign_shift: the request is checked for its range, but
\* not for locked dates.
assign_one(a, row) == Forward(row) /\ Assign(a, row)

\* overlap_exists, against every other row.
OverlapsStart(a, row) ==
  \E b \in Slots \ {a} : IsRow(b) /\ Covers(assignments[b], row.from)

Overlaps(a, row) ==
  \E b \in Slots \ {a} :
    /\ IsRow(b)
    /\ assignments[b].to = Open \/ row.from <= assignments[b].to
    /\ row.to = Open \/ assignments[b].from <= row.to

\* The shift is looked for only if the request names one.
update_assignment(a, row) ==
  /\ IsRow(a) /\ row # assignments[a]
  /\ LET old == assignments[a] IN
       /\ Unlocked({old.from, old.to, row.from, row.to})
       /\ row.shift # old.shift => ShiftExists(row.shift)
  /\ Forward(row) /\ ~Overlaps(a, row)
  /\ assignments' = [assignments EXCEPT ![a] = row]
  /\ UNCHANGED <<deleted, roster, weekoffs, locked, today>>

delete_assignment(a) ==
  /\ IsRow(a) /\ Unlocked({assignments[a].from, assignments[a].to})
  /\ assignments' = [assignments EXCEPT ![a] = None]
  /\ UNCHANGED <<deleted, roster, weekoffs, locked, today>>

-------------------------------------------------------------------------------
(* Roster *)

Entry == [off : BOOLEAN, shift : Shifts \cup {None}]

NamesNoDeleted(entry) == entry.shift # None => ShiftExists(entry.shift)

\* The schema refuses a week off with a shift.
Admitted == {entry \in Entry : entry.off => entry.shift = None}

upsert_roster_entry(d, entry) ==
  /\ Unlocked({d}) /\ NamesNoDeleted(entry)
  /\ roster' = [roster EXCEPT ![d] = entry]
  /\ UNCHANGED <<deleted, assignments, weekoffs, locked, today>>

\* Entries that are refused are skipped, the others are written.
bulk_set_roster(entries) ==
  /\ roster' = [d \in RosterDates |->
                  IF d \in DOMAIN entries /\ Unlocked({d}) /\ NamesNoDeleted(entries[d])
                  THEN entries[d] ELSE roster[d]]
  /\ UNCHANGED <<deleted, assignments, weekoffs, locked, today>>

\* A patch of the shift, of the week off or of both.  A week off loses its
\* shift; a shift is looked for only when it is another one.
PatchedAsAsked(entry) == entry

Patched(entry) == IF entry.off THEN [entry EXCEPT !.shift = None] ELSE entry

update_roster_entry(d, entry) ==
  /\ roster[d] # None /\ Unlocked({d})
  /\ entry.off => entry.shift \in {None, roster[d].shift}
  /\ ~entry.off /\ entry.shift # roster[d].shift => NamesNoDeleted(entry)
  /\ roster' = [roster EXCEPT ![d] = Patched(entry)]
  /\ UNCHANGED <<deleted, assignments, weekoffs, locked, today>>

delete_roster_entry(d) ==
  /\ roster[d] # None /\ Unlocked({d})
  /\ roster' = [roster EXCEPT ![d] = None]
  /\ UNCHANGED <<deleted, assignments, weekoffs, locked, today>>

-------------------------------------------------------------------------------
(* Weekly offs.  Their dates are left out: but for the check of the locks no   *)
(* handler reads them, nor does resolve_shift: the row without an end counts   *)
(* on every date of its weekday.                                               *)

Weekoff == [day : Weekdays, off : BOOLEAN, open : BOOLEAN]

Current(day) == {w \in OffSlots : weekoffs[w] # None /\ weekoffs[w].day = day /\ weekoffs[w].open}

Closed(days) ==
  [w \in OffSlots |-> IF weekoffs[w] # None /\ weekoffs[w].day \in days
                      THEN [weekoffs[w] EXCEPT !.open = FALSE] ELSE weekoffs[w]]

set_weekly_off(w, row, from) ==
  /\ weekoffs[w] = None /\ Unlocked({from})
  /\ weekoffs' = [Closed({row.day}) EXCEPT ![w] = row]
  /\ UNCHANGED <<deleted, assignments, roster, locked, today>>

\* Each weekday once; the weekdays that are not named are closed as well.
configure_weekoffs(rows) ==
  /\ DOMAIN rows # {} /\ Unlocked({today})
  /\ \A w \in DOMAIN rows : weekoffs[w] = None
  /\ \A w, x \in DOMAIN rows : w # x => rows[w].day # rows[x].day
  /\ weekoffs' = [w \in OffSlots |-> IF w \in DOMAIN rows THEN rows[w] ELSE Closed(Weekdays)[w]]
  /\ UNCHANGED <<deleted, assignments, roster, locked, today>>

MayReopenAny(w) == TRUE

MayReopen(w) == Current(weekoffs[w].day) \subseteq {w}

update_weekoff(w, off, open) ==
  /\ weekoffs[w] # None
  /\ open /\ ~weekoffs[w].open => MayReopen(w)
  /\ weekoffs' = [weekoffs EXCEPT ![w].off = off, ![w].open = open]
  /\ UNCHANGED <<deleted, assignments, roster, locked, today>>

-------------------------------------------------------------------------------
(* Shifts, the locks of attendance, the calendar *)

RosteredAfter(s, date) == \E d \in RosterDates : date < d /\ roster[d] # None /\ roster[d].shift = s

Rostered(s, date) == \E d \in RosterDates : date <= d /\ roster[d] # None /\ roster[d].shift = s

delete_shift(s) ==
  /\ ShiftExists(s)
  /\ ~\E a \in Slots : IsOpen(a) /\ assignments[a].shift = s
  /\ ~Rostered(s, today)
  /\ deleted' = deleted \cup {s}
  /\ UNCHANGED <<assignments, roster, weekoffs, locked, today>>

restore_shift(s) ==
  /\ s \in deleted
  /\ deleted' = deleted \ {s}
  /\ UNCHANGED <<assignments, roster, weekoffs, locked, today>>

LockOrUnlock(d) ==
  /\ locked' = IF d \in locked THEN locked \ {d} ELSE locked \cup {d}
  /\ UNCHANGED <<deleted, assignments, roster, weekoffs, today>>

Tomorrow ==
  /\ today < LastDate /\ today' = today + 1
  /\ UNCHANGED <<deleted, assignments, roster, weekoffs, locked>>

-------------------------------------------------------------------------------
PlanInit ==
  /\ deleted = {}
  /\ assignments = [a \in Slots |-> None]
  /\ roster = [d \in RosterDates |-> None]
  /\ weekoffs = [w \in OffSlots |-> None]
  /\ locked = {} /\ today = 1

AssignmentStep ==
  \E a \in Slots :
    \/ \E row \in Assignment : assign_shift(a, row) \/ assign_one(a, row) \/ update_assignment(a, row)
    \/ delete_assignment(a)

RosterStep ==
  \/ \E d \in RosterDates, entry \in Admitted : upsert_roster_entry(d, entry)
  \/ \E d \in RosterDates, entry \in Entry : update_roster_entry(d, entry)
  \/ \E d \in RosterDates : delete_roster_entry(d)
  \/ \E days \in SUBSET RosterDates : \E entries \in [days -> Admitted] : bulk_set_roster(entries)

WeekoffStep ==
  \/ \E w \in OffSlots, row \in Weekoff, from \in Dates : set_weekly_off(w, row, from)
  \/ \E w \in OffSlots, off, open \in BOOLEAN : update_weekoff(w, off, open)
  \/ \E ws \in SUBSET OffSlots : \E rows \in [ws -> Weekoff] : configure_weekoffs(rows)

PlanNext ==
  \/ AssignmentStep \/ RosterStep \/ WeekoffStep
  \/ \E s \in Shifts : delete_shift(s) \/ restore_shift(s)
  \/ \E d \in Lockable : LockOrUnlock(d)
  \/ Tomorrow

PlanSpec == PlanInit /\ [][PlanNext]_vars

-------------------------------------------------------------------------------
(* Properties *)

\* Rows are rows, and a week off in the roster carries no shift, whatever a
\* patch left out.
PlanTypeOK ==
  /\ deleted \subseteq Shifts
  /\ assignments \in [Slots -> Assignment \cup {None}]
  /\ roster \in [RosterDates -> Admitted \cup {None}]
  /\ weekoffs \in [OffSlots -> Weekoff \cup {None}]
  /\ locked \subseteq Lockable
  /\ today \in Nat

\* An employee never has two assignments without an end: each new one closes
\* the last, and a range that is edited may not run into another.
OneOpenAssignment == \A a, b \in Slots : IsOpen(a) /\ IsOpen(b) => a = b

\* The shift of a date is never a matter of the order in which rows are read.
ResolutionIsUnique == \A d \in Dates : \A a, b \in Effective(assignments, d) : a = b

\* A new assignment is what its first day resolves to, and closing the one before
\* it changes no earlier day.
AssignTakesEffect ==
  [][\A a \in Slots : assignments[a] = None /\ assignments'[a] # None =>
       LET row == assignments'[a] IN
         /\ Resolved(assignments', row.from) = {row.shift}
         /\ \A d \in 1 .. row.from - 1 : Resolved(assignments', d) = Resolved(assignments, d)]_vars

\* Nobody is rostered today or later on a shift that was deleted.
UpcomingRosterShiftsExist ==
  \A d \in RosterDates : today <= d /\ roster[d] # None => NamesNoDeleted(roster[d])

\* A weekday has one weekly-off rule at a time: closing, replacing and
\* reopening rows leaves no two current.
OneCurrentWeekoff == \A day \in Weekdays : \A w, x \in Current(day) : w = x
===============================================================================
