----------------------------- MODULE AttendanceDay -----------------------------
(***************************************************************************)
(* The row of attendance_days for one employee and one date, its punches,  *)
(* and the computation every handler ends with: _recompute_day_metrics.    *)
(*                                                                         *)
(* The date is cut into slots.  A date is "today" for the computation when *)
(* it is the date in UTC, while a punch is filed under the local date: the *)
(* slots before Dawn are not yet "today", and from Night on it is over.    *)
(* Minutes that depend on the expected times of the shift (late, early,    *)
(* overtime) are left out: they are functions of the fields kept here.     *)
(***************************************************************************)
EXTENDS Naturals, Sequences, FiniteSets

CONSTANTS
  Night, Dawn,        \* slots: the date is over in UTC, and it begins there
  Kind,               \* "in" or "out": what a punch at a slot is; breaks are outs
  FullDay, HalfDay,   \* slots of work that make a day or half a day
  Mode,               \* attendance_mode of the payroll settings
  WeeklyOff,          \* resolve_shift: the date is a weekly off
  NoPunch             \* a first or last punch that is not there

ASSUME DayAssumption ==
  /\ Night \in Nat \ {0} /\ Dawn \in 0 .. Night
  /\ Kind \in [0 .. Night - 1 -> {"in", "out"}]
  /\ FullDay \in Nat /\ HalfDay \in 0 .. FullDay
  /\ Mode \in {"consider_all_punch", "first_last", "single"}
  /\ WeeklyOff \in BOOLEAN
  /\ NoPunch \notin Nat

Times == 0 .. Night - 1

Statuses == {"present", "half_day", "absent", "on_leave", "holiday", "week_off", "not_marked"}

Days == [exists : BOOLEAN, source : {"system", "manual"}, status : Statuses,
         leave : BOOLEAN, regularized : BOOLEAN, first : Times \cup {NoPunch},
         last : Times \cup {NoPunch}, worked : 0 .. Night]

\* A row as a punch creates it, before anything is computed.
Opened == [exists |-> TRUE, source |-> "system", status |-> "not_marked", leave |-> FALSE,
           regularized |-> FALSE, first |-> NoPunch, last |-> NoPunch, worked |-> 0]

Unmarked == [Opened EXCEPT !.exists = FALSE]

-------------------------------------------------------------------------------
(* Punches: rows in the order they were inserted, some invalidated later *)

Punches == Seq([at : Times, valid : BOOLEAN])

Add(p, times) == p \o [k \in DOMAIN times |-> [at |-> times[k], valid |-> TRUE]]

Invalidate(p, rows) ==
  [k \in DOMAIN p |-> IF k \in rows THEN [p[k] EXCEPT !.valid = FALSE] ELSE p[k]]

Stored(p) == {p[k].at : k \in DOMAIN p}
Valid(p) == {p[k].at : k \in {k \in DOMAIN p : p[k].valid}}

-------------------------------------------------------------------------------
(* _recompute_day_metrics, on the set T of the times of the valid punches *)

Earliest(T) == CHOOSE t \in T : \A u \in T : t <= u
Latest(T) == CHOOSE t \in T : \A u \in T : u <= t
UpTo(T, t) == {u \in T : u <= t}
After(T, t) == {u \in T : u > t}

First(T) == IF T = {} THEN NoPunch ELSE Earliest(T)
Last(T) == IF T = {} THEN NoPunch ELSE Latest(T)

\* The last punch up to the slot is an in (or an out).
In(T, t) == UpTo(T, t) # {} /\ Kind[Latest(UpTo(T, t))] = "in"
Out(T, t) == UpTo(T, t) # {} /\ Kind[Latest(UpTo(T, t))] = "out"

\* Work runs from the first in to the next out; more ins in between change nothing.
WorkSlots(T) == {t \in Times : In(T, t) /\ \E u \in After(T, t) : Kind[u] = "out"}

\* A break runs from the last out to the in that follows it.
Breaks(T) == {t \in Times : Out(T, t) /\ After(T, t) # {} /\ Kind[Earliest(After(T, t))] = "in"}

IsToday(now) == Dawn <= now /\ now < Night

\* Today an open session, or an open break, goes on until now.
Open(T, now) == {t \in Times : IsToday(now) /\ t < now /\ In(T, t)} \ WorkSlots(T)
OpenBreak(T, now) == {t \in Times : IsToday(now) /\ t < now /\ Out(T, t) /\ After(T, t) = {}}

Worked(T, now) ==
  LET all == Cardinality(WorkSlots(T) \cup Open(T, now))
      off == Cardinality(Breaks(T) \cup OpenBreak(T, now))
      span == Latest(T) - Earliest(T)
  IN IF T = {} THEN 0
     ELSE CASE Mode = "consider_all_punch" -> all
            [] Mode = "first_last" -> IF span > off THEN span - off ELSE 0
            [] Mode = "single" -> IF all > FullDay THEN all ELSE FullDay

StatusByHours(T, now) ==
  IF Worked(T, now) >= FullDay THEN "present"
  ELSE IF Worked(T, now) >= HalfDay THEN "half_day"
  ELSE IF IsToday(now) THEN "present" ELSE "absent"

StatusWithoutPunches(d, now) ==
  IF d.status \in {"holiday", "on_leave"} THEN d.status
  ELSE IF IsToday(now) THEN "not_marked" ELSE "absent"

\* "Determine daily status if not overridden."
Status(d, T, now) ==
  IF d.source = "manual" THEN d.status
  ELSE IF d.leave THEN "on_leave"
  ELSE IF WeeklyOff THEN (IF T = {} THEN "week_off" ELSE "present")
  ELSE IF T = {} THEN StatusWithoutPunches(d, now) ELSE StatusByHours(T, now)

Recomputed(d, p, now) ==
  [d EXCEPT !.first = First(Valid(p)), !.last = Last(Valid(p)),
            !.worked = Worked(Valid(p), now), !.status = Status(d, Valid(p), now)]
===============================================================================
