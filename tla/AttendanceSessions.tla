-------------------------- MODULE AttendanceSessions --------------------------
(***************************************************************************)
(* One day of one employee and the sessions that change it: uploads of the *)
(* punch device, punches and marks by hand, overrides, corrections and     *)
(* their approval, and the nightly finalizer, under the period locks.      *)
(*                                                                         *)
(* A handler reads the locks, the day and its punches, computes, and       *)
(* writes: "checked" is what it knows before its transaction, "write" what *)
(* it is about to commit.  The ORM writes the columns that differ from the *)
(* row the session loaded; READ COMMITTED lets another session commit      *)
(* between the two.                                                        *)
(***************************************************************************)
EXTENDS AttendanceDay

CONSTANTS
  Sessions,       \* API requests and device uploads open at once
  Finalizer,      \* the job finalize_daily_attendance
  Scopes,         \* of the locks that are set: the company, the employee's branch
  Marks,          \* statuses HR marks a day with
  Corrections,    \* in and out times that corrections ask for
  Holiday,        \* the employee has a holiday on the date
  MaxRequests     \* bound: requests begun in one behaviour

ASSUME SessionsAssumption ==
  /\ Finalizer \notin Sessions
  /\ Scopes \subseteq {"company", "branch"} /\ Marks \subseteq Statuses
  /\ \A c \in Corrections : c \in Seq(Times) /\ Len(c) = 2
  /\ Holiday \in BOOLEAN /\ MaxRequests \in Nat

VARIABLES
  day, punches,   \* the row of attendance_days and its attendance_punches
  request,        \* the correction: its envelope, its own row, its times
  lock,           \* attendance_locks of the month, per scope
  leave,          \* a leave request over the date: what an employee without one
                  \* can meet, one whose leave was cancelled meets
  now,            \* the slot of the clock
  task,           \* what each session is about to do, and what it has read
  begun,          \* requests begun
  early           \* history: sessions that had passed their check when the
                  \* company lock was set

store == <<day, punches, request, lock, leave>>
vars == <<store, now, task, begun, early>>

Decisions == {"approved", "rejected", "cancelled"}

NoRequest == [envelope |-> "absent", row |-> "absent", times |-> <<>>, onDay |-> FALSE]

Idle == [at |-> "idle"]

\* check_period_locked, with the branch of the employee; the finalizer asks for
\* the company alone.
LockedBy(scopes) == \E scope \in scopes \cap Scopes : lock[scope] = "locked"

PeriodLockedForBranch == LockedBy({"branch"})

PeriodLocked == LockedBy(Scopes)

-------------------------------------------------------------------------------
(* Sessions *)

Goes(s, next) == task' = [task EXCEPT ![s] = next]

Begin(s, next) ==
  /\ task[s] = Idle /\ begun < MaxRequests
  /\ begun' = begun + 1
  /\ Goes(s, next)
  /\ UNCHANGED <<store, now, early>>

Reads(s, next) == Goes(s, next) /\ UNCHANGED <<store, now, begun, early>>

\* What a session writes: a row in the place of the one it saw, punches to add
\* and to invalidate, and a decision on the correction.
Write(seen, row, adds, drops, decision) ==
  [at |-> "write", seen |-> seen, row |-> row, adds |-> adds, drops |-> drops,
   decision |-> decision]

Plain(seen, row, adds) == Write(seen, row, adds, {}, "none")

MergedWholeRow(seen, row) == row

\* Only changed columns are written.
Merged(seen, row) == [c \in DOMAIN day |-> IF row[c] # seen[c] THEN row[c] ELSE day[c]]

\* An approval that turns is_regularized on holds the row of the day from then on.
HoldsDay(s) ==
  task[s].at = "write" /\ task[s].decision = "approved" /\ ~task[s].seen.regularized

Released(s) == \A t \in Sessions \ {s} : ~HoldsDay(t)

DecidedEnvelopeOnly(decision) == [request EXCEPT !.envelope = decision]

\* The envelope and the request are updated in one transaction.
Decided(decision) == [request EXCEPT !.envelope = decision, !.row = decision]

\* The unique key refuses a second row for the day; an UPDATE of a request that
\* was deleted since finds no row and is refused.
Commit(s) ==
  /\ task[s].at = "write" /\ Released(s)
  /\ LET w == task[s] IN
       /\ w.seen.exists \/ ~w.row.exists \/ ~day.exists
       /\ w.decision # "none" => request.envelope # "absent"
       /\ day' = IF w.seen.exists THEN Merged(w.seen, w.row)
                 ELSE IF w.row.exists THEN w.row ELSE day
       /\ punches' = Add(Invalidate(punches, w.drops), w.adds)
       /\ request' = IF w.decision = "none" THEN request ELSE Decided(w.decision)
  /\ Goes(s, Idle) /\ early' = early \ {s}
  /\ UNCHANGED <<lock, leave, now, begun>>

\* The request is refused on the way, or the server dies.  A device is told OK
\* all the same: what the savepoint of its record rolled back is not sent again.
GiveUp(s) ==
  /\ task[s] # Idle
  /\ Goes(s, Idle) /\ early' = early \ {s}
  /\ UNCHANGED <<store, now, begun>>

-------------------------------------------------------------------------------
(* Punches *)

\* The day as a punch finds or creates it, and the punch's own computation.
WithPunches(times) ==
  LET d == IF day.exists THEN day ELSE Opened
  IN Plain(day, Recomputed(d, Add(punches, times), now), times)

\* handle_cdata_post, one record: a record that is stored already is skipped.
Upload(s, t) ==
  /\ t <= now /\ ~PeriodLocked
  /\ t \notin Stored(punches)
  /\ Begin(s, WithPunches(<<t>>))

add_manual_punch(s, t) == ~PeriodLocked /\ Begin(s, WithPunches(<<t>>))

-------------------------------------------------------------------------------
(* Days marked by hand *)

\* Whatever leave the request names: leave_id is not looked at.
create_attendance_day(s, status, link) ==
  /\ ~PeriodLocked /\ ~day.exists
  /\ Begin(s, Plain(day, [Opened EXCEPT !.source = "manual", !.status = status,
                                        !.leave = link], <<>>))

create_manual_attendance(s, times) ==
  /\ ~PeriodLocked /\ ~day.exists
  /\ LET d == [Opened EXCEPT !.source = "manual", !.status = "present"]
     IN Begin(s, Plain(day, Recomputed(d, Add(<<>>, times), now), times))

\* Any of the fields may be in the request.
override_attendance_day(s, status, link, worked) ==
  /\ ~PeriodLocked /\ day.exists
  /\ Begin(s, Plain(day, [day EXCEPT !.source = "manual", !.status = status,
                                     !.leave = link, !.worked = worked], <<>>))

\* Without a branch in the request only the company's lock counts.  A weekly off
\* is not seen: timing.is_week_off is no column, and the error is swallowed.
generate_for_range(s) ==
  /\ ~LockedBy({"company"}) /\ ~day.exists
  /\ Begin(s, Plain(day, [Opened EXCEPT !.status =
                            IF Holiday THEN "holiday"
                            ELSE IF leave = "approved" THEN "on_leave" ELSE "not_marked"], <<>>))

-------------------------------------------------------------------------------
(* Corrections *)

\* request_correction needs the day, submit_attendance_regularization does not.
\* One correction per behaviour.
request_correction(s, times) ==
  /\ task[s] = Idle /\ request = NoRequest
  /\ day.exists => ~PeriodLocked
  /\ request' = [envelope |-> "pending", row |-> "pending", times |-> times,
                 onDay |-> day.exists]
  /\ UNCHANGED <<day, punches, lock, leave, now, task, begun, early>>

\* approve_correction, cancel_correction and cancel_approval_request test the
\* request before their transaction; only the first looks at the lock.
Check(s, decision) ==
  /\ request.envelope = "pending"
  /\ decision \in {"approved", "rejected"} => ~PeriodLocked
  /\ Begin(s, [at |-> "checked", decision |-> decision])

\* In the transaction: the update of the envelope waits for whoever holds it.
Decide(s) ==
  /\ task[s].at = "checked" /\ task[s].decision \in Decisions
  /\ request.envelope # "absent"
  /\ \A t \in Sessions \ {s} : task[t].at = "write" => task[t].decision = "none"
  /\ LET times == request.times
         new == Add(Invalidate(punches, DOMAIN punches), times)
     IN IF task[s].decision = "approved" /\ day.exists
        THEN Reads(s, Write(day, Recomputed([day EXCEPT !.regularized = TRUE], new, now),
                            times, DOMAIN punches, "approved"))
        ELSE Reads(s, Write(Unmarked, Unmarked, <<>>, {}, task[s].decision))

\* cancel_approval_request deletes both rows, if they are still there.
DeleteRequest(s) ==
  /\ task[s].at = "checked" /\ task[s].decision = "deleted"
  /\ request' = [request EXCEPT !.envelope = "absent", !.row = "absent"]
  /\ Goes(s, Idle) /\ early' = early \ {s}
  /\ UNCHANGED <<day, punches, lock, leave, now, begun>>

-------------------------------------------------------------------------------
(* finalize_unclosed_days, every night *)

\* All days up to yesterday; today is in UTC.
Overdue == now = Night

LoadDays ==
  /\ task[Finalizer] = Idle /\ Overdue
  /\ Reads(Finalizer, [at |-> "loaded", seen |-> day])

SkipsMarkedDays == LockedBy({"company"}) \/ task[Finalizer].seen.status # "not_marked"

\* The lock is asked for at each day, for the company only.
Skips == LockedBy({"company"})

RecomputeDay ==
  /\ task[Finalizer].at = "loaded"
  /\ LET d == task[Finalizer].seen IN
       Reads(Finalizer, IF ~d.exists \/ Skips THEN Idle
                        ELSE Plain(d, Recomputed(d, punches, now), <<>>))

Finalize == LoadDays \/ RecomputeDay \/ Commit(Finalizer)

-------------------------------------------------------------------------------
(* Locks, a leave that is cancelled, the clock *)

\* Unique keys on the month count a lock that was released, too.
lock_attendance(scope) ==
  /\ ~LockedBy({"company", scope}) /\ lock[scope] = "none"
  /\ lock' = [lock EXCEPT ![scope] = "locked"]
  /\ early' = IF scope = "company"
              THEN {s \in DOMAIN task : task[s].at \in {"checked", "write"}} ELSE early
  /\ UNCHANGED <<day, punches, request, leave, now, task, begun>>

unlock_attendance(scope) ==
  /\ lock[scope] = "locked"
  /\ lock' = [lock EXCEPT ![scope] = "unlocked"]
  /\ UNCHANGED <<day, punches, request, leave, now, task, begun, early>>

\* LeaveService.cancel_leave_request resets the days that name the request.
cancel_leave_request ==
  /\ leave = "approved" /\ leave' = "cancelled"
  /\ \A s \in Sessions : ~HoldsDay(s)
  /\ day' = IF ~day.leave THEN day
            ELSE LET d == [day EXCEPT !.leave = FALSE,
                             !.status = IF day.first = NoPunch THEN "absent" ELSE @]
                 IN Recomputed(d, punches, now)
  /\ UNCHANGED <<punches, request, lock, now, task, begun, early>>

Tick == now < Night /\ now' = now + 1 /\ UNCHANGED <<store, task, begun, early>>

-------------------------------------------------------------------------------
Requests(s) ==
  \/ \E t \in Times : Upload(s, t) \/ add_manual_punch(s, t)
  \/ \E status \in Marks, link \in BOOLEAN :
       \/ create_attendance_day(s, status, link)
       \/ \E worked \in {day.worked, FullDay} : override_attendance_day(s, status, link, worked)
  \/ \E times \in Corrections : create_manual_attendance(s, times) \/ request_correction(s, times)
  \/ generate_for_range(s)
  \/ \E decision \in Decisions \cup {"deleted"} : Check(s, decision)

GoesOn(s) == Commit(s) \/ Decide(s) \/ DeleteRequest(s) \/ GiveUp(s)

Next ==
  \/ \E s \in Sessions : Requests(s) \/ GoesOn(s)
  \/ Finalize \/ GiveUp(Finalizer)
  \/ \E scope \in Scopes : lock_attendance(scope) \/ unlock_attendance(scope)
  \/ cancel_leave_request \/ Tick

Init ==
  /\ day \in {Unmarked, Opened} /\ punches = <<>> /\ request = NoRequest
  /\ lock = [scope \in Scopes |-> "none"]
  /\ leave = "approved"
  /\ now = 0 /\ begun = 0 /\ early = {}
  /\ task = [s \in Sessions \cup {Finalizer} |-> Idle]

\* The clock goes on, requests end, and the cron job comes back every night: it
\* may fail, but not in every night from some night on.
Fairness ==
  /\ WF_vars(Tick)
  /\ \A s \in Sessions : WF_vars(GoesOn(s))
  /\ WF_vars(LoadDays) /\ SF_vars(RecomputeDay) /\ SF_vars(Commit(Finalizer))

AttendanceSpec == Init /\ [][Next]_vars /\ Fairness

-------------------------------------------------------------------------------
(* Properties *)

AttendanceTypeOK ==
  /\ day \in Days /\ punches \in Punches
  /\ request.envelope \in {"absent", "pending"} \cup Decisions
  /\ ~day.exists => punches = <<>>
  /\ lock \in [Scopes -> {"none", "locked", "unlocked"}]
  /\ now \in 0 .. Night /\ begun \in 0 .. MaxRequests
  /\ early \subseteq DOMAIN task

\* However decisions overlap, the envelope in the approvals module and the
\* request in this one say the same.
EnvelopeMatchesRequest == request.envelope = request.row

\* A correction that stands as approved is on the day it was asked for: its
\* punches are stored and the day is marked as regularized.
ApprovedIsApplied ==
  request.envelope = "approved" /\ request.onDay =>
    /\ day.regularized
    /\ \A k \in DOMAIN request.times : request.times[k] \in Stored(punches)

\* "Freeze mutations": once the company's month is locked and the requests that
\* had passed their check before are through, nothing changes the day, except a
\* leave that is cancelled, which asks for no lock.
CompanyLockFreezes ==
  [][LockedBy({"company"}) /\ early = {} =>
       UNCHANGED <<day, punches>> \/ leave' # leave]_vars

SummaryIsTrue ==
  LET T == Valid(punches) IN
  /\ day.first = First(T) /\ day.last = Last(T)
  /\ day.worked = Worked(T, Night)
  /\ day.source = "system" => day.status # "not_marked"
  /\ day.source = "system" /\ ~day.leave /\ ~WeeklyOff /\ T # {} =>
       (day.status = "present" <=> day.worked >= FullDay)

\* Whatever sessions overwrote, the nights make it good: in the end the summary
\* of a day that no company lock froze is that of its valid punches.
NightsHeal == <>[](LockedBy({"company"}) \/ (day.exists => SummaryIsTrue))
===============================================================================
