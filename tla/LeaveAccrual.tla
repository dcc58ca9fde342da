----------------------------- MODULE LeaveAccrual -----------------------------
(***************************************************************************)
(* The nightly accrual of one leave type: run_leave_accrual_all_orgs, a    *)
(* job of the queue, credits every active employee of the organization     *)
(* once per period (a month, or the cycle year), and records the credit as *)
(* a row of employee_leave_allocations.                                    *)
(*                                                                         *)
(* A night that a dead worker left behind may run beside the next one, and *)
(* HR assigns and unassigns the same leave type through the API meanwhile. *)
(***************************************************************************)
EXTENDS JobQueue, LeaveBalance

CONSTANTS
  Employees,   \* ids, credited in their order
  Nights,      \* the cron jobs
  Clerks,      \* API sessions in assign_leave_types
  Periods,     \* the last period of the cycle; the first is 1
  Count,       \* auto_allocation_count
  Overrides,   \* the allocated_days an API call may give instead
  Monthly      \* the type accrues monthly: the key of an allocation has no NULL

ASSUME AccrualAssumption ==
  /\ Employees \subseteq Nat /\ IsFiniteSet(Employees)
  /\ Nights \subseteq Jobs
  /\ Periods \in Nat \ {0} /\ Count \in Nat \ {0} /\ Monthly \in BOOLEAN
  /\ Overrides \subseteq Nat

VARIABLES
  period,     \* what the calendar says
  active,     \* the employees whose status is active
  balance,    \* employee_leave_balances of the cycle year
  credits,    \* rows of employee_leave_allocations, per employee and period
  night,      \* the accrual jobs: where they are and what they have read
  clerk,      \* the API sessions
  extra       \* the most by which an assignment exceeded Count, per employee
              \* (no code: for a property)

accruals == <<period, active, balance, credits, night, clerk, extra>>

Asleep == [at |-> "begin", period |-> 1, listed |-> {}, todo |-> {}, row |-> Missing]
NightPlaces == {"begin", "probe", "load", "store", "done"}

Free == [at |-> "idle", emp |-> 0, row |-> Missing, days |-> 0]

\* The employee a run is at: they are taken in the order of their ids.
Current(j) == CHOOSE e \in night[j].todo : \A f \in night[j].todo : e <= f

Go(j, c) == night' = [night EXCEPT ![j] = c]
GoTo(j, place) == night' = [night EXCEPT ![j].at = place]

\* On to the next employee, or to the end of the list.
Onward(j) ==
  LET rest == night[j].todo \ {Current(j)} IN
  Go(j, [night[j] EXCEPT !.todo = rest, !.at = IF rest = {} THEN "done" ELSE "probe"])

\* An exception leaves the loop over employees; the loop over organizations
\* logs it and goes on, and the job returns.
OrgFails(j) == GoTo(j, "done")

HoldsRow(e, p) == credits[e][p] > 0

NoRowGuard(e, p) == TRUE

\* The unique key of employee_leave_allocations: NULL periods never collide.
KeyFree(e, p) == Monthly => ~HoldsRow(e, p)

Record(e, p) == credits' = [credits EXCEPT ![e][p] = @ + 1]

-------------------------------------------------------------------------------
(* run_leave_accrual_all_orgs and LeaveService.run_auto_allocation *)

NightFalls(j) == Accept(j) /\ UNCHANGED <<tracked, accruals>>

ListEmployees(j) ==
  /\ Running(j) /\ night[j].at = "begin"
  /\ Go(j, [Asleep EXCEPT !.at = IF active = {} THEN "done" ELSE "probe",
                          !.period = period, !.listed = active, !.todo = active])
  /\ UNCHANGED <<queue, period, active, balance, credits, clerk, extra>>

\* allocate_leave asks for an earlier allocation before its transaction ...
Probe(j) ==
  /\ Running(j) /\ night[j].at = "probe"
  /\ IF HoldsRow(Current(j), night[j].period) THEN Onward(j) ELSE GoTo(j, "load")
  /\ UNCHANGED <<queue, period, active, balance, credits, clerk, extra>>

\* ... reads the balance in it; the branch that would create a missing one
\* names a variable that does not exist ...
Load(j) ==
  /\ Running(j) /\ night[j].at = "load"
  /\ LET row == balance[Current(j)] IN
       IF row.exists THEN Go(j, [night[j] EXCEPT !.at = "store", !.row = row])
       ELSE OrgFails(j)
  /\ UNCHANGED <<queue, period, active, balance, credits, clerk, extra>>

\* ... and writes the new totals and the allocation, and commits.
Store(j) ==
  LET e == Current(j) IN
  /\ Running(j) /\ night[j].at = "store"
  /\ IF KeyFree(e, night[j].period)
     THEN /\ balance' = [balance EXCEPT ![e] =
                           Flush(@, night[j].row, Accrue(night[j].row, Count))]
          /\ Record(e, night[j].period)
          /\ Onward(j)
     ELSE OrgFails(j) /\ UNCHANGED <<balance, credits>>
  /\ UNCHANGED <<queue, period, active, clerk, extra>>

NightReturns(j) ==
  /\ night[j].at = "done" /\ End(j, TRUE)
  /\ UNCHANGED accruals

\* A timeout of the job, or a database error outside the loop.
NightRaises(j) ==
  /\ night[j].at # "done" /\ End(j, FALSE)
  /\ UNCHANGED accruals

NightDies(j) ==
  /\ WorkerDies(j)
  /\ Go(j, Asleep)
  /\ UNCHANGED <<period, active, balance, credits, clerk, extra>>

-------------------------------------------------------------------------------
(* assign_leave_types, and what else happens meanwhile *)

Hire(e) ==
  /\ e \notin active /\ active' = active \cup {e}
  /\ UNCHANGED <<queue, period, balance, credits, night, clerk, extra>>

PeriodEnds ==
  /\ period < Periods /\ period' = period + 1
  /\ UNCHANGED <<queue, active, balance, credits, night, clerk, extra>>

Open(c, op, e, days) ==
  clerk' = [clerk EXCEPT ![c] = [at |-> op, emp |-> e, row |-> balance[e], days |-> days]]

AssignTypesRead(c, e) ==
  /\ clerk[c].at = "idle" /\ e \in active
  /\ \/ \E days \in {Count} \cup Overrides : Open(c, "assign", e, days)
     \/ Open(c, "unassign", e, 0)
  /\ UNCHANGED <<queue, period, active, balance, credits, night, extra>>

\* How far an assignment of that many days exceeds one accrual, at most.
Exceed(most, days) == IF days > Count + most THEN days - Count ELSE most

\* The allocation is recorded unless the period has one; a row that another
\* session inserted first makes a unique key refuse all of it.
AssignTypesWrite(c) ==
  LET e == clerk[c].emp
      new == IF clerk[c].at = "assign" THEN Assign(clerk[c].row, clerk[c].days)
             ELSE Unassign(Created(clerk[c].row)) IN
  /\ clerk[c].at # "idle"
  /\ IF ~clerk[c].row.exists /\ balance[e].exists
     THEN UNCHANGED <<balance, credits, extra>>
     ELSE /\ balance' = [balance EXCEPT ![e] = Flush(@, clerk[c].row, new)]
          /\ IF clerk[c].at = "assign"
             THEN /\ IF HoldsRow(e, period) THEN UNCHANGED credits ELSE Record(e, period)
                  /\ extra' = [extra EXCEPT ![e] = Exceed(@, clerk[c].days)]
             ELSE UNCHANGED <<credits, extra>>
  /\ clerk' = [clerk EXCEPT ![c] = Free]
  /\ UNCHANGED <<queue, period, active, night>>

-------------------------------------------------------------------------------
\* What the worker does for an accrual of its own accord, errors included.
Accrual(j) ==
  ListEmployees(j) \/ Probe(j) \/ Load(j) \/ Store(j) \/ NightReturns(j) \/ NightRaises(j)

AccrualNext ==
  \/ \E j \in Nights : NightFalls(j) \/ Accrual(j)
  \/ \E e \in Employees : Hire(e)
  \/ \E c \in Clerks : AssignTypesWrite(c) \/ \E e \in Employees : AssignTypesRead(c, e)
  \/ PeriodEnds

AccrualInit ==
  /\ period = 1
  /\ active \in SUBSET Employees
  /\ balance \in [Employees -> {Missing, Created(Missing)}]
  /\ \A e \in Employees : balance[e].exists => e \in active
  /\ credits = [e \in Employees |-> [p \in 1..Periods |-> 0]]
  /\ night = [j \in Nights |-> Asleep]
  /\ clerk = [c \in Clerks |-> Free]
  /\ extra = [e \in Employees |-> 0]

-------------------------------------------------------------------------------
(* Properties *)

AccrualTypeOK ==
  /\ period \in 1..Periods /\ active \subseteq Employees
  /\ balance \in [Employees -> BalanceRow]
  /\ credits \in [Employees -> [1..Periods -> Nat]]
  /\ night \in [Nights -> [at : NightPlaces, period : 1..Periods,
                           listed : SUBSET Employees, todo : SUBSET Employees,
                           row : BalanceRow]]
  /\ clerk \in [Clerks -> [at : {"idle", "assign", "unassign"}, emp : Employees \cup {0},
                           row : BalanceRow, days : Nat]]
  /\ extra \in [Employees -> Nat]

PeriodsCredited(e) == {p \in 1..Periods : HoldsRow(e, p)}

\* An employee is never granted more than one accrual per period, however runs
\* crash, are retried, overlap, or meet an assignment by hand: "credit one
\* employee's auto-allocation for one leave type, exactly once".  What is assigned
\* by hand may exceed an accrual, and is then exceeded by no more than the accruals.
NeverOverCredited ==
  \A e \in Employees :
    balance[e].allocated <= Count * Cardinality(PeriodsCredited(e)) + extra[e]

\* The job "credits each active employee's auto-allocation for the current leave
\* cycle" (jobs/scheduler.py): a night that returned has left no one out.
NightCreditsAll ==
  \A j \in Nights :
    job[j].ok => \A e \in night[j].listed : HoldsRow(e, night[j].period)
===============================================================================
