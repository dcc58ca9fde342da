# HRMS: a TLA+ verification project

The system is an HR backend (`src/backend/app`, FastAPI, SQLAlchemy with asyncpg, PostgreSQL, Redis, arq
workers) with a web client (`src/frontend`). This directory holds TLA+ models of its stateful core, the
configurations that model-check them with TLC, and proofs checked by TLAPS.

Modelled: **leave requests, their approval and the leave balances**; **loans, arrears, payroll runs and the
full-and-final settlement**; **the job queue, the delivery of notifications and the nightly leave accrual**; **a day
of attendance**; **the shift plan of an employee**; **employees and the units they work in**. Paths below are relative
to `src/backend/app` unless they start with `src/`.

## 1. How the code runs

What every model takes from the shared code:

- **One session per API request.** `core/database/session.py` opens an `AsyncSession` per request
  (`autoflush=False`, `expire_on_commit=False`), on PostgreSQL at READ COMMITTED. Requests interleave at every
  `await`, and several processes serve them.
- **Checks come before the transaction.** The pattern of nearly every handler is: load rows, test them, raise
  if they do not fit, then `async with self.transaction()` and write. There is no `SELECT ... FOR UPDATE`, and
  one advisory lock in the whole code base (`modules/employee/repository.py:324`). What a handler tested may
  no longer hold when it writes.
- **`BaseService.transaction()`** (`shared/base/service.py:34`) commits at its end, and rolls back on an
  exception. It has no nesting: a service that opens one inside another service's transaction commits the
  caller's work as well.
- **The unit of writing is a column.** `BaseRepository.update` flushes one UPDATE that names the columns whose
  new value differs from the *loaded* one, with the value computed from what was loaded. A stale session
  therefore overwrites some columns of a row and keeps others. `LeaveBalance!Flush`,
  `AttendanceSessions!Merged` and `EmployeeSessions!Changed`/`Updated` are this rule.
- **The schema has its own opinion.** CHECK, UNIQUE and NOT NULL constraints refuse some of what the services
  write. `core/exceptions/handlers.py` turns the refusal into a 409, and the transaction is rolled back.
- **The worker is another process.** arq takes jobs from Redis, may run one job twice, and runs beside the API
  on the same tables.

## 2. Inventory

For each component: the state it keeps, its operations, whom it meets, what is hard, what makes it correct.

**leave** (`modules/leave`). *State*: `leave_requests` (pending, approved, rejected; the services also write
`cancelled`), `employee_leave_balances` (allocated, adjusted, used, closing), `leave_balance_adjustments`,
`employee_leave_allocations`, leave types and settings. *Operations*: apply, edit, cancel; credit, debit,
adjust, assign, unassign; the accrual run. *Meets*: approvals (submits an envelope, is decided by it),
attendance (marks and clears leave days), jobs (accrual). *Hard*: a decision races an edit, a withdrawal, a
cancellation or a second decision; balances are read before they are written; the accrual is repeated. *Correct
when*: balances add up, are charged once per approved request and never go negative; decided requests stay
decided; one allocation per employee and period.

**approvals** (`modules/approvals`). *State*: `approval_requests`, one envelope per leave request, attendance
regularization or login reset. *Operations*: approve, reject, cancel (deletes envelope and source), bulk
variants. *Meets*: leave, attendance, auth, notifications. *Hard*: two tables written by three services must
agree. *Correct when*: an envelope is open exactly when its request is, and is decided once.

**settlements** (`modules/settlements`). *State*: `employee_loans_advances`, `loan_advance_transactions`,
`employee_arrears`, `arrears_transactions`, `employees.settlement_finalized_at`. *Operations*: create, request,
edit, repay, lend more, close and delete a loan; credit, revise and pay arrears; full-and-final settlement.
*Meets*: payroll, which collects instalments and pays arrears out. *Hard*: every operation is legal by itself,
and long sequences of them with payroll runs done and undone must still add up. *Correct when*: an outstanding
amount is what its ledger rows say, and arrears move with theirs.

**payroll** (`modules/payroll`). *State*: `payroll_computed_rows` (drafts, locked by `finalized_run_id`),
`finalized_payroll_runs`, salary cycles, the history pages (`payroll_finalizations`), adjustments, penalties,
extra hours. *Operations*: generate, recalculate, finalize, de-finalize, pay, cancel. *Meets*: attendance and
leave (inputs), settlements, notifications. *Hard*: a draft is computed from amounts that change before it is
finalized; generate and finalize read before their transactions; two runs of one period. *Correct when*: a
locked payslip does not change, a run collects no more than its payslips deduct, undoing a run undoes exactly
what it booked.

**jobs** (`jobs`). *State*: the arq queue and `job_status:*` keys in Redis. *Operations*: enqueue, the worker's
start and end hooks, the cron schedule, the tasks. *Hard*: crashes, retries, a status written after the worker's.
*Correct when*: each accepted job ends, and what a repeated job did already is not done again.

**notifications** (`modules/notifications`). *State*: notifications and recipients with `delivered_at`,
`read_at` and flags. *Operations*: create, assign, emit inside another service's transaction, deliver from a job;
read, archive, delete, one by one or in bulk. *Hard*: the job is queued before the row is committed; delivery and
recipients write the same rows. *Correct when*: no mail is sent about what is not committed, a completed delivery
has delivered to those it was queued for, and nothing a recipient marked is taken back.

**attendance** (`modules/attendance`), **adms** (`modules/adms`). *State*: days, punches, corrections, period
locks. *Operations*: uploads of terminals, punches and marks by hand, override, recompute, request/approve/cancel
a correction, lock, unlock, the nightly finalizer. *Meets*: approvals, leave, shift, jobs. *Hard*: the lock of a
period is tested before the transaction that changes a day; corrections are decided by two services; the summary of
a day is computed from what was read and written over what is there. *Correct when*: a locked month does not change;
a correction and its envelope agree and an approved one is applied; in the end the summary is that of the punches.

**shift** (`modules/shift`). *State*: shifts, assignments with from/to dates, roster entries, weekly offs.
*Operations*: assign (one, many), edit and delete an assignment; roster upsert, bulk, edit, delete; weekly offs;
delete and restore a shift; resolve a date. *Meets*: attendance, whose locks it asks for and which resolves dates.
*Hard*: assigning closes the open assignment without looking at closed ones; deletion of a shift looks ahead in some
tables. *Correct when*: each date resolves to one shift, a new assignment counts from its first day and changes no
earlier one, no upcoming date is rostered on a deleted shift.

**employee, organization** (`modules/employee`, `modules/organization`). *State*: employees with code, placement, status
and date of leaving; the status history; branches, departments and designations that may be closed or removed.
*Operations*: hire (typed or allocated code), edit, transfer, promote, activate, deactivate, terminate, exit, rehire;
open, close and remove a unit. *Hard*: each of the two services tests rows of the other outside its transaction; an
UPDATE writes only the columns that differ from what was read. *Correct when*: the status is the one the history was
last told, allocated codes do not collide, exactly the terminated have a date of leaving, nobody is moved into a closed
unit.

**auth** (`modules/auth`, `core/security`). *State*: `user_sessions`; failure counters and lock-out flags in Redis.
*Operations*: login, refresh, logout, revoke. *Hard*: Redis calls fail open and are not atomic with each other.
*Correct when*: a revoked session issues no token; a lock-out lasts as long as configured.

**Around it.** rbac, profile, settings, system, hardware: single-row reads and writes with no protocol. audit: an
append-only log written in the transaction of what it records. dashboard, reports: read-only. core, infrastructure,
migrations, deployment scripts: wiring, SMTP and files, schema, set-up. frontend: a client that keeps no state the
server relies on. `PROJECT.json` lists each with the reason it is left out.

## 3. Modules

| module | models | kind |
|---|---|---|
| `LeaveBalance` | a balance row, the arithmetic done on it, the column-wise UPDATE | operators |
| `LeaveLedger` | the handlers of leave and approvals, each one atomic step | abstract specification |
| `LeaveApproval` | the same handlers split at the awaits that matter, in concurrent sessions | detailed specification |
| `LeaveApproval_proofs` | five theorems of `LeaveApproval` | proofs |
| `LeaveLedger_proofs` | what the ledger adds up to; `LeaveApproval` implements it when requests do not overlap | proofs |
| `SettlementLedger` | loans, arrears and their ledger rows: the handlers of `SettlementService` | component |
| `PayrollRun` | drafts, runs and the full-and-final settlement over `SettlementLedger` | composition, abstract |
| `PayrollSessions` | the handlers of `PayrollRun` as concurrent sessions | detailed specification |
| `Payroll_proofs` | all safety properties of `PayrollRun` and `PayrollSessions`, and that the second implements the first when requests do not overlap | proofs |
| `SumTheorems` | lemmas on sums over finite sets, for the two modules of proofs about amounts | proofs |
| `JobQueue` | the arq queue, its tries, the status record | component |
| `NotificationDelivery` | notifications, recipients and their delivery job | component over `JobQueue` |
| `LeaveAccrual` | the nightly accrual and the assignment by hand | component over `JobQueue`, `LeaveBalance` |
| `BackgroundJobs` | the worker that runs both kinds of jobs and dies | composition |
| `BackgroundJobs_proofs` | three theorems on deliveries, one on the accrual | proofs |
| `AttendanceDay` | a day, its punches and `_recompute_day_metrics` | operators |
| `AttendanceSessions`, `AttendanceSessions_proofs` | the sessions that change a day, the finalizer, locks and corrections; three theorems | component, proofs |
| `ShiftPlan`, `ShiftPlan_proofs` | shifts, assignments, roster and weekly offs of an employee; six theorems | component, proofs |
| `EmployeeSessions`, `EmployeeSessions_proofs` | employees and units under concurrent sessions; five theorems | component, proofs |
| `MC...` | symmetry sets, parameter values, constraints | instances for TLC |

A definition no action uses (`ApproveUncharged`, `ShareUncapped`, ...) is a deliberate fault. The project
exchanges it for the definition after it and expects TLC to see the property fail (`PROJECT.json`, "mutants").

### LeaveLedger, LeaveApproval

| state | code |
|---|---|
| `leave[r]` | a row of `leave_requests`: status, dates (`slot`), `duration_days`, balance (`bal`) |
| `env[r]` | status of the envelope that refers to it |
| `bal[b]` | a row of `employee_leave_balances`, per leave type and cycle year |
| `history[b]` | sum of the deltas in `leave_balance_adjustments` |
| `ctx[w]` | the session of one API request: where it is, and what it has loaded |

| handler | steps in `LeaveApproval` | in `LeaveLedger` |
|---|---|---|
| `apply_leave` | `ApplyCheck`, `ApplyInsert` | `Apply` |
| `update_leave_request` | `UpdateCheck`, `UpdateWrite` | `Edit` |
| `approve_request` | `ApproveCheck`, `ApproveLoad`, `ApproveMark`, `ApproveCommit` | `Approve` |
| `reject_request` | `RejectCheck`, `RejectLoad`, `RejectCommit` | `Reject` |
| `cancel_approval_request` | `WithdrawCheck`, `WithdrawDelete` | `Withdraw` |
| `cancel_leave_request` | `CancelCheck`, `CancelRefund`, `CancelCommit` | `Cancel` |
| credit, debit, adjust, assign, unassign | `AdminRead`, `AdminWrite` | `Administer` |
| error responses, roll-back by the database | `Refuse` | stutter |
| disconnect, statement time-out, death of the process | `Abort` | stutter |

A session's writes are invisible before its commit, so the step that commits changes the tables, and every other
step changes `ctx` alone. The row lock an approval holds on the leave row between its UPDATE and its commit is
modelled (`Locked`); other locks are taken and released inside one step, so a waiting cycle of two sessions cannot
form in the model. Where the database would break one by aborting a session, `Abort` has the same outcome.

Two parameters describe the schema, because the migrated one refuses some of what the services write:

- `StatusCheck` is what `CHECK ck_leave_requests_status` admits. At head it lacks `cancelled`
  (`modules/leave/models/leave.py:327`), so `cancel_leave_request` is always rolled back.
- `BranchRequired`: migration 0023 (`src/backend/alembic/versions/0023_branch_specific_isolation.py`) made
  `branch_id` NOT NULL in `leave_requests`, `approval_requests`, `payroll_computed_rows`,
  `finalized_payroll_runs` and `notifications`, and no service fills it in, so at head inserts into these are
  refused. The same insert fails for the notification of a decision if the employee has a linked user.

The handlers are checked on the schema at head ("head") and on one that takes what they write
(`StatusCheck` with `cancelled`, `BranchRequired = FALSE`), which is what the services were written for.

### SettlementLedger, PayrollRun, PayrollSessions

| state | code |
|---|---|
| `loan[l]` | `employee_loans_advances`: status, principal, monthly instalment, outstanding amount |
| `entries[l]` | its manual `loan_advance_transactions`, summed up by direction |
| `booked[r][l]` | its transaction of payroll run `r` (`payroll_run_id`) |
| `arrears[e]` | `employee_arrears`: created, paid, outstanding |
| `row[e][c]` | `payroll_computed_rows`: the run that locks it, the loan deduction, the arrears |
| `run[r]` | `finalized_payroll_runs`: period, active or de-finalized |
| `paidOut[r][e]` | `arrears_transactions` of run `r` |
| `settled[e]` | `settlement_finalized_at` is set |
| `task[s]` | in `PayrollSessions`, what a session is about to do and what it has read |

`LoanOperation` and `ArrearsOperation` are the handlers of `SettlementService`, by their names; `Repay` and `Lend` are
the two directions of `add_loan_advance_transaction`, and `request_loan` stores the row `CreateLoanAdvance` stores (a
requested loan is `active` while its approval is pending, so payroll collects from it). `GeneratePayroll`,
`RecalculatePayroll`, `FinalizePayroll` and `DefinalizePayroll` are those of `PayrollService`; undoing a run deletes the
ledger rows the run wrote (`modules/payroll/service.py:1551`, `:1567`), as QA expects (TC-PAY-068, TC-PAY-069), although
`src/backend/docs/Settlement_Management_API_Contract.md:137` and `:217` call both ledgers append-only. `Left` and
`Share` are the loop that spreads a payslip's deduction over the employee's loans in order of id. `ArrearsSuffice` is
the CHECK that makes the database refuse a run whose drafts promise arrears that were paid meanwhile.

In `PayrollRun` each handler is one step: its runs ask whether *sequences* of legal calls add up. `PayrollSessions`
splits generate, recalculate, finalize, undo, repayment by hand and settlement at their reads. Run one after the
other, its sessions are steps of `PayrollRun`: `SerialSessionsAreHandlers` is the action property that every step of
a behaviour without overlap is a step of `PayrollRun` or a stutter, the step simulation of a refinement with the
identity as its mapping. Under overlap the sums of `PayrollRun` are lost, and what is left is what the other
properties of that run say.

`disburse_loan` and `early_closure` have no action: they call `get_by_id(org_id, loan_id)`, which
`BaseRepository.get_by_id(entity_id)` does not accept (`shared/base/repository.py:37`), so they end in a TypeError
before any write. The unit tests replace the repository by a mock and pass. `delete_arrears` has none either: a
header always has ledger rows, and their foreign key refuses its deletion.

### JobQueue, NotificationDelivery, LeaveAccrual, BackgroundJobs

| state | code |
|---|---|
| `job[j]` | a job in Redis: state, number of its try, whether it returned |
| `KeepsResult` | the jobs whose result arq stores: all but cron jobs |
| `tracked[j]` | the `job_status:*` record |
| `notif[n]`, `rcpt[n][u]` | `notifications`, `notification_recipients` with `delivered_at` and the recipient's marks |
| `api[s]`, `work[j]` | where an API session and a delivery are, and the rows they have loaded |
| `Org[n]`, `Employer[u]` | `org_id` of a notification and of a user |
| `mailed`, `promised` | mails handed to SMTP; the recipients a job was queued for, and whether before the commit (history) |
| `balance[e]`, `credits[e][p]` | `employee_leave_balances`, `employee_leave_allocations` |
| `extra[e]` | by how much an assignment by hand exceeded an accrual, at most (history) |
| `night[j]`, `clerk[c]` | an accrual job and a session in `assign_leave_types`, with what they have read |

`Accept` and `Track` are the two halves of `enqueue`: between them a worker may start, and even finish, the job, so the
record may say `pending` afterwards. `WorkerDies` puts a running job back, `GiveUp` closes one that was tried `MaxTries`
times without running a hook. `Report` writes the end of a job to the record if `result_info()` finds a stored result
(`jobs/worker.py:136`). The nights are cron jobs, built without `keep_result` (`jobs/scheduler.py:50`), and arq stores
no result of a cron job unless told to: a night is recorded as `running` and never as anything else, so that record says
nothing about it (external: arq's default is not in `src/`).

`deliver_notification` looks the notification up with its two ids exchanged (`jobs/tasks.py:410` passes the id of the
notification for that of the organization). Delivering notification `n` of organization `o`, the job finds notification
`o` if that is of organization `n` (`Found`): itself if the two ids are equal, otherwise another tenant's notification,
which may be there while the job's own is not yet committed, or none at all, and then the job raises. Recipients are
those of the job's own notification, the first page of 10000 (`jobs/tasks.py:416`): `Pages` loads all of them or
`PageSize` of them. `Staff` are the users a notification can be for.

`assign_leave_types` assigns `auto_allocation_count` or what its caller gives as `allocated_days`
(`modules/leave/service.py:760`, `:783`), here `Overrides`. `OrgFails` is the exception that leaves the loop over the
employees of an organization: for an employee without a balance row `allocate_leave` names an undefined variable
(`modules/leave/service.py:643`).

### AttendanceDay, AttendanceSessions

One day of one employee; the day is cut into slots and the clock `now` walks over them. `AttendanceDay` holds the row
and the computation all handlers end with; before `Dawn` the local date is not yet "today" in UTC, which the
computation distinguishes. In `AttendanceSessions` a handler reads the locks, the day and the punches ("checked"), and
commits what it computed ("write"); `Merged` is the ORM's column-wise UPDATE. `Upload` is `handle_cdata_post` of adms,
`Finalize`, `LoadDays` and `RecomputeDay` the nightly job, which asks for the company's lock only. `request` is the
correction with its row here and its envelope in approvals; `Decide` stands for `approve_request`, `reject_request`,
`approve_correction` and `cancel_correction`. `early` remembers the sessions that had passed their check when the lock
was set.

### ShiftPlan

The tables of one employee, each handler one step. `assign_shift` and `assign_one` (a turn of the bulk assignment) are
`Assign` with the tests of their handler: it supersedes the open assignment (`Superseded`), and the database refuses two
that start on one day. An inverted range (`Forward`) is refused by the schemas of both and by an edit. `Effective` is
`resolve_for_date`, the latest start among the rows that cover a date. Checks for locked months look at the dates the
code looks at, which are the end points of a range (and none in the bulk assignment). That a weekday has one open weekly
off is the work of the handler and of a partial unique index (`modules/shift/models/assignment.py:125`); the model has
the handler's part.

### EmployeeSessions

| state | code |
|---|---|
| `employee[e]` | `employees`: branch, department, designation, code, status, date of leaving |
| `recorded[e]` | `new_status` of the row of `employee_status_history` with the highest id |
| `inactive`, `removed` | `is_active`, `is_deleted` of branches, departments and designations |
| `session[s]` | the columns, the row or the flag a session is about to commit |
| `late` | sessions open since before another session's commit (history) |
| `byHand`, `raced` | employees whose code was typed in; whether a late session committed (history) |

`Changed` are the columns an UPDATE names, `Updated` the row it leaves: both read the row, one when the request is
checked, the other when it commits. An allocated code is read under the advisory lock, held to the end of the session
(`HoldsLock`).

## 4. Runs

Passing runs, each complete (the state queue is empty at the end):

| run | instance | what it shows |
|---|---|---|
| `LeaveApproval_serial` | 2 requests, 1 balance, 1 session, days and amounts to 2, a schema that takes what is written | the detailed handlers implement `LeaveLedger` (`LedgerSpec` as a property); `BalancesAddUp`, `AdjustedMatchesHistory`, `UsedMatchesRequests` |
| `LeaveApproval_head` | head schema, 2 sessions, 2 requests, 1 balance with debits | request and envelope agree on what is open (`PendingIsReviewable`, `EnvelopeIsCurrent`), nothing decided reopens, `NoOverdraft`, every session ends |
| `PayrollRun` | 2 employees, 2 periods, 2 runs; 2 loans of one of them of up to 2, with up to 1 lent on top, or arrears of up to 2 and 1 | `TypeOK` (no amount goes negative), `NeverOverCollected`, `LoanMatchesLedger`, `ArrearsMoveTogether`, `RunsLockTheirRows`, `ArrearsPaidAsOnPayslip`, `LockedRowsAreKept` |
| `PayrollSessions` | 2 sessions, 1 employee, 1 loan or arrears, 1 period, 2 runs | `LockedRunIsActive`, `UndoneRunBooksNothing`, `RepaidIsClosed` under every overlap; `SerialSessionsAreHandlers` |
| `BackgroundJobs_delivery` | 3 notifications of 3 organizations, two of which find each other by the exchanged ids; 2 users of the first organization, who mark what they get, and 3 of the third; pages of 2; 2 deliveries of one notification and 1 of another, 1 API session, the worker dies once | `NoMailBeforeCommit`, `CompletedMeansDelivered`, `DeliveryKeepsMarks` |
| `BackgroundJobs_night` | 2 nights in a cycle of 2 months, 1 employee, 1 clerk who assigns one accrual or two, 2 deaths | `NeverOverCredited`; `JobsEnd` under fairness |
| `AttendanceSessions` | 2 sessions and the finalizer, 3 slots, 2 requests, a company lock, one correction | `EnvelopeMatchesRequest`, `ApprovedIsApplied`, `CompanyLockFreezes`; `NightsHeal` under fairness |
| `ShiftPlan` | 3 dates, 2 shifts, 3 assignment rows, 2 weekdays, at most 3 rows in all | `PlanTypeOK`, `OneOpenAssignment`, `ResolutionIsUnique`, `UpcomingRosterShiftsExist`, `OneCurrentWeekoff`, `AssignTakesEffect` |
| `EmployeeSessions` | 2 sessions, 2 employees, 2 branches with a department each, 2 designations, 2 codes | `StatusIsLastWritten`, `AllocatedCodesAreFree`, `DatesFollowStatus`, `OnlyReturnsToClosedUnits` |

Runs that end in a violation, each of something the repository says (quoted in `PROJECT.json`, "findings"):

| run | the code does |
|---|---|
| `LeaveApproval_decided_once` | two reviewers who both read `pending` both decide, and the second decision overwrites the first |
| `PayrollRun_arrears` | lowering the total of the arrears below what was paid stops the outstanding amount at zero, so that it is no longer what was created less what was paid |
| `BackgroundJobs_credits_all` | a night that meets an employee without a balance row leaves the loop, the error is swallowed, and the job returns with somebody uncredited; the same happens every night |

### Bounds and why they are enough

Two sessions suffice for every race modelled: each property relates one stale reader to one writer, and the theorems of
section 6 remove the bound for all but liveness. Two requests with two date ranges make overlaps possible and avoidable.
Days and amounts of up to 2 distinguish "some" from "all", so a partial charge, instalment or payment occurs. Two loans
make the loop over loans stop early or in the middle of a loan; two runs let a period be finalized, undone and finalized
again, or twice at once; two periods let a stale draft meet a finalized neighbour; a second employee lets a run lock
some rows and find others generated later. Two deliveries of one notification overlap, repeat each other after a death
and end on either side of a mark; a delivery of another organization finds a third one's notification, before or after
its own is committed, and its three recipients are more than a page. Two nights and two months let a night left behind
credit beside the next. Three slots hold an in, an out and a later out on both sides of `Dawn`. Three dates and three
assignment rows have a closed range, an open one and one that supersedes it.

Bounds in guards: `MaxDays`, `MaxBalance` (`WithinBounds`), `MaxAmount`, `MaxLent`, `MaxArrears` (`Amounts`, `Lend`,
`CreditArrears`, `UpdateArrears`), `MaxDeaths` (`Dies`), `MaxRequests` (`Begin` of attendance: a decision is a second
request, so a correction asked for, decided twice or raced by an upload needs no third at once), `LastDate`, `Slots`,
`OffSlots` and `MaxCode`. Constraints of instances: `OneKindOfAccount` (both instances of payroll follow histories with
loans and histories with arrears, which meet in no handler but those that write both, and there in no condition);
`RaisedOneAtATime` (lending on top of a loan and the empty rows of an edited instalment are told by histories of that
loan and of one period); `OneIsOwedLess` (the second employee is granted arrears of 1); `Bounded` of the deliveries
(histories of the first organization, or of the other two; marks in the former, beside one delivery, while the worker
has not died; the theorem has no such bound); `UsualAmounts` of the nights (the worker dies only where HR assigns what
an accrual would credit); `FewRows` of the shift plan (at most three rows over its three tables, which meet only in the
shifts they name); `FewRows` of employees (the life of one employee, who is away from one leg of the first place at a
time (`OneLeg`), with one closed unit and an allocated code, or the codes of two). Where nothing may be left to do -
amounts at their bounds, jobs that are over, everything closed - a run switches deadlock checking off; the others keep
it on. Symmetry is used in runs without liveness, over values the model never orders (loans are numbers because their
order decides who is collected first).

### Fairness

- `LeaveApproval_head` runs under `FairSpec`: strong fairness of `Continue(w)`, the next step of a session that has
  begun. The event loop resumes a coroutine whose query has returned, and PostgreSQL queues those that wait for a row
  lock and serves each in turn. Nothing is assumed of `Begin` (clients may stop) or of `Abort`. Weak fairness would
  not do: a waiter is disabled whenever another session holds the lock.
- `BackgroundJobs_night` runs under `JobsFairSpec`: strong fairness of what the worker does for each job. arq polls
  the queue in the order of its scores, so a job that finds a free slot again and again is taken; deaths are not fair
  and end with `MaxDeaths`.
- `AttendanceSessions` runs under `AttendanceSpec`: the clock goes on and a begun request ends (weak), and of the
  nights not all fail from some night on (strong, for the steps of the finalizer, which cron starts every night).

## 5. Properties

Those a reader may want to argue about, beyond the tables above:

- `EnvelopeIsCurrent` holds *because* the CHECK refuses `cancelled`: `cancel_leave_request` leaves the envelope
  pending. A migration that admits the status without touching the service would break it.
- `NoOverdraft` survives stale reads because approval and debit write `closing - days` computed from the very value
  they checked. Days can be lost that way (two decisions, one charge), never overdrawn. Assigning a leave type
  recomputes the balance from its parts and may leave it negative; the run and the theorem exclude it.
- `NeverOverCollected` has no converse: a loan repaid by hand between generate and finalize takes no instalment, and
  the payslip deducts it all the same. The documents promise nothing here.
- `ArrearsMoveTogether` is what is true of the equation of the settlements contract, `outstanding = created - paid`
  (`src/backend/docs/Settlement_Management_API_Contract.md:215`). `update_arrears` stops at zero
  (`modules/settlements/service.py:835`), so lowering the total below what was paid breaks it: the run
  `PayrollRun_arrears` refutes the equation as written (`ArrearsAddUp`). Nothing else does: no credit, payment, run,
  undoing or settlement changes the `Excess` of the outstanding amount over the difference, and it is never negative.
- `CompletedMeansDelivered` has two provisos, which are what the code needs for it. The job asks for one page of
  recipients, so those beyond it are left undelivered by a job that completes. And a job queued before the commit of its
  notification relies on not finding it: if the exchanged ids find another tenant's instead, it sees no recipients yet,
  returns `already_processed` and nobody is reached when the commit follows. `NoMailBeforeCommit` needs neither, since
  only committed recipients are mailed.
- `NeverOverCredited` bounds what accruals grant. HR may assign more than one accrual (`allocated_days`), and what is
  beyond it is taken out of the sum (`extra`).
- `StatusIsLastWritten` is about the history row with the highest id. The page of the history is sorted by `created_at`
  first (`modules/employee/repository.py:558`), which is when the transaction *began*: of two overlapping transitions
  the one that began first may commit last, and then the last row listed is not the status. That order is not modelled.
- `CompanyLockFreezes` says what is left of "freeze mutations": not for a branch lock (the finalizer asks for the
  company's only), not for sessions past their check, and not for a cancelled leave, which asks for no lock.
- `ResolutionIsUnique` does not say that assignments are disjoint: assigning looks at the open assignment only, so
  ranges may overlap (against `src/backend/docs/Shift_Management_API_Contract.md:205`), but no two that cover a date
  start on the same day, so the latest start decides. The daily list of attendance does not ask for the latest start but
  for the highest id (`modules/attendance/repository.py:139`), so after assignments entered out of order it may show
  another shift than the one resolved.
- `DatesFollowStatus` and `OnlyReturnsToClosedUnits` hold as long as no session commits what another one's commit made
  stale (`raced`). Without the proviso both are refuted by two sessions: a rehire that read before a termination leaves
  an active employee with a date of leaving, and a unit is closed while somebody is being moved into it. Even then a
  return to a closed unit remains: reactivation does not look at the units. The two properties therefore say nothing
  about those interleavings; the hazards of `PROJECT.json` name them.

### Stated, and not true of this code

Refuted by the three runs above: an envelope is decided once; a night credits each active employee; the equation of the
arrears. Refuted while modelling and kept as hazards or as remarks, not as runs: no two live leave requests overlap (two
concurrent edits); a committed notification is found by its delivery, and one found is the job's own (exchanged ids);
raising for a notification that is not there yet "triggers arq retry" (`jobs/tasks.py:412`; a job that raises has
failed, arq runs again what a dead worker left); a tracked job is seen to end (`pending` written last, or a night whose
result is not stored); the status history is chronological with the status as its last row
(`src/backend/docs/Employee_Management_API_Contract.md:342`, under overlap); the ledgers of loans and arrears are
append-only (`src/backend/docs/Settlement_Management_API_Contract.md:137`, `:217`; undoing a run deletes its rows); a
lock of any scope freezes the days; a punch is never stored twice (two concurrent uploads of one record); an employee
has one assignment per date; manual overrides of minutes stay (the nights recompute them); a settled employee can be
settled again after a rehire (`settlement_finalized_at` stays); assigning, closing and reopening shifts and units while
a shift or unit is deleted.

## 6. Proofs

The theorems hold for every number of requests, balances, sessions, dates, shifts, employees, units, runs, jobs and
deaths of the worker, and for every value of the bounds, from the assumptions on the constants in the modules alone
unless a line says otherwise.

### LeaveApproval_proofs

| theorem | states | assumes beyond `LedgerAssumption`, `SessionAssumption` |
|---|---|---|
| `Typed` | `Spec => []TypeOK` | |
| `Reviewable` | `Spec => []PendingIsReviewable` | |
| `NeverReopens` | `Spec => DecidedNeverReopens` | |
| `Current` | `Spec => []EnvelopeIsCurrent` | `"cancelled" \notin StatusCheck` (head) |
| `NeverOverdrawn` | `Spec => []NoOverdraft` | `AdminOps \subseteq ByHand` |

*Typing.* `TypeInv` is `TypeOK` with a stronger type of sessions: one that has reached a step about a request has a
request, and one about to write a balance has read or created it.

*Decisions.* `PendingIsReviewable` is not inductive: a step that writes a leave row must not bring `pending` back to
a request whose envelope was decided after the session loaded it. `DecisionInv` adds what excludes this.
`LoadedStatus`: an edit loaded a pending row and so writes no status at all, an approval's row is approved,
and so on. `AbsentTogether`: a row and its envelope come into being together. Lemma `StatusChange` then says once,
for all actions, how the status of a request and of its envelope may change in a step; the three theorems on
decisions follow from it, `NeverReopens` as an action property from the same invariant.

*Balances.* `BalanceInv` adds `SeenCovers`: what a session has read of a balance it is about to charge is not
negative and covers the charge. `FlushClosing` says that the column-wise UPDATE leaves either the stored closing
balance or the computed one; both are non-negative.

### LeaveLedger_proofs

`SerialImplementsLedger` is `OneSession => (Spec => LedgerSpec)`: with one session at a time (`\A v, w \in Workers :
v = w`) every behaviour of `LeaveApproval` is one of `LeaveLedger`, the commit of a handler being the step of the
ledger and every other step a stutter. Its invariant `SerialInv` says that what a session has loaded is still what is
stored (`UpToDate`); then the column-wise UPDATE writes exactly the row that was computed (`FlushOwnRow`). With more
sessions the refinement is false, as `LeaveApproval_decided_once` shows.

Three theorems say what the ledger adds up to, and three more carry them over through the refinement:

| of the ledger | of sessions that follow one another | states |
|---|---|---|
| `LedgerKeepsHistory` | `SerialKeepsHistory` | `AdjustedMatchesHistory` |
| `LedgerAddsUp` | `SerialAddsUp` | `BalancesAddUp` |
| `LedgerChargesOnce` | `SerialChargesOnce` | `UsedMatchesRequests` |

Neither of the last two is inductive. A cancellation floors `used` at 0 and refunds nothing where the balance row is
missing, so the sum of the parts depends on what is used being the days of the approved requests, and that depends on
an approved request having a balance and no second decision coming. `ChargeInv` joins the two with
`ApprovedIsBacked`: an approved request has an approved envelope and a balance that exists. `OneMore` and `OneLess`
say what one request does to the sum, `UnapprovedStep` that a step on a request which is approved neither before nor
after does nothing to it. `IsFiniteSet(Requests)` (a table has finitely many rows) is the assumption the sums need.

### SumTheorems

`SumFunctionOnSet` of the community modules is a recursive function on subsets picked by CHOOSE, and the induction
theorems of the library take a predicate, which no prover here can instantiate. `SubsetInduct` states induction over
finite sets with a *set* of sets in the place of the predicate; from it follow that the recursion has a solution
(`SumsExist`), that it is unique (`SumsAgree`), and what the other proofs cite: `SumTake` (any element can be taken
first), `SumAdd`, `SumSame`, `SumChange`, `SumZero`, `SumBounds`, `SumNat`.

### Payroll_proofs

*One handler at a time* (`Spec` of `PayrollRun`):

| theorem | states | invariant |
|---|---|---|
| `RowsHaveTheirRun` | `RunsLockTheirRows` | `LockInv` |
| `PaidAsOnPayslip` | `ArrearsPaidAsOnPayslip` | `LockInv` |
| `PayslipsStay` | `LockedRowsAreKept` | `LockInv` |
| `AmountsAreTyped` | `TypeOK`: no amount is negative | `AmountInv` |
| `OutstandingIsLedger` | `LoanMatchesLedger` | `AmountInv` |
| `ArrearsKeepEquation` | `ArrearsMoveTogether`, and `Excess(e) >= 0` always | `AmountInv` |
| `CollectsWithinPayslip` | `NeverOverCollected` | `LockInv`, `AmountInv` and itself |

`LockInv`: a row is locked by an active run of its own period, a period has one active run, a run that was undone has
paid nothing. No amount is looked into there (`Shape` leaves them open).

`AmountInv` is typing and the ledger together, because neither is inductive alone: that undoing a run leaves no amount
negative needs what the run booked to be part of the sums. `LoanFits` says that the outstanding amount follows from
the ledger, that an active loan is not empty, and that a deleted loan has left no ledger rows; `ArrearsFit` that the
runs have paid a part of what was paid. `CollectedMoves` and `PaidByRunsMoves` say how a run moves the sum over runs;
`LoanType` and `OneLoan` what a handler writes. What a run collects is the loop of `Share` over the loans in order of
id: `SharesBefore` shows, by induction on the id, that the loans before the n-th take together the lesser of the
deduction and what is due on them, and `SharesWithin` that all of them take no more than the deduction.

*Sessions* (`SessionsSpec`, whatever overlaps):

| theorem | states | invariant |
|---|---|---|
| `NoOrphanedLock` | `LockedRunIsActive` | `SessionLockInv` |
| `UndoneIsUnbooked` | `UndoneRunBooksNothing` | `SessionBookInv` |
| `EmptyLoansAreClosed` | `RepaidIsClosed` | `SessionAmountInv` |

`SessionLocks` is what a session may carry: drafts lock nothing, only a run that was once committed is undone, and a
session that is about to undo a run has seen every row the run locks. The last is the point: a row is only ever locked
by a run that is new (`OtherLocks`), so none is added between the read and the commit. `SessionAmounts` says that what
a session collected, computed from the loans it has seen, is no more than what is outstanding on *those*.

*Sessions one after the other*: `SerialSessionsRunHandlers` (`SerialSessionsAreHandlers`) and `SerialImplementsPayroll`,
`SessionsSpec /\ []~overlap => Spec`. `SerialInv` says that without overlap one session at most is open and that
`Current` holds of it: what it has read is how the tables are, and what it has checked is still so. Each commit then is
a handler (`DraftsSerial`, `RunSerial`, `UndoSerial`, `RepaymentSerial`, `SettlementSerial`); they need `AmountInv`,
for instance to see that writing the total a session has computed and taking an amount off the total are the same.
`SerialSessionsAddUp` reads the sums of `PayrollRun` through the refinement. Under overlap they are false.

### BackgroundJobs_proofs

`MarksAreKept` (`DeliveryKeepsMarks`), `MailWaitsForCommit` (`NoMailBeforeCommit`) and `CompletedDelivers`
(`CompletedMeansDelivered`). `DeliveryInv` ties the session that enqueues, the queue and the job together: a session
emits a notification that is open and its own, and a job is promised to recipients that are there once the notification
is committed. A job `Reaches` its recipients if the provisos of `CompletedMeansDelivered` hold of it, and they held
earlier if they hold now, because recipients are only ever added (`ReachedBefore`). For such a job each promised
recipient is delivered already or among the rows it has loaded, which are all that were undelivered (`DeliversRight`).
A death sends the job back to its start and a closed job never runs again, so a record `completed` is written only after
the stamps. `FunctionAssumption` (a job is a delivery or a night, and of a night no result is kept) is all they need.

`CreditedOnce` is `Monthly => (JobsSpec => []NeverOverCredited)`: `allocated` may not exceed the periods credited times
the days per period (`Accrued`), plus what an assignment by hand had beyond one accrual (`Granted`). `CreditInv` adds
that what a night has read, and is about to write back plus one allocation, was read while the period it credits was not
yet credited; the unique key refuses the second of two that both read before. The key of a type that does not accrue
monthly holds a NULL and refuses nothing: the theorem does not speak of those.

### AttendanceSessions_proofs

`OneDecision` (`EnvelopeMatchesRequest`), `ApprovedStays` (`ApprovedIsApplied`) and `LockFreezes`
(`CompanyLockFreezes`), whatever is computed from the punches. `TaskRight` says what a session may carry to its commit:
the day it has seen is still there, and regularized if it was; what it writes takes back neither; an approval brings the
times of the request. `MergedDay` is the column-wise UPDATE, which leaves `is_regularized` alone unless the writer
changes it, and `PunchesGrow` says that no handler removes a stored punch. `FreezeInv` says that under the lock every
session that is not `early` carries a cancellation, a deletion or nothing, by the test each handler makes.

### ShiftPlan_proofs

`Typed`, `OneOpen`, `Unique`, `RosterShiftsExist`, `OneRuleADay` and `AssignmentTakesEffect` prove all properties of
the run. `PlanInv` joins the four invariants and adds `StartsApart`: no two rows start on one date. That makes
`ResolutionIsUnique` a consequence (`Unambiguous`): of the rows that cover a date only one can start last.
`AssignmentTakesEffect` is an action property: the new row starts last among those that cover its first day, and
superseding shortens an open row only from that day on.

### EmployeeSessions_proofs

`Typed`, `LastWrittenTellsStatus`, `CodesAreFree`, `DatesAreRight` and `ClosedUnitsStayShut`. `WorkInv` says what a
session may carry to its commit (`MayCarry`): an edit never names status or date, and a transition always names the
status it will record, because it is refused when the status it read is the one it would write; so whatever others
committed meanwhile, the row and the history row with the next id get the same status. `CodesInv` adds that one session
at most holds the lock. `FreshInv` is the rely of the other two: what a session that is not late checked is still true
(`StillTrue`), and a commit makes all others late; so a history that never raced is one in which every commit was as
good as atomic.

### Only model-checked

`SessionsEnd`, `JobsEnd` and `NightsHeal`: liveness under fairness is beyond this prover. Every invariant and action
property of the passing runs is proved; `NeverOverCredited` for types that accrue monthly only, and the three sums of
leave for sessions that follow one another. What the computation of a day returns is not proved, since its minutes are
cardinalities of sets of slots, and `AttendanceSessions_proofs` holds whatever it returns.

## 7. Not modelled

*Leave*: leave types, settings and the encashment column (plain rows; nothing writes encashment); comp-off; the
attendance days an approval marks are a step of `AttendanceSessions`; the bulk approvals, which are sequences of single
ones; login reset envelopes; `approve_correction` of attendance on an envelope of a leave request, whose `request_type`
it does not test (`modules/attendance/service.py:1316`). *Payroll*: the pay computation apart from loans and arrears, so
also the negative net pay cut to zero; payments, cancellation and the history pages; cycle flags, which no modelled
handler reads; interest, `total_debit` and the instalment schedule; groups, columns, adjustments. *Jobs*: mails, device
synchronisation and report exports. *Attendance*: penalties, breaks, the minutes that depend on the times of a shift.
*Shift*: rotations (their roster rows lack the branch and are refused), week-off dates, shift timings; concurrent
sessions, where two assignments can both find no open one. *Employee*: bank details (two concurrent primaries stay),
documents, contacts and other satellites; reporting managers; leave types assigned on hiring, whose inner transaction
commits or rolls back the creation (`modules/employee/service.py:263`); the order in which the status history is listed;
the creation and renaming of units. *auth*, and the components of the last paragraph of section 2. Audit rows
everywhere.

Type invariants that no run lists (`LedgerTypeOK`, `NotificationTypeOK`, `AccrualTypeOK`, `AttendanceTypeOK`,
`EmployeesTypeOK`) state the domains of the variables; `LedgerTypeOK` is part of `TypeOK`, and the last is proved.

## 8. Plan

What would come next, in this order: the two keys of the login lock-out and the login reset envelopes; `ShiftPlan` as
sessions; payments and the history pages of payroll; the penalties of attendance. Proofs beside them: what of the sums
of payroll is left when requests overlap, if the database locked the rows it reads (`SELECT ... FOR UPDATE`); the
minutes `AttendanceDay` computes; `EmployeeSessions` without races as an implementation of atomic handlers. No module
declares a RECURSIVE operator, so all of them can be proved about.
