---------------------------- MODULE PayrollSessions ----------------------------
(***************************************************************************)
(* The handlers of PayrollRun as concurrent database sessions.             *)
(*                                                                         *)
(* generate, finalize, undo, a repayment by hand and the full-and-final    *)
(* settlement check and read before their transaction, or at its start,    *)
(* and write totals computed from what they read.  Under READ COMMITTED    *)
(* nothing holds the rows they read: UPDATE locks a row when it is flushed *)
(* and overwrites whatever another session has committed since.  A session *)
(* is a few steps, each a query or the commit.  The other operations on    *)
(* accounts stay single steps.                                             *)
(***************************************************************************)
EXTENDS PayrollRun

CONSTANT Sessions

VARIABLES
  task,      \* what each session is about to do, and what it has read
  overlap    \* history: two sessions were once open together

sessionVars == <<task, overlap>>

Idle == [at |-> "idle"]
Open(s) == task[s] # Idle

Goes(s, next) == task' = [task EXCEPT ![s] = next]

Begin(s, next) ==
  /\ ~Open(s)
  /\ Goes(s, next)
  /\ overlap' = (overlap \/ \E t \in Sessions : Open(t))
  /\ UNCHANGED vars

Reads(s, next) == Goes(s, next) /\ UNCHANGED <<overlap, vars>>
Commits(s) == Goes(s, Idle) /\ UNCHANGED overlap

-------------------------------------------------------------------------------
(* generate_payroll and recalculate_payroll *)

ReadDrafts(s, c, S) ==
  /\ ~BranchRequired
  /\ LET T == {e \in S : ~Finalized(e, c)} IN
       Begin(s, [at |-> "drafts", cycle |-> c,
                 rows |-> [e \in T |-> Computed(e)],
                 inserts |-> {e \in T : ~row[e][c].exists}])

\* recalculate_payroll: a finalized row refuses the whole request.
ReadDraftsAgain(s, c, S) ==
  /\ \A e \in S : ~Finalized(e, c)
  /\ ReadDrafts(s, c, S)

\* Both bulk statements: inserts that meet a row are refused by the unique key
\* (then the session gives up), updates overwrite whatever the row holds now.
WriteDrafts(s) ==
  /\ task[s].at = "drafts"
  /\ LET c == task[s].cycle  new == task[s].rows IN
       /\ \A e \in task[s].inserts : ~row[e][c].exists
       /\ row' = [e \in Employees |->
                    IF e \in DOMAIN new THEN [row[e] EXCEPT ![c] = new[e]] ELSE row[e]]
  /\ Commits(s)
  /\ UNCHANGED <<accounts, run, paidOut, settled>>

-------------------------------------------------------------------------------
(* finalize_payroll *)

CheckRun(s, c) ==
  /\ ~BranchRequired
  /\ ActiveRuns(c) = {}
  /\ \E e \in Employees : InRun(e, c)
  /\ \A e \in Employees : ~Finalized(e, c)
  /\ Begin(s, [at |-> "finalize", cycle |-> c, rows |-> [e \in Employees |-> row[e][c]]])

\* In the transaction: the accounts as they are, for the payslips seen before.
LoadAccounts(s) ==
  /\ task[s].at = "finalize"
  /\ LET slip == task[s].rows IN
       Reads(s, [at |-> "collect", cycle |-> task[s].cycle, rows |-> slip, loan |-> loan,
                 share |-> [l \in Loans |-> Share(l, slip[Owner[l]].deduction)],
                 arrears |-> [e \in Employees |-> PayOut(arrears[e], slip[e].arrears)]])

\* A loan deleted since refuses the commit, and so does the CHECK on arrears.
CommitRun(s, r) ==
  /\ task[s].at = "collect" /\ run[r].status = "absent"
  /\ LET c == task[s].cycle  slip == task[s].rows  share == task[s].share
         paid == {e \in Employees : slip[e].arrears > 0}
     IN
       /\ \A l \in Loans : share[l] > 0 => Stored(l)
       /\ \A e \in paid : task[s].arrears[e].outstanding >= 0
       /\ run' = [run EXCEPT ![r] = [status |-> "active", cycle |-> c]]
       /\ row' = [e \in Employees |->
                    IF slip[e].exists THEN [row[e] EXCEPT ![c].run = r] ELSE row[e]]
       /\ loan' = [l \in Loans |->
                     IF share[l] > 0
                     THEN Owe(loan[l], task[s].loan[l].outstanding - share[l])
                     ELSE loan[l]]
       /\ booked' = [booked EXCEPT ![r] = share]
       /\ arrears' = [e \in Employees |->
                        IF e \in paid
                        THEN [task[s].arrears[e] EXCEPT !.created = arrears[e].created]
                        ELSE arrears[e]]
       /\ paidOut' = [paidOut EXCEPT ![r] = [e \in Employees |-> slip[e].arrears]]
  /\ Commits(s)
  /\ UNCHANGED <<entries, settled>>

-------------------------------------------------------------------------------
(* definalize_payroll *)

CheckUndo(s, r) ==
  /\ run[r].status = "active"
  /\ Begin(s, [at |-> "undo", run |-> r])

\* In the transaction: the ledger rows of the run, then the accounts they are on,
\* then the rows it locks.
LoadBookings(s) ==
  /\ task[s].at = "undo"
  /\ LET r == task[s].run IN
       Reads(s, [at |-> "bookings", run |-> r, share |-> booked[r], paid |-> paidOut[r]])

LoadBookedAccounts(s) ==
  /\ task[s].at = "bookings"
  /\ Reads(s, [at |-> "restore", run |-> task[s].run, loan |-> loan,
               share |-> task[s].share, paid |-> task[s].paid,
               arrears |-> [e \in Employees |-> PayOut(arrears[e], -task[s].paid[e])],
               locked |-> {p \in Employees \X Cycles : row[p[1]][p[2]].run = task[s].run}])

LocksStay(s) == row

\* The rows are unlocked that the run was seen to lock, whoever locks them now.
UnlockSeen(s) ==
  [e \in Employees |-> [c \in Cycles |->
     IF <<e, c>> \in task[s].locked THEN [row[e][c] EXCEPT !.run = NoRun] ELSE row[e][c]]]

RestoreAmountOnly(l, seen, amount) == [loan[l] EXCEPT !.outstanding = seen.outstanding + amount]

\* Only changed columns are written: the status of a loan that was seen active
\* stays as it is now.
Restore(l, seen, amount) ==
  [loan[l] EXCEPT !.outstanding = seen.outstanding + amount,
                  !.status = IF seen.status # "active" THEN "active" ELSE @]

RowsOfClosedLoansLeft(s) ==
  [l \in Loans |-> IF task[s].loan[l].status = "active" THEN 0 ELSE task[s].share[l]]

\* Every ledger row that was seen is deleted; only the run's own commit adds any.
LedgerRowsLeft(s) == [l \in Loans |-> 0]

CommitUndo(s) ==
  /\ task[s].at = "restore"
  /\ LET r == task[s].run  share == task[s].share IN
       /\ \A l \in Loans : share[l] > 0 => Stored(l)
       /\ loan' = [l \in Loans |->
                     IF share[l] > 0 THEN Restore(l, task[s].loan[l], share[l]) ELSE loan[l]]
       /\ booked' = [booked EXCEPT ![r] = LedgerRowsLeft(s)]
       /\ arrears' = [e \in Employees |->
                        IF task[s].paid[e] > 0
                        THEN [task[s].arrears[e] EXCEPT !.created = arrears[e].created]
                        ELSE arrears[e]]
       /\ paidOut' = [paidOut EXCEPT ![r] = [e \in Employees |-> 0]]
       /\ run' = [run EXCEPT ![r].status = "definalized"]
       /\ row' = UnlockSeen(s)
  /\ Commits(s)
  /\ UNCHANGED <<entries, settled>>

-------------------------------------------------------------------------------
(* SettlementService: a repayment by hand and the full-and-final settlement *)

LoadLoan(s, l, amount) ==
  /\ Active(l) /\ amount <= loan[l].outstanding
  /\ Begin(s, [at |-> "repay", loan |-> l, owed |-> loan[l].outstanding - amount,
               amount |-> amount])

WriteTotalOnly(l, owed) == [loan[l] EXCEPT !.outstanding = owed]

\* The total and, when it is zero, the status go into one UPDATE.
WriteOwed(l, owed) == Owe(loan[l], owed)

CommitRepayment(s) ==
  /\ task[s].at = "repay"
  /\ LET l == task[s].loan IN
       /\ Stored(l)
       /\ loan' = [loan EXCEPT ![l] = WriteOwed(l, task[s].owed)]
       /\ entries' = [entries EXCEPT ![l].repaid = @ + task[s].amount]
  /\ Commits(s)
  /\ UNCHANGED <<booked, arrears, row, run, paidOut, settled>>

\* _validate_ff_preconditions
CheckSettlement(s, e) ==
  /\ e \in Leavers /\ ~settled[e] /\ ActiveRuns(LastCycle) # {}
  /\ Begin(s, [at |-> "settle", employee |-> e])

LoadOwed(s) ==
  /\ task[s].at = "settle"
  /\ LET e == task[s].employee IN
       Reads(s, [at |-> "clear", employee |-> e, arrears |-> arrears[e],
                 owed |-> [l \in OwnLoans(e) |-> loan[l].outstanding]])

CommitSettlement(s) ==
  /\ task[s].at = "clear"
  /\ LET e == task[s].employee  owed == task[s].owed  seen == task[s].arrears
         cleared == {l \in DOMAIN owed : owed[l] > 0}
     IN
       /\ \A l \in cleared : Stored(l)
       /\ loan' = [l \in Loans |-> IF l \in cleared THEN Owe(loan[l], 0) ELSE loan[l]]
       /\ entries' = [l \in Loans |->
                        IF l \in cleared THEN [entries[l] EXCEPT !.repaid = @ + owed[l]]
                        ELSE entries[l]]
       /\ arrears' = IF seen.outstanding > 0
                     THEN [arrears EXCEPT ![e].paid = seen.paid + seen.outstanding,
                                          ![e].outstanding = 0]
                     ELSE arrears
       /\ settled' = [settled EXCEPT ![e] = TRUE]
  /\ Commits(s)
  /\ UNCHANGED <<booked, row, run, paidOut>>

-------------------------------------------------------------------------------
\* The request is refused on the way, a deadlock is broken or the server dies:
\* nothing of the session is committed.
GiveUp(s) == Open(s) /\ Reads(s, Idle)

SessionStep(s) ==
  \/ \E c \in Cycles, S \in SUBSET Employees \ {{}} :
       ReadDrafts(s, c, S) \/ ReadDraftsAgain(s, c, S)
  \/ \E c \in Cycles : CheckRun(s, c)
  \/ \E r \in Runs : CheckUndo(s, r) \/ CommitRun(s, r)
  \/ \E l \in Loans, amount \in Amounts : LoadLoan(s, l, amount)
  \/ \E e \in Employees : CheckSettlement(s, e)
  \/ WriteDrafts(s) \/ LoadAccounts(s) \/ LoadBookings(s) \/ LoadBookedAccounts(s)
  \/ CommitUndo(s) \/ CommitRepayment(s) \/ LoadOwed(s) \/ CommitSettlement(s)
  \/ GiveUp(s)

\* A single-step operation counts as a session of its own.
SingleStep ==
  /\ Accounts
  /\ overlap' = (overlap \/ \E s \in Sessions : Open(s))
  /\ UNCHANGED task

SessionsNext == SingleStep \/ \E s \in Sessions : SessionStep(s)

SessionsInit ==
  /\ Init
  /\ task = [s \in Sessions |-> Idle]
  /\ overlap = FALSE

SessionsSpec == SessionsInit /\ [][SessionsNext]_<<vars, sessionVars>>

-------------------------------------------------------------------------------
(* Properties *)

\* Whatever overlaps, a locked payslip names a run that is active: no row is
\* left locked by a run that was undone, which nothing could ever unlock.
LockedRunIsActive ==
  \A e \in Employees, c \in Cycles :
    Finalized(e, c) =>
      /\ run[row[e][c].run].status = "active"
      /\ run[row[e][c].run].cycle = c

\* Whatever overlaps, a run that was undone has no ledger row left, though its
\* undoing may have started twice.
UndoneRunBooksNothing ==
  \A r \in Runs : run[r].status # "active" =>
    /\ \A l \in Loans : booked[r][l] = 0
    /\ \A e \in Employees : paidOut[r][e] = 0

Handlers == INSTANCE PayrollRun
  WITH loan <- loan, entries <- entries, booked <- booked, arrears <- arrears,
       row <- row, run <- run, paidOut <- paidOut, settled <- settled

\* As long as no two requests were open together, the steps of the sessions are
\* the handlers of PayrollRun: what is checked there is about this code.
SerialSessionsAreHandlers ==
  [][~overlap' => [Handlers!Next]_vars]_<<vars, sessionVars>>
===============================================================================
