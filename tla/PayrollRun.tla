------------------------------ MODULE PayrollRun ------------------------------
(***************************************************************************)
(* Payroll of one group on top of the accounts of SettlementLedger: draft  *)
(* rows are computed per employee and cycle, a run locks the rows of its   *)
(* cycle and books their instalments and arrears, and undoing the run      *)
(* takes the bookings back.  Each handler of PayrollService is one step,   *)
(* as it is when no other request interleaves.                             *)
(*                                                                         *)
(* Of a computed row only the two amounts taken from other accounts are    *)
(* kept; pay, payments and the history pages of a run are left out.        *)
(***************************************************************************)
EXTENDS SettlementLedger

CONSTANTS
  Cycles,         \* pay periods: (cycle_from, cycle_to)
  LastCycle,      \* the period that covers the leavers' date_of_leaving
  Leavers,        \* employees whose employment_status is "terminated"
  NoRun,          \* finalized_run_id of a row that is not finalized
  BranchRequired  \* branch_id of payroll rows and runs is NOT NULL

ASSUME PayrollAssumption ==
  /\ LastCycle \in Cycles /\ Leavers \subseteq Employees
  /\ NoRun \notin Runs /\ BranchRequired \in BOOLEAN

VARIABLES
  row,         \* payroll_computed_rows, per employee and cycle
  run,         \* finalized_payroll_runs
  paidOut,     \* arrears_transactions of a payroll run, per run and employee
  settled      \* settlement_finalized_at is set

vars == <<accounts, row, run, paidOut, settled>>

ComputedRow == [exists : BOOLEAN, run : Runs \cup {NoRun}, deduction : Nat, arrears : Nat]
NoRow == [exists |-> FALSE, run |-> NoRun, deduction |-> 0, arrears |-> 0]

RunRow == [status : {"absent", "active", "definalized"}, cycle : Cycles]

Finalized(e, c) == row[e][c].run # NoRun
ActiveRuns(c) == {r \in Runs : run[r].status = "active" /\ run[r].cycle = c}

OwnLoans(e) == {l \in Loans : Owner[l] = e /\ Active(l)}
Instalment(l) == Min({loan[l].installment, loan[l].outstanding})
Due(S) == SumFunction([l \in S |-> Instalment(l)])

\* _calculate_employee_payroll, as far as loans and arrears go
Computed(e) ==
  [exists |-> TRUE, run |-> NoRun,
   deduction |-> Due(OwnLoans(e)), arrears |-> arrears[e].outstanding]

-------------------------------------------------------------------------------
(* PayrollService: drafts *)

\* generate_payroll that recomputes whatever it finds.
GenerateEveryRow(c, S) ==
  /\ ~BranchRequired
  /\ row' = [e \in Employees |->
               IF e \in S THEN [row[e] EXCEPT ![c] = Computed(e)] ELSE row[e]]
  /\ UNCHANGED <<accounts, run, paidOut, settled>>

\* generate_payroll for the employees S: a finalized row is skipped.
GeneratePayroll(c, S) ==
  /\ ~BranchRequired
  /\ row' = [e \in Employees |->
               IF e \in S /\ ~Finalized(e, c)
               THEN [row[e] EXCEPT ![c] = Computed(e)] ELSE row[e]]
  /\ UNCHANGED <<accounts, run, paidOut, settled>>

\* recalculate_payroll: a finalized row refuses the whole request.
RecalculatePayroll(c, S) ==
  /\ \A e \in S : ~Finalized(e, c)
  /\ GeneratePayroll(c, S)

-------------------------------------------------------------------------------
(* PayrollService: runs *)

InRun(e, c) == row[e][c].exists

\* What is left of a payslip's deduction when the loop over the employee's
\* active loans, in order of id, comes to loan l.
Left(l, deduction) == deduction - Due({k \in OwnLoans(Owner[l]) : k < l})

Collects(l, deduction) == Active(l) /\ Left(l, deduction) > 0

ShareUncapped(l, deduction) == IF Collects(l, deduction) THEN Instalment(l) ELSE 0

\* What a run collects from loan l for a payslip with that deduction.
Share(l, deduction) ==
  IF Collects(l, deduction) THEN Min({Instalment(l), Left(l, deduction)}) ELSE 0

\* The deduction on the payslip of the loan's owner, 0 without one.
Deduction(l, c) == row[Owner[l]][c].deduction

ArrearsAsOfNow(e, c) == IF InRun(e, c) THEN arrears[e].outstanding ELSE 0

\* What a run pays out of the arrears of e: the amount on the payslip.
ArrearsDue(e, c) == row[e][c].arrears

ArrearsUnchecked(c) == TRUE

\* CHECK outstanding_arrears >= 0: a draft whose arrears have been paid since
\* makes the database refuse the whole run.
ArrearsSuffice(c) == \A e \in Employees : ArrearsDue(e, c) <= arrears[e].outstanding

\* finalize_payroll
FinalizePayroll(c, r) ==
  /\ ~BranchRequired
  /\ ActiveRuns(c) = {} /\ run[r].status = "absent"
  /\ \E e \in Employees : InRun(e, c)
  /\ \A e \in Employees : ~Finalized(e, c)
  /\ ArrearsSuffice(c)
  /\ run' = [run EXCEPT ![r] = [status |-> "active", cycle |-> c]]
  /\ row' = [e \in Employees |->
               IF InRun(e, c) THEN [row[e] EXCEPT ![c].run = r] ELSE row[e]]
  /\ loan' = [l \in Loans |->
                IF Share(l, Deduction(l, c)) > 0
                THEN Owe(loan[l], loan[l].outstanding - Share(l, Deduction(l, c)))
                ELSE loan[l]]
  /\ booked' = [booked EXCEPT ![r] = [l \in Loans |-> Share(l, Deduction(l, c))]]
  /\ arrears' = [e \in Employees |-> PayOut(arrears[e], ArrearsDue(e, c))]
  /\ paidOut' = [paidOut EXCEPT ![r] = [e \in Employees |-> ArrearsDue(e, c)]]
  /\ UNCHANGED <<entries, settled>>

ReopenWithoutAmount(loanRow, amount) ==
  [loanRow EXCEPT !.status = IF loanRow.outstanding + amount > 0 THEN "active" ELSE @,
                  !.outstanding = IF loanRow.status = "active" THEN @ + amount ELSE @]

\* A collected instalment is owed again; the loan is active again even if it was
\* closed by hand or in a settlement meanwhile.
Reopen(loanRow, amount) ==
  [loanRow EXCEPT !.status = IF loanRow.outstanding + amount > 0 THEN "active" ELSE @,
                  !.outstanding = @ + amount]

RowsStayLocked(r) == row

Unlocked(r) ==
  [e \in Employees |->
    [c \in Cycles |->
      IF row[e][c].run = r THEN [row[e][c] EXCEPT !.run = NoRun] ELSE row[e][c]]]

\* definalize_payroll: the run's ledger rows are deleted.
DefinalizePayroll(r) ==
  /\ run[r].status = "active"
  /\ run' = [run EXCEPT ![r].status = "definalized"]
  /\ row' = Unlocked(r)
  /\ loan' = [l \in Loans |->
                IF booked[r][l] > 0 THEN Reopen(loan[l], booked[r][l]) ELSE loan[l]]
  /\ booked' = [booked EXCEPT ![r] = [l \in Loans |-> 0]]
  /\ arrears' = [e \in Employees |-> PayOut(arrears[e], -paidOut[r][e])]
  /\ paidOut' = [paidOut EXCEPT ![r] = [e \in Employees |-> 0]]
  /\ UNCHANGED <<entries, settled>>

-------------------------------------------------------------------------------
(* SettlementService.finalize_ff_settlement *)

FinalizeSettlement(e) ==
  /\ e \in Leavers /\ ~settled[e]
  /\ ActiveRuns(LastCycle) # {}
  /\ loan' = [l \in Loans |-> IF l \in OwnLoans(e) /\ loan[l].outstanding > 0
                              THEN Owe(loan[l], 0) ELSE loan[l]]
  /\ entries' = [l \in Loans |->
                   IF l \in OwnLoans(e)
                   THEN [entries[l] EXCEPT !.repaid = @ + loan[l].outstanding]
                   ELSE entries[l]]
  /\ arrears' = [arrears EXCEPT ![e] = PayOut(@, @.outstanding)]
  /\ settled' = [settled EXCEPT ![e] = TRUE]
  /\ UNCHANGED <<booked, row, run, paidOut>>

-------------------------------------------------------------------------------
Accounts ==
  /\ \/ \E l \in Loans : LoanOperation(l)
     \/ \E e \in Employees : ArrearsOperation(e)
  /\ UNCHANGED <<row, run, paidOut, settled>>

Payroll ==
  \/ \E c \in Cycles, S \in SUBSET Employees \ {{}} :
       GeneratePayroll(c, S) \/ RecalculatePayroll(c, S)
  \/ \E c \in Cycles, r \in Runs : FinalizePayroll(c, r)
  \/ \E r \in Runs : DefinalizePayroll(r)

Next == Accounts \/ Payroll \/ \E e \in Employees : FinalizeSettlement(e)

Init ==
  /\ AccountsInit
  /\ row = [e \in Employees |-> [c \in Cycles |-> NoRow]]
  /\ run = [r \in Runs |-> [status |-> "absent", cycle |-> LastCycle]]
  /\ paidOut = [r \in Runs |-> [e \in Employees |-> 0]]
  /\ settled = [e \in Employees |-> FALSE]

Spec == Init /\ [][Next]_vars

-------------------------------------------------------------------------------
(* Properties *)

\* Type invariant; that the amounts are naturals says that no step relies on the
\* CHECKs of the accounts tables but finalize_payroll, for arrears.
TypeOK ==
  /\ AccountsTypeOK
  /\ row \in [Employees -> [Cycles -> ComputedRow]]
  /\ run \in [Runs -> RunRow]
  /\ paidOut \in [Runs -> [Employees -> Nat]]
  /\ settled \in [Employees -> BOOLEAN]

\* What is outstanding on a loan is what its ledger rows say, whatever was
\* repaid, lent, collected by payroll, undone or settled in whatever order.
LoanMatchesLedger ==
  \A l \in Loans : Stored(l) =>
    loan[l].outstanding = loan[l].principal + entries[l].lent - entries[l].repaid
                            - SumFunction([r \in Runs |-> booked[r][l]])

\* "outstanding_arrears = arrears_created - arrears_paid" (the contract of the
\* settlements, Settlement_Management_API_Contract.md:215), as a difference.
Excess(e) == arrears[e].outstanding - (arrears[e].created - arrears[e].paid)

ArrearsAddUp == \A e \in Employees : Excess(e) = 0

\* The columns of an arrears header move together, whoever moves them: credits,
\* payments by hand, runs, their undoing and settlements all keep the equation of
\* the contract.  It is broken in one way only, by a revision of the total that
\* stops at zero below what was paid, and never at the employee's expense.
ArrearsMoveTogether ==
  [][\A e \in Employees : Excess(e)' # Excess(e) =>
       /\ Excess(e)' > Excess(e)
       /\ arrears'[e].outstanding = 0 /\ arrears'[e].created < arrears'[e].paid]_vars

\* The row of e that run r has locked, or an empty one.
LockedRow(e, r) ==
  IF run[r].status = "active" /\ row[e][run[r].cycle].run = r
  THEN row[e][run[r].cycle] ELSE NoRow

\* A run never collects more from the loans of an employee than the payslip it
\* locked deducts, though loans change between generate and finalize; and a run
\* that was undone has collected nothing.  (It may collect less: a loan repaid
\* meanwhile takes no instalment, and the payslip deducts it all the same.)
NeverOverCollected ==
  \A r \in Runs, e \in Employees :
    SumFunctionOnSet(booked[r], {l \in Loans : Owner[l] = e}) <= LockedRow(e, r).deduction

\* The arrears a run has paid are those on the payslips it locked.
ArrearsPaidAsOnPayslip ==
  \A r \in Runs, e \in Employees : paidOut[r][e] = LockedRow(e, r).arrears

\* Rows are locked by the one active run of their own cycle.
RunsLockTheirRows ==
  \A e \in Employees, c \in Cycles :
    Finalized(e, c) => ActiveRuns(c) = {row[e][c].run}

\* A payslip does not change while its run is active: drafts may be recomputed
\* at any time, finalized rows only after the run was undone.
LockedRowsAreKept ==
  [][\A e \in Employees, c \in Cycles :
       Finalized(e, c) /\ run'[row[e][c].run].status = "active"
         => row'[e][c] = row[e][c]]_vars

\* A loan is closed by whatever brings it to zero - repayment, payroll or
\* settlement - and what reopens one puts an amount on it: no active loan is empty.
RepaidIsClosed ==
  \A l \in Loans : Active(l) => loan[l].outstanding > 0
===============================================================================
