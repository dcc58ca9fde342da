--------------------------- MODULE SettlementLedger ---------------------------
(***************************************************************************)
(* Loans, advances and arrears of employees, and the ledger rows that      *)
(* explain them: what the handlers of SettlementService do when each runs  *)
(* alone.  PayrollRun adds payroll, which collects instalments and pays    *)
(* arrears out, and the full-and-final settlement.                         *)
(*                                                                         *)
(* total_debit, categories, interest and the instalment schedule are       *)
(* written and shown but decide nothing; they are left out.  disburse_loan *)
(* and early_closure call get_by_id with a parameter it does not have, and *)
(* fail before they write: they change no state and have no action.        *)
(*                                                                         *)
(* A definition that no action uses is a deliberate fault: the project     *)
(* exchanges it for the definition after it to see a property fail.        *)
(***************************************************************************)
EXTENDS Integers, FiniteSetsExt, Functions

CONSTANTS
  Employees,
  Loans,         \* ids of employee_loans_advances, in the order of insertion
  Owner,         \* the employee of each loan
  Runs,          \* ids of finalized_payroll_runs
  MaxAmount,     \* bound on the amount of one operation on a loan
  MaxLent,       \* bound on what is lent on top of the principal of a loan
  MaxArrears     \* bound on the arrears an employee was ever owed

Amounts == 1..MaxAmount
ArrearsAmounts == 1..MaxArrears

ASSUME SettlementAssumption ==
  /\ Employees # {} /\ Runs # {} /\ IsFiniteSet(Runs)
  /\ Loans \subseteq Nat /\ IsFiniteSet(Loans)
  /\ Owner \in [Loans -> Employees]
  /\ MaxAmount \in Nat \ {0} /\ MaxLent \in Nat /\ MaxArrears \in Nat

VARIABLES
  loan,      \* employee_loans_advances
  entries,   \* loan_advance_transactions entered by hand, summed up per loan
  booked,    \* loan_advance_transactions of a payroll run, per run and loan
  arrears    \* employee_arrears

accounts == <<loan, entries, booked, arrears>>

LoanRow == [status : {"absent", "active", "closed"}, principal : Nat,
            installment : Nat, outstanding : Nat]
NoLoan == [status |-> "absent", principal |-> 0, installment |-> 0, outstanding |-> 0]

\* The amounts that raised and lowered what is outstanding, and whether there
\* is a row of an edited instalment, of amount 0.
Entries == [lent : Nat, repaid : Nat, edited : BOOLEAN]
NoEntries == [lent |-> 0, repaid |-> 0, edited |-> FALSE]

ArrearsRow == [created : Nat, paid : Nat, outstanding : Nat]
NoArrears  == [created |-> 0, paid |-> 0, outstanding |-> 0]

Stored(l) == loan[l].status # "absent"
Active(l) == loan[l].status = "active"

HasTransactions(l) ==
  \/ entries[l].lent > 0 \/ entries[l].repaid > 0 \/ entries[l].edited
  \/ \E r \in Runs : booked[r][l] > 0

\* A loan is closed by the entry that brings it to zero, and never reopened by one.
Owe(row, amount) ==
  [row EXCEPT !.outstanding = amount, !.status = IF amount = 0 THEN "closed" ELSE @]

-------------------------------------------------------------------------------
(* Loans and advances *)

\* create_loan_advance and request_loan store the same row: a requested loan is
\* "active" though its approval is pending.  The instalment of a request is
\* computed, and interest can raise it above the principal.
CreateLoanAdvance(l) ==
  /\ ~Stored(l)
  /\ \E principal, installment \in Amounts :
       loan' = [loan EXCEPT ![l] =
                  [status |-> "active", principal |-> principal,
                   installment |-> installment, outstanding |-> principal]]
  /\ UNCHANGED <<entries, booked, arrears>>

\* update_loan_advance
UpdateLoanAdvance(l) ==
  /\ Active(l)
  /\ \E i \in Amounts :
       /\ i <= loan[l].outstanding /\ i <= loan[l].principal
       /\ loan' = [loan EXCEPT ![l].installment = i]
  /\ UNCHANGED <<entries, booked, arrears>>

\* update_installment also writes a ledger row, of amount 0.
UpdateInstallment(l) ==
  /\ Active(l)
  /\ \E i \in Amounts :
       /\ i <= loan[l].outstanding
       /\ loan' = [loan EXCEPT ![l].installment = i]
  /\ entries' = [entries EXCEPT ![l].edited = TRUE]
  /\ UNCHANGED <<booked, arrears>>

\* close_loan_advance: whatever is outstanding stays on the row.
CloseLoanAdvance(l) ==
  /\ Active(l)
  /\ loan' = [loan EXCEPT ![l].status = "closed"]
  /\ UNCHANGED <<entries, booked, arrears>>

\* delete_loan_advance
DeleteLoanAdvance(l) ==
  /\ Stored(l) /\ ~HasTransactions(l)
  /\ loan' = [loan EXCEPT ![l] = NoLoan]
  /\ UNCHANGED <<entries, booked, arrears>>

\* The instalment an entry may revise on the way, bounded by the principal only.
Instalments(row) == {row.installment} \cup {i \in Amounts : i <= row.principal}

RepaidButOpen(l, amount) ==
  /\ Active(l) /\ amount <= loan[l].outstanding
  /\ loan' = [loan EXCEPT ![l].outstanding = @ - amount]
  /\ entries' = [entries EXCEPT ![l].repaid = @ + amount]
  /\ UNCHANGED <<booked, arrears>>

\* add_loan_advance_transaction, "debit": the employee repays.
Repay(l, amount) ==
  /\ Active(l) /\ amount <= loan[l].outstanding
  /\ \E i \in Instalments(loan[l]) :
       loan' = [loan EXCEPT ![l] = [Owe(@, @.outstanding - amount) EXCEPT !.installment = i]]
  /\ entries' = [entries EXCEPT ![l].repaid = @ + amount]
  /\ UNCHANGED <<booked, arrears>>

\* add_loan_advance_transaction, "credit": more is lent.
Lend(l, amount) ==
  /\ Active(l) /\ entries[l].lent + amount <= MaxLent
  /\ \E i \in Instalments(loan[l]) :
       loan' = [loan EXCEPT ![l].outstanding = @ + amount, ![l].installment = i]
  /\ entries' = [entries EXCEPT ![l].lent = @ + amount]
  /\ UNCHANGED <<booked, arrears>>

-------------------------------------------------------------------------------
(* Arrears.  A row is created with its first credit; one that has ledger rows *)
(* cannot be deleted (foreign key), so delete_arrears never succeeds.         *)

\* create_arrears and add_arrears_transaction, "credit"
CreditArrears(e, amount) ==
  /\ arrears[e].paid + arrears[e].outstanding + amount <= MaxArrears
  /\ arrears' = [arrears EXCEPT ![e].created = @ + amount, ![e].outstanding = @ + amount]
  /\ UNCHANGED <<loan, entries, booked>>

PayOut(row, amount) ==
  [row EXCEPT !.paid = @ + amount, !.outstanding = @ - amount]

\* pay_arrears and add_arrears_transaction, "debit"
PayArrears(e, amount) ==
  /\ amount <= arrears[e].outstanding
  /\ arrears' = [arrears EXCEPT ![e] = PayOut(@, amount)]
  /\ UNCHANGED <<loan, entries, booked>>

\* The outstanding amount is forgotten.
ReviseTotalOnly(row, amount) == [row EXCEPT !.created = amount]

\* The outstanding amount follows the revised total and stops at zero.
Revise(row, amount) ==
  [row EXCEPT !.created = amount,
              !.outstanding = Max({0, @ + (amount - row.created)})]

\* update_arrears
UpdateArrears(e, amount) ==
  /\ arrears[e] # NoArrears
  /\ LET new == Revise(arrears[e], amount) IN
       /\ new.paid + new.outstanding <= MaxArrears
       /\ arrears' = [arrears EXCEPT ![e] = new]
  /\ UNCHANGED <<loan, entries, booked>>

LoanOperation(l) ==
  \/ CreateLoanAdvance(l) \/ UpdateLoanAdvance(l) \/ UpdateInstallment(l)
  \/ CloseLoanAdvance(l) \/ DeleteLoanAdvance(l)
  \/ \E amount \in Amounts : Repay(l, amount) \/ Lend(l, amount)

ArrearsOperation(e) ==
  \E amount \in ArrearsAmounts :
    CreditArrears(e, amount) \/ PayArrears(e, amount) \/ UpdateArrears(e, amount)

AccountsInit ==
  /\ loan = [l \in Loans |-> NoLoan]
  /\ entries = [l \in Loans |-> NoEntries]
  /\ booked = [r \in Runs |-> [l \in Loans |-> 0]]
  /\ arrears = [e \in Employees |-> NoArrears]

AccountsTypeOK ==
  /\ loan \in [Loans -> LoanRow]
  /\ entries \in [Loans -> Entries]
  /\ booked \in [Runs -> [Loans -> Nat]]
  /\ arrears \in [Employees -> ArrearsRow]
===============================================================================
