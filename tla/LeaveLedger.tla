------------------------------ MODULE LeaveLedger ------------------------------
(***************************************************************************)
(* Leave requests, the approval envelope each of them is decided through,  *)
(* and the leave balances a decision is charged to: what the handlers of   *)
(* LeaveService and ApprovalService promise when each runs alone, from its *)
(* first read to its commit.  LeaveApproval splits them into the steps     *)
(* concurrent sessions really interleave.                                  *)
(*                                                                         *)
(* A definition that no action uses is a deliberate fault: the project     *)
(* exchanges it for the definition after it to see a property fail.        *)
(*                                                                         *)
(* One employee is modelled: requests of different employees share no row. *)
(***************************************************************************)
EXTENDS LeaveBalance, FiniteSets, Functions

CONSTANTS
  Requests,      \* ids of leave_requests rows
  Balances,      \* balance rows: the (leave type, cycle year) pairs
  Slots,         \* date ranges; two requests overlap iff they have the same
  MaxDays,       \* bound on duration_days
  MaxBalance,    \* bound on the amounts and on what is booked by hand
  AdminOps,      \* the balance operations the instance runs
  StatusCheck,   \* the values CHECK ck_leave_requests_status admits
  BranchRequired \* leave_requests.branch_id is NOT NULL

AllAdminOps == {"credit", "debit", "adjust", "assign", "unassign"}
RowStatus   == {"absent", "pending", "approved", "rejected", "cancelled", "deleted"}
EnvStatus   == {"absent", "pending", "approved", "rejected", "deleted"}
Days        == 1..MaxDays
Amounts     == 0..MaxBalance
Form        == [slot : Slots, days : Days, bal : Balances]
LeaveRow    == [status : RowStatus, slot : Slots, days : Days, bal : Balances]

ASSUME LedgerAssumption ==
  /\ Balances # {} /\ Slots # {} /\ IsFiniteSet(Requests)
  /\ MaxDays \in Nat \ {0} /\ MaxBalance \in Nat
  /\ AdminOps \subseteq AllAdminOps
  /\ StatusCheck \subseteq RowStatus
  /\ {"pending", "approved", "rejected"} \subseteq StatusCheck
  /\ BranchRequired \in BOOLEAN

VARIABLES
  leave,    \* leave_requests, by id
  env,      \* status of the approval_requests envelope of each leave request
  bal,      \* employee_leave_balances
  history   \* sum of the deltas in leave_balance_adjustments, per balance

ledger == <<leave, env, bal, history>>

AnyForm == CHOOSE f \in Form : TRUE

Row(status, form) ==
  [status |-> status, slot |-> form.slot, days |-> form.days, bal |-> form.bal]

Stored(r) == leave[r].status \notin {"absent", "deleted"}

\* LeaveRequestRepository.has_overlap
HasOverlap(slot, exclude) ==
  \E r \in Requests \ exclude :
    leave[r].status \in {"pending", "approved"} /\ leave[r].slot = slot

\* A leave type is applied for, and a request edited, only if no other request
\* overlaps and the balance covers it.
Eligible(f, exclude) == ~HasOverlap(f.slot, exclude) /\ Sufficient(bal[f.bal], f.days)

-------------------------------------------------------------------------------
(* The operations by hand on a balance: credit_leave_balance,                 *)
(* debit_leave_balance, adjust_leave_balance and assign_leave_types.          *)

AdminResult(op, row, days) ==
  CASE op = "credit"   -> Credit(row, days)
    [] op = "debit"    -> Debit(row, days)
    [] op = "adjust"   -> Adjust(row, days)
    [] op = "assign"   -> Assign(row, days)
    [] op = "unassign" -> Unassign(row)

ByHand == {"credit", "debit", "adjust"}

UnsignedDelta(op, row, days) ==
  IF op = "adjust" THEN days - row.closing ELSE IF op \in ByHand THEN days ELSE 0

\* The delta of the leave_balance_adjustments row; assigning writes none.
Delta(op, row, days) ==
  CASE op = "credit" -> days
    [] op = "debit"  -> -days
    [] op = "adjust" -> days - row.closing
    [] OTHER         -> 0

\* Bound of the model: what is credited and debited by hand stays in range.
WithinBounds(op, b, d) ==
  LET new == AdminResult(op, bal[b], d) IN
  op \in ByHand =>
    /\ new.closing <= MaxBalance
    /\ new.adjusted \in -MaxBalance..MaxBalance
    /\ history[b] + Delta(op, bal[b], d) \in -MaxBalance..MaxBalance

\* What the request schemas and the check for a debit let through.
Admitted(op, b, d) ==
  /\ op \in {"credit", "debit"} => d > 0
  /\ op = "debit" => Sufficient(bal[b], d)
  /\ op = "unassign" => d = 0
  /\ WithinBounds(op, b, d)

-------------------------------------------------------------------------------
(* The handlers, each as one atomic step *)

\* apply_leave: the request and its envelope.  The row is built without branch_id.
Apply ==
  \E r \in Requests, f \in Form :
    /\ ~BranchRequired
    /\ leave[r].status = "absent"
    /\ Eligible(f, {})
    /\ leave' = [leave EXCEPT ![r] = Row("pending", f)]
    /\ env' = [env EXCEPT ![r] = "pending"]
    /\ UNCHANGED <<bal, history>>

\* update_leave_request
Edit ==
  \E r \in Requests, f \in Form :
    /\ leave[r].status = "pending"
    /\ Eligible(f, {r})
    /\ leave' = [leave EXCEPT ![r] = Row("pending", f)]
    /\ UNCHANGED <<env, bal, history>>

\* approve_request: it asks for the status of the envelope, not of the request.
Approve ==
  \E r \in Requests :
    LET row == leave[r] IN
    /\ env[r] = "pending"
    /\ Stored(r)
    /\ Sufficient(bal[row.bal], row.days)
    /\ leave' = [leave EXCEPT ![r].status = "approved"]
    /\ bal' = [bal EXCEPT ![row.bal] = Deduct(@, row.days)]
    /\ env' = [env EXCEPT ![r] = "approved"]
    /\ UNCHANGED history

\* reject_request
Reject ==
  \E r \in Requests :
    /\ env[r] = "pending"
    /\ Stored(r)
    /\ leave' = [leave EXCEPT ![r].status = "rejected"]
    /\ env' = [env EXCEPT ![r] = "rejected"]
    /\ UNCHANGED <<bal, history>>

\* cancel_approval_request deletes both rows.
Withdraw ==
  \E r \in Requests :
    /\ env[r] = "pending"
    /\ leave' = [leave EXCEPT ![r].status = "deleted"]
    /\ env' = [env EXCEPT ![r] = "deleted"]
    /\ UNCHANGED <<bal, history>>

\* cancel_leave_request leaves the envelope as it is.
Cancel ==
  \E r \in Requests :
    LET row == leave[r] IN
    /\ "cancelled" \in StatusCheck
    /\ row.status \in {"pending", "approved"}
    /\ leave' = [leave EXCEPT ![r].status = "cancelled"]
    /\ bal' = IF row.status = "approved" /\ bal[row.bal].exists
              THEN [bal EXCEPT ![row.bal] = Refund(@, row.days)]
              ELSE bal
    /\ UNCHANGED <<env, history>>

Administer ==
  \E op \in AdminOps, b \in Balances, d \in Amounts :
    /\ Admitted(op, b, d)
    /\ bal' = [bal EXCEPT ![b] = AdminResult(op, @, d)]
    /\ history' = [history EXCEPT ![b] = @ + Delta(op, bal[b], d)]
    /\ UNCHANGED <<leave, env>>

LedgerNext ==
  \/ Apply \/ Edit \/ Approve \/ Reject \/ Withdraw \/ Cancel \/ Administer

\* Rows that exist when the service starts: pending requests, each with its
\* envelope, that do not overlap; balances with an allocation, or none.
LedgerInit ==
  /\ \E pending \in SUBSET Requests, form \in [Requests -> Form] :
       /\ \A r, s \in pending : r # s => form[r].slot # form[s].slot
       /\ \A r \in Requests \ pending : form[r] = AnyForm
       /\ leave = [r \in Requests |->
                     Row(IF r \in pending THEN "pending" ELSE "absent", form[r])]
       /\ env = [r \in Requests |-> IF r \in pending THEN "pending" ELSE "absent"]
  /\ bal \in [Balances -> {Missing} \cup {Accrue(Missing, d) : d \in Days}]
  /\ history = [b \in Balances |-> 0]

LedgerSpec == LedgerInit /\ [][LedgerNext]_ledger

-------------------------------------------------------------------------------
(* Properties *)

\* Type invariant of the tables.
LedgerTypeOK ==
  /\ leave \in [Requests -> LeaveRow]
  /\ env \in [Requests -> EnvStatus]
  /\ bal \in [Balances -> BalanceRow]
  /\ history \in [Balances -> Int]

\* The adjusted column is the sum of the deltas in the adjustment history.
AdjustedMatchesHistory ==
  \A b \in Balances : bal[b].adjusted = history[b]

\* Every closing balance is the sum of its parts.
BalancesAddUp == \A b \in Balances : Balanced(bal[b])

ApprovedOn(b) == {r \in Requests : leave[r].status = "approved" /\ leave[r].bal = b}

\* The used days of a balance are those of its approved requests: no approval is
\* charged twice, none is lost, and only a cancellation gives days back.
UsedMatchesRequests ==
  \A b \in Balances :
    bal[b].used = SumFunctionOnSet([r \in Requests |-> leave[r].days], ApprovedOn(b))
===============================================================================
