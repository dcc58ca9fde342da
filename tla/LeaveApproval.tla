----------------------------- MODULE LeaveApproval -----------------------------
(***************************************************************************)
(* Leave requests, the approval envelope each of them is decided through,  *)
(* and the leave balances a decision is charged to, under concurrent API   *)
(* requests.                                                               *)
(*                                                                         *)
(* Every API request runs in a database session of its own (READ           *)
(* COMMITTED, no SELECT ... FOR UPDATE): it reads rows, checks them, and   *)
(* writes values computed from what it read.  ctx[w] is the session of     *)
(* worker w: the place it has reached and the rows it has loaded.  Nothing *)
(* it writes is visible before its commit, so a step that commits changes  *)
(* the tables and every other step changes ctx alone.  The one row lock    *)
(* held across an await is that of a leave request an approval has         *)
(* updated and not yet committed.                                          *)
(*                                                                         *)
(* One employee is modelled: requests of different employees share no row. *)
(***************************************************************************)
EXTENDS LeaveLedger

CONSTANTS
  Workers,       \* concurrent API requests
  NoRequest      \* in the session of an operation that is about no request yet

ASSUME SessionAssumption == NoRequest \notin Requests

VARIABLE
  ctx       \* the sessions

vars == <<ledger, ctx>>

Idle == [at |-> "idle", req |-> NoRequest, row |-> Row("absent", AnyForm),
         form |-> AnyForm, seen |-> Missing, admin |-> "credit", amount |-> 0]

Places == {"idle", "apply.insert", "update.write",
           "approve.load", "approve.mark", "approve.commit",
           "reject.load", "reject.commit", "withdraw.delete",
           "cancel.refund", "cancel.commit", "admin.write"}

Context == [at : Places, req : Requests \cup {NoRequest}, row : LeaveRow, form : Form,
            seen : BalanceRow, admin : AllAdminOps, amount : Amounts]

Free(w) == ctx[w].at = "idle"
Goto(w, c) == ctx' = [ctx EXCEPT ![w] = c]
Done(w) == Goto(w, Idle)

\* An approval that has flushed its UPDATE of the leave row holds its lock.
Locked(r) == \E w \in Workers : ctx[w].at = "approve.commit" /\ ctx[w].req = r

-------------------------------------------------------------------------------
(* LeaveService.apply_leave *)

\* Employee, leave type, overlap and balance are checked before the transaction.
ApplyCheck(w) ==
  /\ Free(w)
  /\ \E f \in Form :
       /\ Eligible(f, {})
       /\ Goto(w, [Idle EXCEPT !.at = "apply.insert", !.form = f])
  /\ UNCHANGED ledger

\* The request is stored, its envelope is not.
ApplyWithoutEnvelope(w) ==
  /\ ctx[w].at = "apply.insert"
  /\ ~BranchRequired
  /\ \E r \in Requests :
       /\ leave[r].status = "absent"
       /\ leave' = [leave EXCEPT ![r] = Row("pending", ctx[w].form)]
  /\ Done(w)
  /\ UNCHANGED <<env, bal, history>>

\* Request row and envelope are committed together, by the transaction that
\* submit_approval_request opens inside the one of apply_leave.  The row is
\* built without branch_id.
ApplyInsert(w) ==
  /\ ctx[w].at = "apply.insert"
  /\ ~BranchRequired
  /\ \E r \in Requests :
       /\ leave[r].status = "absent"
       /\ leave' = [leave EXCEPT ![r] = Row("pending", ctx[w].form)]
       /\ env' = [env EXCEPT ![r] = "pending"]
  /\ Done(w)
  /\ UNCHANGED <<bal, history>>

-------------------------------------------------------------------------------
(* LeaveService.update_leave_request *)

UpdateCheck(w) ==
  /\ Free(w)
  /\ \E r \in Requests, f \in Form :
       /\ leave[r].status = "pending"
       /\ Eligible(f, {r})
       /\ Goto(w, [Idle EXCEPT !.at = "update.write", !.req = r,
                               !.row = leave[r], !.form = f])
  /\ UNCHANGED ledger

UpdateWholeRow(w) ==
  LET r == ctx[w].req IN
  /\ ctx[w].at = "update.write"
  /\ Stored(r) /\ ~Locked(r)
  /\ leave' = [leave EXCEPT ![r] = Row(ctx[w].row.status, ctx[w].form)]
  /\ Done(w)
  /\ UNCHANGED <<env, bal, history>>

\* The UPDATE names the edited columns, never the status.
UpdateWrite(w) ==
  LET r == ctx[w].req IN
  /\ ctx[w].at = "update.write"
  /\ Stored(r) /\ ~Locked(r)
  /\ leave' = [leave EXCEPT ![r] =
                 Flush(@, ctx[w].row, Row(ctx[w].row.status, ctx[w].form))]
  /\ Done(w)
  /\ UNCHANGED <<env, bal, history>>

-------------------------------------------------------------------------------
(* ApprovalService.approve_request, for request_type = 'leave' *)

ApproveCheck(w) ==
  /\ Free(w)
  /\ \E r \in Requests :
       /\ env[r] = "pending"
       /\ Goto(w, [Idle EXCEPT !.at = "approve.load", !.req = r])
  /\ UNCHANGED ledger

\* The leave row is loaded; its status is not looked at.
ApproveLoad(w) ==
  LET r == ctx[w].req IN
  /\ ctx[w].at = "approve.load"
  /\ Stored(r)
  /\ Goto(w, [ctx[w] EXCEPT !.at = "approve.mark", !.row = leave[r]])
  /\ UNCHANGED ledger

\* UPDATE leave_requests (taking the row lock), refresh of the row, then the
\* balance is read and checked.
ApproveMark(w) ==
  LET r   == ctx[w].req
      row == Flush(leave[r], ctx[w].row, [ctx[w].row EXCEPT !.status = "approved"])
  IN
  /\ ctx[w].at = "approve.mark"
  /\ Stored(r) /\ ~Locked(r)
  /\ Sufficient(bal[row.bal], row.days)
  /\ Goto(w, [ctx[w] EXCEPT !.at = "approve.commit", !.row = row,
                            !.seen = bal[row.bal]])
  /\ UNCHANGED ledger

\* A relative UPDATE of the balance after a check on an older value.
DeductFromStored(w) ==
  LET row == ctx[w].row
      r   == ctx[w].req
  IN
  /\ ctx[w].at = "approve.commit"
  /\ leave' = [leave EXCEPT ![r] = row]
  /\ bal' = [bal EXCEPT ![row.bal] = Deduct(@, row.days)]
  /\ env' = [env EXCEPT ![r] = "approved"]
  /\ Done(w)
  /\ UNCHANGED history

\* The decision is stored, the balance is not charged.
ApproveUncharged(w) ==
  /\ ctx[w].at = "approve.commit"
  /\ leave' = [leave EXCEPT ![ctx[w].req] = ctx[w].row]
  /\ env' = [env EXCEPT ![ctx[w].req] = "approved"]
  /\ Done(w)
  /\ UNCHANGED <<bal, history>>

\* UPDATE of the balance and of the envelope, commit.
ApproveCommit(w) ==
  LET row == ctx[w].row
      r   == ctx[w].req
  IN
  /\ ctx[w].at = "approve.commit"
  /\ leave' = [leave EXCEPT ![r] = row]
  /\ bal' = [bal EXCEPT ![row.bal] =
               Flush(@, ctx[w].seen, Deduct(ctx[w].seen, row.days))]
  /\ env' = [env EXCEPT ![r] = "approved"]
  /\ Done(w)
  /\ UNCHANGED history

-------------------------------------------------------------------------------
(* ApprovalService.reject_request, for request_type = 'leave' *)

RejectCheck(w) ==
  /\ Free(w)
  /\ \E r \in Requests :
       /\ env[r] = "pending"
       /\ Goto(w, [Idle EXCEPT !.at = "reject.load", !.req = r])
  /\ UNCHANGED ledger

RejectLoad(w) ==
  LET r == ctx[w].req IN
  /\ ctx[w].at = "reject.load"
  /\ Stored(r)
  /\ Goto(w, [ctx[w] EXCEPT !.at = "reject.commit", !.row = leave[r]])
  /\ UNCHANGED ledger

\* The envelope is forgotten.
RejectRequestOnly(w) ==
  LET r == ctx[w].req IN
  /\ ctx[w].at = "reject.commit"
  /\ Stored(r) /\ ~Locked(r)
  /\ leave' = [leave EXCEPT ![r].status = "rejected"]
  /\ Done(w)
  /\ UNCHANGED <<env, bal, history>>

RejectCommit(w) ==
  LET r == ctx[w].req IN
  /\ ctx[w].at = "reject.commit"
  /\ Stored(r) /\ ~Locked(r)
  /\ leave' = [leave EXCEPT ![r] =
                 Flush(@, ctx[w].row, [ctx[w].row EXCEPT !.status = "rejected"])]
  /\ env' = [env EXCEPT ![r] = "rejected"]
  /\ Done(w)
  /\ UNCHANGED <<bal, history>>

-------------------------------------------------------------------------------
(* ApprovalService.cancel_approval_request, for request_type = 'leave' *)

WithdrawCheck(w) ==
  /\ Free(w)
  /\ \E r \in Requests :
       /\ env[r] = "pending"
       /\ Goto(w, [Idle EXCEPT !.at = "withdraw.delete", !.req = r])
  /\ UNCHANGED ledger

\* The source record is forgotten.
WithdrawEnvelopeOnly(w) ==
  /\ ctx[w].at = "withdraw.delete"
  /\ env' = [env EXCEPT ![ctx[w].req] = "deleted"]
  /\ Done(w)
  /\ UNCHANGED <<leave, bal, history>>

WithdrawToUnknownStatusStep(w) ==
  /\ ctx[w].at = "withdraw.delete"
  /\ ~Locked(ctx[w].req)
  /\ leave' = [leave EXCEPT ![ctx[w].req].status = "withdrawn"]
  /\ env' = [env EXCEPT ![ctx[w].req] = "deleted"]
  /\ Done(w)
  /\ UNCHANGED <<bal, history>>

\* DELETE names the row by id only, whatever its status is by then, and a row
\* that is gone already is no error.
WithdrawDelete(w) ==
  LET r == ctx[w].req IN
  /\ ctx[w].at = "withdraw.delete"
  /\ ~Locked(r)
  /\ leave' = [leave EXCEPT ![r].status = "deleted"]
  /\ env' = [env EXCEPT ![r] = "deleted"]
  /\ Done(w)
  /\ UNCHANGED <<bal, history>>

-------------------------------------------------------------------------------
(* LeaveService.cancel_leave_request *)

CancelCheck(w) ==
  /\ Free(w)
  /\ \E r \in Requests :
       /\ leave[r].status \in {"pending", "approved"}
       /\ Goto(w, [Idle EXCEPT !.req = r, !.row = leave[r],
                     !.at = IF leave[r].status = "approved"
                            THEN "cancel.refund" ELSE "cancel.commit"])
  /\ UNCHANGED ledger

\* The balance to refund is read; there may be none.
CancelRefund(w) ==
  /\ ctx[w].at = "cancel.refund"
  /\ Goto(w, [ctx[w] EXCEPT !.at = "cancel.commit",
                            !.seen = bal[ctx[w].row.bal]])
  /\ UNCHANGED ledger

\* The envelope is left as it is.  The status written is one the table's CHECK
\* may refuse, and then the whole transaction, refund included, is rolled back.
CancelCommit(w) ==
  LET r    == ctx[w].req
      row  == ctx[w].row
      seen == ctx[w].seen
  IN
  /\ ctx[w].at = "cancel.commit"
  /\ "cancelled" \in StatusCheck
  /\ Stored(r) /\ ~Locked(r)
  /\ leave' = [leave EXCEPT ![r].status = "cancelled"]
  /\ bal' = IF row.status = "approved" /\ seen.exists
            THEN [bal EXCEPT ![row.bal] = Flush(@, seen, Refund(seen, row.days))]
            ELSE bal
  /\ Done(w)
  /\ UNCHANGED <<env, history>>

-------------------------------------------------------------------------------
(* credit_leave_balance, debit_leave_balance, adjust_leave_balance and        *)
(* assign_leave_types: read the balance, then write it and its history row.   *)

AdminRead(w) ==
  /\ Free(w)
  /\ \E op \in AdminOps, b \in Balances, d \in Amounts :
       /\ Admitted(op, b, d)
       /\ Goto(w, [Idle EXCEPT !.at = "admin.write", !.admin = op,
                               !.form.bal = b, !.amount = d, !.seen = bal[b]])
  /\ UNCHANGED ledger

\* A row inserted by another session meanwhile makes this insert fail on the
\* unique key (employee, leave type, cycle year).
AdminWrite(w) ==
  LET c   == ctx[w]
      b   == c.form.bal
      new == AdminResult(c.admin, c.seen, c.amount)
  IN
  /\ c.at = "admin.write"
  /\ c.seen.exists \/ ~bal[b].exists
  /\ bal' = [bal EXCEPT ![b] = Flush(@, c.seen, new)]
  /\ history' = [history EXCEPT ![b] = @ + Delta(c.admin, c.seen, c.amount)]
  /\ Done(w)
  /\ UNCHANGED <<leave, env>>

-------------------------------------------------------------------------------
\* An approval that finds the balance too low has no way out.
RefuseButNotConflict(w) ==
  LET c == ctx[w] IN
  /\ \/ c.at = "apply.insert" /\ BranchRequired
     \/ c.at \in {"approve.load", "reject.load", "update.write", "reject.commit",
                  "cancel.commit", "approve.mark"} /\ ~Stored(c.req)
     \/ c.at = "cancel.commit" /\ "cancelled" \notin StatusCheck /\ ~Locked(c.req)
     \/ c.at = "admin.write" /\ ~c.seen.exists /\ bal[c.form.bal].exists
  /\ Done(w)
  /\ UNCHANGED ledger

\* Errors: the session rolls back and the tables keep their rows.  A row the
\* session needs is gone (404, or an UPDATE that matches no row), the balance
\* does not suffice (409), or the database refuses the write.
Refuse(w) ==
  LET c == ctx[w] IN
  /\ \/ c.at = "apply.insert" /\ BranchRequired
     \/ c.at \in {"approve.load", "reject.load", "update.write", "reject.commit",
                  "cancel.commit", "approve.mark"} /\ ~Stored(c.req)
     \/ /\ c.at = "approve.mark" /\ Stored(c.req) /\ ~Locked(c.req)
        /\ ~Sufficient(bal[leave[c.req].bal], leave[c.req].days)
     \/ c.at = "cancel.commit" /\ "cancelled" \notin StatusCheck /\ ~Locked(c.req)
     \/ c.at = "admin.write" /\ ~c.seen.exists /\ bal[c.form.bal].exists
  /\ Done(w)
  /\ UNCHANGED ledger

\* The client disconnects, a statement times out or the process dies.
Abort(w) ==
  /\ ~Free(w)
  /\ Done(w)
  /\ UNCHANGED ledger

Begin(w) ==
  \/ ApplyCheck(w) \/ UpdateCheck(w) \/ ApproveCheck(w) \/ RejectCheck(w)
  \/ WithdrawCheck(w) \/ CancelCheck(w) \/ AdminRead(w)

Continue(w) ==
  \/ ApplyInsert(w) \/ UpdateWrite(w)
  \/ ApproveLoad(w) \/ ApproveMark(w) \/ ApproveCommit(w)
  \/ RejectLoad(w) \/ RejectCommit(w) \/ WithdrawDelete(w)
  \/ CancelRefund(w) \/ CancelCommit(w) \/ AdminWrite(w) \/ Refuse(w)

Next == \E w \in Workers : Begin(w) \/ Continue(w) \/ Abort(w)

Init == LedgerInit /\ ctx = [w \in Workers |-> Idle]

Spec == Init /\ [][Next]_vars

\* A session that has begun goes on: the event loop resumes it and the database
\* answers.  A lock queue serves its waiters, hence strong fairness.
FairSpec == Spec /\ \A w \in Workers : SF_vars(Continue(w))

-------------------------------------------------------------------------------
(* Properties *)

\* Type invariant of the tables and of the sessions.
TypeOK ==
  /\ LedgerTypeOK
  /\ ctx \in [Workers -> Context]

\* A pending leave request always has a pending envelope: whatever sessions
\* interleave, none is left that no reviewer can decide (apply_leave commits
\* request and envelope together for this reason).
PendingIsReviewable ==
  \A r \in Requests : leave[r].status = "pending" => env[r] = "pending"

\* Conversely an envelope in the reviewers' queue stands for a request that is
\* still pending: two tables, written by three services, agree on what is open.
\* It relies on the CHECK that keeps cancel_leave_request from committing.
EnvelopeIsCurrent ==
  \A r \in Requests : env[r] = "pending" => leave[r].status = "pending"

\* A request that has been decided never becomes pending again, neither through
\* a second decision nor through an edit that was checked before the decision.
DecidedNeverReopens ==
  [][\A r \in Requests :
       env[r] \in {"approved", "rejected"}
         => env'[r] # "pending" /\ leave'[r].status # "pending"]_vars

\* No closing balance is negative, even from stale reads: approvals and debits
\* check the very value they subtract from.  (Where leave types are assigned or
\* unassigned it does not hold: those recompute the balance from its parts.)
NoOverdraft == \A b \in Balances : bal[b].closing >= 0

\* An envelope is decided at most once: approve_request and reject_request
\* refuse one that is not pending (ApprovalAlreadyDecidedException).
DecidedOnce ==
  [][\A w \in Workers :
       ApproveCommit(w) \/ RejectCommit(w) => env[ctx[w].req] = "pending"]_vars

\* Every session ends: no waiting on a row lock lasts for ever, and no error
\* path leaves a session without a next step.
SessionsEnd == \A w \in Workers : ~Free(w) ~> Free(w)
===============================================================================
