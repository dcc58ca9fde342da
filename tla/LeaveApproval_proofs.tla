-------------------------- MODULE LeaveApproval_proofs --------------------------
(***************************************************************************)
(* Proofs of the safety properties of LeaveApproval for any number of      *)
(* requests, balances and concurrent sessions.                             *)
(***************************************************************************)
EXTENDS LeaveApproval, TLAPS

-------------------------------------------------------------------------------
(* Facts about the operators the actions are built from *)

\* Some application form exists.
LEMMA AnyFormType == AnyForm \in Form
<1>1. PICK s \in Slots, b \in Balances : TRUE
  BY LedgerAssumption DEF LedgerAssumption
<1>2. [slot |-> s, days |-> 1, bal |-> b] \in Form
  BY <1>1, LedgerAssumption DEF LedgerAssumption, Form, Days
<1> QED
  BY <1>2 DEF AnyForm

\* An idle session is a session.
LEMMA IdleType == Idle \in Context
<1>1. "credit" \in AllAdminOps /\ 0 \in Amounts /\ "idle" \in Places
  BY LedgerAssumption DEF LedgerAssumption, AllAdminOps, Amounts, Places
<1>2. Row("absent", AnyForm) \in LeaveRow
  BY AnyFormType DEF Row, LeaveRow, RowStatus, Form
<1>3. Missing \in BalanceRow
  BY DEF Missing, BalanceRow
<1> QED
  BY <1>1, <1>2, <1>3, AnyFormType DEF Idle, Context

\* Flushing a leave row writes the columns that differ from the loaded ones.
LEMMA FlushLeave ==
  ASSUME NEW stored \in LeaveRow, NEW loaded \in LeaveRow, NEW new \in LeaveRow
  PROVE  /\ Flush(stored, loaded, new) \in LeaveRow
         /\ Flush(stored, loaded, new).status =
              IF new.status # loaded.status THEN new.status ELSE stored.status
BY DEF Flush, LeaveRow

\* The same for a balance row.
LEMMA FlushBalance ==
  ASSUME NEW stored \in BalanceRow, NEW loaded \in BalanceRow, NEW new \in BalanceRow
  PROVE  /\ Flush(stored, loaded, new) \in BalanceRow
         /\ Flush(stored, loaded, new).closing =
              IF new.closing # loaded.closing THEN new.closing ELSE stored.closing
BY DEF Flush, BalanceRow

\* The delta an operation by hand records, and what it makes of the balance.
LEMMA DeltaType ==
  ASSUME NEW op, NEW row \in BalanceRow, NEW d \in Int
  PROVE  Delta(op, row, d) \in Int
BY DEF BalanceRow, Delta

\* A row that was created, and a row with two amounts written.
LEMMA CreatedType ==
  ASSUME NEW row \in BalanceRow
  PROVE  Created(row) \in BalanceRow
BY DEF Created, BalanceRow

LEMMA WriteType ==
  ASSUME NEW row \in BalanceRow, NEW x \in Int, NEW y \in Int
  PROVE  /\ [row EXCEPT !.adjusted = x, !.closing = y] \in BalanceRow
         /\ [row EXCEPT !.allocated = x, !.closing = y] \in BalanceRow
         /\ [row EXCEPT !.used = x, !.closing = y] \in BalanceRow
BY DEF BalanceRow

LEMMA AdminResultType ==
  ASSUME NEW op \in AllAdminOps, NEW row \in BalanceRow, NEW d \in Int
  PROVE  AdminResult(op, row, d) \in BalanceRow
<1>1. Created(row) \in BalanceRow
  BY CreatedType
<1>2. PICK r \in BalanceRow : r = Created(row)
  BY <1>1
<1>3. /\ r.adjusted + d \in Int /\ row.adjusted - d \in Int
      /\ r.adjusted + (d - row.closing) \in Int
      /\ r.closing + d \in Int /\ row.closing - d \in Int
      /\ (IF d > 0 THEN d ELSE row.allocated) \in Int
      /\ d + row.adjusted - row.used \in Int
      /\ row.allocated + row.adjusted - row.used \in Int
      /\ row.adjusted - row.used \in Int
  BY DEF BalanceRow
<1>4. Credit(row, d) \in BalanceRow
  BY <1>2, <1>3, WriteType DEF Credit
<1>5. Debit(row, d) \in BalanceRow
  BY <1>3, WriteType DEF Debit
<1>6. Adjust(row, d) \in BalanceRow
  BY <1>2, <1>3, WriteType DEF Adjust
<1>7. Assign(row, d) \in BalanceRow
  BY <1>2, <1>3, WriteType DEF Assign
<1>8. Unassign(row) \in BalanceRow
  <2> DEFINE y == row.adjusted - row.used
  <2>1. \A x \in Int : [r EXCEPT !.allocated = x, !.closing = y] \in BalanceRow
    BY <1>2, <1>3, WriteType
  <2>2. 0 \in Int
    OBVIOUS
  <2>3. [r EXCEPT !.allocated = 0, !.closing = y] \in BalanceRow
    BY <2>1, <2>2, Zenon
  <2> QED
    BY <1>2, <2>3 DEF Unassign
<1> QED
  BY <1>4, <1>5, <1>6, <1>7, <1>8 DEF AdminResult, AllAdminOps

\* Accruing days.
LEMMA AccrueType ==
  ASSUME NEW row \in BalanceRow, NEW d \in Int
  PROVE  Accrue(row, d) \in BalanceRow
<1>1. PICK r \in BalanceRow : r = Created(row)
  BY CreatedType
<1>2. r.allocated + d \in Int /\ r.closing + d \in Int
  BY DEF BalanceRow
<1> QED
  BY <1>1, <1>2, WriteType DEF Accrue

\* Charging and refunding the days of a request.
LEMMA ChargeType ==
  ASSUME NEW row \in BalanceRow, NEW d \in Nat
  PROVE  /\ Deduct(row, d) \in BalanceRow /\ Deduct(row, d).closing = row.closing - d
         /\ Refund(row, d) \in BalanceRow /\ Refund(row, d).closing = row.closing + d
<1>1. /\ row.used + d \in Int /\ row.closing - d \in Int /\ row.closing + d \in Int
      /\ row.used - d \in Int
  BY DEF BalanceRow
<1>2. (IF row.used - d < 0 THEN 0 ELSE row.used - d) \in Int
  BY <1>1
<1>3. Deduct(row, d) \in BalanceRow
  BY <1>1, WriteType DEF Deduct
<1>4. Refund(row, d) \in BalanceRow
  BY <1>1, <1>2, WriteType DEF Refund
<1>5. /\ Deduct(row, d).closing = row.closing - d
      /\ Refund(row, d).closing = row.closing + d
  BY DEF Deduct, Refund, BalanceRow
<1> QED
  BY <1>3, <1>4, <1>5

-------------------------------------------------------------------------------
(* Type correctness *)

\* A session that is about a request names one.
Session ==
  {c \in Context : c.req = NoRequest => c.at \in {"idle", "apply.insert", "admin.write"}}

TypeInv == LedgerTypeOK /\ ctx \in [Workers -> Session]

LEMMA IdleSession == Idle \in Session
BY IdleType DEF Session, Idle

LEMMA GotoType ==
  ASSUME ctx \in [Workers -> Session], NEW w \in Workers, NEW c \in Session, Goto(w, c)
  PROVE  ctx' \in [Workers -> Session]
BY DEF Goto

LEMMA DoneType ==
  ASSUME ctx \in [Workers -> Session], NEW w \in Workers, Done(w)
  PROVE  ctx' \in [Workers -> Session]
BY IdleSession, GotoType DEF Done

LEMMA RowType ==
  ASSUME NEW status \in RowStatus, NEW f \in Form
  PROVE  Row(status, f) \in LeaveRow /\ Row(status, f).status = status
BY DEF Row, LeaveRow, Form

\* The initial tables are well-typed, and no session has begun.
LEMMA InitType == Init => TypeInv
<1> SUFFICES ASSUME Init PROVE TypeInv
  OBVIOUS
<1>1. leave \in [Requests -> LeaveRow] /\ env \in [Requests -> EnvStatus]
  <2>1. PICK pending \in SUBSET Requests, form \in [Requests -> Form] :
          /\ leave = [r \in Requests |->
                        Row(IF r \in pending THEN "pending" ELSE "absent", form[r])]
          /\ env = [r \in Requests |-> IF r \in pending THEN "pending" ELSE "absent"]
    BY DEF Init, LedgerInit
  <2>2. \A r \in Requests :
          Row(IF r \in pending THEN "pending" ELSE "absent", form[r]) \in LeaveRow
    BY RowType DEF RowStatus
  <2> QED
    BY <2>1, <2>2 DEF EnvStatus
<1>2. bal \in [Balances -> BalanceRow]
  <2>1. Missing \in BalanceRow
    BY DEF Missing, BalanceRow
  <2>2. ASSUME NEW d \in Days PROVE Accrue(Missing, d) \in BalanceRow
    BY <2>1, AccrueType, LedgerAssumption DEF LedgerAssumption, Days
  <2> QED
    BY <2>1, <2>2 DEF Init, LedgerInit
<1>3. history \in [Balances -> Int]
  BY DEF Init, LedgerInit
<1>4. ctx \in [Workers -> Session]
  BY IdleSession DEF Init
<1> QED
  BY <1>1, <1>2, <1>3, <1>4 DEF TypeInv, LedgerTypeOK

\* A session that starts is a session.
LEMMA BeginSession ==
  ASSUME TypeInv, NEW w \in Workers, Begin(w)
  PROVE  \E c \in Session : Goto(w, c)
<1>1. CASE ApplyCheck(w)
  BY <1>1, IdleSession DEF ApplyCheck, Idle, Session, Context, Places
<1>2. CASE UpdateCheck(w)
  BY <1>2, IdleSession, SessionAssumption
  DEF UpdateCheck, SessionAssumption, Session, Context, Places, TypeInv, LedgerTypeOK
<1>3. CASE ApproveCheck(w)
  BY <1>3, IdleSession, SessionAssumption
  DEF ApproveCheck, SessionAssumption, Session, Context, Places
<1>4. CASE RejectCheck(w)
  BY <1>4, IdleSession, SessionAssumption
  DEF RejectCheck, SessionAssumption, Session, Context, Places
<1>5. CASE WithdrawCheck(w)
  BY <1>5, IdleSession, SessionAssumption
  DEF WithdrawCheck, SessionAssumption, Session, Context, Places
<1>6. CASE CancelCheck(w)
  BY <1>6, IdleSession, SessionAssumption
  DEF CancelCheck, SessionAssumption, Session, Context, Places, TypeInv, LedgerTypeOK
<1>7. CASE AdminRead(w)
  <2>1. PICK op \in AdminOps, b \in Balances, d \in Amounts :
          Goto(w, [Idle EXCEPT !.at = "admin.write", !.admin = op,
                               !.form.bal = b, !.amount = d, !.seen = bal[b]])
    BY <1>7 DEF AdminRead
  <2>2. [AnyForm EXCEPT !.bal = b] \in Form
    BY AnyFormType DEF Form
  <2>3. bal[b] \in BalanceRow /\ op \in AllAdminOps
    BY LedgerAssumption DEF LedgerAssumption, TypeInv, LedgerTypeOK
  <2> QED
    BY <2>1, <2>2, <2>3, IdleSession DEF Idle, Session, Context, Places
<1> QED
  BY <1>1, <1>2, <1>3, <1>4, <1>5, <1>6, <1>7 DEF Begin

\* Starting a session reads rows and writes none.
LEMMA BeginType ==
  ASSUME TypeInv, NEW w \in Workers, Begin(w)
  PROVE  TypeInv'
<1>1. UNCHANGED ledger
  BY DEF Begin, ApplyCheck, UpdateCheck, ApproveCheck, RejectCheck, WithdrawCheck,
    CancelCheck, AdminRead
<1>2. LedgerTypeOK'
  BY <1>1 DEF TypeInv, LedgerTypeOK, ledger
<1>3. ctx \in [Workers -> Session]
  BY DEF TypeInv
<1>4. ctx' \in [Workers -> Session]
  BY <1>3, BeginSession, GotoType
<1> QED
  BY <1>2, <1>4 DEF TypeInv

\* So does every later step of it.
LEMMA ContinueType ==
  ASSUME TypeInv, NEW w \in Workers, Continue(w) \/ Abort(w)
  PROVE  TypeInv'
<1>1. /\ leave \in [Requests -> LeaveRow] /\ env \in [Requests -> EnvStatus]
      /\ bal \in [Balances -> BalanceRow] /\ history \in [Balances -> Int]
      /\ ctx \in [Workers -> Session]
  BY DEF TypeInv, LedgerTypeOK
<1>2. PICK c \in Session : c = ctx[w]
  BY <1>1
<1>3. /\ c \in Context /\ c.row \in LeaveRow /\ c.form \in Form /\ c.seen \in BalanceRow
      /\ c.row.days \in Nat /\ c.row.status \in RowStatus
      /\ c.amount \in Int /\ c.admin \in AllAdminOps
  BY LedgerAssumption DEF LedgerAssumption, Session, Context, LeaveRow, Days, Amounts
<1>4. CASE ApplyInsert(w)
  <2>1. Row("pending", c.form) \in LeaveRow
    BY <1>3, RowType DEF RowStatus
  <2> QED
    BY <1>1, <1>2, <1>4, <2>1, DoneType
    DEF ApplyInsert, EnvStatus, TypeInv, LedgerTypeOK
<1>5. CASE UpdateWrite(w)
  <2> DEFINE new == Row(c.row.status, c.form)
  <2>1. new \in LeaveRow
    BY <1>3, RowType
  <2>2. \A r \in Requests : Flush(leave[r], c.row, new) \in LeaveRow
    BY <1>1, <1>3, <2>1, FlushLeave
  <2> QED
    BY <1>1, <1>2, <1>5, <2>2, DoneType DEF UpdateWrite, TypeInv, LedgerTypeOK
<1>6. CASE ApproveLoad(w)
  <2>1. [c EXCEPT !.at = "approve.mark", !.row = leave[c.req]] \in Session
    BY <1>1, <1>2, <1>3, <1>6 DEF ApproveLoad, Session, Context, Places
  <2> QED
    BY <1>1, <1>2, <1>6, <2>1, GotoType DEF ApproveLoad, TypeInv, LedgerTypeOK, ledger
<1>7. CASE ApproveMark(w)
  <2> DEFINE new == [c.row EXCEPT !.status = "approved"]
             row == Flush(leave[c.req], c.row, new)
             seen == bal[row.bal]
  <2>1. c.req \in Requests
    BY <1>2, <1>3, <1>7 DEF ApproveMark, Session, Context
  <2>2. new \in LeaveRow
    BY <1>3 DEF LeaveRow, RowStatus
  <2>3. row \in LeaveRow
    BY <1>1, <1>3, <2>1, <2>2, FlushLeave
  <2>4. seen \in BalanceRow
    BY <1>1, <2>3 DEF LeaveRow
  <2>5. [c EXCEPT !.at = "approve.commit", !.row = row, !.seen = seen] \in Session
    <3> HIDE DEF row, seen
    <3> QED
      BY <1>3, <2>1, <2>3, <2>4, SessionAssumption
      DEF SessionAssumption, Session, Context, Places
  <2>6. Goto(w, [c EXCEPT !.at = "approve.commit", !.row = row, !.seen = seen])
    BY <1>2, <1>7 DEF ApproveMark
  <2> QED
    BY <1>1, <1>7, <2>5, <2>6, GotoType DEF ApproveMark, TypeInv, LedgerTypeOK, ledger
<1>8. CASE ApproveCommit(w)
  <2> DEFINE new == Deduct(c.seen, c.row.days)
  <2>1. \A b \in Balances : Flush(bal[b], c.seen, new) \in BalanceRow
    BY <1>1, <1>3, ChargeType, FlushBalance
  <2> QED
    BY <1>1, <1>2, <1>3, <1>8, <2>1, DoneType
    DEF ApproveCommit, EnvStatus, TypeInv, LedgerTypeOK
<1>9. CASE RejectLoad(w)
  <2>1. [c EXCEPT !.at = "reject.commit", !.row = leave[c.req]] \in Session
    BY <1>1, <1>2, <1>3, <1>9 DEF RejectLoad, Session, Context, Places
  <2> QED
    BY <1>1, <1>2, <1>9, <2>1, GotoType DEF RejectLoad, TypeInv, LedgerTypeOK, ledger
<1>10. CASE RejectCommit(w)
  <2> DEFINE new == [c.row EXCEPT !.status = "rejected"]
  <2>1. new \in LeaveRow
    BY <1>3 DEF LeaveRow, RowStatus
  <2>2. \A r \in Requests : Flush(leave[r], c.row, new) \in LeaveRow
    BY <1>1, <1>3, <2>1, FlushLeave
  <2> QED
    BY <1>1, <1>2, <1>10, <2>2, DoneType
    DEF RejectCommit, EnvStatus, TypeInv, LedgerTypeOK
<1>11. CASE WithdrawDelete(w)
  <2>1. \A r \in Requests : [leave[r] EXCEPT !.status = "deleted"] \in LeaveRow
    BY <1>1 DEF LeaveRow, RowStatus
  <2> QED
    BY <1>1, <1>11, <2>1, DoneType DEF WithdrawDelete, EnvStatus, TypeInv, LedgerTypeOK
<1>12. CASE CancelRefund(w)
  <2>1. [c EXCEPT !.at = "cancel.commit", !.seen = bal[c.row.bal]] \in Session
    BY <1>1, <1>2, <1>3, <1>12 DEF CancelRefund, Session, Context, Places, LeaveRow
  <2> QED
    BY <1>1, <1>2, <1>12, <2>1, GotoType DEF CancelRefund, TypeInv, LedgerTypeOK, ledger
<1>13. CASE CancelCommit(w)
  <2> DEFINE new == Refund(c.seen, c.row.days)
  <2>1. \A b \in Balances : Flush(bal[b], c.seen, new) \in BalanceRow
    BY <1>1, <1>3, ChargeType, FlushBalance
  <2>2. \A r \in Requests : [leave[r] EXCEPT !.status = "cancelled"] \in LeaveRow
    BY <1>1 DEF LeaveRow, RowStatus
  <2> QED
    BY <1>1, <1>2, <1>13, <2>1, <2>2, DoneType DEF CancelCommit, TypeInv, LedgerTypeOK
<1>14. CASE AdminWrite(w)
  <2> DEFINE new == AdminResult(c.admin, c.seen, c.amount)
  <2>1. \A b \in Balances : Flush(bal[b], c.seen, new) \in BalanceRow
    BY <1>1, <1>3, AdminResultType, FlushBalance
  <2>2. Delta(c.admin, c.seen, c.amount) \in Int
    BY <1>3, DeltaType
  <2>3. \A b \in Balances : history[b] + Delta(c.admin, c.seen, c.amount) \in Int
    BY <1>1, <2>2
  <2> QED
    BY <1>1, <1>2, <1>14, <2>1, <2>3, DoneType DEF AdminWrite, TypeInv, LedgerTypeOK
<1>15. CASE Refuse(w) \/ Abort(w)
  BY <1>1, <1>15, DoneType DEF Refuse, Abort, TypeInv, LedgerTypeOK, ledger
<1> QED
  BY <1>4, <1>5, <1>6, <1>7, <1>8, <1>9, <1>10, <1>11, <1>12, <1>13, <1>14, <1>15
  DEF Continue

LEMMA StepType == TypeInv /\ [Next]_vars => TypeInv'
<1> SUFFICES ASSUME TypeInv, [Next]_vars PROVE TypeInv'
  OBVIOUS
<1>1. CASE UNCHANGED vars
  BY <1>1 DEF vars, ledger, TypeInv, LedgerTypeOK
<1>2. CASE Next
  BY <1>2, BeginType, ContinueType DEF Next
<1> QED
  BY <1>1, <1>2

LEMMA TypeInvariant == Spec => []TypeInv
<1> QED
  BY InitType, StepType, PTL DEF Spec

\* The tables and the sessions keep their types.
THEOREM Typed == Spec => []TypeOK
<1>1. TypeInv => TypeOK
  BY DEF TypeInv, TypeOK, Session
<1> QED
  BY <1>1, TypeInvariant, PTL

-------------------------------------------------------------------------------
(* Requests and envelopes *)

\* What a session may still do to a request it has loaded: a status that was no
\* longer pending when it was read is not pending now, and a row that was read
\* exists or did exist.
LoadedStatus ==
  \A w \in Workers :
    LET c == ctx[w] IN
    /\ c.at \in {"approve.mark", "reject.commit"} =>
         /\ leave[c.req].status # "absent"
         /\ c.row.status # "pending" => leave[c.req].status # "pending"
    /\ c.at = "approve.commit" => c.row.status \notin {"absent", "pending"}

\* A request that was never stored has no envelope.
AbsentTogether ==
  \A r \in Requests : leave[r].status = "absent" => env[r] = "absent"

DecisionInv == TypeInv /\ PendingIsReviewable /\ AbsentTogether /\ LoadedStatus

\* How one step changes the status of a request and of its envelope: not at all,
\* by storing both, by deciding or deleting both, or by cancelling the request.
StatusStep(r) ==
  \/ leave'[r].status = leave[r].status /\ env'[r] = env[r]
  \/ leave[r].status = "absent" /\ leave'[r].status = "pending" /\ env'[r] = "pending"
  \/ leave'[r].status \notin {"absent", "pending"} /\ env'[r] # "pending"
  \/ /\ "cancelled" \in StatusCheck
     /\ leave[r].status # "absent" /\ leave'[r].status = "cancelled" /\ env'[r] = env[r]

LEMMA StatusChange ==
  ASSUME TypeInv, LoadedStatus, [Next]_vars
  PROVE  \A r \in Requests : StatusStep(r)
<1>1. /\ leave \in [Requests -> LeaveRow] /\ env \in [Requests -> EnvStatus]
      /\ ctx \in [Workers -> Session]
  BY DEF TypeInv, LedgerTypeOK
<1>2. CASE leave' = leave /\ env' = env
  BY <1>2 DEF StatusStep
<1>3. ASSUME NEW w \in Workers, Continue(w)
      PROVE  \A r \in Requests : StatusStep(r)
  <2>1. PICK c \in Session : c = ctx[w]
    BY <1>1
  <2>2. c \in Context /\ c.row \in LeaveRow /\ c.form \in Form
    BY DEF Session, Context
  <2>3. CASE ApplyInsert(w)
    <3>1. PICK q \in Requests :
            /\ leave[q].status = "absent"
            /\ leave' = [leave EXCEPT ![q] = Row("pending", c.form)]
            /\ env' = [env EXCEPT ![q] = "pending"]
      BY <2>1, <2>3 DEF ApplyInsert
    <3>2. Row("pending", c.form).status = "pending"
      BY DEF Row
    <3> QED
      BY <1>1, <3>1, <3>2 DEF StatusStep
  <2>4. CASE UpdateWrite(w)
    <3> DEFINE new == Row(c.row.status, c.form)
    <3>1. new \in LeaveRow /\ new.status = c.row.status
      BY <2>2, RowType DEF LeaveRow
    <3>2. \A r \in Requests : Flush(leave[r], c.row, new).status = leave[r].status
      BY <1>1, <2>2, <3>1, FlushLeave
    <3>3. /\ leave' = [leave EXCEPT ![c.req] = Flush(@, c.row, new)]
          /\ env' = env
      BY <2>1, <2>4 DEF UpdateWrite
    <3> HIDE DEF new
    <3> QED
      BY <1>1, <3>2, <3>3 DEF StatusStep
  <2>5. CASE ApproveCommit(w)
    <3>1. c.row.status \notin {"absent", "pending"}
      BY <2>1, <2>5 DEF ApproveCommit, LoadedStatus
    <3>2. /\ leave' = [leave EXCEPT ![c.req] = c.row]
          /\ env' = [env EXCEPT ![c.req] = "approved"]
      BY <2>1, <2>5 DEF ApproveCommit
    <3> QED
      BY <1>1, <3>1, <3>2 DEF StatusStep
  <2>6. CASE RejectCommit(w)
    <3> DEFINE new == [c.row EXCEPT !.status = "rejected"]
               row == Flush(leave[c.req], c.row, new)
    <3>1. c.req \in Requests
      BY <2>1, <2>6 DEF RejectCommit, Session, Context
    <3>2. new \in LeaveRow /\ new.status = "rejected"
      BY <2>2 DEF LeaveRow, RowStatus
    <3>3. /\ leave' = [leave EXCEPT ![c.req] = row]
          /\ env' = [env EXCEPT ![c.req] = "rejected"]
      BY <2>1, <2>6 DEF RejectCommit
    <3>4. /\ leave[c.req].status # "absent"
          /\ c.row.status # "pending" => leave[c.req].status # "pending"
      BY <2>1, <2>6 DEF RejectCommit, LoadedStatus
    <3> HIDE DEF new
    <3>5. row.status = IF new.status # c.row.status THEN new.status ELSE leave[c.req].status
      BY <1>1, <2>2, <3>1, <3>2, FlushLeave
    <3>6. row.status \notin {"absent", "pending"}
      BY <3>2, <3>4, <3>5
    <3> HIDE DEF row
    <3> QED
      BY <1>1, <3>3, <3>6 DEF StatusStep
  <2>7. CASE WithdrawDelete(w)
    <3>1. /\ leave' = [leave EXCEPT ![c.req].status = "deleted"]
          /\ env' = [env EXCEPT ![c.req] = "deleted"]
      BY <2>1, <2>7 DEF WithdrawDelete
    <3>2. \A r \in Requests : [leave[r] EXCEPT !.status = "deleted"].status = "deleted"
      BY <1>1 DEF LeaveRow
    <3> QED
      BY <1>1, <3>1, <3>2 DEF StatusStep
  <2>8. CASE CancelCommit(w)
    <3>1. /\ leave' = [leave EXCEPT ![c.req].status = "cancelled"]
          /\ env' = env
          /\ "cancelled" \in StatusCheck /\ leave[c.req].status # "absent"
      BY <2>1, <2>8 DEF CancelCommit, Stored
    <3>2. \A r \in Requests : [leave[r] EXCEPT !.status = "cancelled"].status = "cancelled"
      BY <1>1 DEF LeaveRow
    <3> QED
      BY <1>1, <3>1, <3>2 DEF StatusStep
  <2>9. CASE ApproveLoad(w) \/ ApproveMark(w) \/ RejectLoad(w) \/ CancelRefund(w) \/ Refuse(w)
    BY <1>2, <2>9 DEF ApproveLoad, ApproveMark, RejectLoad, CancelRefund, Refuse, ledger
  <2>10. CASE AdminWrite(w)
    BY <1>2, <2>10 DEF AdminWrite
  <2> QED
    BY <1>3, <2>3, <2>4, <2>5, <2>6, <2>7, <2>8, <2>9, <2>10 DEF Continue
<1>4. ASSUME NEW w \in Workers, Begin(w) \/ Abort(w)
      PROVE  leave' = leave /\ env' = env
  BY <1>4 DEF Begin, ApplyCheck, UpdateCheck, ApproveCheck, RejectCheck, WithdrawCheck,
    CancelCheck, AdminRead, Abort, ledger
<1> QED
  BY <1>2, <1>3, <1>4 DEF Next, vars, ledger

\* What a session knows of its row when a step brings it to a decision.
LEMMA LoadedStep ==
  ASSUME TypeInv, LoadedStatus, NEW w \in Workers, Begin(w) \/ Continue(w) \/ Abort(w)
  PROVE  /\ \A v \in Workers \ {w} : ctx'[v] = ctx[v]
         /\ LET c == ctx'[w] IN
            /\ c.at \in {"approve.mark", "reject.commit"} =>
                 c.req \in Requests /\ Stored(c.req) /\ c.row = leave[c.req] /\ leave' = leave
            /\ c.at = "approve.commit" => c.row.status \notin {"absent", "pending"}
<1>1. ctx \in [Workers -> Session] /\ leave \in [Requests -> LeaveRow]
  BY DEF TypeInv, LedgerTypeOK
<1>2. PICK c \in Session : c = ctx[w]
  BY <1>1
<1>3. c \in Context /\ c.row \in LeaveRow
  BY DEF Session, Context
<1>4. CASE Begin(w)
  <2> USE <1>1 DEF Goto, Idle
  <2>1. CASE ApplyCheck(w)
    BY <2>1 DEF ApplyCheck
  <2>2. CASE UpdateCheck(w)
    BY <2>2 DEF UpdateCheck
  <2>3. CASE ApproveCheck(w)
    BY <2>3 DEF ApproveCheck
  <2>4. CASE RejectCheck(w)
    BY <2>4 DEF RejectCheck
  <2>5. CASE WithdrawCheck(w)
    BY <2>5 DEF WithdrawCheck
  <2>6. CASE CancelCheck(w)
    BY <2>6 DEF CancelCheck
  <2>7. CASE AdminRead(w)
    BY <2>7 DEF AdminRead
  <2> QED
    BY <1>4, <2>1, <2>2, <2>3, <2>4, <2>5, <2>6, <2>7 DEF Begin
<1>5. CASE ApproveMark(w)
  <2> DEFINE new == [c.row EXCEPT !.status = "approved"]
             row == Flush(leave[c.req], c.row, new)
  <2>1. c.req \in Requests /\ leave[c.req].status # "absent"
    BY <1>2, <1>3, <1>5 DEF ApproveMark, Session, Context, Stored
  <2>2. c.row.status # "pending" => leave[c.req].status # "pending"
    BY <1>2, <1>5 DEF ApproveMark, LoadedStatus
  <2>3. new \in LeaveRow /\ new.status = "approved"
    BY <1>3 DEF LeaveRow, RowStatus
  <2>4. Goto(w, [c EXCEPT !.at = "approve.commit", !.row = row, !.seen = bal[row.bal]])
    BY <1>2, <1>5 DEF ApproveMark
  <2> HIDE DEF new
  <2>5. row.status = IF new.status # c.row.status THEN new.status ELSE leave[c.req].status
    BY <1>1, <1>3, <2>1, <2>3, FlushLeave
  <2>6. row.status \notin {"absent", "pending"}
    BY <2>1, <2>2, <2>3, <2>5
  <2> HIDE DEF row
  <2> QED
    BY <1>1, <1>3, <2>4, <2>6 DEF Goto, Context
<1>6. CASE ApproveLoad(w)
  BY <1>1, <1>2, <1>3, <1>6 DEF ApproveLoad, Goto, Context, Session, Places, ledger
<1>7. CASE RejectLoad(w)
  BY <1>1, <1>2, <1>3, <1>7 DEF RejectLoad, Goto, Context, Session, Places, ledger
<1>8. CASE CancelRefund(w)
  BY <1>1, <1>2, <1>3, <1>8 DEF CancelRefund, Goto, Context
<1>9. CASE Done(w)
  BY <1>1, <1>9 DEF Done, Goto, Idle
<1>10. ASSUME Continue(w) \/ Abort(w)
       PROVE  \/ ApproveMark(w) \/ ApproveLoad(w) \/ RejectLoad(w) \/ CancelRefund(w) \/ Done(w)
  BY <1>10 DEF Continue, Abort, ApplyInsert, UpdateWrite, ApproveCommit, RejectCommit,
    WithdrawDelete, CancelCommit, AdminWrite, Refuse
<1> QED
  BY <1>4, <1>5, <1>6, <1>7, <1>8, <1>9, <1>10

LEMMA DecisionInit == Init => DecisionInv
<1> SUFFICES ASSUME Init PROVE DecisionInv
  OBVIOUS
<1>1. TypeInv
  BY InitType
<1>2. PICK pending \in SUBSET Requests, form \in [Requests -> Form] :
        /\ leave = [r \in Requests |->
                      Row(IF r \in pending THEN "pending" ELSE "absent", form[r])]
        /\ env = [r \in Requests |-> IF r \in pending THEN "pending" ELSE "absent"]
  BY DEF Init, LedgerInit
<1>3. \A r \in Requests : leave[r].status = env[r]
  BY <1>2 DEF Row
<1>4. LoadedStatus
  BY DEF Init, LoadedStatus, Idle
<1> QED
  BY <1>1, <1>3, <1>4 DEF DecisionInv, PendingIsReviewable, AbsentTogether

LEMMA DecisionStep == DecisionInv /\ [Next]_vars => DecisionInv'
<1> SUFFICES ASSUME DecisionInv, [Next]_vars PROVE DecisionInv'
  OBVIOUS
<1>1. TypeInv /\ PendingIsReviewable /\ AbsentTogether /\ LoadedStatus
  BY DEF DecisionInv
<1>2. TypeInv'
  BY <1>1, StepType
<1>3. \A r \in Requests : StatusStep(r)
  BY <1>1, StatusChange
<1>4. PendingIsReviewable'
  BY <1>1, <1>3 DEF PendingIsReviewable, StatusStep
<1>5. AbsentTogether'
  BY <1>1, <1>3 DEF AbsentTogether, StatusStep
<1>6. \A r \in Requests :
        leave[r].status # "absent" =>
          /\ leave'[r].status # "absent"
          /\ leave[r].status # "pending" => leave'[r].status # "pending"
  BY <1>3 DEF StatusStep
<1>7. LoadedStatus'
  <2>1. CASE UNCHANGED vars
    BY <1>1, <2>1 DEF vars, ledger, LoadedStatus
  <2>2. ASSUME NEW w \in Workers, Begin(w) \/ Continue(w) \/ Abort(w)
        PROVE  LoadedStatus'
    <3>1. /\ \A v \in Workers \ {w} : ctx'[v] = ctx[v]
          /\ LET c == ctx'[w] IN
             /\ c.at \in {"approve.mark", "reject.commit"} =>
                  c.req \in Requests /\ Stored(c.req) /\ c.row = leave[c.req] /\ leave' = leave
             /\ c.at = "approve.commit" => c.row.status \notin {"absent", "pending"}
      BY <1>1, <2>2, LoadedStep
    <3>2. ASSUME NEW v \in Workers, v # w, ctx[v].at \in {"approve.mark", "reject.commit"}
          PROVE  ctx[v].req \in Requests
      BY <1>1, <3>2 DEF TypeInv, Session, Context
    <3> QED
      BY <1>1, <1>6, <3>1, <3>2 DEF LoadedStatus, Stored
  <2> QED
    BY <2>1, <2>2 DEF Next
<1> QED
  BY <1>2, <1>4, <1>5, <1>7 DEF DecisionInv

LEMMA DecisionInvariant == Spec => []DecisionInv
<1> QED
  BY DecisionInit, DecisionStep, PTL DEF Spec

\* No pending request is without a pending envelope, however sessions interleave.
THEOREM Reviewable == Spec => []PendingIsReviewable
<1>1. DecisionInv => PendingIsReviewable
  BY DEF DecisionInv
<1> QED
  BY <1>1, DecisionInvariant, PTL

\* What was decided never becomes pending again.
THEOREM NeverReopens == Spec => DecidedNeverReopens
<1>1. DecisionInv /\ [Next]_vars =>
        [\A r \in Requests :
           env[r] \in {"approved", "rejected"}
             => env'[r] # "pending" /\ leave'[r].status # "pending"]_vars
  <2> SUFFICES ASSUME DecisionInv, [Next]_vars, NEW r \in Requests,
                      env[r] \in {"approved", "rejected"}
               PROVE  env'[r] # "pending" /\ leave'[r].status # "pending"
    OBVIOUS
  <2>1. leave[r].status \notin {"absent", "pending"}
    BY DEF DecisionInv, PendingIsReviewable, AbsentTogether
  <2>2. StatusStep(r)
    BY StatusChange DEF DecisionInv
  <2> QED
    BY <2>1, <2>2 DEF StatusStep
<1> QED
  BY <1>1, DecisionInvariant, PTL DEF Spec, DecidedNeverReopens

\* While the database refuses the status "cancelled", an envelope in the queue
\* stands for a request that is still pending.
THEOREM Current ==
  ASSUME "cancelled" \notin StatusCheck
  PROVE  Spec => []EnvelopeIsCurrent
<1>1. Init => EnvelopeIsCurrent
  <2> SUFFICES ASSUME Init PROVE EnvelopeIsCurrent
    OBVIOUS
  <2>1. PICK pending \in SUBSET Requests, form \in [Requests -> Form] :
          /\ leave = [r \in Requests |->
                        Row(IF r \in pending THEN "pending" ELSE "absent", form[r])]
          /\ env = [r \in Requests |-> IF r \in pending THEN "pending" ELSE "absent"]
    BY DEF Init, LedgerInit
  <2> QED
    BY <2>1 DEF EnvelopeIsCurrent, Row
<1>2. DecisionInv /\ EnvelopeIsCurrent /\ [Next]_vars => EnvelopeIsCurrent'
  <2> SUFFICES ASSUME DecisionInv, EnvelopeIsCurrent, [Next]_vars PROVE EnvelopeIsCurrent'
    OBVIOUS
  <2>1. \A r \in Requests : StatusStep(r)
    BY StatusChange DEF DecisionInv
  <2> QED
    BY <2>1 DEF EnvelopeIsCurrent, StatusStep
<1> QED
  BY <1>1, <1>2, DecisionInvariant, PTL DEF Spec

-------------------------------------------------------------------------------
(* Balances *)

\* What the sessions know of the balances they are going to write: each read a
\* value that was not negative, and the one that subtracts read enough.
SeenCovers ==
  \A w \in Workers :
    LET c == ctx[w] IN
    /\ c.seen.closing >= 0
    /\ c.at = "approve.commit" => c.seen.closing >= c.row.days
    /\ c.at = "admin.write" =>
         /\ c.admin \in ByHand
         /\ c.admin = "debit" => c.seen.closing >= c.amount

BalanceInv == TypeInv /\ NoOverdraft /\ SeenCovers

\* The closing balance an operation by hand leaves.
LEMMA ByHandClosing ==
  ASSUME NEW op \in ByHand, NEW row \in BalanceRow, NEW d \in Nat,
         row.closing >= 0, op = "debit" => row.closing >= d
  PROVE  AdminResult(op, row, d).closing >= 0
<1>1. CASE op = "credit"
  <2>1. AdminResult(op, row, d).closing = row.closing + d
    BY <1>1 DEF AdminResult, Credit, Created, BalanceRow
  <2> QED
    BY <2>1 DEF BalanceRow
<1>2. CASE op = "debit"
  <2>1. AdminResult(op, row, d).closing = row.closing - d
    BY <1>2 DEF AdminResult, Debit, BalanceRow
  <2> QED
    BY <1>2, <2>1 DEF BalanceRow
<1>3. CASE op = "adjust"
  <2>1. AdminResult(op, row, d) = Adjust(row, d)
    BY <1>3 DEF AdminResult
  <2>2. Adjust(row, d).closing = d
    BY DEF Adjust, Created, BalanceRow
  <2> QED
    BY <2>1, <2>2
<1> QED
  BY <1>1, <1>2, <1>3 DEF ByHand

\* A row written from a read that was not negative is not negative.
LEMMA FlushClosing ==
  ASSUME NEW stored \in BalanceRow, NEW loaded \in BalanceRow, NEW new \in BalanceRow,
         stored.closing >= 0, new.closing >= 0
  PROVE  Flush(stored, loaded, new).closing >= 0
BY FlushBalance

\* No step leaves a balance negative.
LEMMA ClosingStep ==
  ASSUME BalanceInv, [Next]_vars
  PROVE  NoOverdraft'
<1>1. /\ bal \in [Balances -> BalanceRow] /\ ctx \in [Workers -> Session]
      /\ \A b \in Balances : bal[b].closing >= 0
  BY DEF BalanceInv, TypeInv, LedgerTypeOK, NoOverdraft
<1>2. CASE bal' = bal
  BY <1>1, <1>2 DEF NoOverdraft
<1>3. ASSUME NEW w \in Workers, NEW b \in Balances, NEW new \in BalanceRow, new.closing >= 0,
             bal' = [bal EXCEPT ![b] = Flush(@, ctx[w].seen, new)]
      PROVE  NoOverdraft'
  <2>1. ctx[w].seen \in BalanceRow
    BY <1>1 DEF Session, Context
  <2>2. Flush(bal[b], ctx[w].seen, new).closing >= 0
    BY <1>1, <1>3, <2>1, FlushClosing
  <2> QED
    BY <1>1, <1>3, <2>2 DEF NoOverdraft
<1>4. ASSUME NEW w \in Workers, Continue(w)
      PROVE  NoOverdraft'
  <2>1. PICK c \in Context : c = ctx[w]
    BY <1>1 DEF Session
  <2>2. /\ c.row \in LeaveRow /\ c.row.bal \in Balances /\ c.row.days \in Nat
        /\ c.form.bal \in Balances
        /\ c.seen \in BalanceRow /\ c.seen.closing \in Int
        /\ c.amount \in Nat /\ c.amount \in Int
    BY LedgerAssumption
    DEF LedgerAssumption, Context, LeaveRow, Form, Days, Amounts, BalanceRow
  <2>3. /\ c.seen.closing >= 0
        /\ c.at = "approve.commit" => c.seen.closing >= c.row.days
        /\ c.at = "admin.write" =>
             c.admin \in ByHand /\ (c.admin = "debit" => c.seen.closing >= c.amount)
    BY <2>1 DEF BalanceInv, SeenCovers
  <2>4. CASE ApproveCommit(w)
    <3> DEFINE new == Deduct(c.seen, c.row.days)
    <3>1. new \in BalanceRow /\ new.closing = c.seen.closing - c.row.days
      BY <2>2, ChargeType
    <3>2. c.seen.closing >= c.row.days
      BY <2>1, <2>3, <2>4 DEF ApproveCommit
    <3>3. bal' = [bal EXCEPT ![c.row.bal] = Flush(@, ctx[w].seen, new)]
      BY <2>1, <2>4 DEF ApproveCommit
    <3> HIDE DEF new
    <3>4. new.closing >= 0
      BY <2>2, <3>1, <3>2
    <3> QED
      BY <1>3, <2>2, <3>1, <3>3, <3>4
  <2>5. CASE CancelCommit(w)
    <3> DEFINE new == Refund(c.seen, c.row.days)
    <3>1. new \in BalanceRow /\ new.closing = c.seen.closing + c.row.days
      BY <2>2, ChargeType
    <3>2. \/ bal' = bal
          \/ bal' = [bal EXCEPT ![c.row.bal] = Flush(@, ctx[w].seen, new)]
      BY <2>1, <2>5 DEF CancelCommit
    <3> HIDE DEF new
    <3>3. new.closing >= 0
      BY <2>2, <2>3, <3>1
    <3> QED
      BY <1>2, <1>3, <2>2, <3>1, <3>2, <3>3
  <2>6. CASE AdminWrite(w)
    <3> DEFINE new == AdminResult(c.admin, c.seen, c.amount)
    <3>1. c.admin \in ByHand /\ (c.admin = "debit" => c.seen.closing >= c.amount)
      BY <2>1, <2>3, <2>6 DEF AdminWrite
    <3>2. new \in BalanceRow
      BY <2>2, <3>1, AdminResultType DEF ByHand, AllAdminOps
    <3>3. new.closing >= 0
      BY <2>2, <2>3, <3>1, ByHandClosing
    <3>4. bal' = [bal EXCEPT ![c.form.bal] = Flush(@, ctx[w].seen, new)]
      BY <2>1, <2>6 DEF AdminWrite
    <3> HIDE DEF new
    <3> QED
      BY <1>3, <2>2, <3>2, <3>3, <3>4
  <2>7. CASE ~(ApproveCommit(w) \/ CancelCommit(w) \/ AdminWrite(w))
    BY <1>2, <1>4, <2>7
    DEF Continue, ApplyInsert, UpdateWrite, ApproveLoad, ApproveMark,
      RejectLoad, RejectCommit, WithdrawDelete, CancelRefund, Refuse, ledger
  <2> QED
    BY <2>4, <2>5, <2>6, <2>7
<1>5. ASSUME NEW w \in Workers, Begin(w) \/ Abort(w)
      PROVE  bal' = bal
  BY <1>5 DEF Begin, ApplyCheck, UpdateCheck, ApproveCheck, RejectCheck, WithdrawCheck,
    CancelCheck, AdminRead, Abort, ledger
<1> QED
  BY <1>2, <1>4, <1>5 DEF Next, vars, ledger

\* Every session keeps to what it has read.
LEMMA SeenStep ==
  ASSUME AdminOps \subseteq ByHand, BalanceInv, [Next]_vars
  PROVE  SeenCovers'
<1>1. /\ bal \in [Balances -> BalanceRow] /\ leave \in [Requests -> LeaveRow]
      /\ ctx \in [Workers -> Session]
      /\ \A b \in Balances : bal[b].closing >= 0
  BY DEF BalanceInv, TypeInv, LedgerTypeOK, NoOverdraft
<1> DEFINE Covers(c) ==
             /\ c.seen.closing >= 0
             /\ c.at = "approve.commit" => c.seen.closing >= c.row.days
             /\ c.at = "admin.write" =>
                  /\ c.admin \in ByHand
                  /\ c.admin = "debit" => c.seen.closing >= c.amount
<1>2. \A w \in Workers : Covers(ctx[w])
  BY DEF BalanceInv, SeenCovers
<1>3. Covers(Idle)
  BY DEF Idle, Missing
<1>4. ASSUME NEW w \in Workers, NEW c \in Session, Goto(w, c), Covers(c)
      PROVE  SeenCovers'
  BY <1>1, <1>2, <1>4 DEF Goto, SeenCovers
<1>5. ASSUME NEW w \in Workers, Done(w)
      PROVE  SeenCovers'
  BY <1>3, <1>4, <1>5, IdleSession DEF Done
<1>6. ASSUME NEW w \in Workers, Begin(w)
      PROVE  SeenCovers'
  <2>1. PICK c \in Session : Goto(w, c) /\ Covers(c)
    <3>1. CASE AdminRead(w)
      <4>1. PICK op \in AdminOps, b \in Balances, d \in Amounts :
              /\ Admitted(op, b, d)
              /\ Goto(w, [Idle EXCEPT !.at = "admin.write", !.admin = op,
                                      !.form.bal = b, !.amount = d, !.seen = bal[b]])
        BY <3>1 DEF AdminRead
      <4> DEFINE c == [Idle EXCEPT !.at = "admin.write", !.admin = op,
                                   !.form.bal = b, !.amount = d, !.seen = bal[b]]
      <4>2. [AnyForm EXCEPT !.bal = b] \in Form
        BY AnyFormType DEF Form
      <4>3. bal[b] \in BalanceRow /\ op \in AllAdminOps
        BY <1>1, LedgerAssumption DEF LedgerAssumption
      <4>4. c \in Session
        BY <4>2, <4>3, IdleSession DEF Idle, Session, Context, Places
      <4>5. /\ c.at = "admin.write" /\ c.admin = op /\ c.amount = d /\ c.seen = bal[b]
        BY DEF Idle
      <4>6. op = "debit" => bal[b].closing >= d
        BY <4>1 DEF Admitted, Sufficient
      <4> HIDE DEF c
      <4>7. Covers(c)
        BY <1>1, <4>5, <4>6
      <4> QED
        BY <4>1, <4>4, <4>7 DEF c
    <3>2. CASE ~AdminRead(w)
      <4>1. PICK c \in Session : Goto(w, c)
        BY <1>6, BeginSession DEF BalanceInv
      <4>2. ctx'[w].seen = Missing /\ ctx'[w].at \notin {"approve.commit", "admin.write"}
        <5> USE <1>1 DEF Goto, Idle
        <5>1. CASE ApplyCheck(w)
          BY <5>1 DEF ApplyCheck
        <5>2. CASE UpdateCheck(w)
          BY <5>2 DEF UpdateCheck
        <5>3. CASE ApproveCheck(w)
          BY <5>3 DEF ApproveCheck
        <5>4. CASE RejectCheck(w)
          BY <5>4 DEF RejectCheck
        <5>5. CASE WithdrawCheck(w)
          BY <5>5 DEF WithdrawCheck
        <5>6. CASE CancelCheck(w)
          BY <5>6 DEF CancelCheck
        <5> QED
          BY <1>6, <3>2, <5>1, <5>2, <5>3, <5>4, <5>5, <5>6 DEF Begin
      <4>3. Covers(c)
        BY <1>1, <4>1, <4>2 DEF Goto, Missing
      <4> QED
        BY <4>1, <4>3
    <3> QED
      BY <3>1, <3>2
  <2> QED
    BY <1>4, <2>1
<1>7. ASSUME NEW w \in Workers, Continue(w) \/ Abort(w)
      PROVE  SeenCovers'
  <2>1. PICK c \in Session : c = ctx[w]
    BY <1>1
  <2>2. c \in Context /\ c.row \in LeaveRow /\ Covers(c)
    BY <1>2, <2>1 DEF Session, Context
  <2>3. CASE ApproveMark(w)
    <3> DEFINE row == Flush(leave[c.req], c.row, [c.row EXCEPT !.status = "approved"])
               next == [c EXCEPT !.at = "approve.commit", !.row = row, !.seen = bal[row.bal]]
    <3>1. c.req \in Requests
      BY <2>1, <2>2, <2>3 DEF ApproveMark, Session, Context
    <3>2. row \in LeaveRow
      BY <1>1, <2>2, <3>1, FlushLeave DEF LeaveRow, RowStatus
    <3>3. bal[row.bal] \in BalanceRow /\ bal[row.bal].closing >= 0
      BY <1>1, <3>2 DEF LeaveRow
    <3>4. bal[row.bal].closing >= row.days /\ Goto(w, next)
      BY <2>1, <2>3 DEF ApproveMark, Sufficient
    <3> HIDE DEF row
    <3>5. next \in Session
      BY <2>2, <3>1, <3>2, <3>3, SessionAssumption
      DEF SessionAssumption, Session, Context, Places
    <3>6. Covers(next)
      BY <2>2, <3>3, <3>4 DEF Context
    <3> QED
      BY <1>4, <3>4, <3>5, <3>6
  <2>4. CASE ApproveLoad(w)
    <3> DEFINE next == [c EXCEPT !.at = "approve.mark", !.row = leave[c.req]]
    <3>1. next \in Session /\ next.at = "approve.mark" /\ next.seen = c.seen
      BY <1>1, <2>1, <2>2, <2>4 DEF ApproveLoad, Session, Context, Places
    <3>2. Goto(w, next)
      BY <2>1, <2>4 DEF ApproveLoad
    <3> QED
      BY <1>4, <2>2, <3>1, <3>2
  <2>5. CASE RejectLoad(w)
    <3> DEFINE next == [c EXCEPT !.at = "reject.commit", !.row = leave[c.req]]
    <3>1. next \in Session /\ next.at = "reject.commit" /\ next.seen = c.seen
      BY <1>1, <2>1, <2>2, <2>5 DEF RejectLoad, Session, Context, Places
    <3>2. Goto(w, next)
      BY <2>1, <2>5 DEF RejectLoad
    <3> QED
      BY <1>4, <2>2, <3>1, <3>2
  <2>6. CASE CancelRefund(w)
    <3> DEFINE seen == bal[c.row.bal]
               next == [c EXCEPT !.at = "cancel.commit", !.seen = seen]
    <3>1. seen \in BalanceRow /\ seen.closing >= 0
      BY <1>1, <2>2 DEF LeaveRow
    <3>2. Goto(w, next)
      BY <2>1, <2>6 DEF CancelRefund
    <3>3. c.req # NoRequest
      BY <2>1, <2>6 DEF CancelRefund, Session
    <3> HIDE DEF seen
    <3>4. next \in Session /\ next.at = "cancel.commit" /\ next.seen = seen
      BY <2>2, <3>1, <3>3 DEF Session, Context, Places
    <3> QED
      BY <1>4, <3>1, <3>2, <3>4
  <2>7. CASE Done(w)
    BY <1>5, <2>7
  <2> QED
    BY <1>7, <2>3, <2>4, <2>5, <2>6, <2>7 DEF Continue, Abort, ApplyInsert, UpdateWrite,
      ApproveCommit, RejectCommit, WithdrawDelete, CancelCommit, AdminWrite, Refuse
<1>8. CASE UNCHANGED vars
  BY <1>2, <1>8 DEF vars, ledger, SeenCovers
<1> QED
  BY <1>6, <1>7, <1>8 DEF Next

\* Where only credits, debits and adjustments compete with the decisions, no
\* closing balance is ever negative, though every check is made on a stale read.
THEOREM NeverOverdrawn ==
  ASSUME AdminOps \subseteq ByHand
  PROVE  Spec => []NoOverdraft
<1>1. Init => BalanceInv
  <2> SUFFICES ASSUME Init PROVE BalanceInv
    OBVIOUS
  <2>1. \A d \in Days : Accrue(Missing, d).closing >= 0
    BY LedgerAssumption DEF LedgerAssumption, Days, Accrue, Created, Missing
  <2>2. Missing.closing >= 0
    BY DEF Missing
  <2>3. bal \in [Balances -> {Missing} \cup {Accrue(Missing, d) : d \in Days}]
    BY DEF Init, LedgerInit
  <2>4. NoOverdraft
    BY <2>1, <2>2, <2>3 DEF NoOverdraft
  <2>5. SeenCovers
    BY DEF Init, SeenCovers, Idle, Missing
  <2> QED
    BY <2>4, <2>5, InitType DEF BalanceInv
<1>2. BalanceInv /\ [Next]_vars => BalanceInv'
  BY StepType, ClosingStep, SeenStep DEF BalanceInv
<1>3. BalanceInv => NoOverdraft
  BY DEF BalanceInv
<1> QED
  BY <1>1, <1>2, <1>3, PTL DEF Spec
===============================================================================
