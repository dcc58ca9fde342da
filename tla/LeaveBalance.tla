----------------------------- MODULE LeaveBalance -----------------------------
(***************************************************************************)
(* The row of employee_leave_balances and the arithmetic the services do   *)
(* on it.  opening_balance, carried_forward and encashed are created as 0  *)
(* and no service ever writes them, so they are left out.                  *)
(***************************************************************************)
EXTENDS Integers

BalanceRow ==
  [exists : BOOLEAN, allocated : Int, adjusted : Int, used : Int, closing : Int]

Missing ==
  [exists |-> FALSE, allocated |-> 0, adjusted |-> 0, used |-> 0, closing |-> 0]

\* The row every service inserts when it finds none.
Created(row) == [row EXCEPT !.exists = TRUE]

\* closing_balance + days, recorded as a hand-made adjustment.
Credit(row, days) ==
  [Created(row) EXCEPT !.adjusted = @ + days, !.closing = @ + days]

Debit(row, days) ==
  [row EXCEPT !.adjusted = @ - days, !.closing = @ - days]

\* Set closing_balance to a target; the difference goes to adjusted.
Adjust(row, target) ==
  [Created(row) EXCEPT !.adjusted = @ + (target - row.closing), !.closing = target]

\* assign_leave_types sets allocated and recomputes the closing balance from
\* its parts; days = 0 leaves the allocation as it is.
Assign(row, days) ==
  LET allocated == IF days > 0 THEN days ELSE row.allocated
  IN  [Created(row) EXCEPT !.allocated = allocated,
                           !.closing = allocated + row.adjusted - row.used]

Unassign(row) ==
  [Created(row) EXCEPT !.allocated = 0, !.closing = row.adjusted - row.used]

\* One accrual: allocate_leave adds to what is allocated already.
Accrue(row, days) ==
  [Created(row) EXCEPT !.allocated = @ + days, !.closing = @ + days]

\* Approval of a leave request.
Deduct(row, days) ==
  [row EXCEPT !.used = @ + days, !.closing = @ - days]

RefundLosingUsed(row, days) == [row EXCEPT !.closing = @ + days]

RefundLosingClosing(row, days) ==
  [row EXCEPT !.used = IF @ - days < 0 THEN 0 ELSE @ - days]

\* Cancellation of an approved request: used is clamped at 0, closing is not.
Refund(row, days) ==
  [row EXCEPT !.used = IF @ - days < 0 THEN 0 ELSE @ - days, !.closing = @ + days]

Sufficient(row, days) == row.exists /\ row.closing >= days

\* The ORM's UPDATE names only the columns whose value differs from the one
\* the session loaded; the others keep what the database holds by then.
Flush(stored, loaded, new) ==
  [c \in DOMAIN stored |-> IF new[c] # loaded[c] THEN new[c] ELSE stored[c]]

\* A closing balance is the sum of its parts.
Balanced(row) == row.closing = row.allocated + row.adjusted - row.used
===============================================================================
