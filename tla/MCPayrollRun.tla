----------------------------- MODULE MCPayrollRun -----------------------------
(* Instances of PayrollRun for TLC. *)
EXTENDS PayrollRun, TLC

CONSTANTS e1, e2

OneOwner == [l \in Loans |-> e1]

\* Bounds: histories with loans, of one employee whose arrears are none, and
\* histories with arrears, of everybody.  Loans and arrears meet in no handler
\* but those that write both, and there in no condition.
OneKindOfAccount ==
  \/ /\ \A e \in Employees : arrears[e] = NoArrears
     /\ \A e \in Employees \ {e1}, c \in Cycles : ~InRun(e, c)
  \/ /\ \A l \in Loans : ~Stored(l) /\ ~HasTransactions(l)
     /\ \A e \in Employees, c \in Cycles : row[e][c].deduction = 0

\* Bounds: lending on top of a loan, and the empty rows of edited instalments,
\* are told by histories of that loan and of one pay period.
RaisedOneAtATime ==
  \A l \in Loans : entries[l].lent > 0 \/ entries[l].edited =>
    /\ \A k \in Loans \ {l} : ~Stored(k)
    /\ \A e \in Employees, c \in Cycles \ {LastCycle} : ~InRun(e, c)

\* Bounds: the second employee is granted arrears of 1 at most.
OneIsOwedLess == \A e \in Employees \ {e1} : arrears[e].created <= 1

Symmetry == Permutations(Runs)
===============================================================================
