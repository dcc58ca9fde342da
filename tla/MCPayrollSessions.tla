--------------------------- MODULE MCPayrollSessions ---------------------------
(* Instances of PayrollSessions for TLC. *)
EXTENDS PayrollSessions, TLC

CONSTANTS e1

OneOwner == [l \in Loans |-> e1]

\* Loans and arrears meet in no handler but the commits that write both: the
\* instance follows histories with the one and histories with the other.
OneKindOfAccount ==
  \/ \A l \in Loans : ~Stored(l) /\ ~HasTransactions(l)
  \/ \A e \in Employees : arrears[e] = NoArrears

Symmetry == Permutations(Runs) \cup Permutations(Sessions)
===============================================================================
