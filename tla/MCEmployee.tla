------------------------------- MODULE MCEmployee -------------------------------
(* Instances of EmployeeSessions for TLC. *)
EXTENDS EmployeeSessions, TLC

CONSTANTS b1, b2, d1, d2, g1, g2

TwoBranches == [u \in {d1, d2, g1, g2} |-> IF u = d2 THEN b2 ELSE b1]

\* Bounds: the life of one employee and one closed unit, or the codes of two
\* employees who stay in the unit and the status they were hired in.  Two rows
\* of employees meet in nothing but their codes and the use of a unit.
Moved(e) == (IF employee[e].branch = b1 THEN 0 ELSE 1) + (IF employee[e].dept = d1 THEN 0 ELSE 1)
            + (IF employee[e].designation = g1 THEN 0 ELSE 1)

AsHired(e) == Active(e) /\ employee[e].leaving = None /\ Moved(e) = 0

\* The one employee is away from one leg of the first place at a time.
OneLeg(e) == Exists(e) => Moved(e) <= 1

TypesCode(s) ==
  \/ session[s].at = "insert" /\ session[s].typed
  \/ session[s].at = "edit" /\ "code" \in DOMAIN session[s].columns

FewRows ==
  \/ /\ \A e \in Employees : OneLeg(e)
     /\ Cardinality({e \in Employees : Exists(e)}) <= 1
     /\ Cardinality(inactive \cup removed) <= 1
     /\ byHand = {} /\ \A s \in Sessions : ~TypesCode(s)
  \/ (\A e \in Employees : Exists(e) => AsHired(e)) /\ inactive \cup removed = {}

Symmetry == Permutations(Employees) \cup Permutations(Sessions)
===============================================================================
