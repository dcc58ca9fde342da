------------------------------ MODULE MCShiftPlan ------------------------------
(* Instances of ShiftPlan for TLC. *)
EXTENDS ShiftPlan, TLC

\* Rows, shifts and weekdays are interchangeable.
Symmetry ==
  Permutations(Slots) \cup Permutations(OffSlots) \cup Permutations(Shifts) \cup Permutations(Weekdays)

Rows(table) == {r \in DOMAIN table : table[r] # None}

\* Bound: the rows of the three tables together.
FewRows == Cardinality(Rows(assignments)) + Cardinality(Rows(roster)) + Cardinality(Rows(weekoffs)) <= 3
===============================================================================
