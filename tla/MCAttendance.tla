----------------------------- MODULE MCAttendance -----------------------------
(* Instances of AttendanceSessions for TLC. *)
EXTENDS AttendanceSessions

\* An in, an out, an out.
InOutOut == [t \in Times |-> IF t = 0 THEN "in" ELSE "out"]

OneCorrection == {<<0, 1>>}

===============================================================================
