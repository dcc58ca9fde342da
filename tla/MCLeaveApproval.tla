---------------------------- MODULE MCLeaveApproval ----------------------------
(* Instances of LeaveApproval for TLC. *)
EXTENDS LeaveApproval, TLC

HeadStatuses == {"pending", "approved", "rejected"}
WithCancelled == HeadStatuses \cup {"cancelled"}

Symmetry == Permutations(Requests) \cup Permutations(Workers)
===============================================================================
