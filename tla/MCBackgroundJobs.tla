--------------------------- MODULE MCBackgroundJobs ---------------------------
(* Instances of BackgroundJobs for TLC. *)
EXTENDS BackgroundJobs, TLC

CONSTANTS u1, u2, u3, d1, d2, d3

\* Notification 1 is of organization 1, whose id it has; 2 is of organization 3
\* and 3 of organization 2, so that the exchange of ids makes one find the other.
OrgOf == [n \in Notifications |-> IF n = 1 THEN 1 ELSE 5 - n]

\* Organization 2 has no staff: its notification goes to nobody.
EmployerOf == [u \in Users |-> IF u \in {u1, u2} THEN 1 ELSE 3]

\* Two jobs deliver the first notification and one the second.
AboutOf == [j \in Deliveries |-> IF j = d3 THEN 2 ELSE 1]

\* Bounds: histories of organization 1, and of the other two, which have more
\* recipients than a page.  Recipients mark what was sent in the former only,
\* beside one delivery and as long as the worker has not died.
Bounded ==
  /\ notif[1] = "absent" \/ \A n \in Notifications \ {1} : notif[n] = "absent"
  /\ \A n \in Notifications, u \in Users :
       rcpt[n][u].marks # {} =>
         n = 1 /\ deaths = 0 /\ Cardinality({j \in Jobs : job[j].state # "new"}) <= 1

\* Bounds: the worker dies only where HR assigns what an accrual would credit.
UsualAmounts ==
  deaths = 0 \/ /\ \A e \in Employees : extra[e] = 0
                /\ \A c \in Clerks : clerk[c].days \in {0, Count}

Symmetry == Permutations({d1, d2}) \cup Permutations({u1, u2})
===============================================================================
