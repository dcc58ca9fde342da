---------------------------- MODULE EmployeeSessions ----------------------------
(***************************************************************************)
(* Employees and the branches, departments and designations they work in.  *)
(*                                                                         *)
(* EmployeeService keeps the employees and their status history,           *)
(* OrganizationService the units; each asks for the rows of the other      *)
(* before its transaction and locks none of them.  Employee codes are      *)
(* allocated under the one advisory lock of the code base.                 *)
(*                                                                         *)
(* A session checks and reads in one step and commits in another.  An      *)
(* UPDATE names the columns whose new value is not the one that was read,  *)
(* so that is what a session carries to its commit.                        *)
(***************************************************************************)
EXTENDS Naturals, FiniteSets

CONSTANTS
  Employees, Sessions,
  Branches, Departments, Designations,
  Home,             \* the branch of a department or designation
  MaxCode,          \* bound: codes are 1 .. MaxCode
  LeaveDates,       \* dates of leaving
  None

Units == Branches \cup Departments \cup Designations
Codes == 1 .. MaxCode
Statuses == {"active", "inactive", "terminated"}

ASSUME UnitAssumption ==
  /\ MaxCode \in Nat
  /\ Home \in [Departments \cup Designations -> Branches]

VARIABLES
  employee,     \* employees, by id
  recorded,     \* new_status of the status history row with the highest id, or
                \* "active"; a page of the history sorts by created_at, which is
                \* the start of the transaction that wrote the row
  inactive, removed,  \* units with is_active false, with is_deleted true
  session,      \* what each open session is about to commit
  late,         \* sessions open since before another one's commit
  byHand,       \* history: employees whose code was typed in
  raced         \* history: such a session committed

vars == <<employee, recorded, inactive, removed, session, late, byHand, raced>>

Placement == [branch : Branches, dept : Departments, designation : Designations]

\* What an update may name.
Master == [branch : Branches, dept : Departments, designation : Designations, code : Codes]

Row == [branch : Branches, dept : Departments, designation : Designations,
        code : Codes, status : Statuses, leaving : LeaveDates \cup {None}]

Exists(e) == employee[e] # None
Active(e) == Exists(e) /\ employee[e].status = "active"

ASSUME NoneAssumption == None \notin Row /\ None \notin LeaveDates

\* exists_active
IsOpen(u) == u \notin inactive \cup removed

\* _validate_org_hierarchy
ValidPlacement(p) ==
  /\ \A u \in {p.branch, p.dept, p.designation} : IsOpen(u)
  /\ Home[p.dept] = p.branch /\ Home[p.designation] = p.branch

Uses(p, u) == u \in {p.branch, p.dept, p.designation}

BranchInUse(u) == \E e \in Employees : Active(e) /\ employee[e].branch = u

\* has_active_employees
InUse(u) == \E e \in Employees : Active(e) /\ Uses(employee[e], u)

-------------------------------------------------------------------------------
(* Sessions *)

Idle == [at |-> "idle"]
Busy(s) == session[s] # Idle

Begin(s, work) ==
  /\ ~Busy(s)
  /\ session' = [session EXCEPT ![s] = work]
  /\ UNCHANGED <<employee, recorded, inactive, removed, late, byHand, raced>>

\* The others that are open have read what this commit changes.
Commit(s) ==
  /\ session' = [session EXCEPT ![s] = Idle]
  /\ late' = {t \in Sessions \ {s} : Busy(t)}
  /\ raced' = (raced \/ s \in late)

\* A refusal, a disconnect or a roll-back by the database.
Abort(s) ==
  /\ Busy(s)
  /\ session' = [session EXCEPT ![s] = Idle]
  /\ late' = late \ {s}
  /\ UNCHANGED <<employee, recorded, inactive, removed, byHand, raced>>

\* The columns an UPDATE of row to new names.
Changed(row, new) == [c \in {d \in DOMAIN new : new[d] # row[d]} |-> new[c]]

Updated(row, columns) ==
  [c \in DOMAIN row |-> IF c \in DOMAIN columns THEN columns[c] ELSE row[c]]

Taken(code) == \E e \in Employees : Exists(e) /\ employee[e].code = code

-------------------------------------------------------------------------------
(* create_employee *)

Onboarding(t) == session[t].at \in {"allocate", "insert"}

NewId(e) == ~Exists(e) /\ \A t \in Sessions : Onboarding(t) => session[t].id # e

Hired(p, code) ==
  [branch |-> p.branch, dept |-> p.dept, designation |-> p.designation,
   code |-> code, status |-> "active", leaving |-> None]

CreateWithCode(s, e, p, code) ==
  /\ NewId(e) /\ ValidPlacement(p) /\ ~Taken(code)
  /\ Begin(s, [at |-> "insert", id |-> e, row |-> Hired(p, code), typed |-> TRUE])

CreateCheck(s, e, p) ==
  /\ NewId(e) /\ ValidPlacement(p)
  /\ Begin(s, [at |-> "allocate", id |-> e, place |-> p])

\* pg_advisory_xact_lock is held from the allocation to the end of the session.
HoldsLock(t) == session[t].at = "insert" /\ ~session[t].typed

IsHighest(code) ==
  /\ \A e \in Employees : Exists(e) => employee[e].code <= code
  /\ code = 0 \/ Taken(code)

Allocate(s) ==
  /\ session[s].at = "allocate"
  /\ \E code \in 0 .. MaxCode - 1 :
       /\ IsHighest(code)
       /\ session' = [session EXCEPT ![s] =
            [at |-> "insert", id |-> session[s].id, typed |-> FALSE,
             row |-> Hired(session[s].place, code + 1)]]
  /\ UNCHANGED <<employee, recorded, inactive, removed, late, byHand, raced>>

AllocateUnlocked(s) == Allocate(s)

AllocateCode(s) == Allocate(s) /\ \A t \in Sessions : ~HoldsLock(t)

\* The unique index on the code refuses a row that another session was faster
\* with.  No history row is written for a new employee.
CreateCommit(s) ==
  /\ session[s].at = "insert"
  /\ LET e == session[s].id IN
       /\ ~Taken(session[s].row.code)
       /\ employee' = [employee EXCEPT ![e] = session[s].row]
       /\ byHand' = IF session[s].typed THEN byHand \cup {e} ELSE byHand
  /\ Commit(s)
  /\ UNCHANGED <<recorded, inactive, removed>>

-------------------------------------------------------------------------------
(* Changes of an employee *)

\* A request that changes no column writes nothing here.
Edit(s, e, new) ==
  /\ DOMAIN Changed(employee[e], new) # {}
  /\ Begin(s, [at |-> "edit", id |-> e, columns |-> Changed(employee[e], new)])

\* update_employee.  assign_branch, assign_department and assign_designation
\* are this with one leg.
UpdateCheck(s, e, new) ==
  /\ Exists(e)
  /\ new.code # employee[e].code => ~Taken(new.code)
  /\ {"branch", "dept", "designation"} \cap DOMAIN Changed(employee[e], new) # {}
     => ValidPlacement(new)
  /\ Edit(s, e, new)

\* The new unit must be open; it need not lie in the employee's branch.
TransferCheck(s, e, new) ==
  /\ Exists(e)
  /\ IsOpen(new.branch) \/ new.branch = employee[e].branch
  /\ IsOpen(new.dept) \/ new.dept = employee[e].dept
  /\ Edit(s, e, new)

PromoteCheck(s, e, designation) ==
  /\ Exists(e) /\ IsOpen(designation)
  /\ Edit(s, e, [designation |-> designation])

EditCommit(s) ==
  /\ session[s].at = "edit"
  /\ LET e == session[s].id  columns == session[s].columns IN
       /\ "code" \in DOMAIN columns => ~Taken(columns.code)
       /\ employee' = [employee EXCEPT ![e] = Updated(@, columns)]
       /\ byHand' = IF "code" \in DOMAIN columns THEN byHand \cup {e} ELSE byHand
  /\ Commit(s)
  /\ UNCHANGED <<recorded, inactive, removed>>

-------------------------------------------------------------------------------
(* The life of an employee *)

Transition(s, e, new) ==
  Begin(s, [at |-> "status", id |-> e, columns |-> Changed(employee[e], new), to |-> new.status])

ChangeAnyStatus(s, e, to) ==
  /\ Exists(e) /\ employee[e].status # "terminated"
  /\ Transition(s, e, [status |-> to])

\* activate_employee, deactivate_employee
ChangeStatus(s, e, to) ==
  /\ Exists(e) /\ employee[e].status \notin {"terminated", to}
  /\ Transition(s, e, [status |-> to])

\* terminate_employee, exit_employee
Terminate(s, e, date) ==
  /\ Exists(e) /\ employee[e].status # "terminated"
  /\ Transition(s, e, [status |-> "terminated", leaving |-> date])

RehireOnly(s, e) ==
  /\ Exists(e) /\ employee[e].status # "active"
  /\ Transition(s, e, [status |-> "active"])

Rehire(s, e) ==
  /\ Exists(e) /\ employee[e].status # "active"
  /\ Transition(s, e, [status |-> "active", leaving |-> None])

\* The employee and the row of the history, in one transaction.  The UPDATE is
\* flushed before the INSERT, and its row lock held to the commit: the ids of an
\* employee's history follow the order of the commits.
StatusCommit(s) ==
  /\ session[s].at = "status"
  /\ LET e == session[s].id IN
       /\ employee' = [employee EXCEPT ![e] = Updated(@, session[s].columns)]
       /\ recorded' = [recorded EXCEPT ![e] = session[s].to]
  /\ Commit(s)
  /\ UNCHANGED <<inactive, removed, byHand>>

-------------------------------------------------------------------------------
(* Units *)

OpenCheck(s, u) ==
  /\ u \in inactive \ removed
  /\ Begin(s, [at |-> "unit", id |-> u, flag |-> "open"])

CloseCheck(s, u) ==
  /\ u \notin removed \cup inactive /\ ~InUse(u)
  /\ Begin(s, [at |-> "unit", id |-> u, flag |-> "close"])

RemoveCheck(s, u) ==
  /\ u \notin removed /\ ~InUse(u)
  /\ Begin(s, [at |-> "unit", id |-> u, flag |-> "remove"])

UnitCommit(s) ==
  /\ session[s].at = "unit"
  /\ LET u == session[s].id  flag == session[s].flag IN
       /\ inactive' = CASE flag = "open" -> inactive \ {u}
                        [] flag = "close" -> inactive \cup {u}
                        [] flag = "remove" -> inactive
       /\ removed' = IF flag = "remove" THEN removed \cup {u} ELSE removed
  /\ Commit(s)
  /\ UNCHANGED <<employee, recorded, byHand>>

-------------------------------------------------------------------------------
Init ==
  /\ employee = [e \in Employees |-> None]
  /\ recorded = [e \in Employees |-> "active"]
  /\ inactive = {} /\ removed = {}
  /\ session = [s \in Sessions |-> Idle] /\ late = {}
  /\ byHand = {} /\ raced = FALSE

EmployeeRequest(s) ==
  \E e \in Employees :
    \/ \E p \in Placement : CreateCheck(s, e, p) \/ \E code \in Codes : CreateWithCode(s, e, p, code)
    \/ \E new \in Master : UpdateCheck(s, e, new)
    \/ \E b \in Branches, d \in Departments : TransferCheck(s, e, [branch |-> b, dept |-> d])
    \/ \E g \in Designations : PromoteCheck(s, e, g)
    \/ \E to \in {"active", "inactive"} : ChangeStatus(s, e, to)
    \/ \E date \in LeaveDates : Terminate(s, e, date)
    \/ Rehire(s, e)

UnitRequest(s) == \E u \in Units : OpenCheck(s, u) \/ CloseCheck(s, u) \/ RemoveCheck(s, u)

Continue(s) ==
  AllocateCode(s) \/ CreateCommit(s) \/ EditCommit(s) \/ StatusCommit(s) \/ UnitCommit(s)

Next == \E s \in Sessions : EmployeeRequest(s) \/ UnitRequest(s) \/ Continue(s) \/ Abort(s)

Spec == Init /\ [][Next]_vars

-------------------------------------------------------------------------------
(* Properties *)

\* Rows are rows; a commit of some columns leaves a whole row, and nobody's
\* history begins before the employee.
EmployeesTypeOK ==
  /\ employee \in [Employees -> Row \cup {None}]
  /\ recorded \in [Employees -> Statuses]
  /\ inactive \subseteq Units /\ removed \subseteq Units /\ late \subseteq Sessions
  /\ \A e \in Employees : ~Exists(e) => recorded[e] = "active" /\ e \notin byHand

\* The status is the one written last: the history row inserted last names it,
\* however many sessions change it at once.  A transition always writes the status
\* column, for it is refused when the status it read is the one it would write.
\* (That row need not be listed last: a request that began first may commit last.)
StatusIsLastWritten == \A e \in Employees : Exists(e) => employee[e].status = recorded[e]

\* An allocated code is refused only for one that was typed in: the lock keeps
\* two allocations apart until the first has committed.
AllocatedCodesAreFree ==
  \A s \in Sessions : HoldsLock(s) =>
    \A e \in Employees : Exists(e) /\ employee[e].code = session[s].row.code => e \in byHand

\* Unless a handler wrote what it read before another one's commit, who is
\* terminated, and nobody else, has a date of leaving.
DatesFollowStatus ==
  ~raced => \A e \in Employees :
              Exists(e) => (employee[e].status = "terminated" <=> employee[e].leaving # None)

ClosedUnitsOf(e) == {u \in Units : ~IsOpen(u) /\ Uses(employee[e], u)}

\* With the same proviso, an active employee gets into a closed unit in one way
\* only: by coming back to it.  None is moved there or closed in.
OnlyReturnsToClosedUnits ==
  [][~raced' => \A e \in Employees : Active(e)' =>
       \/ Active(e) /\ ClosedUnitsOf(e)' \subseteq ClosedUnitsOf(e)
       \/ ~Exists(e) /\ ClosedUnitsOf(e)' = {}
       \/ Exists(e) /\ ~Active(e)]_vars
===============================================================================
