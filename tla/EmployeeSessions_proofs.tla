------------------------- MODULE EmployeeSessions_proofs -------------------------
(***************************************************************************)
(* Proofs about EmployeeSessions, for any number of employees, units,      *)
(* codes and sessions.                                                     *)
(*                                                                         *)
(* WorkInv says what a session may carry to its commit; FreshInv says that *)
(* a session no other one has overtaken still sees what it checked.        *)
(***************************************************************************)
EXTENDS EmployeeSessions, TLAPS

-------------------------------------------------------------------------------
(* Columns and rows *)

Fields == {"branch", "dept", "designation", "code", "status", "leaving"}

IsColumns(c) ==
  /\ DOMAIN c \subseteq Fields
  /\ "branch" \in DOMAIN c => c["branch"] \in Branches
  /\ "dept" \in DOMAIN c => c["dept"] \in Departments
  /\ "designation" \in DOMAIN c => c["designation"] \in Designations
  /\ "code" \in DOMAIN c => c["code"] \in Codes
  /\ "status" \in DOMAIN c => c["status"] \in Statuses
  /\ "leaving" \in DOMAIN c => c["leaving"] \in LeaveDates \cup {None}

\* An UPDATE leaves a row: the columns it names get their new values.
LEMMA MergedRow ==
  ASSUME NEW row \in Row, NEW c, IsColumns(c)
  PROVE  /\ Updated(row, c) \in Row
         /\ \A f \in Fields : Updated(row, c)[f] = IF f \in DOMAIN c THEN c[f] ELSE row[f]
<1>1. DOMAIN row = Fields
  BY DEF Row, Fields
<1>2. Updated(row, c) = [f \in Fields |-> IF f \in DOMAIN c THEN c[f] ELSE row[f]]
  BY <1>1 DEF Updated
<1>3. Updated(row, c) =
        [branch |-> Updated(row, c)["branch"], dept |-> Updated(row, c)["dept"],
         designation |-> Updated(row, c)["designation"], code |-> Updated(row, c)["code"],
         status |-> Updated(row, c)["status"], leaving |-> Updated(row, c)["leaving"]]
  BY <1>2 DEF Fields
<1>4. /\ Updated(row, c)["branch"] \in Branches /\ Updated(row, c)["dept"] \in Departments
      /\ Updated(row, c)["designation"] \in Designations /\ Updated(row, c)["code"] \in Codes
      /\ Updated(row, c)["status"] \in Statuses /\ Updated(row, c)["leaving"] \in LeaveDates \cup {None}
  BY <1>2 DEF IsColumns, Row, Fields
<1>5. Updated(row, c) \in Row
  BY <1>3, <1>4 DEF Row
<1> QED BY <1>2, <1>5

\* What Changed names, and that merging it gives what was asked for.
LEMMA ChangedColumns ==
  ASSUME NEW row \in Row, NEW new, IsColumns(new)
  PROVE  /\ IsColumns(Changed(row, new))
         /\ \A f \in Fields : /\ f \in DOMAIN Changed(row, new) <=> f \in DOMAIN new /\ new[f] # row[f]
                              /\ f \in DOMAIN Changed(row, new) => Changed(row, new)[f] = new[f]
         /\ \A f \in Fields : Updated(row, Changed(row, new))[f] = IF f \in DOMAIN new THEN new[f] ELSE row[f]
<1> DEFINE D == {d \in DOMAIN new : new[d] # row[d]}
<1>1. Changed(row, new) = [c \in D |-> new[c]]
  BY DEF Changed
<1>2. DOMAIN Changed(row, new) = D /\ \A f \in D : Changed(row, new)[f] = new[f]
  BY <1>1
<1>3. D \subseteq DOMAIN new
  OBVIOUS
<1>4. IsColumns(Changed(row, new))
  BY <1>2, <1>3 DEF IsColumns
<1>5. \A f \in Fields : /\ f \in DOMAIN Changed(row, new) <=> f \in DOMAIN new /\ new[f] # row[f]
                        /\ f \in DOMAIN Changed(row, new) => Changed(row, new)[f] = new[f]
  BY <1>2
<1>6. \A f \in Fields : Updated(row, Changed(row, new))[f] = IF f \in DOMAIN new THEN new[f] ELSE row[f]
  BY <1>4, <1>5, MergedRow
<1> QED BY <1>4, <1>5, <1>6

-------------------------------------------------------------------------------
(* What a session may carry *)

\* A creation carries an employee who is not there yet, an update columns other
\* than the status, a transition the status it will record.
MayCarry(work) ==
  \/ work = Idle
  \/ /\ work.at = "allocate" /\ work.id \in Employees /\ ~Exists(work.id)
     /\ work.place \in Placement
  \/ /\ work.at = "insert" /\ work.id \in Employees /\ ~Exists(work.id)
     /\ work.row \in Row /\ work.row.status = "active" /\ work.row.leaving = None
     /\ work.typed \in BOOLEAN
  \/ /\ work.at = "edit" /\ work.id \in Employees /\ Exists(work.id)
     /\ IsColumns(work.columns) /\ {"status", "leaving"} \cap DOMAIN work.columns = {}
  \/ /\ work.at = "status" /\ work.id \in Employees /\ Exists(work.id)
     /\ IsColumns(work.columns) /\ work.to \in Statuses
     /\ "status" \in DOMAIN work.columns /\ work.columns["status"] = work.to
     /\ DOMAIN work.columns \subseteq {"status", "leaving"}
  \/ work.at = "unit" /\ work.id \in Units /\ work.flag \in {"open", "close", "remove"}

SessionsInv ==
  /\ session = [s \in Sessions |-> session[s]]
  /\ \A s \in Sessions : MayCarry(session[s])
  /\ \A s, t \in Sessions :
       s # t /\ Onboarding(s) /\ Onboarding(t) => session[s].id # session[t].id

WorkInv == EmployeesTypeOK /\ StatusIsLastWritten /\ SessionsInv

LEMMA InitWork == Init => WorkInv
  BY DEF Init, WorkInv, EmployeesTypeOK, StatusIsLastWritten, SessionsInv, MayCarry, Exists,
         Statuses, Onboarding, Idle

tables == <<employee, recorded, inactive, removed>>

\* Steps that change no table: a session takes up work, or drops it.
LEMMA TakesUpWork ==
  ASSUME WorkInv, NEW s \in Sessions, NEW work,
         UNCHANGED <<tables, byHand>>, late' \subseteq late,
         session' = [session EXCEPT ![s] = work], MayCarry(work),
         work.at \in {"allocate", "insert"} =>
           \A t \in Sessions \ {s} : Onboarding(t) => session[t].id # work.id
  PROVE  WorkInv'
<1>1. EmployeesTypeOK' /\ StatusIsLastWritten'
  BY DEF WorkInv, EmployeesTypeOK, StatusIsLastWritten, Exists, tables
<1>2. session'[s] = work /\ \A t \in Sessions \ {s} : session'[t] = session[t]
  BY DEF WorkInv, SessionsInv
<1>3. \A t \in Sessions : MayCarry(session[t])'
  <2> SUFFICES ASSUME NEW t \in Sessions PROVE MayCarry(session[t])'
    OBVIOUS
  <2>1. employee' = employee
    BY DEF tables
  <2>2. MayCarry(session'[t])
    BY <1>2 DEF WorkInv, SessionsInv
  <2> QED BY <2>1, <2>2 DEF MayCarry, Exists
<1>4. session' = [t \in Sessions |-> session'[t]]
  BY DEF WorkInv, SessionsInv
<1>5. \A t, u \in Sessions :
        t # u /\ Onboarding(t)' /\ Onboarding(u)' => session'[t].id # session'[u].id
  BY <1>2 DEF WorkInv, SessionsInv, Onboarding
<1> QED BY <1>1, <1>3, <1>4, <1>5 DEF WorkInv, SessionsInv

\* Commits: the others keep what they carry, for no employee vanishes and only
\* the one this session was about to create appears.
LEMMA OthersCarryOn ==
  ASSUME WorkInv, NEW s \in Sessions, Commit(s),
         \A e \in Employees : Exists(e) => Exists(e)',
         \A e \in Employees : ~Exists(e) /\ Exists(e)' => Onboarding(s) /\ session[s].id = e
  PROVE  SessionsInv'
<1>1. session'[s] = Idle /\ \A t \in Sessions \ {s} : session'[t] = session[t]
  BY DEF WorkInv, SessionsInv, Commit
<1>2. \A t \in Sessions : MayCarry(session[t])'
  <2> SUFFICES ASSUME NEW t \in Sessions \ {s} PROVE MayCarry(session[t])'
    BY <1>1 DEF MayCarry
  <2>1. MayCarry(session[t]) /\ session'[t] = session[t]
    BY <1>1 DEF WorkInv, SessionsInv
  <2>2. Onboarding(t) /\ Onboarding(s) => session[s].id # session[t].id
    BY DEF WorkInv, SessionsInv
  <2> QED BY <2>1, <2>2 DEF MayCarry, Onboarding
<1>3. session' = [t \in Sessions |-> session'[t]]
  BY DEF WorkInv, SessionsInv, Commit
<1>4. \A t, u \in Sessions :
        t # u /\ Onboarding(t)' /\ Onboarding(u)' => session'[t].id # session'[u].id
  BY <1>1 DEF WorkInv, SessionsInv, Onboarding, Idle
<1> QED BY <1>2, <1>3, <1>4 DEF SessionsInv

-------------------------------------------------------------------------------
(* Requests *)

LEMMA HiredRow ==
  ASSUME NEW p \in Placement, NEW code \in Codes
  PROVE  /\ Hired(p, code) \in Row
         /\ Hired(p, code).status = "active" /\ Hired(p, code).leaving = None
  BY DEF Hired, Placement, Row, Statuses

LEMMA BeginWork ==
  ASSUME WorkInv, NEW s \in Sessions, NEW work, Begin(s, work), MayCarry(work),
         work.at \in {"allocate", "insert"} =>
           \A t \in Sessions \ {s} : Onboarding(t) => session[t].id # work.id
  PROVE  WorkInv'
  BY TakesUpWork DEF Begin, tables

\* An update of columns other than the status.
LEMMA EditWork ==
  ASSUME WorkInv, NEW s \in Sessions, NEW e \in Employees, Exists(e), NEW new,
         IsColumns(new), {"status", "leaving"} \cap DOMAIN new = {}, Edit(s, e, new)
  PROVE  WorkInv'
<1> DEFINE work == [at |-> "edit", id |-> e, columns |-> Changed(employee[e], new)]
<1>1. employee[e] \in Row
  BY DEF WorkInv, EmployeesTypeOK, Exists
<1>2. IsColumns(work.columns) /\ {"status", "leaving"} \cap DOMAIN work.columns = {}
  BY <1>1, ChangedColumns DEF Fields
<1>3. MayCarry(work)
  BY <1>2 DEF MayCarry
<1> QED BY <1>3, BeginWork DEF Edit

\* A transition writes the status column: it is not the one that was read.
LEMMA TransitionWork ==
  ASSUME WorkInv, NEW s \in Sessions, NEW e \in Employees, Exists(e), NEW new,
         IsColumns(new), "status" \in DOMAIN new, new.status # employee[e].status,
         DOMAIN new \subseteq {"status", "leaving"},
         Transition(s, e, new)
  PROVE  WorkInv'
<1> DEFINE work == [at |-> "status", id |-> e, columns |-> Changed(employee[e], new), to |-> new.status]
<1>1. employee[e] \in Row
  BY DEF WorkInv, EmployeesTypeOK, Exists
<1>2. IsColumns(work.columns) /\ "status" \in DOMAIN work.columns /\ work.columns["status"] = new.status
  BY <1>1, ChangedColumns DEF Fields
<1>4. DOMAIN work.columns \subseteq {"status", "leaving"}
  BY DEF Changed
<1>3. MayCarry(work)
  BY <1>2, <1>4 DEF MayCarry, IsColumns
<1> QED BY <1>3, BeginWork DEF Transition

LEMMA CreateWork ==
  ASSUME WorkInv, NEW s \in Sessions, NEW e \in Employees, NEW p \in Placement,
         CreateCheck(s, e, p) \/ \E code \in Codes : CreateWithCode(s, e, p, code)
  PROVE  WorkInv'
<1>1. NewId(e)
  BY DEF CreateCheck, CreateWithCode
<1>2. \A t \in Sessions \ {s} : Onboarding(t) => session[t].id # e
  BY <1>1 DEF NewId
<1>3. CASE CreateCheck(s, e, p)
  <2> DEFINE work == [at |-> "allocate", id |-> e, place |-> p]
  <2>1. MayCarry(work)
    BY <1>1 DEF MayCarry, NewId
  <2> QED BY <1>2, <1>3, <2>1, BeginWork DEF CreateCheck
<1>4. ASSUME NEW code \in Codes, CreateWithCode(s, e, p, code)
      PROVE  WorkInv'
  <2> DEFINE work == [at |-> "insert", id |-> e, row |-> Hired(p, code), typed |-> TRUE]
  <2>1. MayCarry(work)
    BY <1>1, HiredRow DEF MayCarry, NewId
  <2> QED BY <1>2, <1>4, <2>1, BeginWork DEF CreateWithCode
<1> QED BY <1>3, <1>4

LEMMA EmployeeRequestWork ==
  ASSUME WorkInv, NEW s \in Sessions, EmployeeRequest(s)
  PROVE  WorkInv'
<1>1. PICK e \in Employees :
        \/ \E p \in Placement : CreateCheck(s, e, p) \/ \E code \in Codes : CreateWithCode(s, e, p, code)
        \/ \E new \in Master : UpdateCheck(s, e, new)
        \/ \E b \in Branches, d \in Departments : TransferCheck(s, e, [branch |-> b, dept |-> d])
        \/ \E g \in Designations : PromoteCheck(s, e, g)
        \/ \E to \in {"active", "inactive"} : ChangeStatus(s, e, to)
        \/ \E date \in LeaveDates : Terminate(s, e, date)
        \/ Rehire(s, e)
  BY DEF EmployeeRequest
<1>2. ASSUME NEW new \in Master, UpdateCheck(s, e, new) PROVE WorkInv'
  <2>1. IsColumns(new) /\ {"status", "leaving"} \cap DOMAIN new = {}
    BY DEF Master, IsColumns, Fields
  <2> QED BY <1>2, <2>1, EditWork DEF UpdateCheck
<1>3. ASSUME NEW b \in Branches, NEW d \in Departments, TransferCheck(s, e, [branch |-> b, dept |-> d])
      PROVE  WorkInv'
  <2> DEFINE new == [branch |-> b, dept |-> d]
  <2>1. IsColumns(new) /\ {"status", "leaving"} \cap DOMAIN new = {}
    BY DEF IsColumns, Fields
  <2> QED BY <1>3, <2>1, EditWork DEF TransferCheck
<1>4. ASSUME NEW g \in Designations, PromoteCheck(s, e, g) PROVE WorkInv'
  <2> DEFINE new == [designation |-> g]
  <2>1. IsColumns(new) /\ {"status", "leaving"} \cap DOMAIN new = {}
    BY DEF IsColumns, Fields
  <2> QED BY <1>4, <2>1, EditWork DEF PromoteCheck
<1>5. ASSUME NEW to \in {"active", "inactive"}, ChangeStatus(s, e, to) PROVE WorkInv'
  <2> DEFINE new == [status |-> to]
  <2>1. /\ IsColumns(new) /\ "status" \in DOMAIN new /\ new.status # employee[e].status
        /\ DOMAIN new \subseteq {"status", "leaving"}
    BY <1>5 DEF IsColumns, Fields, Statuses, ChangeStatus
  <2> QED BY <1>5, <2>1, TransitionWork DEF ChangeStatus
<1>6. ASSUME NEW date \in LeaveDates, Terminate(s, e, date) PROVE WorkInv'
  <2> DEFINE new == [status |-> "terminated", leaving |-> date]
  <2>1. /\ IsColumns(new) /\ "status" \in DOMAIN new /\ new.status # employee[e].status
        /\ DOMAIN new \subseteq {"status", "leaving"}
    BY <1>6 DEF IsColumns, Fields, Statuses, Terminate
  <2> QED BY <1>6, <2>1, TransitionWork DEF Terminate
<1>7. CASE Rehire(s, e)
  <2> DEFINE new == [status |-> "active", leaving |-> None]
  <2>1. /\ IsColumns(new) /\ "status" \in DOMAIN new /\ new.status # employee[e].status
        /\ DOMAIN new \subseteq {"status", "leaving"}
    BY <1>7 DEF IsColumns, Fields, Statuses, Rehire
  <2> QED BY <1>7, <2>1, TransitionWork DEF Rehire
<1> QED BY <1>1, <1>2, <1>3, <1>4, <1>5, <1>6, <1>7, CreateWork

LEMMA UnitRequestWork ==
  ASSUME WorkInv, NEW s \in Sessions, UnitRequest(s)
  PROVE  WorkInv'
<1>1. PICK u \in Units : OpenCheck(s, u) \/ CloseCheck(s, u) \/ RemoveCheck(s, u)
  BY DEF UnitRequest
<1>2. PICK flag \in {"open", "close", "remove"} : Begin(s, [at |-> "unit", id |-> u, flag |-> flag])
  BY <1>1 DEF OpenCheck, CloseCheck, RemoveCheck
<1>3. MayCarry([at |-> "unit", id |-> u, flag |-> flag])
  BY DEF MayCarry
<1> QED BY <1>2, <1>3, BeginWork

LEMMA AllocateWork ==
  ASSUME WorkInv, NEW s \in Sessions, Allocate(s)
  PROVE  WorkInv'
<1>1. MayCarry(session[s]) /\ session[s].at = "allocate"
  BY DEF WorkInv, SessionsInv, Allocate
<1>2. session[s].id \in Employees /\ ~Exists(session[s].id) /\ session[s].place \in Placement
  BY <1>1 DEF MayCarry, Idle
<1>3. PICK code \in 0 .. MaxCode - 1 :
        session' = [session EXCEPT ![s] = [at |-> "insert", id |-> session[s].id, typed |-> FALSE,
                                           row |-> Hired(session[s].place, code + 1)]]
  BY DEF Allocate
<1> DEFINE work == [at |-> "insert", id |-> session[s].id, typed |-> FALSE,
                    row |-> Hired(session[s].place, code + 1)]
<1>4. code + 1 \in Codes
  BY UnitAssumption DEF Codes
<1>5. MayCarry(work)
  BY <1>2, <1>4, HiredRow DEF MayCarry
<1>6. \A t \in Sessions \ {s} : Onboarding(t) => session[t].id # session[s].id
  BY <1>1 DEF WorkInv, SessionsInv, Onboarding
<1>7. work.id = session[s].id
  OBVIOUS
<1>8. UNCHANGED <<tables, byHand>> /\ late' \subseteq late
  BY DEF Allocate, tables
<1> QED BY <1>3, <1>5, <1>6, <1>7, <1>8, TakesUpWork

LEMMA AbortWork ==
  ASSUME WorkInv, NEW s \in Sessions, Abort(s)
  PROVE  WorkInv'
<1>1. MayCarry(Idle) /\ ~(Idle.at \in {"allocate", "insert"})
  BY DEF MayCarry, Idle
<1>2. UNCHANGED <<tables, byHand>> /\ late' \subseteq late
  BY DEF Abort, tables
<1> QED BY <1>1, <1>2, TakesUpWork DEF Abort

-------------------------------------------------------------------------------
(* Commits *)

LEMMA CreateCommitWork ==
  ASSUME WorkInv, NEW s \in Sessions, CreateCommit(s)
  PROVE  WorkInv'
<1>1. PICK e \in Employees, row \in Row :
        e = session[s].id /\ row = session[s].row /\ ~Exists(e) /\ row.status = "active"
  BY DEF WorkInv, SessionsInv, CreateCommit, MayCarry, Idle
<1>2. employee' = [employee EXCEPT ![e] = row] /\ byHand' \subseteq byHand \cup {e}
  BY <1>1 DEF CreateCommit
<1>3. Exists(e)' /\ employee'[e] = row /\ \A f \in Employees \ {e} : employee'[f] = employee[f]
  BY <1>2, NoneAssumption DEF WorkInv, EmployeesTypeOK, Exists
<1>4. EmployeesTypeOK'
  BY <1>1, <1>2, <1>3 DEF WorkInv, EmployeesTypeOK, CreateCommit, Commit, Exists
<1>5. StatusIsLastWritten'
  BY <1>1, <1>2, <1>3 DEF WorkInv, EmployeesTypeOK, StatusIsLastWritten, CreateCommit, Exists
<1>6. SessionsInv'
  <2>1. Commit(s) /\ Onboarding(s)
    BY DEF CreateCommit, Onboarding
  <2> QED BY <1>1, <1>3, <2>1, OthersCarryOn DEF Exists
<1> QED BY <1>4, <1>5, <1>6 DEF WorkInv

\* A commit of columns of a row that is there.
LEMMA ColumnsCommitWork ==
  ASSUME WorkInv, NEW s \in Sessions, session[s].at \in {"edit", "status"}
  PROVE  LET e == session[s].id  row == Updated(employee[e], session[s].columns) IN
           /\ e \in Employees /\ Exists(e) /\ employee[e] \in Row /\ row \in Row
           /\ session[s].at = "edit" => row.status = employee[e].status /\ row.leaving = employee[e].leaving
           /\ session[s].at = "status" =>
                /\ row.status = session[s].to /\ session[s].to \in Statuses
                /\ \A f \in Fields \ {"status", "leaving"} : row[f] = employee[e][f]
<1> DEFINE e == session[s].id  columns == session[s].columns
<1>1. e \in Employees /\ Exists(e) /\ IsColumns(columns)
  BY DEF WorkInv, SessionsInv, MayCarry, Idle
<1>2. employee[e] \in Row
  BY <1>1 DEF WorkInv, EmployeesTypeOK, Exists
<1>3. session[s].at = "edit" => {"status", "leaving"} \cap DOMAIN columns = {}
  BY DEF WorkInv, SessionsInv, MayCarry, Idle
<1>4. session[s].at = "status" =>
        /\ "status" \in DOMAIN columns /\ columns["status"] = session[s].to /\ session[s].to \in Statuses
        /\ DOMAIN columns \subseteq {"status", "leaving"}
  BY DEF WorkInv, SessionsInv, MayCarry, Idle
<1>5. /\ Updated(employee[e], columns) \in Row
      /\ \A f \in Fields : Updated(employee[e], columns)[f]
                             = IF f \in DOMAIN columns THEN columns[f] ELSE employee[e][f]
  BY <1>1, <1>2, MergedRow
<1> QED BY <1>1, <1>2, <1>3, <1>4, <1>5 DEF Fields

LEMMA EditCommitWork ==
  ASSUME WorkInv, NEW s \in Sessions, EditCommit(s)
  PROVE  WorkInv'
<1>1. PICK e \in Employees, row \in Row :
        /\ e = session[s].id /\ row = Updated(employee[e], session[s].columns)
        /\ Exists(e) /\ row.status = employee[e].status
  BY ColumnsCommitWork DEF EditCommit
<1>2. employee' = [employee EXCEPT ![e] = row] /\ byHand' \subseteq byHand \cup {e}
  BY <1>1 DEF EditCommit
<1>3. Exists(e)' /\ employee'[e] = row /\ \A f \in Employees \ {e} : employee'[f] = employee[f]
  BY <1>2, NoneAssumption DEF WorkInv, EmployeesTypeOK, Exists
<1>4. EmployeesTypeOK'
  BY <1>1, <1>2, <1>3 DEF WorkInv, EmployeesTypeOK, EditCommit, Commit, Exists
<1>5. StatusIsLastWritten'
  BY <1>1, <1>3 DEF WorkInv, StatusIsLastWritten, EditCommit, Exists
<1>6. SessionsInv'
  <2>1. Commit(s)
    BY DEF EditCommit
  <2> QED BY <1>1, <1>3, <2>1, OthersCarryOn DEF Exists
<1> QED BY <1>4, <1>5, <1>6 DEF WorkInv

\* The new status goes to the row and to the history.
LEMMA StatusCommitWork ==
  ASSUME WorkInv, NEW s \in Sessions, StatusCommit(s)
  PROVE  WorkInv'
<1>1. PICK e \in Employees, row \in Row :
        /\ e = session[s].id /\ row = Updated(employee[e], session[s].columns)
        /\ Exists(e) /\ row.status = session[s].to /\ row.status \in Statuses
  BY ColumnsCommitWork DEF StatusCommit
<1>2. /\ employee' = [employee EXCEPT ![e] = row]
      /\ recorded' = [recorded EXCEPT ![e] = row.status]
  BY <1>1 DEF StatusCommit
<1>3. Exists(e)' /\ employee'[e] = row /\ \A f \in Employees \ {e} : employee'[f] = employee[f]
  BY <1>2, NoneAssumption DEF WorkInv, EmployeesTypeOK, Exists
<1>4. EmployeesTypeOK'
  BY <1>1, <1>2, <1>3 DEF WorkInv, EmployeesTypeOK, StatusCommit, Commit, Exists
<1>5. StatusIsLastWritten'
  BY <1>1, <1>2, <1>3 DEF WorkInv, EmployeesTypeOK, StatusIsLastWritten, Exists
<1>6. SessionsInv'
  <2>1. Commit(s)
    BY DEF StatusCommit
  <2> QED BY <1>1, <1>3, <2>1, OthersCarryOn DEF Exists
<1> QED BY <1>4, <1>5, <1>6 DEF WorkInv

LEMMA UnitCommitWork ==
  ASSUME WorkInv, NEW s \in Sessions, UnitCommit(s)
  PROVE  WorkInv'
<1>1. session[s].id \in Units /\ session[s].flag \in {"open", "close", "remove"}
  BY DEF WorkInv, SessionsInv, UnitCommit, MayCarry, Idle
<1>2. inactive' \subseteq inactive \cup {session[s].id} /\ removed' \subseteq removed \cup {session[s].id}
  BY <1>1 DEF UnitCommit
<1>3. EmployeesTypeOK' /\ StatusIsLastWritten'
  BY <1>1, <1>2 DEF WorkInv, EmployeesTypeOK, StatusIsLastWritten, UnitCommit, Commit, Exists
<1>4. SessionsInv'
  BY OthersCarryOn DEF UnitCommit, Exists
<1> QED BY <1>3, <1>4 DEF WorkInv

LEMMA NextWork == WorkInv /\ [Next]_vars => WorkInv'
<1> SUFFICES ASSUME WorkInv, [Next]_vars PROVE WorkInv'
  OBVIOUS
<1>1. CASE UNCHANGED vars
  BY <1>1 DEF vars, WorkInv, EmployeesTypeOK, StatusIsLastWritten, SessionsInv, MayCarry, Exists, Onboarding
<1>2. ASSUME NEW s \in Sessions, EmployeeRequest(s) \/ UnitRequest(s) \/ Continue(s) \/ Abort(s)
      PROVE  WorkInv'
  BY <1>2, EmployeeRequestWork, UnitRequestWork, AllocateWork, AbortWork,
     CreateCommitWork, EditCommitWork, StatusCommitWork, UnitCommitWork DEF Continue, AllocateCode
<1> QED BY <1>1, <1>2 DEF Next

LEMMA WorkInvariant == Spec => []WorkInv
  BY InitWork, NextWork, PTL DEF Spec

\* Rows are rows, whatever mixture of columns concurrent sessions write.
THEOREM Typed == Spec => []EmployeesTypeOK
<1>1. WorkInv => EmployeesTypeOK
  BY DEF WorkInv
<1> QED BY <1>1, WorkInvariant, PTL

\* The row of the status history that was inserted last tells the status under
\* every interleaving: both are written under the lock of the employee's row.
THEOREM LastWrittenTellsStatus == Spec => []StatusIsLastWritten
<1>1. WorkInv => StatusIsLastWritten
  BY DEF WorkInv
<1> QED BY <1>1, WorkInvariant, PTL


-------------------------------------------------------------------------------
(* Codes *)

\* The lock: one session at most holds an allocated code it has not committed.
CodesInv ==
  /\ AllocatedCodesAreFree
  /\ \A s, t \in Sessions : HoldsLock(s) /\ HoldsLock(t) => s = t

\* Steps that neither take the lock nor give anyone a code.
LEMMA CodesStay ==
  ASSUME CodesInv, WorkInv,
         \A s \in Sessions : HoldsLock(s)' => HoldsLock(s) /\ session'[s] = session[s],
         \A e \in Employees : Exists(e)' /\ e \notin byHand' =>
           Exists(e) /\ e \notin byHand /\ employee'[e].code = employee[e].code
  PROVE  CodesInv'
<1>1. AllocatedCodesAreFree'
  <2> SUFFICES ASSUME NEW s \in Sessions, HoldsLock(s)', NEW e \in Employees,
                      Exists(e)', employee'[e].code = session'[s].row.code, e \notin byHand'
               PROVE  FALSE
    BY DEF AllocatedCodesAreFree
  <2>1. HoldsLock(s) /\ session'[s].row.code = session[s].row.code
    OBVIOUS
  <2>2. Exists(e) /\ e \notin byHand /\ employee[e].code = session[s].row.code
    BY <2>1
  <2> QED BY <2>1, <2>2 DEF CodesInv, AllocatedCodesAreFree
<1>2. \A s, t \in Sessions : (HoldsLock(s) /\ HoldsLock(t))' => s = t
  BY DEF CodesInv
<1> QED BY <1>1, <1>2 DEF CodesInv

\* Work that begins with no allocated code, or none at all.
LEMMA CodesBegin ==
  ASSUME CodesInv, WorkInv, NEW s \in Sessions, NEW work,
         UNCHANGED <<employee, byHand>>, session' = [session EXCEPT ![s] = work],
         ~(work.at = "insert" /\ ~work.typed)
  PROVE  CodesInv'
<1>1. session'[s] = work /\ \A t \in Sessions \ {s} : session'[t] = session[t]
  BY DEF WorkInv, SessionsInv
<1>2. \A t \in Sessions : HoldsLock(t)' => HoldsLock(t) /\ session'[t] = session[t]
  BY <1>1 DEF HoldsLock
<1> QED BY <1>2, CodesStay DEF Exists

\* The code after the highest one is nobody's.
LEMMA AllocateCodes ==
  ASSUME CodesInv, WorkInv, NEW s \in Sessions, AllocateCode(s)
  PROVE  CodesInv'
<1>1. PICK code \in 0 .. MaxCode - 1 :
        /\ IsHighest(code)
        /\ session' = [session EXCEPT ![s] = [at |-> "insert", id |-> session[s].id, typed |-> FALSE,
                                              row |-> Hired(session[s].place, code + 1)]]
  BY DEF AllocateCode, Allocate
<1>2. session'[s].row.code = code + 1 /\ \A t \in Sessions \ {s} : session'[t] = session[t]
  BY <1>1 DEF WorkInv, SessionsInv, Hired
<1>3. UNCHANGED <<employee, byHand>>
  BY DEF AllocateCode, Allocate
<1>4. \A t \in Sessions : HoldsLock(t)' => t = s
  BY <1>2 DEF HoldsLock, AllocateCode
<1>5. \A e \in Employees : Exists(e) => employee[e].code \in Nat /\ employee[e].code <= code
  BY <1>1, UnitAssumption DEF IsHighest, WorkInv, EmployeesTypeOK, Exists, Row, Codes
<1>6. \A e \in Employees : ~(Exists(e)' /\ employee'[e].code = session'[s].row.code)
  BY <1>2, <1>3, <1>5, UnitAssumption DEF Exists
<1> QED BY <1>4, <1>6 DEF CodesInv, AllocatedCodesAreFree

\* Whoever gets a code at a commit got it by hand, or held the lock.
LEMMA CreateCommitCodes ==
  ASSUME CodesInv, WorkInv, NEW s \in Sessions, CreateCommit(s)
  PROVE  CodesInv'
<1>1. PICK e \in Employees : e = session[s].id /\ ~Exists(e)
  BY DEF WorkInv, SessionsInv, CreateCommit, MayCarry, Idle
<1>2. session'[s] = Idle /\ \A t \in Sessions \ {s} : session'[t] = session[t]
  BY DEF WorkInv, SessionsInv, CreateCommit, Commit
<1>3. \A t \in Sessions : HoldsLock(t)' => t # s /\ HoldsLock(t) /\ session'[t] = session[t]
  BY <1>2 DEF HoldsLock, Idle
<1>4. \A f \in Employees \ {e} : employee'[f] = employee[f] /\ (f \in byHand' <=> f \in byHand)
  BY <1>1 DEF CreateCommit, WorkInv, EmployeesTypeOK
<1>5. CASE session[s].typed
  <2>1. e \in byHand'
    BY <1>1, <1>5 DEF CreateCommit
  <2> QED BY <1>3, <1>4, <2>1, CodesStay DEF Exists
<1>6. CASE ~session[s].typed
  <2>1. HoldsLock(s)
    BY <1>6 DEF HoldsLock, CreateCommit
  <2>2. \A t \in Sessions : ~HoldsLock(t)'
    BY <1>3, <2>1 DEF CodesInv
  <2> QED BY <2>2 DEF CodesInv, AllocatedCodesAreFree
<1> QED BY <1>5, <1>6

LEMMA ColumnsCommitCodes ==
  ASSUME CodesInv, WorkInv, NEW s \in Sessions, EditCommit(s) \/ StatusCommit(s)
  PROVE  CodesInv'
<1>1. PICK e \in Employees :
        /\ e = session[s].id /\ Exists(e) /\ employee[e] \in Row /\ IsColumns(session[s].columns)
        /\ session[s].at = "status" => "code" \notin DOMAIN session[s].columns
  BY ColumnsCommitWork DEF WorkInv, SessionsInv, EditCommit, StatusCommit, MayCarry, Idle
<1>2. employee'[e] = Updated(employee[e], session[s].columns) /\ \A f \in Employees \ {e} : employee'[f] = employee[f]
  BY <1>1 DEF EditCommit, StatusCommit, WorkInv, EmployeesTypeOK
<1>3. session'[s] = Idle /\ \A t \in Sessions \ {s} : session'[t] = session[t]
  BY DEF WorkInv, SessionsInv, EditCommit, StatusCommit, Commit
<1>4. \A t \in Sessions : HoldsLock(t)' => HoldsLock(t) /\ session'[t] = session[t]
  BY <1>3 DEF HoldsLock, Idle
<1>5. byHand \subseteq byHand' /\ ("code" \in DOMAIN session[s].columns => e \in byHand')
  BY <1>1 DEF EditCommit, StatusCommit
<1>6. "code" \notin DOMAIN session[s].columns => employee'[e].code = employee[e].code
  BY <1>1, <1>2, MergedRow DEF Fields
<1>7. \A f \in Employees : Exists(f)' /\ f \notin byHand' =>
        Exists(f) /\ f \notin byHand /\ employee'[f].code = employee[f].code
  BY <1>1, <1>2, <1>5, <1>6 DEF Exists
<1> QED BY <1>4, <1>7, CodesStay

LEMMA RequestCodes ==
  ASSUME CodesInv, WorkInv, NEW s \in Sessions, EmployeeRequest(s) \/ UnitRequest(s) \/ Abort(s) \/ UnitCommit(s)
  PROVE  CodesInv'
<1>1. PICK work : /\ ~(work.at = "insert" /\ ~work.typed)
                  /\ session' = [session EXCEPT ![s] = work] /\ UNCHANGED <<employee, byHand>>
  <2>1. CASE EmployeeRequest(s)
    BY <2>1 DEF EmployeeRequest, CreateCheck, CreateWithCode, UpdateCheck, TransferCheck, PromoteCheck,
                Edit, ChangeStatus, Terminate, Rehire, Transition, Begin
  <2>2. CASE UnitRequest(s)
    BY <2>2 DEF UnitRequest, OpenCheck, CloseCheck, RemoveCheck, Begin
  <2>3. CASE Abort(s)
    BY <2>3 DEF Abort, Idle
  <2>4. CASE UnitCommit(s)
    BY <2>4 DEF UnitCommit, Commit, Idle
  <2> QED BY <2>1, <2>2, <2>3, <2>4
<1> QED BY <1>1, CodesBegin

LEMMA NextCodes == CodesInv /\ WorkInv /\ [Next]_vars => CodesInv'
<1> SUFFICES ASSUME CodesInv, WorkInv, [Next]_vars PROVE CodesInv'
  OBVIOUS
<1>1. CASE UNCHANGED vars
  BY <1>1 DEF vars, CodesInv, AllocatedCodesAreFree, HoldsLock, Exists
<1>2. ASSUME NEW s \in Sessions, EmployeeRequest(s) \/ UnitRequest(s) \/ Continue(s) \/ Abort(s)
      PROVE  CodesInv'
  BY <1>2, RequestCodes, AllocateCodes, CreateCommitCodes, ColumnsCommitCodes DEF Continue
<1> QED BY <1>1, <1>2 DEF Next

\* An allocated code is refused only for one that was typed in: the advisory
\* lock of the allocation keeps two of them apart until the first has committed.
THEOREM CodesAreFree == Spec => []AllocatedCodesAreFree
<1>1. Init => CodesInv
  BY DEF Init, CodesInv, AllocatedCodesAreFree, HoldsLock, Idle
<1>2. CodesInv => AllocatedCodesAreFree
  BY DEF CodesInv
<1> QED BY <1>1, <1>2, NextCodes, WorkInvariant, PTL DEF Spec


-------------------------------------------------------------------------------
(* What a session knows that no commit has overtaken *)

DatesAgree(row) == row.status = "terminated" <=> row.leaving # None

StillTrue(work) ==
  /\ work.at = "allocate" => ValidPlacement(work.place)
  /\ work.at = "insert" => ValidPlacement(work.row)
  /\ work.at = "edit" =>
       \A u \in Units : Uses(Updated(employee[work.id], work.columns), u) =>
                          IsOpen(u) \/ Uses(employee[work.id], u)
  /\ work.at = "status" =>
       (DatesAgree(employee[work.id]) => DatesAgree(Updated(employee[work.id], work.columns)))
  /\ work.at = "unit" => work.flag = "open" \/ ~InUse(work.id)

FreshInv == \A s \in Sessions \ late : StillTrue(session[s])

\* A commit makes every other open session late.
LEMMA CommitFresh ==
  ASSUME WorkInv, NEW s \in Sessions, Commit(s)
  PROVE  FreshInv'
<1>1. \A t \in Sessions \ late' : session'[t] = Idle
  BY DEF WorkInv, SessionsInv, Commit, Busy
<1>2. \A t \in Sessions \ late' : StillTrue(session[t])'
  BY <1>1 DEF StillTrue, Idle
<1> QED BY <1>2 DEF FreshInv

\* A session that takes up work knows what it has just checked.
LEMMA TakesUpFresh ==
  ASSUME WorkInv, FreshInv, NEW s \in Sessions, NEW work,
         UNCHANGED tables, late \ {s} \subseteq late', session' = [session EXCEPT ![s] = work],
         s \notin late' => StillTrue(work)
  PROVE  FreshInv'
<1>1. session'[s] = work /\ \A t \in Sessions \ {s} : session'[t] = session[t]
  BY DEF WorkInv, SessionsInv
<1>2. \A t \in Sessions \ late' : StillTrue(session'[t])
  BY <1>1 DEF FreshInv
<1>3. employee' = employee /\ inactive' = inactive /\ removed' = removed
  BY DEF tables
<1>4. \A t \in Sessions \ late' : StillTrue(session[t])'
  <2> SUFFICES ASSUME NEW t \in Sessions \ late' PROVE StillTrue(session[t])'
    OBVIOUS
  <2>1. StillTrue(session'[t])
    BY <1>2
  <2> QED BY <1>3, <2>1 DEF StillTrue, ValidPlacement, IsOpen, InUse, Active, Exists
<1> QED BY <1>4 DEF FreshInv

LEMMA BeginFresh ==
  ASSUME WorkInv, FreshInv, NEW s \in Sessions, NEW work, Begin(s, work), StillTrue(work)
  PROVE  FreshInv'
  BY TakesUpFresh DEF Begin, tables

\* An update of units checked to be open, or the employee's own.
LEMMA EditFresh ==
  ASSUME WorkInv, FreshInv, NEW s \in Sessions, NEW e \in Employees, Exists(e), NEW new,
         IsColumns(new), {"status", "leaving"} \cap DOMAIN new = {}, Edit(s, e, new),
         \A f \in {"branch", "dept", "designation"} \cap DOMAIN new :
           IsOpen(new[f]) \/ new[f] = employee[e][f]
  PROVE  FreshInv'
<1> DEFINE work == [at |-> "edit", id |-> e, columns |-> Changed(employee[e], new)]
<1>1. employee[e] \in Row
  BY DEF WorkInv, EmployeesTypeOK, Exists
<1>2. \A f \in Fields : Updated(employee[e], work.columns)[f] = IF f \in DOMAIN new THEN new[f] ELSE employee[e][f]
  BY <1>1, ChangedColumns
<1>3. \A u \in Units : Uses(Updated(employee[e], work.columns), u) => IsOpen(u) \/ Uses(employee[e], u)
  BY <1>2 DEF Uses, Fields
<1>4. StillTrue(work)
  BY <1>3 DEF StillTrue
<1> QED BY <1>4, BeginFresh DEF Edit

\* A transition that sets the date it must.
LEMMA TransitionFresh ==
  ASSUME WorkInv, FreshInv, NEW s \in Sessions, NEW e \in Employees, Exists(e), NEW new,
         IsColumns(new), "status" \in DOMAIN new, Transition(s, e, new),
         \/ "leaving" \in DOMAIN new /\ (new.status = "terminated" <=> new.leaving # None)
         \/ "leaving" \notin DOMAIN new /\ "terminated" \notin {new.status, employee[e].status}
  PROVE  FreshInv'
<1> DEFINE work == [at |-> "status", id |-> e, columns |-> Changed(employee[e], new), to |-> new.status]
<1>1. employee[e] \in Row
  BY DEF WorkInv, EmployeesTypeOK, Exists
<1>2. \A f \in Fields : Updated(employee[e], work.columns)[f] = IF f \in DOMAIN new THEN new[f] ELSE employee[e][f]
  BY <1>1, ChangedColumns
<1>3. DatesAgree(employee[e]) => DatesAgree(Updated(employee[e], work.columns))
  BY <1>2 DEF DatesAgree, Fields
<1>4. StillTrue(work)
  BY <1>3 DEF StillTrue
<1> QED BY <1>4, BeginFresh DEF Transition

LEMMA CreateFresh ==
  ASSUME WorkInv, FreshInv, NEW s \in Sessions, NEW e \in Employees, NEW p \in Placement,
         CreateCheck(s, e, p) \/ \E code \in Codes : CreateWithCode(s, e, p, code)
  PROVE  FreshInv'
<1>1. CASE CreateCheck(s, e, p)
  <2>1. StillTrue([at |-> "allocate", id |-> e, place |-> p])
    BY <1>1 DEF CreateCheck, StillTrue
  <2> QED BY <1>1, <2>1, BeginFresh DEF CreateCheck
<1>2. ASSUME NEW code \in Codes, CreateWithCode(s, e, p, code)
      PROVE  FreshInv'
  <2> DEFINE work == [at |-> "insert", id |-> e, row |-> Hired(p, code), typed |-> TRUE]
  <2>1. StillTrue(work)
    BY <1>2 DEF CreateWithCode, StillTrue, ValidPlacement, Hired
  <2> QED BY <1>2, <2>1, BeginFresh DEF CreateWithCode
<1> QED BY <1>1, <1>2


LEMMA EmployeeRequestFresh ==
  ASSUME WorkInv, FreshInv, NEW s \in Sessions, EmployeeRequest(s)
  PROVE  FreshInv'
<1>1. PICK e \in Employees :
        \/ \E p \in Placement : CreateCheck(s, e, p) \/ \E code \in Codes : CreateWithCode(s, e, p, code)
        \/ \E new \in Master : UpdateCheck(s, e, new)
        \/ \E b \in Branches, d \in Departments : TransferCheck(s, e, [branch |-> b, dept |-> d])
        \/ \E g \in Designations : PromoteCheck(s, e, g)
        \/ \E to \in {"active", "inactive"} : ChangeStatus(s, e, to)
        \/ \E date \in LeaveDates : Terminate(s, e, date)
        \/ Rehire(s, e)
  BY DEF EmployeeRequest
<1>2. ASSUME NEW new \in Master, UpdateCheck(s, e, new) PROVE FreshInv'
  <2>1. IsColumns(new) /\ {"status", "leaving"} \cap DOMAIN new = {} /\ DOMAIN new \subseteq Fields
    BY DEF Master, IsColumns, Fields
  <2>2. \A f \in {"branch", "dept", "designation"} \cap DOMAIN new :
          IsOpen(new[f]) \/ new[f] = employee[e][f]
    BY <1>2 DEF UpdateCheck, Changed, ValidPlacement
  <2> QED BY <1>2, <2>1, <2>2, EditFresh DEF UpdateCheck
<1>3. ASSUME NEW b \in Branches, NEW d \in Departments, TransferCheck(s, e, [branch |-> b, dept |-> d])
      PROVE  FreshInv'
  <2> DEFINE new == [branch |-> b, dept |-> d]
  <2>1. IsColumns(new) /\ {"status", "leaving"} \cap DOMAIN new = {}
    BY DEF IsColumns, Fields
  <2>2. \A f \in {"branch", "dept", "designation"} \cap DOMAIN new :
          IsOpen(new[f]) \/ new[f] = employee[e][f]
    BY <1>3 DEF TransferCheck
  <2> QED BY <1>3, <2>1, <2>2, EditFresh DEF TransferCheck
<1>4. ASSUME NEW g \in Designations, PromoteCheck(s, e, g) PROVE FreshInv'
  <2> DEFINE new == [designation |-> g]
  <2>1. IsColumns(new) /\ {"status", "leaving"} \cap DOMAIN new = {}
    BY DEF IsColumns, Fields
  <2>2. \A f \in {"branch", "dept", "designation"} \cap DOMAIN new :
          IsOpen(new[f]) \/ new[f] = employee[e][f]
    BY <1>4 DEF PromoteCheck
  <2> QED BY <1>4, <2>1, <2>2, EditFresh DEF PromoteCheck
<1>5. ASSUME NEW to \in {"active", "inactive"}, ChangeStatus(s, e, to) PROVE FreshInv'
  <2> DEFINE new == [status |-> to]
  <2>1. IsColumns(new) /\ "status" \in DOMAIN new /\ "leaving" \notin DOMAIN new
    BY DEF IsColumns, Fields, Statuses
  <2>2. "terminated" \notin {new.status, employee[e].status}
    BY <1>5 DEF ChangeStatus
  <2> QED BY <1>5, <2>1, <2>2, TransitionFresh DEF ChangeStatus
<1>6. ASSUME NEW date \in LeaveDates, Terminate(s, e, date) PROVE FreshInv'
  <2> DEFINE new == [status |-> "terminated", leaving |-> date]
  <2>1. IsColumns(new) /\ "status" \in DOMAIN new /\ "leaving" \in DOMAIN new
    BY DEF IsColumns, Fields, Statuses
  <2>2. new.status = "terminated" /\ new.leaving # None
    BY NoneAssumption
  <2> QED BY <1>6, <2>1, <2>2, TransitionFresh DEF Terminate
<1>7. CASE Rehire(s, e)
  <2> DEFINE new == [status |-> "active", leaving |-> None]
  <2>1. IsColumns(new) /\ "status" \in DOMAIN new /\ "leaving" \in DOMAIN new
    BY DEF IsColumns, Fields, Statuses
  <2>2. new.status # "terminated" /\ new.leaving = None
    OBVIOUS
  <2> QED BY <1>7, <2>1, <2>2, TransitionFresh DEF Rehire
<1> QED BY <1>1, <1>2, <1>3, <1>4, <1>5, <1>6, <1>7, CreateFresh

LEMMA UnitRequestFresh ==
  ASSUME WorkInv, FreshInv, NEW s \in Sessions, UnitRequest(s)
  PROVE  FreshInv'
<1>1. PICK u \in Units : OpenCheck(s, u) \/ CloseCheck(s, u) \/ RemoveCheck(s, u)
  BY DEF UnitRequest
<1>2. PICK flag : /\ flag = "open" \/ ~InUse(u)
                  /\ Begin(s, [at |-> "unit", id |-> u, flag |-> flag])
  BY <1>1 DEF OpenCheck, CloseCheck, RemoveCheck
<1>3. StillTrue([at |-> "unit", id |-> u, flag |-> flag])
  BY <1>2 DEF StillTrue
<1> QED BY <1>2, <1>3, BeginFresh

LEMMA AllocateFresh ==
  ASSUME WorkInv, FreshInv, NEW s \in Sessions, Allocate(s)
  PROVE  FreshInv'
<1>1. PICK code : session' = [session EXCEPT ![s] =
        [at |-> "insert", id |-> session[s].id, typed |-> FALSE, row |-> Hired(session[s].place, code + 1)]]
  BY DEF Allocate
<1> DEFINE work == [at |-> "insert", id |-> session[s].id, typed |-> FALSE,
                    row |-> Hired(session[s].place, code + 1)]
<1>2. s \notin late => ValidPlacement(session[s].place)
  BY DEF FreshInv, StillTrue, Allocate
<1>3. s \notin late => StillTrue(work)
  BY <1>2 DEF StillTrue, ValidPlacement, Hired
<1>4. UNCHANGED tables /\ late' = late
  BY DEF Allocate, tables
<1> QED BY <1>1, <1>3, <1>4, TakesUpFresh

LEMMA AbortFresh ==
  ASSUME WorkInv, FreshInv, NEW s \in Sessions, Abort(s)
  PROVE  FreshInv'
<1>1. StillTrue(Idle)
  BY DEF StillTrue, Idle
<1> QED BY <1>1, TakesUpFresh DEF Abort, tables

LEMMA NextFresh == WorkInv /\ FreshInv /\ [Next]_vars => FreshInv'
<1> SUFFICES ASSUME WorkInv, FreshInv, [Next]_vars PROVE FreshInv'
  OBVIOUS
<1>1. CASE UNCHANGED vars
  BY <1>1 DEF vars, FreshInv, StillTrue, ValidPlacement, IsOpen, InUse, Active, Exists
<1>2. ASSUME NEW s \in Sessions, EmployeeRequest(s) \/ UnitRequest(s) \/ Continue(s) \/ Abort(s)
      PROVE  FreshInv'
  BY <1>2, EmployeeRequestFresh, UnitRequestFresh, AllocateFresh, AbortFresh, CommitFresh
     DEF Continue, AllocateCode, CreateCommit, EditCommit, StatusCommit, UnitCommit
<1> QED BY <1>1, <1>2 DEF Next

LEMMA FreshInvariant == Spec => [](WorkInv /\ FreshInv)
<1>1. Init => FreshInv
  BY DEF Init, FreshInv, StillTrue, Idle
<1> QED BY <1>1, InitWork, NextWork, NextFresh, PTL DEF Spec

-------------------------------------------------------------------------------
(* Dates of leaving *)

LEMMA NextDates ==
  ASSUME WorkInv, FreshInv, DatesFollowStatus, [Next]_vars
  PROVE  DatesFollowStatus'
<1> SUFFICES ASSUME ~raced', NEW e \in Employees, Exists(e)' PROVE DatesAgree(employee'[e])
  BY DEF DatesFollowStatus, DatesAgree
<1>1. ~raced => \A f \in Employees : Exists(f) => DatesAgree(employee[f])
  BY DEF DatesFollowStatus, DatesAgree
<1>2. CASE UNCHANGED <<employee, raced>>
  BY <1>1, <1>2 DEF Exists
<1>3. ASSUME NEW s \in Sessions, CreateCommit(s) PROVE DatesAgree(employee'[e])
  <2>1. ~raced
    BY <1>3 DEF CreateCommit, Commit
  <2>2. session[s].row.status = "active" /\ session[s].row.leaving = None
    BY <1>3 DEF CreateCommit, WorkInv, SessionsInv, MayCarry, Idle
  <2>3. employee'[e] = employee[e] \/ employee'[e] = session[s].row
    BY <1>3 DEF CreateCommit, WorkInv, EmployeesTypeOK
  <2> QED BY <1>1, <2>1, <2>2, <2>3 DEF DatesAgree, Exists
<1>4. ASSUME NEW s \in Sessions, EditCommit(s) PROVE DatesAgree(employee'[e])
  <2>1. ~raced /\ Exists(e)
    BY <1>4, ColumnsCommitWork DEF EditCommit, Commit, WorkInv, EmployeesTypeOK, Exists
  <2>2. \/ employee'[e] = employee[e]
        \/ employee'[e].status = employee[e].status /\ employee'[e].leaving = employee[e].leaving
    BY <1>4, ColumnsCommitWork DEF EditCommit, WorkInv, EmployeesTypeOK
  <2> QED BY <1>1, <2>1, <2>2 DEF DatesAgree
<1>5. ASSUME NEW s \in Sessions, StatusCommit(s) PROVE DatesAgree(employee'[e])
  <2>1. ~raced /\ s \notin late /\ Exists(e)
    BY <1>5, ColumnsCommitWork DEF StatusCommit, Commit, WorkInv, EmployeesTypeOK, Exists
  <2>2. \/ employee'[e] = employee[e]
        \/ e = session[s].id /\ employee'[e] = Updated(employee[e], session[s].columns)
    BY <1>5 DEF StatusCommit, WorkInv, EmployeesTypeOK
  <2>3. e = session[s].id => (DatesAgree(employee[e]) => DatesAgree(Updated(employee[e], session[s].columns)))
    BY <1>5, <2>1 DEF FreshInv, StillTrue, StatusCommit
  <2> QED BY <1>1, <2>1, <2>2, <2>3
<1>6. ASSUME NEW s \in Sessions, UnitCommit(s) PROVE DatesAgree(employee'[e])
  BY <1>1, <1>6 DEF UnitCommit, Commit, Exists
<1>7. ASSUME NEW s \in Sessions, EmployeeRequest(s) \/ UnitRequest(s) \/ AllocateCode(s) \/ Abort(s)
      PROVE  UNCHANGED <<employee, raced>>
  BY <1>7 DEF EmployeeRequest, CreateCheck, CreateWithCode, UpdateCheck, TransferCheck, PromoteCheck,
              Edit, ChangeStatus, Terminate, Rehire, Transition, Begin, UnitRequest, OpenCheck,
              CloseCheck, RemoveCheck, AllocateCode, Allocate, Abort
<1> QED BY <1>2, <1>3, <1>4, <1>5, <1>6, <1>7 DEF Next, Continue, vars

\* As long as no session commits what another one's commit made stale, who is
\* terminated, and nobody else, has a date of leaving.
THEOREM DatesAreRight == Spec => []DatesFollowStatus
<1>1. Init => DatesFollowStatus
  BY DEF Init, DatesFollowStatus, Exists
<1> QED BY <1>1, FreshInvariant, NextDates, PTL DEF Spec


-------------------------------------------------------------------------------
(* Closed units *)

ReturnsOnly(e) ==
  Active(e)' => \/ Active(e) /\ ClosedUnitsOf(e)' \subseteq ClosedUnitsOf(e)
                \/ ~Exists(e) /\ ClosedUnitsOf(e)' = {}
                \/ Exists(e) /\ ~Active(e)

LEMMA StepReturnsOnly ==
  ASSUME WorkInv, FreshInv, Next, ~raced', NEW e \in Employees
  PROVE  ReturnsOnly(e)
<1>1. ASSUME NEW s \in Sessions, CreateCommit(s) PROVE ReturnsOnly(e)
  <2>1. s \notin late /\ inactive' = inactive /\ removed' = removed
    BY <1>1 DEF CreateCommit, Commit
  <2>2. ValidPlacement(session[s].row)
    BY <1>1, <2>1 DEF CreateCommit, FreshInv, StillTrue
  <2>3. \/ employee'[e] = employee[e]
        \/ ~Exists(e) /\ employee'[e] = session[s].row
    BY <1>1 DEF CreateCommit, WorkInv, EmployeesTypeOK, SessionsInv, MayCarry, Idle
  <2> QED BY <2>1, <2>2, <2>3 DEF ReturnsOnly, ClosedUnitsOf, Active, Exists, ValidPlacement, IsOpen, Uses
<1>2. ASSUME NEW s \in Sessions, EditCommit(s) PROVE ReturnsOnly(e)
  <2>1. s \notin late /\ inactive' = inactive /\ removed' = removed
    BY <1>2 DEF EditCommit, Commit
  <2>2. \/ employee'[e] = employee[e]
        \/ /\ e = session[s].id /\ employee'[e] = Updated(employee[e], session[s].columns)
           /\ Exists(e) /\ employee'[e].status = employee[e].status
    BY <1>2, ColumnsCommitWork DEF EditCommit, WorkInv, EmployeesTypeOK
  <2>3. e = session[s].id =>
          \A u \in Units : Uses(Updated(employee[e], session[s].columns), u) =>
                             IsOpen(u) \/ Uses(employee[e], u)
    BY <1>2, <2>1 DEF EditCommit, FreshInv, StillTrue
  <2> QED BY <2>1, <2>2, <2>3 DEF ReturnsOnly, ClosedUnitsOf, Active, Exists, IsOpen
<1>3. ASSUME NEW s \in Sessions, StatusCommit(s) PROVE ReturnsOnly(e)
  <2>1. inactive' = inactive /\ removed' = removed
    BY <1>3 DEF StatusCommit
  <2>2. \/ employee'[e] = employee[e]
        \/ /\ Exists(e) /\ employee'[e].branch = employee[e].branch
           /\ employee'[e].dept = employee[e].dept /\ employee'[e].designation = employee[e].designation
    BY <1>3, ColumnsCommitWork DEF StatusCommit, WorkInv, EmployeesTypeOK, Fields
  <2> QED BY <2>1, <2>2 DEF ReturnsOnly, ClosedUnitsOf, Active, Exists, IsOpen, Uses
<1>4. ASSUME NEW s \in Sessions, UnitCommit(s) PROVE ReturnsOnly(e)
  <2>1. s \notin late /\ employee' = employee
    BY <1>4 DEF UnitCommit, Commit
  <2>2. session[s].flag = "open" \/ ~InUse(session[s].id)
    BY <1>4, <2>1 DEF UnitCommit, FreshInv, StillTrue
  <2>3. session[s].flag \in {"open", "close", "remove"}
    BY <1>4 DEF UnitCommit, WorkInv, SessionsInv, MayCarry, Idle
  <2>4. CASE session[s].flag = "open"
    <3>1. inactive' \subseteq inactive /\ removed' = removed
      BY <1>4, <2>4 DEF UnitCommit
    <3> QED BY <2>1, <3>1 DEF ReturnsOnly, ClosedUnitsOf, Active, Exists, IsOpen
  <2>5. CASE session[s].flag # "open"
    <3>1. inactive' \cup removed' = inactive \cup removed \cup {session[s].id}
      BY <1>4, <2>3, <2>5 DEF UnitCommit
    <3>2. Active(e) => ~Uses(employee[e], session[s].id)
      BY <2>2, <2>5 DEF InUse
    <3> QED BY <2>1, <3>1, <3>2 DEF ReturnsOnly, ClosedUnitsOf, Active, Exists, IsOpen
  <2> QED BY <2>4, <2>5
<1>5. ASSUME NEW s \in Sessions, EmployeeRequest(s) \/ UnitRequest(s) \/ AllocateCode(s) \/ Abort(s)
      PROVE  ReturnsOnly(e)
  <2>1. UNCHANGED <<employee, inactive, removed>>
    BY <1>5 DEF EmployeeRequest, CreateCheck, CreateWithCode, UpdateCheck, TransferCheck, PromoteCheck,
                Edit, ChangeStatus, Terminate, Rehire, Transition, Begin, UnitRequest, OpenCheck,
                CloseCheck, RemoveCheck, AllocateCode, Allocate, Abort
  <2> QED BY <2>1 DEF ReturnsOnly, ClosedUnitsOf, Active, Exists, IsOpen
<1> QED BY <1>1, <1>2, <1>3, <1>4, <1>5 DEF Next, Continue

\* As long as no session commits what another one's commit made stale, an active
\* employee gets into a closed unit only by coming back to it.
THEOREM ClosedUnitsStayShut == Spec => OnlyReturnsToClosedUnits
<1>1. WorkInv /\ FreshInv /\ [Next]_vars =>
        [~raced' => \A e \in Employees : Active(e)' =>
             \/ Active(e) /\ ClosedUnitsOf(e)' \subseteq ClosedUnitsOf(e)
             \/ ~Exists(e) /\ ClosedUnitsOf(e)' = {}
             \/ Exists(e) /\ ~Active(e)]_vars
  BY StepReturnsOnly DEF ReturnsOnly
<1> QED BY <1>1, FreshInvariant, PTL DEF Spec, OnlyReturnsToClosedUnits
===============================================================================
