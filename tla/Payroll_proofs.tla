----------------------------- MODULE Payroll_proofs -----------------------------
(***************************************************************************)
(* Proofs about PayrollRun and PayrollSessions, for any number of          *)
(* employees, periods, loans, runs and sessions.  First the rows that runs *)
(* lock, where nothing depends on the amounts; then the amounts, which are *)
(* sums over loans and over runs; then the handlers as sessions.           *)
(***************************************************************************)
EXTENDS PayrollSessions, SumTheorems, TLAPS

\* A row of whatever amounts.
IsRow(x) ==
  /\ x = [exists |-> x.exists, run |-> x.run, deduction |-> x.deduction, arrears |-> x.arrears]
  /\ x.exists \in BOOLEAN /\ x.run \in Runs \cup {NoRun}

\* The shape of the tables: amounts are left open.
Shape ==
  /\ DOMAIN row = Employees
  /\ \A e \in Employees : DOMAIN row[e] = Cycles
  /\ \A e \in Employees, c \in Cycles : IsRow(row[e][c])
  /\ run \in [Runs -> RunRow]
  /\ DOMAIN paidOut = Runs
  /\ \A r \in Runs : paidOut[r] = [e \in Employees |-> paidOut[r][e]]

\* A draft locks nothing, rows are locked by the active run of their period, a
\* run has one period, and a run that is not active has paid nothing.
LockInv ==
  /\ Shape
  /\ \A e \in Employees, c \in Cycles : ~row[e][c].exists => row[e][c] = NoRow
  /\ \A e \in Employees, c \in Cycles :
       Finalized(e, c) =>
         /\ run[row[e][c].run].status = "active" /\ run[row[e][c].run].cycle = c
  /\ \A r, q \in Runs :
       run[r].status = "active" /\ run[q].status = "active" /\ run[r].cycle = run[q].cycle
         => r = q
  /\ ArrearsPaidAsOnPayslip

LEMMA NoRowShape == IsRow(NoRow) /\ NoRow.run = NoRun /\ NoRow.arrears = 0
BY DEF NoRow, IsRow

\* Locking or unlocking a row keeps the rest of it.
LEMMA RunWritten ==
  ASSUME NEW x, IsRow(x), NEW r \in Runs \cup {NoRun}
  PROVE  LET new == [x EXCEPT !.run = r] IN
         /\ IsRow(new) /\ new.run = r /\ new.exists = x.exists /\ new.arrears = x.arrears
         /\ new.deduction = x.deduction
BY DEF IsRow

LEMMA RowRun ==
  ASSUME LockInv, NEW e \in Employees, NEW c \in Cycles
  PROVE  IsRow(row[e][c]) /\ row[e][c].run \in Runs \cup {NoRun} /\ row[e][c].exists \in BOOLEAN
<1>1. IsRow(row[e][c])
  BY DEF LockInv, Shape
<1> QED
  BY <1>1 DEF IsRow

LEMMA LockInit == Init => LockInv
<1> SUFFICES ASSUME Init PROVE LockInv
  OBVIOUS
<1>1. \A e \in Employees, c \in Cycles : row[e][c] = NoRow /\ NoRow.exists = FALSE
  BY DEF Init, NoRow
<1>2. Shape
  BY <1>1, NoRowShape, PayrollAssumption DEF Init, Shape, RunRow, PayrollAssumption
<1>3. \A e \in Employees, c \in Cycles : ~Finalized(e, c)
  BY <1>1, NoRowShape DEF Finalized
<1>4. ArrearsPaidAsOnPayslip
  BY NoRowShape DEF Init, ArrearsPaidAsOnPayslip, LockedRow
<1>5. \A r \in Runs : run[r].status = "absent"
  BY DEF Init
<1> QED
  BY <1>1, <1>2, <1>3, <1>4, <1>5 DEF LockInv

-------------------------------------------------------------------------------
(* What each operation does to a row *)

\* A draft is a row that is not finalized.
LEMMA DraftRow ==
  ASSUME NEW e \in Employees
  PROVE  IsRow(Computed(e)) /\ Computed(e).run = NoRun /\ Computed(e).exists = TRUE
BY DEF Computed, IsRow

\* Drafts are written over rows that are not finalized, and are not finalized.
LEMMA GenerateRows ==
  ASSUME LockInv, NEW c \in Cycles, NEW S \in SUBSET Employees, GeneratePayroll(c, S)
  PROVE  /\ Shape'
         /\ UNCHANGED <<run, paidOut>>
         /\ \A e \in Employees, d \in Cycles :
              \/ row'[e][d] = row[e][d]
              \/ ~Finalized(e, d) /\ row'[e][d].run = NoRun /\ row'[e][d].exists = TRUE
<1>1. /\ row' = [e \in Employees |->
                   IF e \in S /\ ~Finalized(e, c)
                   THEN [row[e] EXCEPT ![c] = Computed(e)] ELSE row[e]]
      /\ UNCHANGED <<run, paidOut>>
  BY DEF GeneratePayroll
<1>2. ASSUME NEW e \in Employees, NEW d \in Cycles
      PROVE  row'[e][d] = IF e \in S /\ ~Finalized(e, c) /\ d = c THEN Computed(e) ELSE row[e][d]
  BY <1>1 DEF LockInv, Shape
<1>3. \A e \in Employees : DOMAIN row'[e] = Cycles
  BY <1>1 DEF LockInv, Shape
<1>4. \A e \in Employees, d \in Cycles : IsRow(row'[e][d])
  BY <1>2, DraftRow, RowRun
<1>5. Shape'
  <2>1. DOMAIN row' = Employees
    BY <1>1
  <2>2. run' = run /\ paidOut' = paidOut
    BY <1>1
  <2> QED
    BY <1>3, <1>4, <2>1, <2>2 DEF LockInv, Shape
<1>6. ASSUME NEW e \in Employees, NEW d \in Cycles
      PROVE  \/ row'[e][d] = row[e][d]
             \/ ~Finalized(e, d) /\ row'[e][d].run = NoRun /\ row'[e][d].exists = TRUE
  BY <1>2, DraftRow
<1> QED
  BY <1>1, <1>5, <1>6

\* Finalizing locks the rows of the period that exist, and touches no other.
LEMMA FinalizeRows ==
  ASSUME LockInv, NEW c \in Cycles, NEW r \in Runs, FinalizePayroll(c, r)
  PROVE  /\ Shape'
         /\ \A e \in Employees, d \in Cycles :
              row'[e][d] = IF d = c /\ row[e][d].exists
                           THEN [row[e][d] EXCEPT !.run = r] ELSE row[e][d]
<1>1. /\ row' = [e \in Employees |->
                   IF InRun(e, c) THEN [row[e] EXCEPT ![c].run = r] ELSE row[e]]
      /\ run' = [run EXCEPT ![r] = [status |-> "active", cycle |-> c]]
      /\ paidOut' = [paidOut EXCEPT ![r] = [e \in Employees |-> ArrearsDue(e, c)]]
  BY DEF FinalizePayroll
<1>2. ASSUME NEW e \in Employees, NEW d \in Cycles
      PROVE  row'[e][d] = IF d = c /\ row[e][d].exists
                          THEN [row[e][d] EXCEPT !.run = r] ELSE row[e][d]
  BY <1>1 DEF LockInv, Shape, InRun
<1>3. \A e \in Employees : DOMAIN row'[e] = Cycles
  BY <1>1 DEF LockInv, Shape
<1>4. ASSUME NEW e \in Employees, NEW d \in Cycles
      PROVE  IsRow([row[e][d] EXCEPT !.run = r]) /\ IsRow(row[e][d])
  BY RunWritten DEF LockInv, Shape
<1>5. run' \in [Runs -> RunRow]
  BY <1>1 DEF LockInv, Shape, RunRow
<1>6. DOMAIN paidOut' = Runs /\ \A q \in Runs : paidOut'[q] = [e \in Employees |-> paidOut'[q][e]]
  BY <1>1 DEF LockInv, Shape
<1>7. DOMAIN row' = Employees
  BY <1>1
<1>8. ASSUME NEW e \in Employees, NEW d \in Cycles
      PROVE  IsRow(row'[e][d])
  BY <1>2, <1>4
<1> QED
  BY <1>2, <1>3, <1>5, <1>6, <1>7, <1>8 DEF Shape

\* Undoing a run unlocks the rows that name it, and touches no other.
LEMMA DefinalizeRows ==
  ASSUME LockInv, NEW r \in Runs, DefinalizePayroll(r)
  PROVE  /\ Shape'
         /\ \A e \in Employees, d \in Cycles :
              row'[e][d] = IF row[e][d].run = r
                           THEN [row[e][d] EXCEPT !.run = NoRun] ELSE row[e][d]
<1>1. /\ row' = Unlocked(r)
      /\ run' = [run EXCEPT ![r].status = "definalized"]
      /\ paidOut' = [paidOut EXCEPT ![r] = [e \in Employees |-> 0]]
  BY DEF DefinalizePayroll
<1>2. ASSUME NEW e \in Employees, NEW d \in Cycles
      PROVE  row'[e][d] = IF row[e][d].run = r
                          THEN [row[e][d] EXCEPT !.run = NoRun] ELSE row[e][d]
  BY <1>1 DEF Unlocked
<1>3. DOMAIN row' = Employees /\ \A e \in Employees : DOMAIN row'[e] = Cycles
  BY <1>1 DEF Unlocked
<1>4. ASSUME NEW e \in Employees, NEW d \in Cycles
      PROVE  IsRow([row[e][d] EXCEPT !.run = NoRun]) /\ IsRow(row[e][d])
  BY RunWritten DEF LockInv, Shape
<1>5. run' \in [Runs -> RunRow]
  BY <1>1 DEF LockInv, Shape, RunRow
<1>6. DOMAIN paidOut' = Runs /\ \A q \in Runs : paidOut'[q] = [e \in Employees |-> paidOut'[q][e]]
  BY <1>1 DEF LockInv, Shape
<1>7. ASSUME NEW e \in Employees, NEW d \in Cycles
      PROVE  IsRow(row'[e][d])
  BY <1>2, <1>4
<1> QED
  BY <1>2, <1>3, <1>5, <1>6, <1>7 DEF Shape

-------------------------------------------------------------------------------
(* The locks *)

LEMMA GenerateKeepsLocked ==
  ASSUME LockInv, NEW c \in Cycles, NEW S \in SUBSET Employees, GeneratePayroll(c, S),
         NEW r \in Runs, NEW e \in Employees
  PROVE  LockedRow(e, r)' = LockedRow(e, r)
<1>1. /\ run' = run
      /\ \A d \in Cycles :
           row'[e][d] = row[e][d] \/ (~Finalized(e, d) /\ row'[e][d].run = NoRun)
  BY GenerateRows
<1>2. CASE run[r].status = "active"
  <2>1. run[r].cycle \in Cycles
    BY DEF LockInv, Shape, RunRow
  <2> QED
    BY <1>1, <1>2, <2>1, PayrollAssumption DEF LockedRow, Finalized, PayrollAssumption
<1>3. CASE run[r].status # "active"
  BY <1>1, <1>3 DEF LockedRow
<1> QED
  BY <1>2, <1>3

\* Drafts leave the locked rows, and what runs have paid, alone.
LEMMA GenerateLocks ==
  ASSUME LockInv, NEW c \in Cycles, NEW S \in SUBSET Employees, GeneratePayroll(c, S)
  PROVE  LockInv'
<1>1. /\ Shape' /\ run' = run /\ paidOut' = paidOut
      /\ \A e \in Employees, d \in Cycles :
           \/ row'[e][d] = row[e][d]
           \/ ~Finalized(e, d) /\ row'[e][d].run = NoRun /\ row'[e][d].exists = TRUE
  BY GenerateRows
<1>2. \A e \in Employees, d \in Cycles : ~row'[e][d].exists => row'[e][d] = NoRow
  BY <1>1 DEF LockInv
<1>3. ASSUME NEW e \in Employees, NEW d \in Cycles, Finalized(e, d)'
      PROVE  Finalized(e, d) /\ row'[e][d] = row[e][d]
  BY <1>1, <1>3 DEF Finalized
<1>4. ASSUME NEW r \in Runs, NEW e \in Employees
      PROVE  LockedRow(e, r)' = LockedRow(e, r)
  BY GenerateKeepsLocked
<1>5. ArrearsPaidAsOnPayslip'
  BY <1>1, <1>4 DEF LockInv, ArrearsPaidAsOnPayslip
<1> QED
  BY <1>1, <1>2, <1>3, <1>5 DEF LockInv, Finalized

\* A run locks rows of its own period, in which no run was active.
LEMMA FinalizeLocks ==
  ASSUME LockInv, NEW c \in Cycles, NEW r \in Runs, FinalizePayroll(c, r)
  PROVE  LockInv'
<1>1. /\ Shape'
      /\ \A e \in Employees, d \in Cycles :
           row'[e][d] = IF d = c /\ row[e][d].exists
                        THEN [row[e][d] EXCEPT !.run = r] ELSE row[e][d]
  BY FinalizeRows
<1>2. /\ run' = [run EXCEPT ![r] = [status |-> "active", cycle |-> c]]
      /\ paidOut' = [paidOut EXCEPT ![r] = [e \in Employees |-> row[e][c].arrears]]
      /\ \A q \in Runs : ~(run[q].status = "active" /\ run[q].cycle = c)
      /\ run[r].status = "absent"
      /\ \A e \in Employees : ~Finalized(e, c)
  BY DEF FinalizePayroll, ActiveRuns, ArrearsDue
<1>3. /\ run'[r].status = "active" /\ run'[r].cycle = c
      /\ \A q \in Runs \ {r} : run'[q] = run[q]
  BY <1>2 DEF LockInv, Shape
<1>4. ASSUME NEW e \in Employees, NEW d \in Cycles
      PROVE  /\ row'[e][d].exists = row[e][d].exists /\ row'[e][d].arrears = row[e][d].arrears
             /\ row'[e][d].run = IF d = c /\ row[e][d].exists THEN r ELSE row[e][d].run
  <2> DEFINE new == [row[e][d] EXCEPT !.run = r]
  <2>1. new.run = r /\ new.exists = row[e][d].exists /\ new.arrears = row[e][d].arrears
    BY RowRun, RunWritten
  <2>2. row'[e][d] = IF d = c /\ row[e][d].exists THEN new ELSE row[e][d]
    BY <1>1
  <2> HIDE DEF new
  <2> QED
    BY <2>1, <2>2
<1>5. ASSUME NEW e \in Employees, NEW d \in Cycles, ~row'[e][d].exists
      PROVE  row'[e][d] = NoRow
  <2>1. ~row[e][d].exists
    BY <1>4, <1>5
  <2>2. row[e][d] = NoRow
    BY <2>1 DEF LockInv
  <2> QED
    BY <1>1, <2>1, <2>2
<1>6. ASSUME NEW e \in Employees, NEW d \in Cycles, row'[e][d].run # NoRun
      PROVE  run'[row'[e][d].run].status = "active" /\ run'[row'[e][d].run].cycle = d
  <2>1. CASE d = c /\ row[e][d].exists
    BY <1>3, <1>4, <2>1
  <2>2. CASE ~(d = c /\ row[e][d].exists)
    <3>1. row'[e][d].run = row[e][d].run /\ row[e][d].run \in Runs
      BY <1>4, <1>6, <2>2, RowRun
    <3>2. run[row[e][d].run].status = "active" /\ run[row[e][d].run].cycle = d
      BY <1>6, <3>1 DEF LockInv, Finalized
    <3> QED
      BY <1>2, <1>3, <3>1, <3>2
  <2> QED
    BY <2>1, <2>2
<1>7. ASSUME NEW p \in Runs, NEW q \in Runs, run'[p].status = "active",
             run'[q].status = "active", run'[p].cycle = run'[q].cycle
      PROVE  p = q
  BY <1>2, <1>3, <1>7 DEF LockInv
<1>8. ASSUME NEW q \in Runs, NEW e \in Employees
      PROVE  paidOut'[q][e] = LockedRow(e, q)'.arrears
  <2>1. CASE q = r
    <3>1. paidOut'[q][e] = row[e][c].arrears
      BY <1>2, <2>1 DEF LockInv, Shape
    <3>2. CASE row[e][c].exists
      BY <1>3, <1>4, <2>1, <3>1, <3>2 DEF LockedRow
    <3>3. CASE ~row[e][c].exists
      <4>1. row'[e][c].run = NoRun /\ row[e][c].arrears = 0
        BY <1>4, <3>3, NoRowShape DEF LockInv
      <4> QED
        BY <1>3, <2>1, <3>1, <4>1, NoRowShape, PayrollAssumption DEF LockedRow, PayrollAssumption
    <3> QED
      BY <3>2, <3>3
  <2>2. CASE q # r
    <3>1. paidOut'[q][e] = LockedRow(e, q).arrears /\ run'[q] = run[q]
      BY <1>2, <1>3, <2>2 DEF LockInv, Shape, ArrearsPaidAsOnPayslip
    <3>2. run[q].cycle \in Cycles /\ (run[q].status = "active" => run[q].cycle # c)
      BY <1>2 DEF LockInv, Shape, RunRow
    <3>3. run[q].status = "active" => row'[e][run[q].cycle] = row[e][run[q].cycle]
      BY <1>1, <3>2
    <3> QED
      BY <3>1, <3>2, <3>3 DEF LockedRow
  <2> QED
    BY <2>1, <2>2
<1>9. ArrearsPaidAsOnPayslip'
  BY <1>8 DEF ArrearsPaidAsOnPayslip
<1> QED
  BY <1>1, <1>5, <1>6, <1>7, <1>9 DEF LockInv, Finalized

\* Undoing a run unlocks all its rows and takes back what it has paid.
LEMMA DefinalizeLocks ==
  ASSUME LockInv, NEW r \in Runs, DefinalizePayroll(r)
  PROVE  LockInv'
<1>1. /\ Shape'
      /\ \A e \in Employees, d \in Cycles :
           row'[e][d] = IF row[e][d].run = r
                        THEN [row[e][d] EXCEPT !.run = NoRun] ELSE row[e][d]
  BY DefinalizeRows
<1>2. /\ run' = [run EXCEPT ![r].status = "definalized"]
      /\ paidOut' = [paidOut EXCEPT ![r] = [e \in Employees |-> 0]]
      /\ run[r].status = "active"
  BY DEF DefinalizePayroll
<1>3. /\ run'[r].status = "definalized"
      /\ \A q \in Runs \ {r} : run'[q] = run[q]
  BY <1>2 DEF LockInv, Shape, RunRow
<1>4. ASSUME NEW e \in Employees, NEW d \in Cycles
      PROVE  /\ row'[e][d].exists = row[e][d].exists
             /\ row'[e][d].run = IF row[e][d].run = r THEN NoRun ELSE row[e][d].run
  <2> DEFINE new == [row[e][d] EXCEPT !.run = NoRun]
  <2>1. new.run = NoRun /\ new.exists = row[e][d].exists
    BY RowRun, RunWritten
  <2>2. row'[e][d] = IF row[e][d].run = r THEN new ELSE row[e][d]
    BY <1>1
  <2> HIDE DEF new
  <2> QED
    BY <2>1, <2>2
<1>5. ASSUME NEW e \in Employees, NEW d \in Cycles, ~row'[e][d].exists
      PROVE  row'[e][d] = NoRow
  <2>1. row[e][d] = NoRow
    BY <1>4, <1>5 DEF LockInv
  <2>2. row[e][d].run # r
    BY <2>1, NoRowShape, PayrollAssumption DEF PayrollAssumption
  <2> QED
    BY <1>1, <2>1, <2>2
<1>6. ASSUME NEW e \in Employees, NEW d \in Cycles, row'[e][d].run # NoRun
      PROVE  run'[row'[e][d].run].status = "active" /\ run'[row'[e][d].run].cycle = d
  <2>1. row'[e][d].run = row[e][d].run /\ row[e][d].run \in Runs \ {r}
    BY <1>4, <1>6, RowRun
  <2>2. run[row[e][d].run].status = "active" /\ run[row[e][d].run].cycle = d
    BY <1>6, <2>1 DEF LockInv, Finalized
  <2> QED
    BY <1>3, <2>1, <2>2
<1>7. ASSUME NEW p \in Runs, NEW q \in Runs, run'[p].status = "active",
             run'[q].status = "active", run'[p].cycle = run'[q].cycle
      PROVE  p = q
  BY <1>3, <1>7 DEF LockInv
<1>8. ASSUME NEW q \in Runs, NEW e \in Employees
      PROVE  paidOut'[q][e] = LockedRow(e, q)'.arrears
  <2>1. CASE q = r
    BY <1>2, <1>3, <2>1, NoRowShape DEF LockInv, Shape, LockedRow
  <2>2. CASE q # r
    <3>1. paidOut'[q][e] = LockedRow(e, q).arrears /\ run'[q] = run[q]
      BY <1>2, <1>3, <2>2 DEF LockInv, Shape, ArrearsPaidAsOnPayslip
    <3>2. run[q].cycle \in Cycles
      BY DEF LockInv, Shape, RunRow
    <3>3. CASE row[e][run[q].cycle].run = r
      BY <1>4, <2>2, <3>1, <3>2, <3>3, PayrollAssumption DEF LockedRow, PayrollAssumption
    <3>4. CASE row[e][run[q].cycle].run # r
      BY <1>1, <3>1, <3>2, <3>4 DEF LockedRow
    <3> QED
      BY <3>3, <3>4
  <2> QED
    BY <2>1, <2>2
<1>9. ArrearsPaidAsOnPayslip'
  BY <1>8 DEF ArrearsPaidAsOnPayslip
<1> QED
  BY <1>1, <1>5, <1>6, <1>7, <1>9 DEF LockInv, Finalized

\* The other operations leave rows, runs and payments of runs alone.
LEMMA LockStep == LockInv /\ [Next]_vars => LockInv'
<1> SUFFICES ASSUME LockInv, [Next]_vars PROVE LockInv'
  OBVIOUS
<1>1. ASSUME UNCHANGED <<row, run, paidOut>> PROVE LockInv'
  <2>1. Shape'
    BY <1>1 DEF LockInv, Shape
  <2>2. ArrearsPaidAsOnPayslip'
    BY <1>1 DEF LockInv, ArrearsPaidAsOnPayslip, LockedRow
  <2> QED
    BY <1>1, <2>1, <2>2 DEF LockInv, Finalized
<1>2. CASE Accounts
  BY <1>1, <1>2 DEF Accounts
<1>3. CASE \E e \in Employees : FinalizeSettlement(e)
  BY <1>1, <1>3 DEF FinalizeSettlement
<1>4. CASE Payroll
  BY <1>4, GenerateLocks, FinalizeLocks, DefinalizeLocks DEF Payroll, RecalculatePayroll
<1>5. CASE UNCHANGED vars
  BY <1>1, <1>5 DEF vars
<1> QED
  BY <1>2, <1>3, <1>4, <1>5 DEF Next

LEMMA LockInvariant == Spec => []LockInv
<1> QED
  BY LockInit, LockStep, PTL DEF Spec

\* A finalized row is locked by the one active run of its own period.
THEOREM RowsHaveTheirRun == Spec => []RunsLockTheirRows
<1>1. LockInv => RunsLockTheirRows
  <2> SUFFICES ASSUME LockInv, NEW e \in Employees, NEW c \in Cycles, Finalized(e, c)
               PROVE  ActiveRuns(c) = {row[e][c].run}
    BY DEF RunsLockTheirRows
  <2>1. /\ row[e][c].run \in Runs /\ run[row[e][c].run].status = "active"
        /\ run[row[e][c].run].cycle = c
    BY RowRun DEF LockInv, Finalized
  <2> QED
    BY <2>1 DEF LockInv, ActiveRuns
<1> QED
  BY LockInvariant, <1>1, PTL

\* A run has paid the arrears that are on the payslips it locked, and nothing
\* once it was undone.
THEOREM PaidAsOnPayslip == Spec => []ArrearsPaidAsOnPayslip
<1>1. LockInv => ArrearsPaidAsOnPayslip
  BY DEF LockInv
<1> QED
  BY LockInvariant, <1>1, PTL

\* No handler changes a payslip while the run that locked it is active.
THEOREM PayslipsStay == Spec => LockedRowsAreKept
<1> DEFINE Kept == \A e \in Employees, c \in Cycles :
                     Finalized(e, c) /\ run'[row[e][c].run].status = "active"
                       => row'[e][c] = row[e][c]
<1>1. LockInv /\ [Next]_vars => [Kept]_vars
  <2> SUFFICES ASSUME LockInv, Next, NEW e \in Employees, NEW c \in Cycles, Finalized(e, c),
                      run'[row[e][c].run].status = "active"
               PROVE  row'[e][c] = row[e][c]
    BY DEF Kept
  <2>1. ASSUME NEW d \in Cycles, NEW S \in SUBSET Employees, GeneratePayroll(d, S)
        PROVE  row'[e][c] = row[e][c]
    BY <2>1, GenerateRows
  <2>2. ASSUME NEW d \in Cycles, NEW r \in Runs, FinalizePayroll(d, r)
        PROVE  row'[e][c] = row[e][c]
    <3>1. c # d
      BY <2>2 DEF FinalizePayroll
    <3> QED
      BY <2>2, <3>1, FinalizeRows
  <2>3. ASSUME NEW r \in Runs, DefinalizePayroll(r)
        PROVE  row'[e][c] = row[e][c]
    <3>1. run'[r].status = "definalized"
      BY <2>3 DEF DefinalizePayroll, LockInv, Shape, RunRow
    <3>2. row[e][c].run # r
      BY <3>1
    <3> QED
      BY <2>3, <3>2, DefinalizeRows
  <2>4. CASE Accounts \/ \E x \in Employees : FinalizeSettlement(x)
    BY <2>4 DEF Accounts, FinalizeSettlement
  <2> QED
    BY <2>1, <2>2, <2>3, <2>4 DEF Next, Payroll, RecalculatePayroll
<1> QED
  BY LockInvariant, <1>1, PTL DEF Spec, LockedRowsAreKept

-------------------------------------------------------------------------------
(* Amounts *)

LEMMA MinOf ==
  ASSUME NEW a \in Int, NEW b \in Int
  PROVE  Min({a, b}) = IF a <= b THEN a ELSE b
BY DEF Min

LEMMA MaxOf ==
  ASSUME NEW a \in Int, NEW b \in Int
  PROVE  Max({a, b}) = IF a >= b THEN a ELSE b
BY DEF Max

LoansTyped == loan \in [Loans -> LoanRow]

LEMMA InstalmentType ==
  ASSUME LoansTyped, NEW l \in Loans
  PROVE  Instalment(l) \in Nat /\ Instalment(l) <= loan[l].outstanding
<1>1. loan[l].installment \in Nat /\ loan[l].outstanding \in Nat
  BY DEF LoansTyped, LoanRow
<1> QED
  BY <1>1, MinOf DEF Instalment

\* The sum over some loans, as a sum of one function.
LEMMA DueIsSum ==
  ASSUME NEW S \in SUBSET Loans
  PROVE  Due(S) = SumFunctionOnSet([l \in Loans |-> Instalment(l)], S)
<1> DEFINE v == [l \in S |-> Instalment(l)]
           w == [l \in Loans |-> Instalment(l)]
<1>1. IsFiniteSet(S)
  BY FS_Subset, SettlementAssumption DEF SettlementAssumption
<1>2. Due(S) = SumFunctionOnSet(v, S)
  BY DEF Due, SumFunction
<1>3. \A l \in S : v[l] = w[l]
  OBVIOUS
<1> HIDE DEF v, w
<1>4. SumFunctionOnSet(v, S) = SumFunctionOnSet(w, S)
  BY <1>1, <1>3, SumSame
<1> QED
  BY <1>2, <1>4 DEF w

LEMMA DueType ==
  ASSUME LoansTyped, NEW S \in SUBSET Loans
  PROVE  Due(S) \in Nat
<1> DEFINE w == [l \in Loans |-> Instalment(l)]
<1>1. IsFiniteSet(S)
  BY FS_Subset, SettlementAssumption DEF SettlementAssumption
<1>2. \A l \in S : w[l] \in Nat
  BY InstalmentType
<1> HIDE DEF w
<1>3. SumFunctionOnSet(w, S) \in Nat
  BY <1>1, <1>2, SumNat
<1> QED
  BY <1>3, DueIsSum DEF w

LEMMA DueAdds ==
  ASSUME LoansTyped, NEW S \in SUBSET Loans, NEW l \in Loans, l \notin S
  PROVE  Due(S \cup {l}) = Instalment(l) + Due(S)
<1> DEFINE w == [k \in Loans |-> Instalment(k)]
<1>1. IsFiniteSet(S)
  BY FS_Subset, SettlementAssumption DEF SettlementAssumption
<1>2. \A k \in S \cup {l} : w[k] \in Int
  BY InstalmentType
<1>3. w[l] = Instalment(l)
  OBVIOUS
<1>4. Due(S) = SumFunctionOnSet(w, S) /\ Due(S \cup {l}) = SumFunctionOnSet(w, S \cup {l})
  <2>1. S \cup {l} \in SUBSET Loans
    OBVIOUS
  <2> QED
    BY <2>1, DueIsSum
<1> HIDE DEF w
<1>5. SumFunctionOnSet(w, S \cup {l}) = w[l] + SumFunctionOnSet(w, S)
  BY <1>1, <1>2, SumAdd
<1> QED
  BY <1>3, <1>4, <1>5

\* What a run takes from a loan is there, and only active loans are asked.
LEMMA ShareType ==
  ASSUME LoansTyped, NEW l \in Loans, NEW d \in Nat
  PROVE  /\ Share(l, d) \in Nat
         /\ Share(l, d) <= loan[l].outstanding
         /\ Share(l, d) > 0 => Active(l)
         /\ d = 0 => Share(l, d) = 0
<1>1. Instalment(l) \in Nat /\ Instalment(l) <= loan[l].outstanding /\ loan[l].outstanding \in Nat
  BY InstalmentType DEF LoansTyped, LoanRow
<1>2. Left(l, d) \in Int /\ Left(l, d) <= d
  <2>1. {k \in OwnLoans(Owner[l]) : k < l} \in SUBSET Loans
    BY DEF OwnLoans
  <2>2. Due({k \in OwnLoans(Owner[l]) : k < l}) \in Nat
    BY <2>1, DueType
  <2> QED
    BY <2>2 DEF Left
<1>3. CASE Collects(l, d)
  <2>1. Left(l, d) > 0 /\ Active(l) /\ d > 0
    BY <1>2, <1>3 DEF Collects
  <2>2. Share(l, d) = Min({Instalment(l), Left(l, d)})
    BY <1>3 DEF Share
  <2> QED
    BY <1>1, <1>2, <2>1, <2>2, MinOf
<1>4. CASE ~Collects(l, d)
  BY <1>1, <1>4 DEF Share
<1> QED
  BY <1>3, <1>4

\* The loans of an employee with a smaller id: the loop has been through them.
Before(e, n) == {l \in Loans : Owner[l] = e /\ l < n}

\* After the loans before n the loop has taken what they are due, or the whole
\* deduction where that is less.
LEMMA SharesBefore ==
  ASSUME LoansTyped, NEW e \in Employees, NEW d \in Nat, NEW n \in Nat
  PROVE  SumFunctionOnSet([l \in Loans |-> Share(l, d)], Before(e, n))
           = Min({d, Due(Before(e, n) \cap OwnLoans(e))})
<1> DEFINE w == [l \in Loans |-> Share(l, d)]
           B(k) == Before(e, k)
           D(k) == Due(B(k) \cap OwnLoans(e))
           N == {k \in Nat : SumFunctionOnSet(w, B(k)) = Min({d, D(k)})}
<1>1. \A k \in Nat : IsFiniteSet(B(k)) /\ B(k) \in SUBSET Loans
  <2>1. \A k \in Nat : B(k) \in SUBSET Loans
    BY DEF Before
  <2> QED
    BY <2>1, FS_Subset, SettlementAssumption DEF SettlementAssumption
<1>2. \A k \in Nat : D(k) \in Nat
  BY <1>1, DueType
<1>3. \A l \in Loans : w[l] \in Int /\ w[l] = Share(l, d)
  BY ShareType
<1>4. \A l \in Loans : l \in Nat
  BY SettlementAssumption DEF SettlementAssumption
<1>5. 0 \in N
  <2>1. B(0) = {}
    <3>1. \A l \in Loans : ~(l < 0)
      BY <1>4
    <3> QED
      BY <3>1 DEF Before
  <2>2. D(0) = 0
    <3>1. Due({}) = SumFunctionOnSet([l \in Loans |-> Instalment(l)], {})
      BY DueIsSum
    <3> QED
      BY <2>1, <3>1, SumEmpty
  <2>3. SumFunctionOnSet(w, {}) = 0
    BY SumEmpty
  <2> HIDE DEF w, D, B
  <2> QED
    BY <2>1, <2>2, <2>3, MinOf
<1>6. ASSUME NEW k \in Nat, k \in N PROVE k + 1 \in N
  <2>1. SumFunctionOnSet(w, B(k)) = Min({d, D(k)})
    BY <1>6
  <2>2. CASE k \in Loans /\ Owner[k] = e
    <3>1. B(k + 1) = B(k) \cup {k} /\ k \notin B(k)
      <4>1. \A l \in Loans : l < k + 1 <=> l < k \/ l = k
        BY <1>4
      <4>2. ~(k < k)
        OBVIOUS
      <4>3. \A l : l \in Before(e, k + 1) <=> l \in Before(e, k) \/ l = k
        BY <2>2, <4>1 DEF Before
      <4> QED
        BY <4>2, <4>3 DEF Before
    <3>2. SumFunctionOnSet(w, B(k + 1)) = w[k] + SumFunctionOnSet(w, B(k))
      <4> HIDE DEF w, B
      <4>1. \A x \in B(k) \cup {k} : w[x] \in Int
        BY <1>1, <1>3, <2>2
      <4>2. IsFiniteSet(B(k))
        BY <1>1
      <4> QED
        BY <3>1, <4>1, <4>2, SumAdd
    <3>3. {x \in OwnLoans(Owner[k]) : x < k} = B(k) \cap OwnLoans(e)
      BY <2>2 DEF Before, OwnLoans
    <3>4. Left(k, d) = d - D(k)
      BY <3>3 DEF Left
    <3>5. Instalment(k) \in Nat
      BY <2>2, InstalmentType
    <3>6. D(k) \in Nat /\ D(k + 1) \in Nat
      BY <1>2
    <3>7. CASE Active(k)
      <4>1. B(k + 1) \cap OwnLoans(e) = (B(k) \cap OwnLoans(e)) \cup {k}
        BY <2>2, <3>1, <3>7 DEF OwnLoans
      <4>2. k \notin B(k) \cap OwnLoans(e) /\ B(k) \cap OwnLoans(e) \in SUBSET Loans
        BY <1>1, <3>1
      <4>3. D(k + 1) = Instalment(k) + D(k)
        <5> HIDE DEF B
        <5> QED
          BY <2>2, <4>1, <4>2, DueAdds
      <4>4. w[k] = IF d - D(k) > 0 THEN Min({Instalment(k), d - D(k)}) ELSE 0
        <5> HIDE DEF D
        <5> QED
          BY <1>3, <2>2, <3>4, <3>7 DEF Share, Collects
      <4> HIDE DEF D, w
      <4>5. Min({d, D(k)}) = (IF d <= D(k) THEN d ELSE D(k))
        BY <3>6, MinOf
      <4>6. Min({d, D(k + 1)}) = (IF d <= D(k + 1) THEN d ELSE D(k + 1))
        BY <3>6, MinOf
      <4>7. d - D(k) > 0 => Min({Instalment(k), d - D(k)})
                              = (IF Instalment(k) <= d - D(k) THEN Instalment(k) ELSE d - D(k))
        BY <3>5, <3>6, MinOf
      <4>8. w[k] + Min({d, D(k)}) = Min({d, D(k + 1)})
        BY <3>5, <3>6, <4>3, <4>4, <4>5, <4>6, <4>7
      <4> QED
        BY <2>1, <3>2, <4>8
    <3>8. CASE ~Active(k)
      <4>1. B(k + 1) \cap OwnLoans(e) = B(k) \cap OwnLoans(e)
        BY <3>1, <3>8 DEF OwnLoans
      <4>2. w[k] = 0
        BY <1>3, <2>2, <3>8 DEF Share, Collects
      <4>3. Min({d, D(k)}) \in Int
        <5> HIDE DEF D
        <5> QED
          BY <3>6, MinOf
      <4> HIDE DEF w, B
      <4>4. SumFunctionOnSet(w, B(k + 1)) = SumFunctionOnSet(w, B(k))
        BY <2>1, <3>2, <4>2, <4>3
      <4> QED
        BY <2>1, <4>1, <4>4
    <3> QED
      BY <3>7, <3>8
  <2>3. CASE ~(k \in Loans /\ Owner[k] = e)
    <3>1. B(k + 1) = B(k)
      <4>1. \A l \in Loans : Owner[l] = e => (l < k + 1 <=> l < k)
        BY <1>4, <2>3
      <4> QED
        BY <4>1 DEF Before
    <3> HIDE DEF B, w
    <3> QED
      BY <2>1, <3>1
  <2> QED
    BY <2>2, <2>3
<1>7. Nat \subseteq N
  <2> HIDE DEF N
  <2> QED
    BY <1>5, <1>6, NatInduct
<1> QED
  BY <1>7

\* The loop over an employee's loans never takes more than the deduction.
LEMMA SharesWithin ==
  ASSUME LoansTyped, NEW e \in Employees, NEW d \in Nat
  PROVE  SumFunctionOnSet([l \in Loans |-> Share(l, d)], {l \in Loans : Owner[l] = e}) <= d
<1>1. PICK n \in Nat : \A l \in Loans : l < n
  BY NatsBounded, SettlementAssumption DEF SettlementAssumption
<1>2. {l \in Loans : Owner[l] = e} = Before(e, n)
  BY <1>1 DEF Before
<1>3. Due(Before(e, n) \cap OwnLoans(e)) \in Nat
  <2>1. Before(e, n) \cap OwnLoans(e) \in SUBSET Loans
    BY DEF Before
  <2> QED
    BY <2>1, DueType
<1>4. Min({d, Due(Before(e, n) \cap OwnLoans(e))}) <= d
  BY <1>3, MinOf
<1> QED
  BY <1>2, <1>4, SharesBefore

Collected(l) == SumFunction([r \in Runs |-> booked[r][l]])
PaidByRuns(e) == SumFunction([r \in Runs |-> paidOut[r][e]])

\* What is outstanding follows from the ledger, an active loan is not empty and
\* a deleted one has left no ledger rows.
LoanFits(l) ==
  /\ Stored(l) => loan[l].outstanding
                    = loan[l].principal + entries[l].lent - entries[l].repaid - Collected(l)
  /\ Active(l) => loan[l].outstanding > 0
  /\ ~Stored(l) => ~HasTransactions(l)

\* The runs have paid a part of what was paid: undoing one leaves a natural.
ArrearsFit(e) ==
  /\ arrears[e].outstanding >= arrears[e].created - arrears[e].paid
  /\ PaidByRuns(e) <= arrears[e].paid

AmountInv ==
  /\ TypeOK
  /\ \A l \in Loans : LoanFits(l)
  /\ \A e \in Employees : ArrearsFit(e)
  /\ \A r \in Runs, l \in Loans : run[r].status # "active" => booked[r][l] = 0

LEMMA CollectedType ==
  ASSUME booked \in [Runs -> [Loans -> Nat]], NEW l \in Loans
  PROVE  /\ Collected(l) \in Nat
         /\ \A r \in Runs : booked[r][l] <= Collected(l)
         /\ (\A r \in Runs : booked[r][l] = 0) => Collected(l) = 0
<1> DEFINE w == [r \in Runs |-> booked[r][l]]
<1>1. Collected(l) = SumFunctionOnSet(w, Runs) /\ IsFiniteSet(Runs)
  BY SettlementAssumption DEF Collected, SumFunction, SettlementAssumption
<1>2. \A r \in Runs : w[r] \in Nat /\ w[r] = booked[r][l]
  OBVIOUS
<1> HIDE DEF w
<1> QED
  BY <1>1, <1>2, SumNat, SumBounds, SumZero

LEMMA PaidByRunsType ==
  ASSUME paidOut \in [Runs -> [Employees -> Nat]], NEW e \in Employees
  PROVE  /\ PaidByRuns(e) \in Nat
         /\ \A r \in Runs : paidOut[r][e] <= PaidByRuns(e)
<1> DEFINE w == [r \in Runs |-> paidOut[r][e]]
<1>1. PaidByRuns(e) = SumFunctionOnSet(w, Runs) /\ IsFiniteSet(Runs)
  BY SettlementAssumption DEF PaidByRuns, SumFunction, SettlementAssumption
<1>2. \A r \in Runs : w[r] \in Nat /\ w[r] = paidOut[r][e]
  OBVIOUS
<1> HIDE DEF w
<1> QED
  BY <1>1, <1>2, SumNat, SumBounds

\* A run that books or unbooks its own ledger rows moves the sum by as much.
LEMMA CollectedMoves ==
  ASSUME booked \in [Runs -> [Loans -> Nat]], NEW r \in Runs, NEW b \in [Loans -> Nat],
         booked' = [booked EXCEPT ![r] = b], NEW l \in Loans
  PROVE  Collected(l)' = Collected(l) - booked[r][l] + b[l]
<1> DEFINE w == [q \in Runs |-> booked[q][l]]
           v == [q \in Runs |-> booked'[q][l]]
<1>1. Collected(l) = SumFunctionOnSet(w, Runs) /\ IsFiniteSet(Runs)
  BY SettlementAssumption DEF Collected, SumFunction, SettlementAssumption
<1>2. Collected(l)' = SumFunctionOnSet(v, Runs)
  BY DEF Collected, SumFunction
<1>3. \A q \in Runs : w[q] \in Int /\ v[q] \in Int
  OBVIOUS
<1>4. \A q \in Runs \ {r} : v[q] = w[q]
  OBVIOUS
<1>5. w[r] = booked[r][l] /\ v[r] = b[l]
  OBVIOUS
<1> HIDE DEF w, v
<1> QED
  BY <1>1, <1>2, <1>3, <1>4, <1>5, SumChange

LEMMA PaidByRunsMoves ==
  ASSUME paidOut \in [Runs -> [Employees -> Nat]], NEW r \in Runs, NEW b \in [Employees -> Nat],
         paidOut' = [paidOut EXCEPT ![r] = b], NEW e \in Employees
  PROVE  PaidByRuns(e)' = PaidByRuns(e) - paidOut[r][e] + b[e]
<1> DEFINE w == [q \in Runs |-> paidOut[q][e]]
           v == [q \in Runs |-> paidOut'[q][e]]
<1>1. PaidByRuns(e) = SumFunctionOnSet(w, Runs) /\ IsFiniteSet(Runs)
  BY SettlementAssumption DEF PaidByRuns, SumFunction, SettlementAssumption
<1>2. PaidByRuns(e)' = SumFunctionOnSet(v, Runs)
  BY DEF PaidByRuns, SumFunction
<1>3. \A q \in Runs : w[q] \in Int /\ v[q] \in Int
  OBVIOUS
<1>4. \A q \in Runs \ {r} : v[q] = w[q]
  OBVIOUS
<1>5. w[r] = paidOut[r][e] /\ v[r] = b[e]
  OBVIOUS
<1> HIDE DEF w, v
<1> QED
  BY <1>1, <1>2, <1>3, <1>4, <1>5, SumChange

\* The rows of a loan, spelled out.
LEMMA LoanType ==
  ASSUME AmountInv, NEW l \in Loans
  PROVE  /\ loan[l] \in LoanRow /\ entries[l] \in Entries
         /\ loan[l].principal \in Nat /\ loan[l].outstanding \in Nat
         /\ loan[l].installment \in Nat
         /\ loan[l].status \in {"absent", "active", "closed"}
         /\ entries[l].lent \in Nat /\ entries[l].repaid \in Nat
         /\ entries[l].edited \in BOOLEAN
         /\ Collected(l) \in Nat
BY CollectedType DEF AmountInv, TypeOK, AccountsTypeOK, LoanRow, Entries

LEMMA AmountInit == Init => AmountInv
<1> SUFFICES ASSUME Init PROVE AmountInv
  OBVIOUS
<1>1. AccountsTypeOK
  BY DEF Init, AccountsInit, AccountsTypeOK, LoanRow, NoLoan, Entries, NoEntries, ArrearsRow, NoArrears
<1>2. TypeOK
  BY <1>1, PayrollAssumption
     DEF Init, TypeOK, ComputedRow, NoRow, RunRow, PayrollAssumption
<1>3. ASSUME NEW l \in Loans PROVE LoanFits(l)
  BY DEF Init, AccountsInit, LoanFits, Stored, Active, HasTransactions, NoLoan, NoEntries
<1>4. ASSUME NEW e \in Employees PROVE ArrearsFit(e)
  <2> DEFINE w == [r \in Runs |-> paidOut[r][e]]
  <2>1. PaidByRuns(e) = SumFunctionOnSet(w, Runs) /\ IsFiniteSet(Runs)
    BY SettlementAssumption DEF PaidByRuns, SumFunction, SettlementAssumption
  <2>2. \A r \in Runs : w[r] = 0
    BY DEF Init
  <2> HIDE DEF w
  <2>3. PaidByRuns(e) = 0
    BY <2>1, <2>2, SumZero
  <2> QED
    BY <2>3 DEF Init, AccountsInit, ArrearsFit, NoArrears
<1>5. \A r \in Runs, l \in Loans : booked[r][l] = 0
  BY DEF Init, AccountsInit
<1> QED
  BY <1>2, <1>3, <1>4, <1>5 DEF AmountInv

-------------------------------------------------------------------------------
(* Amounts: the operations on accounts *)

\* An operation on one loan disturbs no other.
LEMMA OneLoan ==
  ASSUME AmountInv, NEW l \in Loans, NEW x, NEW y,
         loan' = [loan EXCEPT ![l] = x], entries' = [entries EXCEPT ![l] = y], booked' = booked,
         x \in LoanRow, y \in Entries, LoanFits(l)'
  PROVE  /\ loan' \in [Loans -> LoanRow] /\ entries' \in [Loans -> Entries]
         /\ \A k \in Loans : LoanFits(k)'
<1>1. loan' \in [Loans -> LoanRow] /\ entries' \in [Loans -> Entries]
  BY DEF AmountInv, TypeOK, AccountsTypeOK
<1>2. ASSUME NEW k \in Loans, k # l PROVE LoanFits(k)'
  <2>1. loan'[k] = loan[k] /\ entries'[k] = entries[k]
    BY <1>2 DEF AmountInv, TypeOK, AccountsTypeOK
  <2>2. LoanFits(k)
    BY DEF AmountInv
  <2> QED
    BY <2>1, <2>2 DEF LoanFits, Stored, Active, HasTransactions, Collected
<1> QED
  BY <1>1, <1>2

\* What a row written over loan l has to satisfy.
LEMMA Written ==
  ASSUME AmountInv, NEW l \in Loans, NEW x \in LoanRow, NEW y \in Entries,
         loan' = [loan EXCEPT ![l] = x], entries' = [entries EXCEPT ![l] = y], booked' = booked,
         x.status # "absent",
         x.outstanding = x.principal + y.lent - y.repaid - Collected(l),
         x.status = "active" => x.outstanding > 0
  PROVE  /\ loan' \in [Loans -> LoanRow] /\ entries' \in [Loans -> Entries]
         /\ \A k \in Loans : LoanFits(k)'
<1>1. loan'[l] = x /\ entries'[l] = y
  BY DEF AmountInv, TypeOK, AccountsTypeOK
<1>2. Collected(l)' = Collected(l)
  BY DEF Collected
<1>3. LoanFits(l)'
  BY <1>1, <1>2 DEF LoanFits, Stored, Active
<1> QED
  BY <1>3, OneLoan

LEMMA LoanOperationFits ==
  ASSUME AmountInv, NEW l \in Loans, LoanOperation(l)
  PROVE  /\ loan' \in [Loans -> LoanRow] /\ entries' \in [Loans -> Entries]
         /\ \A k \in Loans : LoanFits(k)'
         /\ booked' = booked /\ arrears' = arrears
<1> DEFINE x == loan[l]  y == entries[l]
<1>0. /\ x \in LoanRow /\ y \in Entries /\ LoanFits(l)
      /\ x.principal \in Nat /\ x.outstanding \in Nat /\ x.installment \in Nat
      /\ y.lent \in Nat /\ y.repaid \in Nat /\ y.edited \in BOOLEAN /\ Collected(l) \in Nat
      /\ loan \in [Loans -> LoanRow] /\ entries \in [Loans -> Entries]
      /\ Amounts \subseteq Nat \ {0}
  BY LoanType, SettlementAssumption
     DEF AmountInv, TypeOK, AccountsTypeOK, Amounts, SettlementAssumption
<1>1. entries' = entries => entries' = [entries EXCEPT ![l] = y]
  BY <1>0
<1>2. Active(l) => Stored(l)
  BY DEF Active, Stored
<1>3. CASE CreateLoanAdvance(l)
  <2>1. PICK p \in Amounts, i \in Amounts :
          loan' = [loan EXCEPT ![l] = [status |-> "active", principal |-> p,
                                       installment |-> i, outstanding |-> p]]
    BY <1>3 DEF CreateLoanAdvance
  <2>2. ~Stored(l) /\ entries' = entries /\ booked' = booked /\ arrears' = arrears
    BY <1>3 DEF CreateLoanAdvance
  <2>3. y.lent = 0 /\ y.repaid = 0 /\ Collected(l) = 0
    <3>1. ~HasTransactions(l)
      BY <1>0, <2>2 DEF LoanFits
    <3>2. \A r \in Runs : booked[r][l] = 0
      BY <3>1 DEF HasTransactions, AmountInv, TypeOK, AccountsTypeOK
    <3> QED
      BY <1>0, <3>1, <3>2, CollectedType DEF HasTransactions, AmountInv, TypeOK, AccountsTypeOK
  <2> DEFINE n == [status |-> "active", principal |-> p, installment |-> i, outstanding |-> p]
  <2>4. n \in LoanRow /\ n.status = "active" /\ n.outstanding = p /\ n.principal = p /\ p > 0
    BY <1>0 DEF LoanRow
  <2>5. loan' = [loan EXCEPT ![l] = n]
    BY <2>1
  <2>6. n.outstanding = n.principal + y.lent - y.repaid - Collected(l) /\ n.outstanding > 0
    <3> HIDE DEF n, x, y
    <3> QED
      BY <1>0, <2>3, <2>4
  <2> HIDE DEF n, x, y
  <2> QED
    BY <1>0, <1>1, <2>2, <2>4, <2>5, <2>6, Written
<1>4. ASSUME Active(l), NEW i \in Amounts, loan' = [loan EXCEPT ![l].installment = i],
             NEW z \in Entries, entries' = [entries EXCEPT ![l] = z], z.lent = y.lent, z.repaid = y.repaid,
             booked' = booked
      PROVE  /\ loan' \in [Loans -> LoanRow] /\ entries' \in [Loans -> Entries]
             /\ \A k \in Loans : LoanFits(k)'
  <2> DEFINE n == [x EXCEPT !.installment = i]
  <2>1. /\ n \in LoanRow /\ n.status = "active" /\ n.outstanding = x.outstanding
        /\ n.principal = x.principal
    BY <1>0, <1>4 DEF LoanRow, Active
  <2>2. loan' = [loan EXCEPT ![l] = n]
    BY <1>0, <1>4
  <2>3. /\ x.outstanding = x.principal + y.lent - y.repaid - Collected(l)
        /\ x.outstanding > 0
    BY <1>0, <1>2, <1>4 DEF LoanFits
  <2> HIDE DEF n, x, y
  <2> QED
    BY <1>4, <2>1, <2>2, <2>3, Written
<1>5. CASE UpdateLoanAdvance(l)
  BY <1>0, <1>1, <1>4, <1>5 DEF UpdateLoanAdvance
<1>6. CASE UpdateInstallment(l)
  <2> DEFINE z == [y EXCEPT !.edited = TRUE]
  <2>1. z \in Entries /\ z.lent = y.lent /\ z.repaid = y.repaid
    BY <1>0 DEF Entries
  <2>2. entries' = [entries EXCEPT ![l] = z] /\ booked' = booked /\ arrears' = arrears /\ Active(l)
    BY <1>0, <1>6 DEF UpdateInstallment
  <2>3. PICK i \in Amounts : loan' = [loan EXCEPT ![l].installment = i]
    BY <1>6 DEF UpdateInstallment
  <2> HIDE DEF z
  <2> QED
    BY <1>4, <2>1, <2>2, <2>3
<1>7. CASE CloseLoanAdvance(l)
  <2> DEFINE n == [x EXCEPT !.status = "closed"]
  <2>1. /\ n \in LoanRow /\ n.status = "closed" /\ n.outstanding = x.outstanding
        /\ n.principal = x.principal
    BY <1>0 DEF LoanRow
  <2>2. /\ loan' = [loan EXCEPT ![l] = n] /\ entries' = entries /\ booked' = booked
        /\ arrears' = arrears /\ Active(l)
    BY <1>0, <1>7 DEF CloseLoanAdvance
  <2>3. x.outstanding = x.principal + y.lent - y.repaid - Collected(l)
    BY <1>0, <1>2, <2>2 DEF LoanFits
  <2> HIDE DEF n, x, y
  <2> QED
    BY <1>0, <1>1, <2>1, <2>2, <2>3, Written
<1>8. CASE DeleteLoanAdvance(l)
  <2>1. /\ loan' = [loan EXCEPT ![l] = NoLoan] /\ entries' = entries /\ booked' = booked
        /\ arrears' = arrears /\ ~HasTransactions(l)
    BY <1>8 DEF DeleteLoanAdvance
  <2>2. NoLoan \in LoanRow /\ NoLoan.status = "absent"
    BY DEF NoLoan, LoanRow
  <2>3. LoanFits(l)'
    BY <1>0, <2>1, <2>2 DEF LoanFits, Stored, Active, HasTransactions
  <2> QED
    BY <1>0, <1>1, <2>1, <2>2, <2>3, OneLoan
<1>9. ASSUME NEW amount \in Amounts, Repay(l, amount)
      PROVE  /\ loan' \in [Loans -> LoanRow] /\ entries' \in [Loans -> Entries]
             /\ \A k \in Loans : LoanFits(k)'
             /\ booked' = booked /\ arrears' = arrears
  <2>1. /\ Active(l) /\ amount <= x.outstanding /\ booked' = booked /\ arrears' = arrears
        /\ entries' = [entries EXCEPT ![l].repaid = @ + amount]
    BY <1>9 DEF Repay
  <2>2. PICK i \in Instalments(x) :
          loan' = [loan EXCEPT ![l] = [Owe(@, @.outstanding - amount) EXCEPT !.installment = i]]
    BY <1>9 DEF Repay
  <2>3. i \in Nat
    BY <1>0 DEF Instalments
  <2> DEFINE n == [Owe(x, x.outstanding - amount) EXCEPT !.installment = i]
             z == [y EXCEPT !.repaid = @ + amount]
  <2>4. z \in Entries /\ z.lent = y.lent /\ z.repaid = y.repaid + amount
    BY <1>0 DEF Entries
  <2>5. /\ n \in LoanRow /\ n.principal = x.principal /\ n.outstanding = x.outstanding - amount
        /\ n.status = IF n.outstanding = 0 THEN "closed" ELSE "active"
    <3>1. amount \in Nat /\ x.outstanding - amount \in Nat /\ x.status = "active"
      BY <1>0, <2>1 DEF Active
    <3> DEFINE o == Owe(x, x.outstanding - amount)
    <3>2. /\ o \in LoanRow /\ o.principal = x.principal /\ o.outstanding = x.outstanding - amount
          /\ o.status = IF x.outstanding - amount = 0 THEN "closed" ELSE "active"
      <4> HIDE DEF x
      <4> QED
        BY <1>0, <3>1 DEF LoanRow, Owe
    <3> HIDE DEF o
    <3>3. LET m == [o EXCEPT !.installment = i] IN
          /\ m \in LoanRow /\ m.principal = o.principal /\ m.outstanding = o.outstanding
          /\ m.status = o.status
      BY <2>3, <3>2 DEF LoanRow
    <3> QED
      BY <3>2, <3>3 DEF o
  <2>6. loan' = [loan EXCEPT ![l] = n] /\ entries' = [entries EXCEPT ![l] = z]
    BY <1>0, <2>1, <2>2
  <2>7. x.outstanding = x.principal + y.lent - y.repaid - Collected(l)
    BY <1>0, <1>2, <2>1 DEF LoanFits
  <2>8. n.outstanding = n.principal + z.lent - z.repaid - Collected(l)
    <3> HIDE DEF n, z
    <3> QED
      BY <1>0, <2>4, <2>5, <2>7
  <2>9. n.status # "absent" /\ (n.status = "active" => n.outstanding > 0)
    <3> HIDE DEF n
    <3>1. n.outstanding \in Nat
      BY <2>5 DEF LoanRow
    <3> QED
      BY <2>5, <3>1
  <2> HIDE DEF n, x, y, z
  <2> QED
    BY <2>1, <2>4, <2>5, <2>6, <2>8, <2>9, Written
<1>10. ASSUME NEW amount \in Amounts, Lend(l, amount)
      PROVE  /\ loan' \in [Loans -> LoanRow] /\ entries' \in [Loans -> Entries]
             /\ \A k \in Loans : LoanFits(k)'
             /\ booked' = booked /\ arrears' = arrears
  <2>1. /\ Active(l) /\ booked' = booked /\ arrears' = arrears
        /\ entries' = [entries EXCEPT ![l].lent = @ + amount]
    BY <1>10 DEF Lend
  <2>2. PICK i \in Instalments(x) :
          loan' = [loan EXCEPT ![l].outstanding = @ + amount, ![l].installment = i]
    BY <1>10 DEF Lend
  <2>3. i \in Nat
    BY <1>0 DEF Instalments
  <2> DEFINE n == [x EXCEPT !.outstanding = @ + amount, !.installment = i]
             z == [y EXCEPT !.lent = @ + amount]
  <2>4. z \in Entries /\ z.lent = y.lent + amount /\ z.repaid = y.repaid
    BY <1>0 DEF Entries
  <2>5. /\ n \in LoanRow /\ n.principal = x.principal /\ n.outstanding = x.outstanding + amount
        /\ n.status = "active"
    <3>1. x.outstanding + amount \in Nat /\ x.status = "active"
      BY <1>0, <2>1 DEF Active
    <3> HIDE DEF x
    <3> QED
      BY <1>0, <2>3, <3>1 DEF LoanRow
  <2>6. loan' = [loan EXCEPT ![l] = n] /\ entries' = [entries EXCEPT ![l] = z]
    BY <1>0, <2>1, <2>2
  <2>7. x.outstanding = x.principal + y.lent - y.repaid - Collected(l)
    BY <1>0, <1>2, <2>1 DEF LoanFits
  <2>8. n.outstanding = n.principal + z.lent - z.repaid - Collected(l) /\ n.outstanding > 0
    <3> HIDE DEF n, z
    <3> QED
      BY <1>0, <2>4, <2>5, <2>7
  <2> HIDE DEF n, x, y, z
  <2> QED
    BY <2>1, <2>4, <2>5, <2>6, <2>8, Written
<1> HIDE DEF x, y
<1> QED
  BY <1>3, <1>7, <1>8, <1>9, <1>10, <1>5, <1>6 DEF LoanOperation

\* Arrears: nothing but a revised total changes what is owed and not paid, and
\* what was paid only grows.
LEMMA ArrearsOperationFits ==
  ASSUME AmountInv, NEW e \in Employees, ArrearsOperation(e)
  PROVE  /\ arrears' \in [Employees -> ArrearsRow]
         /\ \A d \in Employees : /\ arrears'[d].outstanding >= arrears'[d].created - arrears'[d].paid
                                 /\ arrears'[d].paid >= arrears[d].paid
         /\ loan' = loan /\ entries' = entries /\ booked' = booked
<1> DEFINE x == arrears[e]
<1>0. /\ arrears \in [Employees -> ArrearsRow] /\ x \in ArrearsRow
      /\ x.created \in Nat /\ x.paid \in Nat /\ x.outstanding \in Nat
      /\ x.outstanding >= x.created - x.paid
      /\ ArrearsAmounts \subseteq Nat \ {0}
  BY SettlementAssumption
     DEF AmountInv, TypeOK, AccountsTypeOK, ArrearsFit, ArrearsRow, ArrearsAmounts, SettlementAssumption
<1>1. ASSUME NEW n \in ArrearsRow, arrears' = [arrears EXCEPT ![e] = n],
             n.outstanding >= n.created - n.paid, n.paid >= x.paid
      PROVE  /\ arrears' \in [Employees -> ArrearsRow]
             /\ \A d \in Employees : /\ arrears'[d].outstanding >= arrears'[d].created - arrears'[d].paid
                                     /\ arrears'[d].paid >= arrears[d].paid
  <2>1. arrears' \in [Employees -> ArrearsRow]
    BY <1>0, <1>1
  <2>2. arrears'[e] = n /\ \A d \in Employees \ {e} : arrears'[d] = arrears[d]
    BY <1>0, <1>1
  <2>3. ASSUME NEW d \in Employees, d # e
        PROVE  /\ arrears'[d].outstanding >= arrears'[d].created - arrears'[d].paid
               /\ arrears'[d].paid >= arrears[d].paid
    <3>1. arrears[d].paid \in Nat /\ arrears[d].outstanding >= arrears[d].created - arrears[d].paid
      BY <1>0 DEF AmountInv, ArrearsFit, ArrearsRow
    <3> QED
      BY <2>2, <2>3, <3>1
  <2> QED
    BY <1>1, <2>1, <2>2, <2>3
<1>2. PICK amount \in ArrearsAmounts :
        CreditArrears(e, amount) \/ PayArrears(e, amount) \/ UpdateArrears(e, amount)
  BY DEF ArrearsOperation
<1>3. amount \in Nat
  BY <1>0
<1>4. CASE CreditArrears(e, amount)
  <2> DEFINE n == [x EXCEPT !.created = @ + amount, !.outstanding = @ + amount]
  <2>1. /\ n \in ArrearsRow /\ n.created = x.created + amount
        /\ n.outstanding = x.outstanding + amount /\ n.paid = x.paid
    <3>1. x.created + amount \in Nat /\ x.outstanding + amount \in Nat
      <4> HIDE DEF x
      <4> QED
        BY <1>0, <1>3
    <3> HIDE DEF x
    <3> QED
      BY <1>0, <3>1 DEF ArrearsRow
  <2>2. /\ arrears' = [arrears EXCEPT ![e] = n]
        /\ loan' = loan /\ entries' = entries /\ booked' = booked
    BY <1>0, <1>4 DEF CreditArrears
  <2>3. n.outstanding >= n.created - n.paid /\ n.paid >= x.paid
    <3> HIDE DEF n, x
    <3> QED
      BY <1>0, <1>3, <2>1
  <2> HIDE DEF n, x
  <2> QED
    BY <1>1, <2>1, <2>2, <2>3
<1>5. CASE PayArrears(e, amount)
  <2> DEFINE n == PayOut(x, amount)
  <2>0. amount <= x.outstanding
    BY <1>5 DEF PayArrears
  <2>1. /\ n \in ArrearsRow /\ n.created = x.created
        /\ n.outstanding = x.outstanding - amount /\ n.paid = x.paid + amount
    <3>1. x.paid + amount \in Nat /\ x.outstanding - amount \in Nat
      <4> HIDE DEF x
      <4> QED
        BY <1>0, <1>3, <2>0
    <3> HIDE DEF x
    <3> QED
      BY <1>0, <3>1 DEF ArrearsRow, PayOut
  <2>2. /\ arrears' = [arrears EXCEPT ![e] = n]
        /\ loan' = loan /\ entries' = entries /\ booked' = booked
    BY <1>0, <1>5 DEF PayArrears
  <2>3. n.outstanding >= n.created - n.paid /\ n.paid >= x.paid
    <3> HIDE DEF n, x
    <3> QED
      BY <1>0, <1>3, <2>1
  <2> HIDE DEF n, x
  <2> QED
    BY <1>1, <2>1, <2>2, <2>3
<1>6. CASE UpdateArrears(e, amount)
  <2> DEFINE n == Revise(x, amount)
             o == x.outstanding + (amount - x.created)
  <2>0. o \in Int /\ Max({0, o}) \in Nat /\ Max({0, o}) >= o
    <3>1. o \in Int
      <4> HIDE DEF x
      <4> QED
        BY <1>0, <1>3
    <3> HIDE DEF o
    <3> QED
      BY <3>1, MaxOf
  <2>1. /\ n \in ArrearsRow /\ n.created = amount
        /\ n.outstanding = Max({0, o}) /\ n.paid = x.paid
    <3> HIDE DEF x
    <3> QED
      BY <1>0, <1>3, <2>0 DEF ArrearsRow, Revise
  <2>2. /\ arrears' = [arrears EXCEPT ![e] = n]
        /\ loan' = loan /\ entries' = entries /\ booked' = booked
    BY <1>6 DEF UpdateArrears
  <2>3. n.outstanding >= n.created - n.paid /\ n.paid >= x.paid
    <3>1. Max({0, o}) >= x.outstanding + (amount - x.created) /\ Max({0, o}) \in Nat
      BY <2>0
    <3> HIDE DEF n, x, o
    <3> QED
      BY <1>0, <1>3, <2>1, <3>1
  <2> HIDE DEF n, x, o
  <2> QED
    BY <1>1, <2>1, <2>2, <2>3
<1> QED
  BY <1>2, <1>4, <1>5, <1>6

LEMMA AccountsAmounts ==
  ASSUME AmountInv, Accounts
  PROVE  AmountInv'
<1>1. row' = row /\ run' = run /\ paidOut' = paidOut /\ settled' = settled
  BY DEF Accounts
<1>2. TypeOK /\ \A e \in Employees : ArrearsFit(e)
  BY DEF AmountInv
<1>3. ASSUME NEW l \in Loans, LoanOperation(l)
      PROVE  AmountInv'
  <2>1. /\ loan' \in [Loans -> LoanRow] /\ entries' \in [Loans -> Entries]
        /\ \A k \in Loans : LoanFits(k)'
        /\ booked' = booked /\ arrears' = arrears
    BY <1>3, LoanOperationFits
  <2>2. TypeOK'
    BY <1>1, <1>2, <2>1 DEF TypeOK, AccountsTypeOK
  <2>3. \A e \in Employees : ArrearsFit(e)'
    BY <1>1, <1>2, <2>1 DEF ArrearsFit, PaidByRuns
  <2> QED
    BY <1>1, <2>1, <2>2, <2>3 DEF AmountInv
<1>4. ASSUME NEW e \in Employees, ArrearsOperation(e)
      PROVE  AmountInv'
  <2>1. /\ arrears' \in [Employees -> ArrearsRow]
        /\ \A d \in Employees : /\ arrears'[d].outstanding >= arrears'[d].created - arrears'[d].paid
                                /\ arrears'[d].paid >= arrears[d].paid
        /\ loan' = loan /\ entries' = entries /\ booked' = booked
    BY <1>4, ArrearsOperationFits
  <2>2. TypeOK'
    BY <1>1, <1>2, <2>1 DEF TypeOK, AccountsTypeOK
  <2>3. ASSUME NEW d \in Employees PROVE ArrearsFit(d)'
    <3>1. PaidByRuns(d)' = PaidByRuns(d)
      BY <1>1 DEF PaidByRuns
    <3>2. PaidByRuns(d) <= arrears[d].paid
      BY <1>2 DEF ArrearsFit
    <3>3. /\ PaidByRuns(d) \in Nat /\ arrears[d].paid \in Nat /\ arrears'[d].paid \in Nat
      BY <1>2, <2>1, PaidByRunsType DEF TypeOK, AccountsTypeOK, ArrearsRow
    <3> QED
      BY <2>1, <3>1, <3>2, <3>3 DEF ArrearsFit
  <2>4. ASSUME NEW k \in Loans PROVE LoanFits(k)'
    BY <2>1 DEF AmountInv, LoanFits, Stored, Active, HasTransactions, Collected
  <2> QED
    BY <1>1, <2>1, <2>2, <2>3, <2>4 DEF AmountInv
<1> QED
  BY <1>3, <1>4 DEF Accounts

-------------------------------------------------------------------------------
(* Amounts: payroll and settlements *)

LEMMA ComputedType ==
  ASSUME TypeOK, NEW e \in Employees
  PROVE  Computed(e) \in ComputedRow
<1>1. Due(OwnLoans(e)) \in Nat
  BY DueType DEF TypeOK, AccountsTypeOK, LoansTyped, OwnLoans
<1>2. arrears[e].outstanding \in Nat
  BY DEF TypeOK, AccountsTypeOK, ArrearsRow
<1> QED
  BY <1>1, <1>2 DEF Computed, ComputedRow

LEMMA GenerateAmounts ==
  ASSUME AmountInv, NEW c \in Cycles, NEW S \in SUBSET Employees, GeneratePayroll(c, S)
  PROVE  AmountInv'
<1>1. /\ row' = [e \in Employees |->
                   IF e \in S /\ ~Finalized(e, c)
                   THEN [row[e] EXCEPT ![c] = Computed(e)] ELSE row[e]]
      /\ loan' = loan /\ entries' = entries /\ booked' = booked /\ arrears' = arrears
      /\ run' = run /\ paidOut' = paidOut /\ settled' = settled
  BY DEF GeneratePayroll, accounts
<1>2. TypeOK /\ \A e \in Employees : Computed(e) \in ComputedRow
  BY ComputedType DEF AmountInv
<1>3. row' \in [Employees -> [Cycles -> ComputedRow]]
  BY <1>1, <1>2 DEF TypeOK
<1>4. TypeOK'
  BY <1>1, <1>2, <1>3 DEF TypeOK, AccountsTypeOK
<1>5. \A l \in Loans : LoanFits(l)'
  BY <1>1 DEF AmountInv, LoanFits, Stored, Active, HasTransactions, Collected
<1>6. \A e \in Employees : ArrearsFit(e)'
  BY <1>1 DEF AmountInv, ArrearsFit, PaidByRuns
<1> QED
  BY <1>1, <1>4, <1>5, <1>6 DEF AmountInv

\* What a run takes from the loans for the payslips of a period.
LEMMA RunShares ==
  ASSUME TypeOK, NEW c \in Cycles, NEW l \in Loans
  PROVE  /\ Share(l, Deduction(l, c)) \in Nat
         /\ Share(l, Deduction(l, c)) <= loan[l].outstanding
         /\ Share(l, Deduction(l, c)) > 0 => Active(l)
<1>1. Deduction(l, c) \in Nat
  BY SettlementAssumption DEF TypeOK, ComputedRow, Deduction, SettlementAssumption
<1> QED
  BY <1>1, ShareType DEF TypeOK, AccountsTypeOK, LoansTyped

\* What is owed less on a loan is what the ledger row of the run says.
LEMMA CollectedFits ==
  ASSUME AmountInv, NEW l \in Loans, NEW n \in Nat, n <= loan[l].outstanding, n > 0 => Active(l),
         loan'[l] = IF n > 0 THEN Owe(loan[l], loan[l].outstanding - n) ELSE loan[l],
         entries' = entries, Collected(l)' = Collected(l) + n,
         ~Stored(l)' => \A r \in Runs : booked'[r][l] = booked[r][l]
  PROVE  loan'[l] \in LoanRow /\ LoanFits(l)'
<1> DEFINE x == loan[l]  o == Owe(x, x.outstanding - n)
<1>0. /\ x \in LoanRow /\ LoanFits(l) /\ x.outstanding \in Nat /\ x.principal \in Nat
      /\ entries[l].lent \in Nat /\ entries[l].repaid \in Nat /\ Collected(l) \in Nat
  BY LoanType DEF AmountInv
<1>1. CASE n > 0
  <2>1. x.outstanding - n \in Nat /\ x.status = "active"
    BY <1>0, <1>1 DEF Active
  <2>2. /\ o \in LoanRow /\ o.outstanding = x.outstanding - n /\ o.principal = x.principal
        /\ o.status = IF x.outstanding - n = 0 THEN "closed" ELSE "active"
    <3> HIDE DEF x
    <3> QED
      BY <1>0, <2>1 DEF LoanRow, Owe
  <2>3. x.outstanding = x.principal + entries[l].lent - entries[l].repaid - Collected(l)
    BY <1>0, <2>1 DEF LoanFits, Stored
  <2>4. loan'[l] = o
    BY <1>1
  <2>5. o.outstanding = o.principal + entries[l].lent - entries[l].repaid - (Collected(l) + n)
    <3> HIDE DEF x, o
    <3> QED
      BY <1>0, <2>2, <2>3
  <2>6. o.status # "absent" /\ (o.status = "active" => o.outstanding > 0)
    <3> HIDE DEF o
    <3>1. o.outstanding \in Nat
      BY <2>2 DEF LoanRow
    <3> QED
      BY <2>1, <2>2, <3>1
  <2> HIDE DEF o, x
  <2> QED
    BY <2>2, <2>4, <2>5, <2>6 DEF LoanFits, Stored, Active
<1>2. CASE ~(n > 0)
  <2>1. loan'[l] = loan[l] /\ Collected(l)' = Collected(l)
    BY <1>0, <1>2
  <2> QED
    BY <1>0, <2>1 DEF LoanFits, Stored, Active, HasTransactions
<1> QED
  BY <1>1, <1>2

LEMMA FinalizeAmounts ==
  ASSUME AmountInv, LockInv, NEW c \in Cycles, NEW r \in Runs, FinalizePayroll(c, r)
  PROVE  AmountInv'
<1> DEFINE take(l) == Share(l, Deduction(l, c))
           b == [l \in Loans |-> take(l)]
           p == [e \in Employees |-> ArrearsDue(e, c)]
<1>1. /\ run[r].status = "absent" /\ ArrearsSuffice(c)
      /\ run' = [run EXCEPT ![r] = [status |-> "active", cycle |-> c]]
      /\ row' = [e \in Employees |->
                   IF InRun(e, c) THEN [row[e] EXCEPT ![c].run = r] ELSE row[e]]
      /\ loan' = [l \in Loans |->
                    IF take(l) > 0 THEN Owe(loan[l], loan[l].outstanding - take(l)) ELSE loan[l]]
      /\ booked' = [booked EXCEPT ![r] = b]
      /\ arrears' = [e \in Employees |-> PayOut(arrears[e], ArrearsDue(e, c))]
      /\ paidOut' = [paidOut EXCEPT ![r] = p]
      /\ entries' = entries /\ settled' = settled
  BY DEF FinalizePayroll
<1>2. TypeOK /\ AccountsTypeOK
  BY DEF AmountInv, TypeOK
<1>3. \A l \in Loans : /\ take(l) \in Nat /\ take(l) <= loan[l].outstanding
                       /\ take(l) > 0 => Active(l)
  BY <1>2, RunShares
<1> HIDE DEF take
<1>4. b \in [Loans -> Nat] /\ booked' \in [Runs -> [Loans -> Nat]]
  BY <1>1, <1>2, <1>3 DEF AccountsTypeOK
<1>5. ASSUME NEW l \in Loans PROVE loan'[l] \in LoanRow /\ LoanFits(l)'
  <2>1. booked[r][l] = 0 /\ b[l] = take(l)
    BY <1>1 DEF AmountInv
  <2>2. Collected(l)' = Collected(l) - booked[r][l] + b[l]
    <3> HIDE DEF b
    <3> QED
      BY <1>1, <1>2, <1>4, CollectedMoves DEF AccountsTypeOK
  <2>3. Collected(l) \in Nat /\ take(l) \in Nat
    BY <1>3, LoanType
  <2>4. Collected(l)' = Collected(l) + take(l)
    BY <2>1, <2>2, <2>3
  <2>5. loan'[l] = IF take(l) > 0 THEN Owe(loan[l], loan[l].outstanding - take(l)) ELSE loan[l]
    BY <1>1
  <2>6. ASSUME ~Stored(l)', NEW q \in Runs PROVE booked'[q][l] = booked[q][l]
    <3>1. take(l) = 0
      <4>1. take(l) > 0 => loan'[l].status # "absent"
        <5>1. ASSUME take(l) > 0 PROVE loan'[l].status # "absent"
          <6>1. loan[l].status = "active" /\ loan[l] \in LoanRow
            BY <1>2, <1>3, <5>1 DEF Active, AccountsTypeOK
          <6>2. \A k : Owe(loan[l], k).status \in {"active", "closed"}
            BY <6>1 DEF Owe, LoanRow
          <6> QED
            BY <2>5, <5>1, <6>2
        <5> QED
          BY <5>1
      <4> QED
        BY <2>3, <2>6, <4>1 DEF Stored
    <3> QED
      BY <1>1, <1>2, <2>1, <3>1 DEF AccountsTypeOK
  <2> QED
    BY <1>1, <1>3, <2>4, <2>5, <2>6, CollectedFits
<1>6. \A e \in Employees : ArrearsDue(e, c) \in Nat /\ ArrearsDue(e, c) <= arrears[e].outstanding
  BY <1>1, <1>2 DEF ArrearsSuffice, ArrearsDue, TypeOK, ComputedRow
<1>7. p \in [Employees -> Nat] /\ paidOut' \in [Runs -> [Employees -> Nat]]
  BY <1>1, <1>2, <1>6 DEF TypeOK
<1>8. ASSUME NEW e \in Employees PROVE arrears'[e] \in ArrearsRow /\ ArrearsFit(e)'
  <2> DEFINE x == arrears[e]  a == ArrearsDue(e, c)
  <2>0. /\ x \in ArrearsRow /\ x.created \in Nat /\ x.paid \in Nat /\ x.outstanding \in Nat
        /\ a \in Nat /\ a <= x.outstanding
        /\ x.outstanding >= x.created - x.paid /\ PaidByRuns(e) <= x.paid
        /\ PaidByRuns(e) \in Nat
    BY <1>2, <1>6, PaidByRunsType DEF AmountInv, ArrearsFit, AccountsTypeOK, ArrearsRow, TypeOK
  <2>1. paidOut[r][e] = 0
    BY <1>1, NoRowShape DEF LockInv, ArrearsPaidAsOnPayslip, LockedRow
  <2>2. PaidByRuns(e)' = PaidByRuns(e) - paidOut[r][e] + p[e]
    <3> HIDE DEF p
    <3> QED
      BY <1>1, <1>2, <1>7, PaidByRunsMoves DEF TypeOK
  <2>3. p[e] = a /\ arrears'[e] = PayOut(x, a)
    BY <1>1
  <2> HIDE DEF x, a, p
  <2>4. x.paid + a \in Nat /\ x.outstanding - a \in Nat
    BY <2>0
  <2>5. /\ arrears'[e] \in ArrearsRow /\ arrears'[e].created = x.created
        /\ arrears'[e].outstanding = x.outstanding - a /\ arrears'[e].paid = x.paid + a
    BY <2>0, <2>3, <2>4 DEF ArrearsRow, PayOut
  <2> QED
    BY <2>0, <2>1, <2>2, <2>3, <2>5 DEF ArrearsFit
<1>9. row' \in [Employees -> [Cycles -> ComputedRow]]
  <2>1. ASSUME NEW e \in Employees PROVE [row[e] EXCEPT ![c].run = r] \in [Cycles -> ComputedRow]
    <3>1. row[e] \in [Cycles -> ComputedRow] /\ row[e][c] \in ComputedRow
      BY <1>2 DEF TypeOK
    <3>2. [row[e][c] EXCEPT !.run = r] \in ComputedRow
      BY <3>1 DEF ComputedRow
    <3> QED
      BY <3>1, <3>2
  <2> QED
    BY <1>1, <1>2, <2>1 DEF TypeOK
<1>10. TypeOK'
  <2>1. loan' \in [Loans -> LoanRow]
    BY <1>1, <1>5
  <2>2. arrears' \in [Employees -> ArrearsRow]
    BY <1>1, <1>8
  <2>3. run' \in [Runs -> RunRow]
    BY <1>1, <1>2 DEF TypeOK, RunRow
  <2> QED
    BY <1>1, <1>2, <1>4, <1>7, <1>9, <2>1, <2>2, <2>3 DEF TypeOK, AccountsTypeOK
<1>11. ASSUME NEW q \in Runs, NEW l \in Loans, run'[q].status # "active"
       PROVE  booked'[q][l] = 0
  <2>1. q # r /\ run'[q] = run[q]
    BY <1>1, <1>2, <1>11 DEF TypeOK
  <2> QED
    BY <1>1, <1>2, <1>11, <2>1 DEF AmountInv, AccountsTypeOK
<1> QED
  BY <1>5, <1>8, <1>10, <1>11 DEF AmountInv

\* Undoing a run puts back what its ledger rows say, on loans that are still there.
LEMMA DefinalizeAmounts ==
  ASSUME AmountInv, NEW r \in Runs, DefinalizePayroll(r)
  PROVE  AmountInv'
<1> DEFINE b == [l \in Loans |-> 0]
           p == [e \in Employees |-> 0]
<1>1. /\ run' = [run EXCEPT ![r].status = "definalized"]
      /\ row' = Unlocked(r)
      /\ loan' = [l \in Loans |->
                    IF booked[r][l] > 0 THEN Reopen(loan[l], booked[r][l]) ELSE loan[l]]
      /\ booked' = [booked EXCEPT ![r] = b]
      /\ arrears' = [e \in Employees |-> PayOut(arrears[e], -paidOut[r][e])]
      /\ paidOut' = [paidOut EXCEPT ![r] = p]
      /\ entries' = entries /\ settled' = settled
  BY DEF DefinalizePayroll
<1>2. TypeOK /\ AccountsTypeOK
  BY DEF AmountInv, TypeOK
<1>3. b \in [Loans -> Nat] /\ booked' \in [Runs -> [Loans -> Nat]]
  BY <1>1, <1>2 DEF AccountsTypeOK
<1>4. p \in [Employees -> Nat] /\ paidOut' \in [Runs -> [Employees -> Nat]]
  BY <1>1, <1>2 DEF TypeOK
<1>5. ASSUME NEW l \in Loans PROVE loan'[l] \in LoanRow /\ LoanFits(l)'
  <2> DEFINE x == loan[l]  n == booked[r][l]  o == Reopen(x, n)
  <2>0. /\ x \in LoanRow /\ LoanFits(l) /\ x.outstanding \in Nat /\ x.principal \in Nat
        /\ entries[l].lent \in Nat /\ entries[l].repaid \in Nat /\ Collected(l) \in Nat
        /\ n \in Nat
    BY <1>2, LoanType DEF AmountInv, AccountsTypeOK
  <2>1. Collected(l)' = Collected(l) - n
    <3>1. Collected(l)' = Collected(l) - booked[r][l] + b[l]
      <4> HIDE DEF b
      <4> QED
        BY <1>1, <1>2, <1>3, CollectedMoves DEF AccountsTypeOK
    <3>2. b[l] = 0
      OBVIOUS
    <3> HIDE DEF b, n
    <3> QED
      BY <2>0, <3>1, <3>2 DEF n
  <2>2. loan'[l] = IF n > 0 THEN o ELSE x
    BY <1>1
  <2>3. CASE n > 0
    <3>1. Stored(l)
      BY <2>0, <2>3 DEF LoanFits, HasTransactions
    <3>2. x.outstanding + n \in Nat /\ x.outstanding + n > 0
      <4> HIDE DEF x, n
      <4> QED
        BY <2>0, <2>3
    <3>3. /\ o \in LoanRow /\ o.outstanding = x.outstanding + n /\ o.principal = x.principal
          /\ o.status = "active"
      <4> HIDE DEF x, n
      <4> QED
        BY <2>0, <3>2 DEF LoanRow, Reopen
    <3>4. x.outstanding = x.principal + entries[l].lent - entries[l].repaid - Collected(l)
      BY <2>0, <3>1 DEF LoanFits
    <3> HIDE DEF x, n, o
    <3>5. o.outstanding = o.principal + entries[l].lent - entries[l].repaid - (Collected(l) - n)
      BY <2>0, <3>3, <3>4
    <3>6. o.outstanding > 0
      BY <3>2, <3>3
    <3> QED
      BY <1>1, <2>1, <2>2, <2>3, <3>3, <3>5, <3>6 DEF LoanFits, Stored, Active
  <2>4. CASE ~(n > 0)
    <3>1. n = 0 /\ loan'[l] = loan[l]
      <4>1. n = 0
        <5> HIDE DEF n
        <5> QED
          BY <2>0, <2>4
      <4> QED
        BY <2>2, <2>4, <4>1
    <3>2. Collected(l)' = Collected(l)
      <4> HIDE DEF n
      <4> QED
        BY <2>0, <2>1, <3>1
    <3>3. \A q \in Runs : booked'[q][l] = booked[q][l]
      BY <1>1, <1>2, <3>1 DEF AccountsTypeOK
    <3> QED
      BY <1>1, <2>0, <3>1, <3>2, <3>3 DEF LoanFits, Stored, Active, HasTransactions
  <2> QED
    BY <2>3, <2>4
<1>6. ASSUME NEW e \in Employees PROVE arrears'[e] \in ArrearsRow /\ ArrearsFit(e)'
  <2> DEFINE x == arrears[e]  a == paidOut[r][e]
  <2>0. /\ x \in ArrearsRow /\ x.created \in Nat /\ x.paid \in Nat /\ x.outstanding \in Nat
        /\ a \in Nat /\ a <= PaidByRuns(e) /\ PaidByRuns(e) \in Nat
        /\ x.outstanding >= x.created - x.paid /\ PaidByRuns(e) <= x.paid
    BY <1>2, PaidByRunsType DEF AmountInv, ArrearsFit, AccountsTypeOK, ArrearsRow, TypeOK
  <2>1. PaidByRuns(e)' = PaidByRuns(e) - a
    <3>1. PaidByRuns(e)' = PaidByRuns(e) - paidOut[r][e] + p[e]
      <4> HIDE DEF p
      <4> QED
        BY <1>1, <1>2, <1>4, PaidByRunsMoves DEF TypeOK
    <3>2. p[e] = 0
      OBVIOUS
    <3> HIDE DEF p, a
    <3> QED
      BY <2>0, <3>1, <3>2 DEF a
  <2>2. arrears'[e] = PayOut(x, -a)
    BY <1>1
  <2> HIDE DEF x, a
  <2>3. /\ x.paid + (-a) = x.paid - a /\ x.outstanding - (-a) = x.outstanding + a
        /\ x.paid - a \in Nat /\ x.outstanding + a \in Nat
    BY <2>0
  <2>4. /\ arrears'[e] \in ArrearsRow /\ arrears'[e].created = x.created
        /\ arrears'[e].outstanding = x.outstanding + a /\ arrears'[e].paid = x.paid - a
    BY <2>0, <2>2, <2>3 DEF ArrearsRow, PayOut
  <2>5. /\ x.outstanding + a >= x.created - (x.paid - a)
        /\ PaidByRuns(e) - a <= x.paid - a
    BY <2>0
  <2> QED
    BY <2>1, <2>4, <2>5 DEF ArrearsFit
<1>7. row' \in [Employees -> [Cycles -> ComputedRow]]
  <2>1. \A e \in Employees, c \in Cycles :
          row[e][c] \in ComputedRow /\ [row[e][c] EXCEPT !.run = NoRun] \in ComputedRow
    <3> SUFFICES ASSUME NEW e \in Employees, NEW c \in Cycles, NEW x \in ComputedRow
                 PROVE  [x EXCEPT !.run = NoRun] \in ComputedRow
      BY <1>2 DEF TypeOK
    <3> QED
      BY DEF ComputedRow
  <2> QED
    BY <1>1, <2>1 DEF Unlocked
<1>8. TypeOK'
  <2>1. loan' \in [Loans -> LoanRow]
    BY <1>1, <1>5
  <2>2. arrears' \in [Employees -> ArrearsRow]
    BY <1>1, <1>6
  <2>3. run' \in [Runs -> RunRow]
    BY <1>1, <1>2 DEF TypeOK, RunRow
  <2> QED
    BY <1>1, <1>2, <1>3, <1>4, <1>7, <2>1, <2>2, <2>3 DEF TypeOK, AccountsTypeOK
<1>9. ASSUME NEW q \in Runs, NEW l \in Loans, run'[q].status # "active"
      PROVE  booked'[q][l] = 0
  <2>1. CASE q = r
    BY <1>1, <1>2, <2>1 DEF AccountsTypeOK
  <2>2. CASE q # r
    <3>1. run'[q] = run[q] /\ booked'[q] = booked[q]
      BY <1>1, <1>2, <2>2 DEF TypeOK, AccountsTypeOK
    <3> QED
      BY <1>9, <3>1 DEF AmountInv
  <2> QED
    BY <2>1, <2>2
<1> QED
  BY <1>5, <1>6, <1>8, <1>9 DEF AmountInv

LEMMA SettlementAmounts ==
  ASSUME AmountInv, NEW e \in Employees, FinalizeSettlement(e)
  PROVE  AmountInv'
<1>1. /\ loan' = [l \in Loans |-> IF l \in OwnLoans(e) /\ loan[l].outstanding > 0
                                  THEN Owe(loan[l], 0) ELSE loan[l]]
      /\ entries' = [l \in Loans |->
                       IF l \in OwnLoans(e)
                       THEN [entries[l] EXCEPT !.repaid = @ + loan[l].outstanding]
                       ELSE entries[l]]
      /\ arrears' = [arrears EXCEPT ![e] = PayOut(@, @.outstanding)]
      /\ settled' = [settled EXCEPT ![e] = TRUE]
      /\ booked' = booked /\ row' = row /\ run' = run /\ paidOut' = paidOut
  BY DEF FinalizeSettlement
<1>2. TypeOK /\ AccountsTypeOK
  BY DEF AmountInv, TypeOK
<1>3. ASSUME NEW l \in Loans PROVE loan'[l] \in LoanRow /\ entries'[l] \in Entries /\ LoanFits(l)'
  <2> DEFINE x == loan[l]  y == entries[l]  o == Owe(x, 0)
             z == [y EXCEPT !.repaid = @ + x.outstanding]
  <2>0. /\ x \in LoanRow /\ y \in Entries /\ LoanFits(l) /\ x.outstanding \in Nat /\ x.principal \in Nat
        /\ y.lent \in Nat /\ y.repaid \in Nat /\ Collected(l) \in Nat
    BY LoanType DEF AmountInv
  <2>1. Collected(l)' = Collected(l)
    BY <1>1 DEF Collected
  <2>2. CASE l \in OwnLoans(e)
    <3>1. x.status = "active" /\ x.outstanding > 0
          /\ x.outstanding = x.principal + y.lent - y.repaid - Collected(l)
      BY <2>0, <2>2 DEF LoanFits, OwnLoans, Active, Stored
    <3>2. loan'[l] = o /\ entries'[l] = z
      BY <1>1, <2>2, <3>1
    <3>3. o \in LoanRow /\ o.outstanding = 0 /\ o.principal = x.principal /\ o.status = "closed"
      <4> HIDE DEF x
      <4> QED
        BY <2>0 DEF Owe, LoanRow
    <3>4. z \in Entries /\ z.lent = y.lent /\ z.repaid = y.repaid + x.outstanding
      <4>1. y.repaid + x.outstanding \in Nat
        <5> HIDE DEF x, y
        <5> QED
          BY <2>0
      <4> HIDE DEF x, y
      <4> QED
        BY <2>0, <4>1 DEF Entries
    <3> HIDE DEF x, y, z, o
    <3>5. o.outstanding = o.principal + z.lent - z.repaid - Collected(l)
      BY <2>0, <3>1, <3>3, <3>4
    <3> QED
      BY <2>1, <3>2, <3>3, <3>4, <3>5 DEF LoanFits, Stored, Active
  <2>3. CASE l \notin OwnLoans(e)
    <3>1. loan'[l] = loan[l] /\ entries'[l] = entries[l]
      BY <1>1, <2>3
    <3> QED
      BY <1>1, <2>0, <2>1, <3>1 DEF LoanFits, Stored, Active, HasTransactions
  <2> QED
    BY <2>2, <2>3
<1>4. ASSUME NEW d \in Employees PROVE arrears'[d] \in ArrearsRow /\ ArrearsFit(d)'
  <2> DEFINE x == arrears[d]  o == PayOut(x, x.outstanding)
  <2>0. /\ x \in ArrearsRow /\ x.created \in Nat /\ x.paid \in Nat /\ x.outstanding \in Nat
        /\ x.outstanding >= x.created - x.paid
        /\ PaidByRuns(d) <= x.paid /\ PaidByRuns(d) \in Nat
    BY <1>2, PaidByRunsType DEF AmountInv, ArrearsFit, AccountsTypeOK, ArrearsRow, TypeOK
  <2>1. PaidByRuns(d)' = PaidByRuns(d)
    BY <1>1 DEF PaidByRuns
  <2>2. arrears'[d] = IF d = e THEN o ELSE x
    BY <1>1, <1>2 DEF AccountsTypeOK
  <2>3. o \in ArrearsRow /\ o.created = x.created /\ o.outstanding = 0 /\ o.paid = x.paid + x.outstanding
    <3>1. x.paid + x.outstanding \in Nat /\ x.outstanding - x.outstanding = 0
      <4> HIDE DEF x
      <4> QED
        BY <2>0
    <3>2. o = [x EXCEPT !.paid = x.paid + x.outstanding, !.outstanding = 0]
      <4> HIDE DEF x
      <4> QED
        BY <2>0, <3>1 DEF ArrearsRow, PayOut
    <3> HIDE DEF x, o
    <3> QED
      BY <2>0, <3>1, <3>2 DEF ArrearsRow
  <2> HIDE DEF x, o
  <2>4. o.outstanding >= o.created - o.paid /\ PaidByRuns(d) <= o.paid
    BY <2>0, <2>3
  <2>5. CASE d = e
    BY <2>1, <2>2, <2>3, <2>4, <2>5 DEF ArrearsFit
  <2>6. CASE d # e
    BY <2>0, <2>1, <2>2, <2>6 DEF ArrearsFit
  <2> QED
    BY <2>5, <2>6
<1>5. TypeOK'
  <2>1. loan' \in [Loans -> LoanRow] /\ entries' \in [Loans -> Entries]
    BY <1>1, <1>3
  <2>2. arrears' \in [Employees -> ArrearsRow]
    BY <1>1, <1>2, <1>4 DEF AccountsTypeOK
  <2> QED
    BY <1>1, <1>2, <2>1, <2>2 DEF TypeOK, AccountsTypeOK
<1> QED
  BY <1>1, <1>3, <1>4, <1>5 DEF AmountInv

LEMMA AmountStep == AmountInv /\ LockInv /\ [Next]_vars => AmountInv'
<1> SUFFICES ASSUME AmountInv, LockInv, [Next]_vars PROVE AmountInv'
  OBVIOUS
<1>1. CASE UNCHANGED vars
  <2>1. /\ loan' = loan /\ entries' = entries /\ booked' = booked /\ arrears' = arrears
        /\ row' = row /\ run' = run /\ paidOut' = paidOut /\ settled' = settled
    BY <1>1 DEF vars, accounts
  <2>2. TypeOK'
    BY <2>1 DEF AmountInv, TypeOK, AccountsTypeOK
  <2>3. \A l \in Loans : LoanFits(l)'
    BY <2>1 DEF AmountInv, LoanFits, Stored, Active, HasTransactions, Collected
  <2>4. \A e \in Employees : ArrearsFit(e)'
    BY <2>1 DEF AmountInv, ArrearsFit, PaidByRuns
  <2> QED
    BY <2>1, <2>2, <2>3, <2>4 DEF AmountInv
<1>2. CASE Accounts
  BY <1>2, AccountsAmounts
<1>3. CASE Payroll
  BY <1>3, GenerateAmounts, FinalizeAmounts, DefinalizeAmounts DEF Payroll, RecalculatePayroll
<1>4. CASE \E e \in Employees : FinalizeSettlement(e)
  BY <1>4, SettlementAmounts
<1> QED
  BY <1>1, <1>2, <1>3, <1>4 DEF Next

LEMMA AmountInvariant == Spec => []AmountInv
<1> QED
  BY AmountInit, AmountStep, LockInvariant, PTL DEF Spec

\* Every amount stays a natural number: but for the arrears of a run, no handler
\* needs the CHECKs of the tables to refuse what it writes.
THEOREM AmountsAreTyped == Spec => []TypeOK
<1>1. AmountInv => TypeOK
  BY DEF AmountInv
<1> QED
  BY AmountInvariant, <1>1, PTL

\* The outstanding amount of a loan is its principal and the sum of its ledger
\* rows, those of the payroll runs included.
THEOREM OutstandingIsLedger == Spec => []LoanMatchesLedger
<1>1. AmountInv => LoanMatchesLedger
  BY DEF AmountInv, LoanFits, Collected, LoanMatchesLedger
<1> QED
  BY AmountInvariant, <1>1, PTL

\* Paying out, and paying back, moves the columns of a header together.
LEMMA PayOutMoves ==
  ASSUME NEW x \in ArrearsRow, NEW amount \in Int
  PROVE  LET n == PayOut(x, amount)
         IN  n.outstanding - (n.created - n.paid) = x.outstanding - (x.created - x.paid)
<1>1. /\ x.outstanding \in Int /\ x.created \in Int /\ x.paid \in Int
      /\ PayOut(x, amount).outstanding = x.outstanding - amount
      /\ PayOut(x, amount).created = x.created
      /\ PayOut(x, amount).paid = x.paid + amount
  BY DEF ArrearsRow, PayOut
<1> QED
  BY <1>1

\* Of the operations by hand, a credit and a payment keep the difference, and a
\* revision of the total keeps it unless it stops at zero.
LEMMA OperationMoves ==
  ASSUME AmountInv, NEW e \in Employees, ArrearsOperation(e), NEW d \in Employees
  PROVE  \/ Excess(d)' = Excess(d)
         \/ /\ Excess(d)' > Excess(d)
            /\ arrears'[d].outstanding = 0 /\ arrears'[d].created < arrears'[d].paid
<1> DEFINE x == arrears[e]
<1>0. /\ arrears \in [Employees -> ArrearsRow] /\ x \in ArrearsRow
      /\ x.created \in Nat /\ x.paid \in Nat /\ x.outstanding \in Nat
      /\ x.outstanding >= x.created - x.paid
      /\ ArrearsAmounts \subseteq Nat \ {0}
  BY SettlementAssumption
     DEF AmountInv, TypeOK, AccountsTypeOK, ArrearsFit, ArrearsRow, ArrearsAmounts, SettlementAssumption
<1>1. PICK amount \in ArrearsAmounts :
        CreditArrears(e, amount) \/ PayArrears(e, amount) \/ UpdateArrears(e, amount)
  BY DEF ArrearsOperation
<1>2. amount \in Nat
  BY <1>0, <1>1
<1>3. ASSUME d # e PROVE Excess(d)' = Excess(d)
  <2>1. arrears'[d] = arrears[d]
    BY <1>0, <1>1, <1>3 DEF CreditArrears, PayArrears, UpdateArrears
  <2> QED
    BY <2>1 DEF Excess
<1>4. CASE d = e /\ CreditArrears(e, amount)
  <2>1. /\ arrears'[e].created = x.created + amount
        /\ arrears'[e].outstanding = x.outstanding + amount
        /\ arrears'[e].paid = x.paid
    BY <1>0, <1>4 DEF CreditArrears, ArrearsRow
  <2> QED
    BY <1>0, <1>2, <1>4, <2>1 DEF Excess
<1>5. CASE d = e /\ PayArrears(e, amount)
  <2>1. arrears'[e] = PayOut(x, amount)
    BY <1>0, <1>5 DEF PayArrears
  <2> QED
    BY <1>0, <1>2, <1>5, <2>1, PayOutMoves DEF Excess
<1>6. CASE d = e /\ UpdateArrears(e, amount)
  <2>1. arrears'[e] = Revise(x, amount)
    BY <1>0, <1>6 DEF UpdateArrears
  <2>2. /\ arrears'[e].created = amount /\ arrears'[e].paid = x.paid
        /\ arrears'[e].outstanding = Max({0, x.outstanding + (amount - x.created)})
    BY <1>0, <2>1 DEF Revise, ArrearsRow
  <2>3. /\ x.outstanding + (amount - x.created) \in Int
        /\ 0 \in Int
    BY <1>0, <1>2
  <2>4. arrears'[e].outstanding = IF 0 >= x.outstanding + (amount - x.created) THEN 0
                                  ELSE x.outstanding + (amount - x.created)
    BY <2>2, <2>3, MaxOf
  <2> QED
    BY <1>0, <1>2, <1>6, <2>2, <2>4 DEF Excess
<1> QED
  BY <1>1, <1>3, <1>4, <1>5, <1>6

\* What an employee is owed stays the difference of what was granted and what was
\* paid, but for a revision that stops at zero; and it is never less.
THEOREM ArrearsKeepEquation ==
  Spec => ArrearsMoveTogether /\ [](\A e \in Employees : Excess(e) >= 0)
<1> DEFINE Kept == \A e \in Employees : Excess(e)' # Excess(e) =>
                     /\ Excess(e)' > Excess(e)
                     /\ arrears'[e].outstanding = 0 /\ arrears'[e].created < arrears'[e].paid
<1>1. AmountInv /\ [Next]_vars => [Kept]_vars
  <2> SUFFICES ASSUME AmountInv, Next, NEW e \in Employees, Excess(e)' # Excess(e)
               PROVE  /\ Excess(e)' > Excess(e)
                      /\ arrears'[e].outstanding = 0 /\ arrears'[e].created < arrears'[e].paid
    BY DEF Kept
  <2>0. /\ arrears \in [Employees -> ArrearsRow] /\ arrears[e] \in ArrearsRow
        /\ arrears[e].outstanding \in Int
        /\ row \in [Employees -> [Cycles -> ComputedRow]]
        /\ paidOut \in [Runs -> [Employees -> Nat]]
    BY DEF AmountInv, TypeOK, AccountsTypeOK, ArrearsRow
  <2>1. ASSUME NEW d \in Employees, ArrearsOperation(d)
        PROVE  /\ Excess(e)' > Excess(e)
               /\ arrears'[e].outstanding = 0 /\ arrears'[e].created < arrears'[e].paid
    BY <2>1, OperationMoves
  <2>2. ASSUME NEW amount \in Int, arrears'[e] = PayOut(arrears[e], amount)
        PROVE  FALSE
    BY <2>0, <2>2, PayOutMoves DEF Excess
  <2>3. ASSUME NEW c \in Cycles, NEW r \in Runs, FinalizePayroll(c, r)
        PROVE  FALSE
    <3>1. ArrearsDue(e, c) \in Int
      BY <2>0 DEF ArrearsDue, ComputedRow
    <3> QED
      BY <2>2, <2>3, <3>1 DEF FinalizePayroll
  <2>4. ASSUME NEW r \in Runs, DefinalizePayroll(r)
        PROVE  FALSE
    <3>1. -paidOut[r][e] \in Int
      BY <2>0
    <3> QED
      BY <2>2, <2>4, <3>1 DEF DefinalizePayroll
  <2>5. ASSUME NEW d \in Employees, FinalizeSettlement(d)
        PROVE  FALSE
    <3>1. arrears' = [arrears EXCEPT ![d] = PayOut(@, @.outstanding)]
      BY <2>5 DEF FinalizeSettlement
    <3>2. CASE d = e
      BY <2>0, <2>2, <3>1, <3>2
    <3>3. CASE d # e
      BY <2>0, <3>1, <3>3 DEF Excess
    <3> QED
      BY <3>2, <3>3
  <2>6. ASSUME arrears' = arrears PROVE FALSE
    BY <2>6 DEF Excess
  <2>7. ASSUME NEW l \in Loans, LoanOperation(l) PROVE arrears' = arrears
    BY <2>7 DEF LoanOperation, CreateLoanAdvance, UpdateLoanAdvance, UpdateInstallment,
                CloseLoanAdvance, DeleteLoanAdvance, Repay, Lend
  <2>8. ASSUME NEW c \in Cycles, NEW S \in SUBSET Employees, GeneratePayroll(c, S)
        PROVE  arrears' = arrears
    BY <2>8 DEF GeneratePayroll, accounts
  <2> QED
    BY <2>1, <2>3, <2>4, <2>5, <2>6, <2>7, <2>8 DEF Next, Accounts, Payroll, RecalculatePayroll
<1>2. AmountInv => \A e \in Employees : Excess(e) >= 0
  <2> SUFFICES ASSUME AmountInv, NEW e \in Employees PROVE Excess(e) >= 0
    OBVIOUS
  <2>1. /\ arrears[e].outstanding \in Nat /\ arrears[e].created \in Nat /\ arrears[e].paid \in Nat
        /\ arrears[e].outstanding >= arrears[e].created - arrears[e].paid
    BY DEF AmountInv, TypeOK, AccountsTypeOK, ArrearsRow, ArrearsFit
  <2> QED
    BY <2>1 DEF Excess
<1> QED
  BY AmountInvariant, <1>1, <1>2, PTL DEF Spec, ArrearsMoveTogether

-------------------------------------------------------------------------------
(* What a run collects *)

OwnedBy(e) == {l \in Loans : Owner[l] = e}
CollectedBy(r, e) == SumFunctionOnSet(booked[r], OwnedBy(e))

LEMMA OwnedFinite == \A e \in Employees : IsFiniteSet(OwnedBy(e)) /\ OwnedBy(e) \subseteq Loans
<1>1. \A e \in Employees : OwnedBy(e) \subseteq Loans
  BY DEF OwnedBy
<1> QED
  BY <1>1, FS_Subset, SettlementAssumption DEF SettlementAssumption

\* The run that is being finalized takes no more than the payslips deduct.
LEMMA FinalizeCollects ==
  ASSUME AmountInv, LockInv, NeverOverCollected,
         NEW c \in Cycles, NEW r \in Runs, FinalizePayroll(c, r)
  PROVE  NeverOverCollected'
<1> DEFINE b == [l \in Loans |-> Share(l, Deduction(l, c))]
<1>1. /\ run' = [run EXCEPT ![r] = [status |-> "active", cycle |-> c]]
      /\ booked' = [booked EXCEPT ![r] = b]
      /\ \A q \in Runs : ~(run[q].status = "active" /\ run[q].cycle = c)
  BY DEF FinalizePayroll, ActiveRuns
<1>2. \A e \in Employees, d \in Cycles :
        row'[e][d] = IF d = c /\ row[e][d].exists
                     THEN [row[e][d] EXCEPT !.run = r] ELSE row[e][d]
  BY FinalizeRows
<1>3. TypeOK /\ LoansTyped /\ booked \in [Runs -> [Loans -> Nat]]
  BY DEF AmountInv, TypeOK, AccountsTypeOK, LoansTyped
<1>4. booked'[r] = b /\ \A q \in Runs \ {r} : booked'[q] = booked[q]
  BY <1>1, <1>3
<1>5. /\ run'[r].status = "active" /\ run'[r].cycle = c
      /\ \A q \in Runs \ {r} : run'[q] = run[q]
  BY <1>1 DEF LockInv, Shape
<1> SUFFICES ASSUME NEW q \in Runs, NEW e \in Employees
             PROVE  CollectedBy(q, e)' <= LockedRow(e, q)'.deduction
  BY DEF NeverOverCollected, CollectedBy, OwnedBy
<1>6. CASE q = r
  <2> DEFINE d == row[e][c].deduction
             w == [l \in Loans |-> Share(l, d)]
  <2>1. d \in Nat
    BY <1>3 DEF TypeOK, ComputedRow
  <2>2. \A l \in OwnedBy(e) : b[l] = w[l]
    BY DEF OwnedBy, Deduction
  <2>3. SumFunctionOnSet(w, OwnedBy(e)) <= d
    <3> HIDE DEF d
    <3> QED
      BY <1>3, <2>1, SharesWithin DEF OwnedBy
  <2>4. CollectedBy(q, e)' <= d
    <3> HIDE DEF b, w
    <3>1. SumFunctionOnSet(b, OwnedBy(e)) = SumFunctionOnSet(w, OwnedBy(e))
      BY <2>2, OwnedFinite, SumSame
    <3> QED
      BY <1>4, <1>6, <2>3, <3>1 DEF CollectedBy, OwnedBy
  <2>5. LockedRow(e, q)'.deduction = d
    <3>0. IsRow(row[e][c]) /\ row[e][c].exists \in BOOLEAN
      BY RowRun
    <3>1. CASE row[e][c].exists
      <4> DEFINE new == [row[e][c] EXCEPT !.run = r]
      <4>1. new.run = r /\ new.deduction = d
        BY <3>0, RunWritten
      <4>2. row'[e][c] = new
        BY <1>2, <3>1
      <4> HIDE DEF new
      <4> QED
        BY <1>5, <1>6, <4>1, <4>2 DEF LockedRow
    <3>2. CASE ~row[e][c].exists
      <4>0. row[e][c] = NoRow
        BY <3>2 DEF LockInv
      <4>1. row'[e][c] = NoRow
        BY <1>2, <3>2, <4>0
      <4>2. NoRow.run # r /\ NoRow.deduction = 0
        BY PayrollAssumption DEF NoRow, PayrollAssumption
      <4> QED
        BY <1>5, <1>6, <4>0, <4>1, <4>2 DEF LockedRow
    <3> QED
      BY <3>0, <3>1, <3>2
  <2> QED
    BY <2>4, <2>5
<1>7. CASE q # r
  <2>1. run[q].cycle \in Cycles /\ (run[q].status = "active" => run[q].cycle # c)
    BY <1>1 DEF LockInv, Shape, RunRow
  <2>2. run[q].status = "active" => row'[e][run[q].cycle] = row[e][run[q].cycle]
    BY <1>2, <2>1
  <2>3. LockedRow(e, q)' = LockedRow(e, q)
    BY <1>5, <1>7, <2>2 DEF LockedRow
  <2>4. CollectedBy(q, e)' = CollectedBy(q, e)
    BY <1>4, <1>7 DEF CollectedBy, OwnedBy
  <2> QED
    BY <2>3, <2>4 DEF NeverOverCollected, CollectedBy, OwnedBy
<1> QED
  BY <1>6, <1>7

LEMMA DefinalizeCollects ==
  ASSUME AmountInv, LockInv, NeverOverCollected, NEW r \in Runs, DefinalizePayroll(r)
  PROVE  NeverOverCollected'
<1> DEFINE b == [l \in Loans |-> 0]
<1>1. /\ run' = [run EXCEPT ![r].status = "definalized"]
      /\ booked' = [booked EXCEPT ![r] = b]
  BY DEF DefinalizePayroll
<1>2. \A e \in Employees, d \in Cycles :
        row'[e][d] = IF row[e][d].run = r
                     THEN [row[e][d] EXCEPT !.run = NoRun] ELSE row[e][d]
  BY DefinalizeRows
<1>3. booked \in [Runs -> [Loans -> Nat]]
  BY DEF AmountInv, TypeOK, AccountsTypeOK
<1>4. booked'[r] = b /\ \A q \in Runs \ {r} : booked'[q] = booked[q]
  BY <1>1, <1>3
<1>5. run'[r].status = "definalized" /\ \A q \in Runs \ {r} : run'[q] = run[q]
  BY <1>1 DEF LockInv, Shape, RunRow
<1> SUFFICES ASSUME NEW q \in Runs, NEW e \in Employees
             PROVE  CollectedBy(q, e)' <= LockedRow(e, q)'.deduction
  BY DEF NeverOverCollected, CollectedBy, OwnedBy
<1>6. CASE q = r
  <2>1. SumFunctionOnSet(b, OwnedBy(e)) = 0
    <3>1. \A l \in OwnedBy(e) : b[l] = 0
      BY OwnedFinite
    <3> HIDE DEF b
    <3> QED
      BY <3>1, OwnedFinite, SumZero
  <2>2. LockedRow(e, q)' = NoRow
    BY <1>5, <1>6 DEF LockedRow
  <2> HIDE DEF b
  <2> QED
    BY <1>4, <1>6, <2>1, <2>2 DEF CollectedBy, OwnedBy, NoRow
<1>7. CASE q # r
  <2>1. run[q].cycle \in Cycles /\ run'[q] = run[q]
    BY <1>5, <1>7 DEF LockInv, Shape, RunRow
  <2>2. row[e][run[q].cycle].run = q => row'[e][run[q].cycle] = row[e][run[q].cycle]
    BY <1>2, <1>7, <2>1
  <2>3. row[e][run[q].cycle].run # q => row'[e][run[q].cycle].run # q
    <3>1. IsRow(row[e][run[q].cycle])
      BY <2>1, RowRun
    <3> DEFINE new == [row[e][run[q].cycle] EXCEPT !.run = NoRun]
    <3>2. new.run = NoRun
      BY <3>1, RunWritten
    <3>3. row'[e][run[q].cycle] \in {new, row[e][run[q].cycle]}
      BY <1>2, <2>1
    <3> HIDE DEF new
    <3> QED
      BY <3>2, <3>3, PayrollAssumption DEF PayrollAssumption
  <2>4. LockedRow(e, q)' = LockedRow(e, q)
    BY <2>1, <2>2, <2>3 DEF LockedRow
  <2>5. CollectedBy(q, e)' = CollectedBy(q, e)
    BY <1>4, <1>7 DEF CollectedBy, OwnedBy
  <2> QED
    BY <2>4, <2>5 DEF NeverOverCollected, CollectedBy, OwnedBy
<1> QED
  BY <1>6, <1>7

\* A run never collects more from an employee's loans than the payslip it locked
\* deducts, however many loans there are and whatever was done to them meanwhile.
THEOREM CollectsWithinPayslip == Spec => []NeverOverCollected
<1>1. Init => NeverOverCollected
  <2> SUFFICES ASSUME Init, NEW r \in Runs, NEW e \in Employees
               PROVE  CollectedBy(r, e) <= LockedRow(e, r).deduction
    BY DEF NeverOverCollected, CollectedBy, OwnedBy
  <2>1. \A l \in OwnedBy(e) : booked[r][l] = 0
    BY OwnedFinite DEF Init, AccountsInit
  <2>2. CollectedBy(r, e) = 0
    BY <2>1, OwnedFinite, SumZero DEF CollectedBy
  <2> QED
    BY <2>2 DEF Init, LockedRow, NoRow
<1>2. AmountInv /\ LockInv /\ NeverOverCollected /\ [Next]_vars => NeverOverCollected'
  <2> SUFFICES ASSUME AmountInv, LockInv, NeverOverCollected, [Next]_vars
               PROVE  NeverOverCollected'
    OBVIOUS
  <2>1. ASSUME booked' = booked, row' = row, run' = run
        PROVE  NeverOverCollected'
    BY <2>1 DEF NeverOverCollected, LockedRow
  <2>2. ASSUME NEW c \in Cycles, NEW S \in SUBSET Employees, GeneratePayroll(c, S)
        PROVE  NeverOverCollected'
    <3>1. booked' = booked
      BY <2>2 DEF GeneratePayroll, accounts
    <3> QED
      BY <2>2, <3>1, GenerateKeepsLocked DEF NeverOverCollected
  <2>3. CASE Payroll
    BY <2>2, <2>3, FinalizeCollects, DefinalizeCollects DEF Payroll, RecalculatePayroll
  <2>4. CASE Accounts
    BY <2>1, <2>4 DEF Accounts, LoanOperation, ArrearsOperation, CreateLoanAdvance,
         UpdateLoanAdvance, UpdateInstallment, CloseLoanAdvance, DeleteLoanAdvance, Repay, Lend,
         CreditArrears, PayArrears, UpdateArrears
  <2>5. CASE \E e \in Employees : FinalizeSettlement(e)
    BY <2>1, <2>5 DEF FinalizeSettlement
  <2>6. CASE UNCHANGED vars
    BY <2>1, <2>6 DEF vars, accounts
  <2> QED
    BY <2>3, <2>4, <2>5, <2>6 DEF Next
<1> QED
  BY <1>1, <1>2, AmountInvariant, LockInvariant, PTL DEF Spec

-------------------------------------------------------------------------------
(* Sessions: what holds whatever overlaps *)

Undoing(s) == task[s].at \in {"undo", "bookings", "restore"}

\* What is known of an open session: drafts lock nothing, only a run that was
\* once committed is undone, and the rows it locks were all seen before the commit.
SessionLocks(s) ==
  /\ task[s].at = "drafts" =>
       /\ task[s].cycle \in Cycles
       /\ \A e \in DOMAIN task[s].rows : IsRow(task[s].rows[e]) /\ task[s].rows[e].run = NoRun
  /\ task[s].at \in {"finalize", "collect"} => task[s].cycle \in Cycles
  /\ Undoing(s) => task[s].run \in Runs /\ run[task[s].run].status # "absent"
  /\ task[s].at = "restore" =>
       \A e \in Employees, c \in Cycles :
         row[e][c].run = task[s].run => <<e, c>> \in task[s].locked

Tables ==
  /\ DOMAIN row = Employees
  /\ \A e \in Employees : DOMAIN row[e] = Cycles
  /\ \A e \in Employees, c \in Cycles : IsRow(row[e][c])
  /\ run \in [Runs -> RunRow]
  /\ DOMAIN task = Sessions

SessionLockInv ==
  /\ Tables
  /\ \A s \in Sessions : SessionLocks(s)
  /\ LockedRunIsActive

SessionBookInv ==
  /\ DOMAIN run = Runs /\ DOMAIN booked = Runs /\ DOMAIN paidOut = Runs
  /\ UndoneRunBooksNothing

\* The amounts a session has read: what it writes is not negative.
SessionAmounts(s) ==
  /\ task[s].at = "drafts" => \A e \in DOMAIN task[s].rows : task[s].rows[e].deduction \in Nat
  /\ task[s].at = "finalize" => \A e \in Employees : task[s].rows[e].deduction \in Nat
  /\ task[s].at = "collect" =>
       /\ task[s].loan \in [Loans -> LoanRow] /\ task[s].share \in [Loans -> Nat]
       /\ \A l \in Loans : task[s].share[l] <= task[s].loan[l].outstanding
  /\ Undoing(s) => task[s].run \in Runs
  /\ task[s].at \in {"bookings", "restore"} => task[s].share \in [Loans -> Nat]
  /\ task[s].at = "restore" => task[s].loan \in [Loans -> LoanRow]
  /\ task[s].at = "repay" => task[s].loan \in Loans /\ task[s].owed \in Nat

SessionAmountInv ==
  /\ DOMAIN task = Sessions
  /\ DOMAIN row = Employees
  /\ \A e \in Employees : DOMAIN row[e] = Cycles
  /\ \A e \in Employees, c \in Cycles : IsRow(row[e][c]) /\ row[e][c].deduction \in Nat
  /\ LoansTyped /\ booked \in [Runs -> [Loans -> Nat]]
  /\ \A s \in Sessions : SessionAmounts(s)
  /\ RepaidIsClosed

\* What a session has read, while no other request came in between.
Slips(c) == [e \in Employees |-> row[e][c]]
Shares(c) == [l \in Loans |-> Share(l, Deduction(l, c))]

MayFinalize(c) ==
  /\ c \in Cycles /\ ~BranchRequired
  /\ ActiveRuns(c) = {}
  /\ \E e \in Employees : InRun(e, c)
  /\ \A e \in Employees : ~Finalized(e, c)

Current(s) ==
  /\ task[s].at = "drafts" =>
       /\ ~BranchRequired /\ task[s].cycle \in Cycles
       /\ \E S \in SUBSET Employees \ {{}} :
            task[s].rows = [e \in {d \in S : ~Finalized(d, task[s].cycle)} |-> Computed(e)]
  /\ task[s].at \in {"finalize", "collect"} =>
       MayFinalize(task[s].cycle) /\ task[s].rows = Slips(task[s].cycle)
  /\ task[s].at = "collect" =>
       /\ task[s].loan = loan
       /\ task[s].share = Shares(task[s].cycle)
       /\ task[s].arrears =
            [e \in Employees |-> PayOut(arrears[e], row[e][task[s].cycle].arrears)]
  /\ Undoing(s) => task[s].run \in Runs /\ run[task[s].run].status = "active"
  /\ task[s].at \in {"bookings", "restore"} =>
       task[s].share = booked[task[s].run] /\ task[s].paid = paidOut[task[s].run]
  /\ task[s].at = "restore" =>
       /\ task[s].loan = loan
       /\ task[s].arrears = [e \in Employees |-> PayOut(arrears[e], -task[s].paid[e])]
       /\ \A e \in Employees, c \in Cycles :
            <<e, c>> \in task[s].locked <=> row[e][c].run = task[s].run
  /\ task[s].at = "repay" =>
       /\ task[s].loan \in Loans /\ Active(task[s].loan) /\ task[s].amount \in Amounts
       /\ task[s].amount <= loan[task[s].loan].outstanding
       /\ task[s].owed = loan[task[s].loan].outstanding - task[s].amount
  /\ task[s].at \in {"settle", "clear"} =>
       /\ task[s].employee \in Leavers /\ ~settled[task[s].employee]
       /\ ActiveRuns(LastCycle) # {}
  /\ task[s].at = "clear" =>
       /\ task[s].arrears = arrears[task[s].employee]
       /\ task[s].owed = [l \in OwnLoans(task[s].employee) |-> loan[l].outstanding]

\* As long as no two requests overlapped, one session at most is open, what it
\* has read is how the tables are, and the invariants of the handlers hold.
SerialInv ==
  /\ DOMAIN task = Sessions /\ overlap \in BOOLEAN
  /\ ~overlap =>
       /\ LockInv /\ AmountInv
       /\ \A s, t \in Sessions : Open(s) /\ Open(t) => s = t
       /\ \A s \in Sessions : Current(s)

-------------------------------------------------------------------------------
(* Sessions: locked rows *)

LEMMA Went ==
  ASSUME DOMAIN task = Sessions, NEW s \in Sessions, NEW next, Goes(s, next)
  PROVE  /\ DOMAIN task' = Sessions /\ task'[s] = next
         /\ \A t \in Sessions \ {s} : task'[t] = task[t]
BY DEF Goes

LEMMA TableRow ==
  ASSUME Tables, NEW e \in Employees, NEW c \in Cycles
  PROVE  row[e][c].run \in Runs \cup {NoRun}
<1>1. IsRow(row[e][c])
  BY DEF Tables
<1> QED
  BY <1>1 DEF IsRow

\* What is known of a session stays true while others commit: no run is forgotten,
\* and rows are only locked by a run that is new.
LEMMA OtherLocks ==
  ASSUME NEW t \in Sessions, SessionLocks(t), task'[t] = task[t],
         \A r \in Runs : run[r].status # "absent" => run'[r].status # "absent",
         \A e \in Employees, c \in Cycles :
           \/ row'[e][c].run = row[e][c].run
           \/ row'[e][c].run = NoRun
           \/ row'[e][c].run \in Runs /\ run[row'[e][c].run].status = "absent"
  PROVE  SessionLocks(t)'
<1>1. task'[t].at = "drafts" =>
       /\ task'[t].cycle \in Cycles
       /\ \A e \in DOMAIN task'[t].rows : IsRow(task'[t].rows[e]) /\ task'[t].rows[e].run = NoRun
  BY DEF SessionLocks, IsRow
<1>2. task'[t].at \in {"finalize", "collect"} => task'[t].cycle \in Cycles
  BY DEF SessionLocks
<1>3. Undoing(t)' => task'[t].run \in Runs /\ run'[task'[t].run].status # "absent"
  BY DEF SessionLocks, Undoing
<1>4. ASSUME task'[t].at = "restore", NEW e \in Employees, NEW c \in Cycles,
             row'[e][c].run = task'[t].run
      PROVE  <<e, c>> \in task'[t].locked
  <2>1. task[t].run \in Runs /\ run[task[t].run].status # "absent"
    BY <1>4 DEF SessionLocks, Undoing
  <2>2. row[e][c].run = task[t].run
    BY <1>4, <2>1, PayrollAssumption DEF PayrollAssumption
  <2> QED
    BY <1>4, <2>2 DEF SessionLocks
<1> QED
  BY <1>1, <1>2, <1>3, <1>4 DEF SessionLocks, IsRow

\* A step that writes neither rows nor runs.
LEMMA QuietLocks ==
  ASSUME SessionLockInv, NEW s \in Sessions, NEW next, Goes(s, next), row' = row, run' = run,
         SessionLocks(s)'
  PROVE  SessionLockInv'
<1>1. /\ DOMAIN task' = Sessions /\ task'[s] = next
      /\ \A t \in Sessions \ {s} : task'[t] = task[t]
  BY Went DEF SessionLockInv, Tables
<1>2. Tables'
  BY <1>1 DEF SessionLockInv, Tables, IsRow
<1>3. ASSUME NEW t \in Sessions PROVE SessionLocks(t)'
  <2>1. CASE t = s
    BY <2>1
  <2>2. CASE t # s
    BY <1>1, <2>2, OtherLocks DEF SessionLockInv
  <2> QED
    BY <2>1, <2>2
<1>4. LockedRunIsActive'
  BY DEF SessionLockInv, LockedRunIsActive, Finalized
<1> QED
  BY <1>2, <1>3, <1>4 DEF SessionLockInv

\* Steps that only read.
LEMMA ReadingLocks ==
  ASSUME SessionLockInv, NEW s \in Sessions,
         \/ \E c \in Cycles, S \in SUBSET Employees \ {{}} :
              ReadDrafts(s, c, S) \/ ReadDraftsAgain(s, c, S)
         \/ \E c \in Cycles : CheckRun(s, c)
         \/ \E r \in Runs : CheckUndo(s, r)
         \/ \E l \in Loans, amount \in Amounts : LoadLoan(s, l, amount)
         \/ \E e \in Employees : CheckSettlement(s, e)
         \/ LoadAccounts(s) \/ LoadBookings(s) \/ LoadBookedAccounts(s) \/ LoadOwed(s)
         \/ GiveUp(s)
  PROVE  SessionLockInv'
<1>0. DOMAIN task = Sessions /\ SessionLocks(s)
  BY DEF SessionLockInv, Tables
<1>1. ASSUME NEW next, Begin(s, next) \/ Reads(s, next)
      PROVE  Goes(s, next) /\ row' = row /\ run' = run /\ task'[s] = next
  <2>1. Goes(s, next) /\ row' = row /\ run' = run
    BY <1>1 DEF Begin, Reads, vars, accounts
  <2> QED
    BY <1>0, <2>1, Went
<1>2. ASSUME NEW c \in Cycles, NEW S \in SUBSET Employees, ReadDrafts(s, c, S)
      PROVE  SessionLockInv'
  <2> DEFINE T == {e \in S : ~Finalized(e, c)}
             next == [at |-> "drafts", cycle |-> c, rows |-> [e \in T |-> Computed(e)],
                      inserts |-> {e \in T : ~row[e][c].exists}]
  <2>1. Begin(s, next)
    BY <1>2 DEF ReadDrafts
  <2>2. \A e \in T : IsRow(Computed(e)) /\ Computed(e).run = NoRun
    BY DraftRow
  <2>3. /\ next.at = "drafts" /\ next.cycle = c
        /\ \A e \in DOMAIN next.rows : IsRow(next.rows[e]) /\ next.rows[e].run = NoRun
    BY <2>2
  <2> HIDE DEF next
  <2>4. SessionLocks(s)'
    BY <1>1, <2>1, <2>3 DEF SessionLocks, IsRow, Undoing
  <2> QED
    BY <1>1, <2>1, <2>4, QuietLocks
<1>3. ASSUME NEW c \in Cycles, CheckRun(s, c)
      PROVE  SessionLockInv'
  <2> DEFINE next == [at |-> "finalize", cycle |-> c, rows |-> [e \in Employees |-> row[e][c]]]
  <2>1. Begin(s, next) /\ next.at = "finalize" /\ next.cycle = c
    BY <1>3 DEF CheckRun
  <2> HIDE DEF next
  <2>2. SessionLocks(s)'
    BY <1>1, <2>1 DEF SessionLocks, Undoing
  <2> QED
    BY <1>1, <2>1, <2>2, QuietLocks
<1>4. ASSUME NEW r \in Runs, CheckUndo(s, r)
      PROVE  SessionLockInv'
  <2> DEFINE next == [at |-> "undo", run |-> r]
  <2>1. Begin(s, next) /\ next.at = "undo" /\ next.run = r /\ run[r].status = "active"
    BY <1>4 DEF CheckUndo
  <2> HIDE DEF next
  <2>2. SessionLocks(s)'
    BY <1>1, <2>1 DEF SessionLocks, Undoing
  <2> QED
    BY <1>1, <2>1, <2>2, QuietLocks
<1>5. ASSUME NEW next, Begin(s, next) \/ Reads(s, next),
             next.at \in {"idle", "repay", "settle", "clear"}
      PROVE  SessionLockInv'
  <2>1. SessionLocks(s)'
    BY <1>1, <1>5 DEF SessionLocks, Undoing
  <2> QED
    BY <1>1, <1>5, <2>1, QuietLocks
<1>6. ASSUME NEW l \in Loans, NEW amount \in Amounts, LoadLoan(s, l, amount)
      PROVE  SessionLockInv'
  <2> DEFINE next == [at |-> "repay", loan |-> l, owed |-> loan[l].outstanding - amount,
                      amount |-> amount]
  <2>1. Begin(s, next) /\ next.at = "repay"
    BY <1>6 DEF LoadLoan
  <2> HIDE DEF next
  <2> QED
    BY <1>5, <2>1
<1>7. ASSUME NEW e \in Employees, CheckSettlement(s, e)
      PROVE  SessionLockInv'
  <2> DEFINE next == [at |-> "settle", employee |-> e]
  <2>1. Begin(s, next) /\ next.at = "settle"
    BY <1>7 DEF CheckSettlement
  <2> HIDE DEF next
  <2> QED
    BY <1>5, <2>1
<1>8. CASE LoadAccounts(s)
  <2>1. PICK next : /\ Reads(s, next) /\ next.at = "collect" /\ next.cycle = task[s].cycle
                    /\ task[s].at = "finalize"
    BY <1>8 DEF LoadAccounts
  <2>2. SessionLocks(s)'
    BY <1>0, <1>1, <2>1 DEF SessionLocks, Undoing
  <2> QED
    BY <1>1, <2>1, <2>2, QuietLocks
<1>9. CASE LoadBookings(s)
  <2>1. PICK next : /\ Reads(s, next) /\ next.at = "bookings" /\ next.run = task[s].run
                    /\ task[s].at = "undo"
    BY <1>9 DEF LoadBookings
  <2>2. SessionLocks(s)'
    BY <1>0, <1>1, <2>1 DEF SessionLocks, Undoing
  <2> QED
    BY <1>1, <2>1, <2>2, QuietLocks
<1>10. CASE LoadBookedAccounts(s)
  <2>1. PICK next : /\ Reads(s, next) /\ next.at = "restore" /\ next.run = task[s].run
                    /\ next.locked = {p \in Employees \X Cycles : row[p[1]][p[2]].run = task[s].run}
                    /\ task[s].at = "bookings"
    BY <1>10 DEF LoadBookedAccounts
  <2>2. \A e \in Employees, c \in Cycles : row[e][c].run = next.run => <<e, c>> \in next.locked
    BY <2>1
  <2>3. SessionLocks(s)'
    BY <1>0, <1>1, <2>1, <2>2 DEF SessionLocks, Undoing
  <2> QED
    BY <1>1, <2>1, <2>3, QuietLocks
<1>11. CASE LoadOwed(s)
  <2>1. PICK next : Reads(s, next) /\ next.at = "clear"
    BY <1>11 DEF LoadOwed
  <2> QED
    BY <1>5, <2>1
<1>12. CASE GiveUp(s)
  BY <1>5, <1>12 DEF GiveUp, Idle
<1> QED
  BY <1>2, <1>3, <1>4, <1>6, <1>7, <1>8, <1>9, <1>10, <1>11, <1>12 DEF ReadDraftsAgain

\* Drafts are written over whatever is there, a locked row included: it is unlocked.
LEMMA DraftsLocks ==
  ASSUME SessionLockInv, NEW s \in Sessions, WriteDrafts(s)
  PROVE  SessionLockInv'
<1> DEFINE c == task[s].cycle  new == task[s].rows
<1>1. /\ row' = [e \in Employees |->
                   IF e \in DOMAIN new THEN [row[e] EXCEPT ![c] = new[e]] ELSE row[e]]
      /\ run' = run /\ Goes(s, Idle) /\ task[s].at = "drafts"
  BY DEF WriteDrafts, Commits
<1>2. Tables /\ c \in Cycles /\ \A e \in DOMAIN new : IsRow(new[e]) /\ new[e].run = NoRun
  BY <1>1 DEF SessionLockInv, SessionLocks
<1>3. /\ DOMAIN task' = Sessions /\ task'[s] = Idle
      /\ \A t \in Sessions \ {s} : task'[t] = task[t]
  BY <1>1, <1>2, Went DEF Tables
<1> HIDE DEF c, new
<1>4. ASSUME NEW e \in Employees, NEW d \in Cycles
      PROVE  row'[e][d] = IF e \in DOMAIN new /\ d = c THEN new[e] ELSE row[e][d]
  BY <1>1, <1>2 DEF Tables
<1>5. DOMAIN row' = Employees /\ \A e \in Employees : DOMAIN row'[e] = Cycles
  BY <1>1, <1>2 DEF Tables
<1>6. \A e \in Employees, d \in Cycles :
        IsRow(row'[e][d]) /\ (row'[e][d] = row[e][d] \/ row'[e][d].run = NoRun)
  BY <1>2, <1>4 DEF Tables
<1>7. Tables'
  <2>1. run' \in [Runs -> RunRow]
    BY <1>1, <1>2 DEF Tables
  <2> QED
    BY <1>3, <1>5, <1>6, <2>1 DEF Tables
<1>8. SessionLocks(s)'
  BY <1>3 DEF SessionLocks, Idle, Undoing
<1>9. ASSUME NEW t \in Sessions PROVE SessionLocks(t)'
  <2>1. CASE t = s
    BY <1>8, <2>1
  <2>2. CASE t # s
    BY <1>1, <1>3, <1>6, <2>2, OtherLocks DEF SessionLockInv
  <2> QED
    BY <2>1, <2>2
<1>10. LockedRunIsActive'
  BY <1>1, <1>6 DEF SessionLockInv, LockedRunIsActive, Finalized
<1> QED
  BY <1>7, <1>9, <1>10 DEF SessionLockInv

\* A run that is committed locks its rows, whoever locked them before.
LEMMA CommitRunLocks ==
  ASSUME SessionLockInv, NEW s \in Sessions, NEW r \in Runs, CommitRun(s, r)
  PROVE  SessionLockInv'
<1> DEFINE c == task[s].cycle  slip == task[s].rows
<1>1. /\ run[r].status = "absent" /\ task[s].at = "collect" /\ Goes(s, Idle)
      /\ run' = [run EXCEPT ![r] = [status |-> "active", cycle |-> c]]
      /\ row' = [e \in Employees |->
                   IF slip[e].exists THEN [row[e] EXCEPT ![c].run = r] ELSE row[e]]
  BY DEF CommitRun, Commits
<1>2. Tables /\ c \in Cycles
  BY <1>1 DEF SessionLockInv, SessionLocks
<1>3. /\ DOMAIN task' = Sessions /\ task'[s] = Idle
      /\ \A t \in Sessions \ {s} : task'[t] = task[t]
  BY <1>1, <1>2, Went DEF Tables
<1> HIDE DEF c, slip
<1>4. /\ run'[r].status = "active" /\ run'[r].cycle = c /\ run' \in [Runs -> RunRow]
      /\ \A q \in Runs \ {r} : run'[q] = run[q]
  BY <1>1, <1>2 DEF Tables, RunRow
<1>5. DOMAIN row' = Employees /\ \A e \in Employees : DOMAIN row'[e] = Cycles
  BY <1>1, <1>2 DEF Tables
<1>6. ASSUME NEW e \in Employees, NEW d \in Cycles
      PROVE  /\ IsRow(row'[e][d])
             /\ row'[e][d] = row[e][d] \/ (d = c /\ row'[e][d].run = r)
  <2> DEFINE new == [row[e][d] EXCEPT !.run = r]
  <2>1. IsRow(new) /\ new.run = r /\ IsRow(row[e][d])
    BY <1>2, RunWritten DEF Tables
  <2>2. row'[e][d] = IF slip[e].exists /\ d = c THEN new ELSE row[e][d]
    BY <1>1, <1>2 DEF Tables
  <2> HIDE DEF new
  <2> QED
    BY <2>1, <2>2
<1>7. Tables'
  BY <1>3, <1>4, <1>5, <1>6 DEF Tables
<1>8. SessionLocks(s)'
  BY <1>3 DEF SessionLocks, Idle, Undoing
<1>9. ASSUME NEW t \in Sessions PROVE SessionLocks(t)'
  <2>1. CASE t = s
    BY <1>8, <2>1
  <2>2. CASE t # s
    <3>1. \A q \in Runs : run[q].status # "absent" => run'[q].status # "absent"
      BY <1>4
    <3>2. \A e \in Employees, d \in Cycles :
            \/ row'[e][d].run = row[e][d].run
            \/ row'[e][d].run \in Runs /\ run[row'[e][d].run].status = "absent"
      BY <1>1, <1>6
    <3> QED
      BY <1>3, <2>2, <3>1, <3>2, OtherLocks DEF SessionLockInv
  <2> QED
    BY <2>1, <2>2
<1>10. ASSUME NEW e \in Employees, NEW d \in Cycles, row'[e][d].run # NoRun
       PROVE  run'[row'[e][d].run].status = "active" /\ run'[row'[e][d].run].cycle = d
  <2>1. CASE d = c /\ row'[e][d].run = r
    BY <1>4, <2>1
  <2>2. CASE row'[e][d] = row[e][d]
    <3>1. row[e][d].run \in Runs /\ run[row[e][d].run].status = "active" /\ run[row[e][d].run].cycle = d
      BY <1>2, <1>10, <2>2, TableRow DEF SessionLockInv, LockedRunIsActive, Finalized
    <3>2. row[e][d].run # r
      BY <1>1, <3>1
    <3> QED
      BY <1>4, <2>2, <3>1, <3>2
  <2> QED
    BY <1>6, <2>1, <2>2
<1>11. LockedRunIsActive'
  BY <1>10 DEF LockedRunIsActive, Finalized
<1> QED
  BY <1>7, <1>9, <1>11 DEF SessionLockInv

\* An undone run leaves no row locked: all its rows were seen, and no run is new twice.
LEMMA CommitUndoLocks ==
  ASSUME SessionLockInv, NEW s \in Sessions, CommitUndo(s)
  PROVE  SessionLockInv'
<1> DEFINE r == task[s].run  locked == task[s].locked
<1>1. /\ task[s].at = "restore" /\ Goes(s, Idle)
      /\ run' = [run EXCEPT ![r].status = "definalized"]
      /\ row' = [e \in Employees |-> [d \in Cycles |->
                  IF <<e, d>> \in locked THEN [row[e][d] EXCEPT !.run = NoRun] ELSE row[e][d]]]
  BY DEF CommitUndo, Commits, UnlockSeen
<1>2. Tables /\ r \in Runs /\ run[r].status # "absent"
      /\ \A e \in Employees, d \in Cycles : row[e][d].run = r => <<e, d>> \in locked
  BY <1>1 DEF SessionLockInv, SessionLocks, Undoing
<1>3. /\ DOMAIN task' = Sessions /\ task'[s] = Idle
      /\ \A t \in Sessions \ {s} : task'[t] = task[t]
  BY <1>1, <1>2, Went DEF Tables
<1> HIDE DEF r, locked
<1>4. /\ run'[r].status = "definalized" /\ run' \in [Runs -> RunRow]
      /\ \A q \in Runs \ {r} : run'[q] = run[q]
  BY <1>1, <1>2 DEF Tables, RunRow
<1>5. DOMAIN row' = Employees /\ \A e \in Employees : DOMAIN row'[e] = Cycles
  BY <1>1
<1>6. ASSUME NEW e \in Employees, NEW d \in Cycles
      PROVE  /\ IsRow(row'[e][d])
             /\ \/ row'[e][d].run = NoRun
                \/ row'[e][d] = row[e][d] /\ row[e][d].run # r
  <2> DEFINE new == [row[e][d] EXCEPT !.run = NoRun]
  <2>1. IsRow(new) /\ new.run = NoRun /\ IsRow(row[e][d])
    BY <1>2, RunWritten DEF Tables
  <2>2. row'[e][d] = IF <<e, d>> \in locked THEN new ELSE row[e][d]
    BY <1>1
  <2> HIDE DEF new
  <2> QED
    BY <1>2, <2>1, <2>2
<1>7. Tables'
  BY <1>3, <1>4, <1>5, <1>6 DEF Tables
<1>8. SessionLocks(s)'
  BY <1>3 DEF SessionLocks, Idle, Undoing
<1>9. ASSUME NEW t \in Sessions PROVE SessionLocks(t)'
  <2>1. CASE t = s
    BY <1>8, <2>1
  <2>2. CASE t # s
    <3>1. \A q \in Runs : run[q].status # "absent" => run'[q].status # "absent"
      BY <1>4
    <3> QED
      BY <1>3, <1>6, <2>2, <3>1, OtherLocks DEF SessionLockInv
  <2> QED
    BY <2>1, <2>2
<1>10. ASSUME NEW e \in Employees, NEW d \in Cycles, row'[e][d].run # NoRun
       PROVE  run'[row'[e][d].run].status = "active" /\ run'[row'[e][d].run].cycle = d
  <2>1. row'[e][d] = row[e][d] /\ row[e][d].run # r
    BY <1>6, <1>10
  <2>2. row[e][d].run \in Runs /\ run[row[e][d].run].status = "active" /\ run[row[e][d].run].cycle = d
    BY <1>2, <1>10, <2>1, TableRow DEF SessionLockInv, LockedRunIsActive, Finalized
  <2> QED
    BY <1>4, <2>1, <2>2
<1>11. LockedRunIsActive'
  BY <1>10 DEF LockedRunIsActive, Finalized
<1> QED
  BY <1>7, <1>9, <1>11 DEF SessionLockInv

LEMMA SessionLockStep ==
  SessionLockInv /\ [SessionsNext]_<<vars, sessionVars>> => SessionLockInv'
<1> SUFFICES ASSUME SessionLockInv, [SessionsNext]_<<vars, sessionVars>> PROVE SessionLockInv'
  OBVIOUS
<1>1. ASSUME row' = row, run' = run, task' = task PROVE SessionLockInv'
  <2>1. \A s \in Sessions : SessionLocks(s)'
    BY <1>1 DEF SessionLockInv, SessionLocks, Undoing, IsRow
  <2> QED
    BY <1>1, <2>1 DEF SessionLockInv, Tables, IsRow, LockedRunIsActive, Finalized
<1>2. CASE SingleStep
  BY <1>1, <1>2 DEF SingleStep, Accounts
<1>3. CASE UNCHANGED <<vars, sessionVars>>
  BY <1>1, <1>3 DEF vars, sessionVars
<1>4. ASSUME NEW s \in Sessions, CommitRepayment(s) \/ CommitSettlement(s)
      PROVE  SessionLockInv'
  <2>1. Goes(s, Idle) /\ row' = row /\ run' = run
    BY <1>4 DEF CommitRepayment, CommitSettlement, Commits
  <2>2. task'[s] = Idle
    BY <2>1, Went DEF SessionLockInv, Tables
  <2>3. SessionLocks(s)'
    BY <2>2 DEF SessionLocks, Idle, Undoing
  <2> QED
    BY <2>1, <2>3, QuietLocks
<1>5. ASSUME NEW s \in Sessions, SessionStep(s)
      PROVE  SessionLockInv'
  BY <1>4, <1>5, ReadingLocks, DraftsLocks, CommitRunLocks, CommitUndoLocks DEF SessionStep
<1> QED
  BY <1>2, <1>3, <1>5 DEF SessionsNext

LEMMA SessionLocksHold == SessionsSpec => []SessionLockInv
<1>1. SessionsInit => SessionLockInv
  <2> SUFFICES ASSUME SessionsInit PROVE SessionLockInv
    OBVIOUS
  <2>1. LockInv /\ \A e \in Employees, c \in Cycles : row[e][c].run = NoRun
    BY LockInit, NoRowShape DEF SessionsInit, Init
  <2>2. \A s \in Sessions : SessionLocks(s)
    BY DEF SessionsInit, SessionLocks, Idle, Undoing
  <2> QED
    BY <2>1, <2>2 DEF SessionLockInv, LockInv, Shape, Tables, LockedRunIsActive, Finalized, SessionsInit
<1> QED
  BY <1>1, SessionLockStep, PTL DEF SessionsSpec

\* Whatever overlaps, no payslip is left locked by a run that was undone.
THEOREM NoOrphanedLock == SessionsSpec => []LockedRunIsActive
<1>1. SessionLockInv => LockedRunIsActive
  BY DEF SessionLockInv
<1> QED
  BY <1>1, SessionLocksHold, PTL

-------------------------------------------------------------------------------
(* Sessions: ledger rows of undone runs *)

\* No single-step operation writes what runs wrote.
LEMMA AccountsLeaveRuns ==
  ASSUME Accounts
  PROVE  /\ booked' = booked /\ paidOut' = paidOut /\ row' = row /\ run' = run
         /\ settled' = settled
BY DEF Accounts, LoanOperation, ArrearsOperation, CreateLoanAdvance, UpdateLoanAdvance,
       UpdateInstallment, CloseLoanAdvance, DeleteLoanAdvance, Repay, Lend,
       CreditArrears, PayArrears, UpdateArrears

\* All but the commits of payroll, settlements and repayments write only the task.
LEMMA SessionReads ==
  ASSUME NEW s \in Sessions, SessionStep(s)
  PROVE  \/ \E next : Goes(s, next) /\ UNCHANGED vars
         \/ \E r \in Runs : CommitRun(s, r)
         \/ WriteDrafts(s) \/ CommitUndo(s) \/ CommitRepayment(s) \/ CommitSettlement(s)
<1>1. ASSUME NEW next, Begin(s, next) \/ Reads(s, next)
      PROVE  Goes(s, next) /\ UNCHANGED vars
  BY <1>1 DEF Begin, Reads
<1>2. ASSUME \/ \E c \in Cycles, S \in SUBSET Employees \ {{}} :
                  ReadDrafts(s, c, S) \/ ReadDraftsAgain(s, c, S)
             \/ \E c \in Cycles : CheckRun(s, c)
             \/ \E r \in Runs : CheckUndo(s, r)
             \/ \E l \in Loans, amount \in Amounts : LoadLoan(s, l, amount)
             \/ \E e \in Employees : CheckSettlement(s, e)
      PROVE  \E next : Begin(s, next)
  BY <1>2, Zenon DEF ReadDrafts, ReadDraftsAgain, CheckRun, CheckUndo, LoadLoan, CheckSettlement
<1>3. ASSUME \/ LoadAccounts(s) \/ LoadBookings(s) \/ LoadBookedAccounts(s) \/ LoadOwed(s)
             \/ GiveUp(s)
      PROVE  \E next : Reads(s, next)
  BY <1>3, Zenon DEF LoadAccounts, LoadBookings, LoadBookedAccounts, LoadOwed, GiveUp
<1>4. \/ \E next : Begin(s, next) \/ Reads(s, next)
      \/ \E r \in Runs : CommitRun(s, r)
      \/ WriteDrafts(s) \/ CommitUndo(s) \/ CommitRepayment(s) \/ CommitSettlement(s)
  BY <1>2, <1>3, Zenon DEF SessionStep
<1> QED
  BY <1>1, <1>4, Zenon

\* A run that was undone, however often and by whom, has no ledger row left.
THEOREM UndoneIsUnbooked == SessionsSpec => []UndoneRunBooksNothing
<1>1. SessionsInit => SessionBookInv
  BY DEF SessionsInit, Init, AccountsInit, SessionBookInv, UndoneRunBooksNothing
<1>2. SessionBookInv /\ [SessionsNext]_<<vars, sessionVars>> => SessionBookInv'
  <2> SUFFICES ASSUME SessionBookInv, [SessionsNext]_<<vars, sessionVars>> PROVE SessionBookInv'
    OBVIOUS
  <2>1. ASSUME booked' = booked, paidOut' = paidOut, run' = run PROVE SessionBookInv'
    BY <2>1 DEF SessionBookInv, UndoneRunBooksNothing
  <2>2. CASE SingleStep
    BY <2>1, <2>2, AccountsLeaveRuns DEF SingleStep
  <2>3. CASE UNCHANGED vars
    BY <2>1, <2>3 DEF vars, accounts
  <2>4. ASSUME NEW s \in Sessions, WriteDrafts(s) \/ CommitRepayment(s) \/ CommitSettlement(s)
        PROVE  SessionBookInv'
    <3>1. booked' = booked /\ paidOut' = paidOut /\ run' = run
      BY <2>4 DEF WriteDrafts, CommitRepayment, CommitSettlement, accounts
    <3> QED
      BY <2>1, <3>1
  <2>5. ASSUME NEW r, NEW x, NEW y, NEW z, run' = [run EXCEPT ![r] = x],
               booked' = [booked EXCEPT ![r] = y], paidOut' = [paidOut EXCEPT ![r] = z],
               r \in Runs => \/ x.status = "active"
                             \/ /\ \A l \in Loans : y[l] = 0
                                /\ \A e \in Employees : z[e] = 0
        PROVE  SessionBookInv'
    <3>1. DOMAIN run' = Runs /\ DOMAIN booked' = Runs /\ DOMAIN paidOut' = Runs
      BY <2>5 DEF SessionBookInv
    <3>2. ASSUME NEW q \in Runs, q # r
          PROVE  run'[q] = run[q] /\ booked'[q] = booked[q] /\ paidOut'[q] = paidOut[q]
      BY <2>5, <3>2 DEF SessionBookInv
    <3>3. r \in Runs => run'[r] = x /\ booked'[r] = y /\ paidOut'[r] = z
      BY <2>5 DEF SessionBookInv
    <3> QED
      BY <2>5, <3>1, <3>2, <3>3 DEF SessionBookInv, UndoneRunBooksNothing
  <2>6. ASSUME NEW s \in Sessions, NEW r \in Runs, CommitRun(s, r)
        PROVE  SessionBookInv'
    <3> DEFINE x == [status |-> "active", cycle |-> task[s].cycle]
               z == [e \in Employees |-> task[s].rows[e].arrears]
    <3>1. /\ run' = [run EXCEPT ![r] = x] /\ booked' = [booked EXCEPT ![r] = task[s].share]
          /\ paidOut' = [paidOut EXCEPT ![r] = z] /\ x.status = "active"
      BY <2>6 DEF CommitRun
    <3> HIDE DEF x, z
    <3> QED
      BY <2>5, <3>1
  <2>7. ASSUME NEW s \in Sessions, CommitUndo(s)
        PROVE  SessionBookInv'
    <3> DEFINE r == task[s].run
               x == [run[r] EXCEPT !.status = "definalized"]
               y == [l \in Loans |-> 0]
               z == [e \in Employees |-> 0]
    <3>1. /\ run' = [run EXCEPT ![r] = x] /\ booked' = [booked EXCEPT ![r] = y]
          /\ paidOut' = [paidOut EXCEPT ![r] = z]
          /\ \A l \in Loans : y[l] = 0
          /\ \A e \in Employees : z[e] = 0
      BY <2>7 DEF CommitUndo, LedgerRowsLeft
    <3> HIDE DEF r, x, y, z
    <3> QED
      BY <2>5, <3>1
  <2>8. ASSUME NEW s \in Sessions, SessionStep(s)
        PROVE  SessionBookInv'
    BY <2>3, <2>4, <2>6, <2>7, <2>8, SessionReads
  <2> QED
    BY <2>2, <2>3, <2>8 DEF SessionsNext
<1>3. SessionBookInv => UndoneRunBooksNothing
  BY DEF SessionBookInv
<1> QED
  BY <1>1, <1>2, <1>3, PTL DEF SessionsSpec

-------------------------------------------------------------------------------
(* Sessions: no active loan is empty *)

LoanOpen(x) == x \in LoanRow /\ (x.status = "active" => x.outstanding > 0)

LEMMA RepaidIsLoanOpen ==
  LoansTyped /\ RepaidIsClosed <=> DOMAIN loan = Loans /\ loan = [l \in Loans |-> loan[l]]
                                   /\ \A l \in Loans : LoanOpen(loan[l])
BY DEF LoansTyped, RepaidIsClosed, LoanOpen, Active

\* A row that is written with an amount of its own is closed if that is nothing.
LEMMA OweOpen ==
  ASSUME NEW x \in LoanRow, NEW n \in Nat
  PROVE  LoanOpen(Owe(x, n))
<1> DEFINE o == Owe(x, n)
<1>1. o \in LoanRow /\ o.outstanding = n /\ o.status = IF n = 0 THEN "closed" ELSE x.status
  BY DEF Owe, LoanRow
<1> HIDE DEF o
<1>2. LoanOpen(o)
  BY <1>1 DEF LoanOpen
<1> QED
  BY <1>2 DEF o

LEMMA InstalmentOpen ==
  ASSUME NEW x, LoanOpen(x), NEW i \in Nat
  PROVE  LoanOpen([x EXCEPT !.installment = i])
BY DEF LoanOpen, LoanRow

LEMMA LoanOperationOpen ==
  ASSUME LoansTyped, RepaidIsClosed, NEW l \in Loans, LoanOperation(l)
  PROVE  LoansTyped' /\ RepaidIsClosed'
<1> DEFINE x == loan[l]
<1>0. /\ loan \in [Loans -> LoanRow] /\ x \in LoanRow /\ LoanOpen(x)
      /\ x.outstanding \in Nat /\ x.installment \in Nat
      /\ \A a \in Amounts : a \in Nat /\ a > 0
  BY SettlementAssumption
     DEF LoansTyped, RepaidIsClosed, LoanOpen, Active, LoanRow, Amounts, SettlementAssumption
<1>1. ASSUME NEW n, LoanOpen(n), loan' = [loan EXCEPT ![l] = n]
      PROVE  LoansTyped' /\ RepaidIsClosed'
  <2>1. n \in LoanRow /\ loan'[l] = n /\ \A k \in Loans \ {l} : loan'[k] = loan[k]
    BY <1>0, <1>1 DEF LoanOpen
  <2>2. loan' \in [Loans -> LoanRow]
    BY <1>0, <1>1, <2>1
  <2> QED
    BY <1>1, <2>1, <2>2 DEF LoansTyped, RepaidIsClosed, LoanOpen, Active
<1>2. CASE CreateLoanAdvance(l)
  <2>1. PICK p \in Amounts, i \in Amounts :
          loan' = [loan EXCEPT ![l] = [status |-> "active", principal |-> p,
                                       installment |-> i, outstanding |-> p]]
    BY <1>2 DEF CreateLoanAdvance
  <2>2. LoanOpen([status |-> "active", principal |-> p, installment |-> i, outstanding |-> p])
    BY <1>0 DEF LoanOpen, LoanRow
  <2> QED
    BY <1>1, <2>1, <2>2
<1>3. CASE UpdateLoanAdvance(l) \/ UpdateInstallment(l)
  <2>1. PICK i \in Amounts : loan' = [loan EXCEPT ![l].installment = i]
    BY <1>3 DEF UpdateLoanAdvance, UpdateInstallment
  <2>2. loan' = [loan EXCEPT ![l] = [x EXCEPT !.installment = i]]
    BY <1>0, <2>1
  <2> QED
    BY <1>0, <1>1, <2>2, InstalmentOpen
<1>4. CASE CloseLoanAdvance(l)
  <2>1. loan' = [loan EXCEPT ![l] = [x EXCEPT !.status = "closed"]]
    BY <1>0, <1>4 DEF CloseLoanAdvance
  <2>2. LoanOpen([x EXCEPT !.status = "closed"])
    BY <1>0 DEF LoanOpen, LoanRow
  <2> QED
    BY <1>1, <2>1, <2>2
<1>5. CASE DeleteLoanAdvance(l)
  <2>1. loan' = [loan EXCEPT ![l] = NoLoan] /\ LoanOpen(NoLoan)
    BY <1>5 DEF DeleteLoanAdvance, LoanOpen, NoLoan, LoanRow
  <2> QED
    BY <1>1, <2>1
<1>6. ASSUME NEW amount \in Amounts, Repay(l, amount)
      PROVE  LoansTyped' /\ RepaidIsClosed'
  <2>1. PICK i \in Instalments(x) :
          loan' = [loan EXCEPT ![l] = [Owe(@, @.outstanding - amount) EXCEPT !.installment = i]]
    BY <1>6 DEF Repay
  <2>2. i \in Nat
    BY <1>0 DEF Instalments
  <2>3. x.outstanding - amount \in Nat
    BY <1>0, <1>6 DEF Repay
  <2>4. LoanOpen(Owe(x, x.outstanding - amount))
    BY <1>0, <2>3, OweOpen
  <2>5. LoanOpen([Owe(x, x.outstanding - amount) EXCEPT !.installment = i])
    BY <2>2, <2>4, InstalmentOpen
  <2>6. loan' = [loan EXCEPT ![l] = [Owe(x, x.outstanding - amount) EXCEPT !.installment = i]]
    BY <1>0, <2>1
  <2> QED
    BY <1>1, <2>5, <2>6
<1>7. ASSUME NEW amount \in Amounts, Lend(l, amount)
      PROVE  LoansTyped' /\ RepaidIsClosed'
  <2>1. PICK i \in Instalments(x) :
          loan' = [loan EXCEPT ![l].outstanding = @ + amount, ![l].installment = i]
    BY <1>7 DEF Lend
  <2>2. i \in Nat /\ x.outstanding + amount \in Nat /\ x.outstanding + amount > 0
    BY <1>0 DEF Instalments
  <2> DEFINE n == [x EXCEPT !.outstanding = x.outstanding + amount, !.installment = i]
  <2>3. LoanOpen(n)
    BY <1>0, <2>2 DEF LoanOpen, LoanRow
  <2>4. loan' = [loan EXCEPT ![l] = n]
    BY <1>0, <2>1
  <2> HIDE DEF n
  <2> QED
    BY <1>1, <2>3, <2>4
<1> QED
  BY <1>2, <1>3, <1>4, <1>5, <1>6, <1>7 DEF LoanOperation

\* A step that leaves rows, loans and bookings alone.
LEMMA QuietAmounts ==
  ASSUME SessionAmountInv, NEW s \in Sessions, NEW next, Goes(s, next), SessionAmounts(s)',
         row' = row, loan' = loan, booked' = booked
  PROVE  SessionAmountInv'
<1>1. /\ DOMAIN task' = Sessions
      /\ \A t \in Sessions \ {s} : task'[t] = task[t]
  BY Went DEF SessionAmountInv
<1>2. \A t \in Sessions : SessionAmounts(t)'
  BY <1>1 DEF SessionAmountInv, SessionAmounts, Undoing
<1> QED
  BY <1>1, <1>2 DEF SessionAmountInv, IsRow, LoansTyped, RepaidIsClosed, Active

\* What was read of loans and payslips are naturals, and a share is no more than
\* what was outstanding on the loan when it was read.
LEMMA ReadingAmounts ==
  ASSUME SessionAmountInv, NEW s \in Sessions,
         \/ \E c \in Cycles, S \in SUBSET Employees \ {{}} :
              ReadDrafts(s, c, S) \/ ReadDraftsAgain(s, c, S)
         \/ \E c \in Cycles : CheckRun(s, c)
         \/ \E r \in Runs : CheckUndo(s, r)
         \/ \E l \in Loans, amount \in Amounts : LoadLoan(s, l, amount)
         \/ \E e \in Employees : CheckSettlement(s, e)
         \/ LoadAccounts(s) \/ LoadBookings(s) \/ LoadBookedAccounts(s) \/ LoadOwed(s)
         \/ GiveUp(s)
  PROVE  SessionAmountInv'
<1>0. DOMAIN task = Sessions /\ SessionAmounts(s) /\ LoansTyped /\ loan \in [Loans -> LoanRow]
  BY DEF SessionAmountInv, LoansTyped
<1>1. ASSUME NEW next, Begin(s, next) \/ Reads(s, next)
      PROVE  /\ Goes(s, next) /\ row' = row /\ loan' = loan /\ booked' = booked
             /\ task'[s] = next
  <2>1. Goes(s, next) /\ row' = row /\ loan' = loan /\ booked' = booked
    BY <1>1 DEF Begin, Reads, vars, accounts
  <2> QED
    BY <1>0, <2>1, Went
<1>2. ASSUME NEW c \in Cycles, NEW S \in SUBSET Employees, ReadDrafts(s, c, S)
      PROVE  SessionAmountInv'
  <2> DEFINE T == {e \in S : ~Finalized(e, c)}
             next == [at |-> "drafts", cycle |-> c, rows |-> [e \in T |-> Computed(e)],
                      inserts |-> {e \in T : ~row[e][c].exists}]
  <2>1. Begin(s, next)
    BY <1>2 DEF ReadDrafts
  <2>2. \A e \in Employees : Computed(e).deduction \in Nat
    BY <1>0, DueType DEF Computed, OwnLoans
  <2>3. next.at = "drafts" /\ \A e \in DOMAIN next.rows : next.rows[e].deduction \in Nat
    BY <2>2
  <2> HIDE DEF next
  <2>4. SessionAmounts(s)'
    BY <1>1, <2>1, <2>3 DEF SessionAmounts, Undoing
  <2> QED
    BY <1>1, <2>1, <2>4, QuietAmounts
<1>3. ASSUME NEW c \in Cycles, CheckRun(s, c)
      PROVE  SessionAmountInv'
  <2> DEFINE next == [at |-> "finalize", cycle |-> c, rows |-> [e \in Employees |-> row[e][c]]]
  <2>1. Begin(s, next) /\ next.at = "finalize" /\ \A e \in Employees : next.rows[e] = row[e][c]
    BY <1>3 DEF CheckRun
  <2> HIDE DEF next
  <2>2. SessionAmounts(s)'
    BY <1>1, <2>1 DEF SessionAmounts, SessionAmountInv, Undoing
  <2> QED
    BY <1>1, <2>1, <2>2, QuietAmounts
<1>4. ASSUME NEW next, Begin(s, next) \/ Reads(s, next),
             next.at \in {"idle", "settle", "clear"}
      PROVE  SessionAmountInv'
  <2>1. SessionAmounts(s)'
    BY <1>1, <1>4 DEF SessionAmounts, Undoing
  <2> QED
    BY <1>1, <1>4, <2>1, QuietAmounts
<1>5. ASSUME NEW r \in Runs, CheckUndo(s, r)
      PROVE  SessionAmountInv'
  <2> DEFINE next == [at |-> "undo", run |-> r]
  <2>1. Begin(s, next) /\ next.at = "undo" /\ next.run = r
    BY <1>5 DEF CheckUndo
  <2> HIDE DEF next
  <2>2. SessionAmounts(s)'
    BY <1>1, <2>1 DEF SessionAmounts, Undoing
  <2> QED
    BY <1>1, <2>1, <2>2, QuietAmounts
<1>6. ASSUME NEW l \in Loans, NEW amount \in Amounts, LoadLoan(s, l, amount)
      PROVE  SessionAmountInv'
  <2> DEFINE next == [at |-> "repay", loan |-> l, owed |-> loan[l].outstanding - amount,
                      amount |-> amount]
  <2>1. /\ Begin(s, next) /\ next.at = "repay" /\ next.loan = l
        /\ next.owed = loan[l].outstanding - amount /\ amount <= loan[l].outstanding
    BY <1>6 DEF LoadLoan
  <2> HIDE DEF next
  <2>2. next.owed \in Nat
    BY <1>0, <2>1, SettlementAssumption DEF LoanRow, Amounts, SettlementAssumption
  <2>3. SessionAmounts(s)'
    BY <1>1, <2>1, <2>2 DEF SessionAmounts, Undoing
  <2> QED
    BY <1>1, <2>1, <2>3, QuietAmounts
<1>7. ASSUME NEW e \in Employees, CheckSettlement(s, e)
      PROVE  SessionAmountInv'
  <2> DEFINE next == [at |-> "settle", employee |-> e]
  <2>1. Begin(s, next) /\ next.at = "settle"
    BY <1>7 DEF CheckSettlement
  <2> HIDE DEF next
  <2> QED
    BY <1>4, <2>1
<1>8. CASE LoadAccounts(s)
  <2> DEFINE slip == task[s].rows
             share == [l \in Loans |-> Share(l, slip[Owner[l]].deduction)]
  <2>1. PICK next : /\ Reads(s, next) /\ next.at = "collect" /\ next.loan = loan
                    /\ next.share = share /\ task[s].at = "finalize"
    BY <1>8 DEF LoadAccounts
  <2>2. ASSUME NEW l \in Loans PROVE share[l] \in Nat /\ share[l] <= loan[l].outstanding
    <3>1. slip[Owner[l]].deduction \in Nat
      BY <1>0, <2>1, SettlementAssumption DEF SessionAmounts, SettlementAssumption
    <3> QED
      BY <1>0, <3>1, ShareType
  <2>3. share \in [Loans -> Nat]
    BY <2>2
  <2> HIDE DEF share
  <2>4. SessionAmounts(s)'
    BY <1>0, <1>1, <2>1, <2>2, <2>3 DEF SessionAmounts, Undoing
  <2> QED
    BY <1>1, <2>1, <2>4, QuietAmounts
<1>9. CASE LoadBookings(s)
  <2>1. PICK next : /\ Reads(s, next) /\ next.at = "bookings"
                    /\ next.share = booked[task[s].run] /\ next.run = task[s].run
                    /\ task[s].at = "undo"
    BY <1>9 DEF LoadBookings
  <2>2. task[s].run \in Runs /\ booked[task[s].run] \in [Loans -> Nat]
    BY <1>0, <2>1 DEF SessionAmountInv, SessionAmounts, Undoing
  <2>3. SessionAmounts(s)'
    BY <1>1, <2>1, <2>2 DEF SessionAmounts, Undoing
  <2> QED
    BY <1>1, <2>1, <2>3, QuietAmounts
<1>10. CASE LoadBookedAccounts(s)
  <2>1. PICK next : /\ Reads(s, next) /\ next.at = "restore" /\ next.share = task[s].share
                    /\ next.loan = loan /\ next.run = task[s].run /\ task[s].at = "bookings"
    BY <1>10 DEF LoadBookedAccounts
  <2>2. SessionAmounts(s)'
    BY <1>0, <1>1, <2>1 DEF SessionAmounts, Undoing
  <2> QED
    BY <1>1, <2>1, <2>2, QuietAmounts
<1>11. CASE LoadOwed(s)
  <2>1. PICK next : Reads(s, next) /\ next.at = "clear"
    BY <1>11 DEF LoadOwed
  <2> QED
    BY <1>4, <2>1
<1>12. CASE GiveUp(s)
  BY <1>4, <1>12 DEF GiveUp, Idle
<1> QED
  BY <1>2, <1>3, <1>5, <1>6, <1>7, <1>8, <1>9, <1>10, <1>11, <1>12 DEF ReadDraftsAgain

\* Loan rows after a step that writes each of them as it was or open.
LEMMA LoansWritten ==
  ASSUME LoansTyped, RepaidIsClosed, loan' = [l \in Loans |-> loan'[l]],
         \A l \in Loans : loan'[l] = loan[l] \/ LoanOpen(loan'[l])
  PROVE  LoansTyped' /\ RepaidIsClosed'
<1>1. \A l \in Loans : LoanOpen(loan[l])
  BY RepaidIsLoanOpen
<1>2. \A l \in Loans : LoanOpen(loan'[l])
  BY <1>1
<1>3. loan' \in [Loans -> LoanRow]
  BY <1>2 DEF LoanOpen
<1> QED
  BY <1>2, <1>3 DEF LoansTyped, RepaidIsClosed, LoanOpen, Active

\* A commit: the session is over, and what it wrote is as the invariant wants it.
LEMMA CommitAmounts ==
  ASSUME SessionAmountInv, NEW s \in Sessions, Goes(s, Idle),
         DOMAIN row' = Employees, \A e \in Employees : DOMAIN row'[e] = Cycles,
         \A e \in Employees, c \in Cycles : IsRow(row'[e][c]) /\ row'[e][c].deduction \in Nat,
         booked' \in [Runs -> [Loans -> Nat]],
         loan' = [l \in Loans |-> loan'[l]],
         \A l \in Loans : loan'[l] = loan[l] \/ LoanOpen(loan'[l])
  PROVE  SessionAmountInv'
<1>1. /\ DOMAIN task' = Sessions /\ task'[s] = Idle
      /\ \A t \in Sessions \ {s} : task'[t] = task[t]
  BY Went DEF SessionAmountInv
<1>2. SessionAmounts(s)'
  BY <1>1 DEF SessionAmounts, Undoing, Idle
<1>3. \A t \in Sessions \ {s} : SessionAmounts(t)'
  BY <1>1 DEF SessionAmountInv, SessionAmounts, Undoing
<1>4. LoansTyped' /\ RepaidIsClosed'
  BY LoansWritten DEF SessionAmountInv
<1> QED
  BY <1>1, <1>2, <1>3, <1>4 DEF SessionAmountInv

LEMMA RowsUnchanged ==
  ASSUME SessionAmountInv, row' = row
  PROVE  /\ DOMAIN row' = Employees /\ \A e \in Employees : DOMAIN row'[e] = Cycles
         /\ \A e \in Employees, c \in Cycles : IsRow(row'[e][c]) /\ row'[e][c].deduction \in Nat
BY DEF SessionAmountInv, IsRow

LEMMA LoansUnchanged ==
  ASSUME SessionAmountInv, loan' = loan
  PROVE  /\ loan' = [l \in Loans |-> loan'[l]]
         /\ \A l \in Loans : loan'[l] = loan[l] \/ LoanOpen(loan'[l])
BY DEF SessionAmountInv, LoansTyped

LEMMA SessionAmountStep ==
  SessionAmountInv /\ SessionLockInv /\ [SessionsNext]_<<vars, sessionVars>> => SessionAmountInv'
<1> SUFFICES ASSUME SessionAmountInv, SessionLockInv, [SessionsNext]_<<vars, sessionVars>>
             PROVE  SessionAmountInv'
  OBVIOUS
<1>0. LoansTyped /\ loan \in [Loans -> LoanRow] /\ booked \in [Runs -> [Loans -> Nat]]
  BY DEF SessionAmountInv, LoansTyped
<1>1. CASE UNCHANGED <<vars, sessionVars>>
  <2>1. loan' = loan /\ row' = row /\ booked' = booked /\ task' = task
    BY <1>1 DEF vars, accounts, sessionVars
  <2>2. \A s \in Sessions : SessionAmounts(s)'
    BY <2>1 DEF SessionAmountInv, SessionAmounts, Undoing
  <2> QED
    BY <2>1, <2>2 DEF SessionAmountInv, IsRow, LoansTyped, RepaidIsClosed, Active
<1>2. CASE SingleStep
  <2>1. row' = row /\ booked' = booked /\ task' = task
    BY <1>2, AccountsLeaveRuns DEF SingleStep
  <2>2. LoansTyped' /\ RepaidIsClosed'
    <3>1. ASSUME NEW l \in Loans, LoanOperation(l) PROVE LoansTyped' /\ RepaidIsClosed'
      BY <3>1, LoanOperationOpen DEF SessionAmountInv
    <3>2. ASSUME NEW e \in Employees, ArrearsOperation(e) PROVE LoansTyped' /\ RepaidIsClosed'
      <4>1. loan' = loan
        BY <3>2 DEF ArrearsOperation, CreditArrears, PayArrears, UpdateArrears
      <4> QED
        BY <4>1 DEF SessionAmountInv, LoansTyped, RepaidIsClosed, Active
    <3> QED
      BY <1>2, <3>1, <3>2 DEF SingleStep, Accounts
  <2>3. \A s \in Sessions : SessionAmounts(s)'
    BY <2>1 DEF SessionAmountInv, SessionAmounts, Undoing
  <2> QED
    BY <2>1, <2>2, <2>3 DEF SessionAmountInv, IsRow
<1>3. ASSUME NEW s \in Sessions, WriteDrafts(s)
      PROVE  SessionAmountInv'
  <2> DEFINE c == task[s].cycle  new == task[s].rows
  <2>1. /\ row' = [e \in Employees |->
                     IF e \in DOMAIN new THEN [row[e] EXCEPT ![c] = new[e]] ELSE row[e]]
        /\ loan' = loan /\ booked' = booked /\ Goes(s, Idle) /\ task[s].at = "drafts"
    BY <1>3 DEF WriteDrafts, Commits, accounts
  <2>2. /\ c \in Cycles
        /\ \A e \in DOMAIN new : IsRow(new[e]) /\ new[e].deduction \in Nat
    BY <2>1 DEF SessionLockInv, SessionLocks, SessionAmountInv, SessionAmounts
  <2> HIDE DEF c, new
  <2>3. DOMAIN row' = Employees /\ \A e \in Employees : DOMAIN row'[e] = Cycles
    BY <2>1 DEF SessionAmountInv
  <2>4. ASSUME NEW e \in Employees, NEW d \in Cycles
        PROVE  IsRow(row'[e][d]) /\ row'[e][d].deduction \in Nat
    <3>1. row'[e][d] = IF e \in DOMAIN new /\ d = c THEN new[e] ELSE row[e][d]
      BY <2>1, <2>2 DEF SessionAmountInv
    <3> QED
      BY <2>2, <3>1 DEF SessionAmountInv
  <2> QED
    BY <1>0, <2>1, <2>3, <2>4, LoansUnchanged, CommitAmounts
<1>4. ASSUME NEW s \in Sessions, NEW r \in Runs, CommitRun(s, r)
      PROVE  SessionAmountInv'
  <2> DEFINE c == task[s].cycle  slip == task[s].rows  share == task[s].share
             seen == task[s].loan
  <2>1. /\ row' = [e \in Employees |->
                     IF slip[e].exists THEN [row[e] EXCEPT ![c].run = r] ELSE row[e]]
        /\ loan' = [l \in Loans |->
                      IF share[l] > 0 THEN Owe(loan[l], seen[l].outstanding - share[l]) ELSE loan[l]]
        /\ booked' = [booked EXCEPT ![r] = share]
        /\ Goes(s, Idle) /\ task[s].at = "collect"
    BY <1>4 DEF CommitRun, Commits
  <2>2. /\ c \in Cycles /\ seen \in [Loans -> LoanRow] /\ share \in [Loans -> Nat]
        /\ \A l \in Loans : share[l] <= seen[l].outstanding
    BY <2>1 DEF SessionLockInv, SessionLocks, SessionAmountInv, SessionAmounts
  <2> HIDE DEF c, slip, share, seen
  <2>3. DOMAIN row' = Employees /\ \A e \in Employees : DOMAIN row'[e] = Cycles
    BY <2>1 DEF SessionAmountInv
  <2>4. ASSUME NEW e \in Employees, NEW d \in Cycles
        PROVE  IsRow(row'[e][d]) /\ row'[e][d].deduction \in Nat
    <3> DEFINE new == [row[e][d] EXCEPT !.run = r]
    <3>1. IsRow(row[e][d]) /\ row[e][d].deduction \in Nat
      BY DEF SessionAmountInv
    <3>2. IsRow(new) /\ new.deduction = row[e][d].deduction
      BY <3>1, RunWritten
    <3>3. row'[e][d] \in {new, row[e][d]}
      BY <2>1, <2>2 DEF SessionAmountInv
    <3> HIDE DEF new
    <3> QED
      BY <3>1, <3>2, <3>3
  <2>5. ASSUME NEW l \in Loans, loan'[l] # loan[l] PROVE LoanOpen(loan'[l])
    <3>1. loan'[l] = Owe(loan[l], seen[l].outstanding - share[l])
      BY <2>1, <2>5
    <3>2. seen[l].outstanding - share[l] \in Nat
      BY <2>2 DEF LoanRow
    <3> QED
      BY <1>0, <3>1, <3>2, OweOpen
  <2>6. loan' = [l \in Loans |-> loan'[l]]
    BY <2>1
  <2>7. booked' \in [Runs -> [Loans -> Nat]]
    BY <1>0, <2>1, <2>2
  <2> QED
    BY <2>1, <2>3, <2>4, <2>5, <2>6, <2>7, CommitAmounts
<1>5. ASSUME NEW s \in Sessions, CommitUndo(s)
      PROVE  SessionAmountInv'
  <2> DEFINE r == task[s].run  share == task[s].share  seen == task[s].loan
             locked == task[s].locked
  <2>1. /\ row' = [e \in Employees |-> [d \in Cycles |->
                    IF <<e, d>> \in locked THEN [row[e][d] EXCEPT !.run = NoRun] ELSE row[e][d]]]
        /\ loan' = [l \in Loans |->
                      IF share[l] > 0 THEN Restore(l, seen[l], share[l]) ELSE loan[l]]
        /\ booked' = [booked EXCEPT ![r] = [l \in Loans |-> 0]]
        /\ Goes(s, Idle) /\ task[s].at = "restore"
    BY <1>5 DEF CommitUndo, Commits, UnlockSeen, LedgerRowsLeft
  <2>2. r \in Runs /\ seen \in [Loans -> LoanRow] /\ share \in [Loans -> Nat]
    BY <2>1 DEF SessionAmountInv, SessionAmounts, Undoing
  <2> HIDE DEF r, share, seen, locked
  <2>3. DOMAIN row' = Employees /\ \A e \in Employees : DOMAIN row'[e] = Cycles
    BY <2>1
  <2>4. ASSUME NEW e \in Employees, NEW d \in Cycles
        PROVE  IsRow(row'[e][d]) /\ row'[e][d].deduction \in Nat
    <3> DEFINE new == [row[e][d] EXCEPT !.run = NoRun]
    <3>1. IsRow(row[e][d]) /\ row[e][d].deduction \in Nat
      BY DEF SessionAmountInv
    <3>2. IsRow(new) /\ new.deduction = row[e][d].deduction
      BY <3>1, RunWritten
    <3>3. row'[e][d] \in {new, row[e][d]}
      BY <2>1
    <3> HIDE DEF new
    <3> QED
      BY <3>1, <3>2, <3>3
  <2>5. ASSUME NEW l \in Loans, loan'[l] # loan[l] PROVE LoanOpen(loan'[l])
    <3> DEFINE n == seen[l].outstanding + share[l]
               status == IF seen[l].status # "active" THEN "active" ELSE loan[l].status
               new == [loan[l] EXCEPT !.outstanding = n, !.status = status]
    <3>1. loan'[l] = new
      BY <2>1, <2>5 DEF Restore
    <3>2. n \in Nat /\ n > 0
      BY <2>1, <2>2, <2>5 DEF LoanRow
    <3>3. loan[l] \in LoanRow /\ status \in {"absent", "active", "closed"}
      BY <1>0 DEF LoanRow
    <3> HIDE DEF n, status
    <3>4. LoanOpen(new)
      BY <3>2, <3>3 DEF LoanOpen, LoanRow
    <3> QED
      BY <3>1, <3>4
  <2>6. loan' = [l \in Loans |-> loan'[l]]
    BY <2>1
  <2>7. booked' \in [Runs -> [Loans -> Nat]]
    BY <1>0, <2>1, <2>2
  <2> QED
    BY <2>1, <2>3, <2>4, <2>5, <2>6, <2>7, CommitAmounts
<1>6. ASSUME NEW s \in Sessions, CommitRepayment(s)
      PROVE  SessionAmountInv'
  <2> DEFINE k == task[s].loan  owed == task[s].owed
  <2>1. /\ loan' = [loan EXCEPT ![k] = Owe(loan[k], owed)]
        /\ row' = row /\ booked' = booked /\ Goes(s, Idle) /\ task[s].at = "repay"
    BY <1>6 DEF CommitRepayment, Commits, WriteOwed
  <2>2. k \in Loans /\ owed \in Nat
    BY <2>1 DEF SessionAmountInv, SessionAmounts
  <2> HIDE DEF k, owed
  <2>3. loan' = [l \in Loans |-> loan'[l]] /\ \A l \in Loans : l # k => loan'[l] = loan[l]
    BY <1>0, <2>1
  <2>4. LoanOpen(loan'[k])
    BY <1>0, <2>1, <2>2, OweOpen
  <2> QED
    BY <1>0, <2>1, <2>3, <2>4, RowsUnchanged, CommitAmounts
<1>7. ASSUME NEW s \in Sessions, CommitSettlement(s)
      PROVE  SessionAmountInv'
  <2> DEFINE cleared == {l \in DOMAIN task[s].owed : task[s].owed[l] > 0}
  <2>1. /\ loan' = [l \in Loans |-> IF l \in cleared THEN Owe(loan[l], 0) ELSE loan[l]]
        /\ row' = row /\ booked' = booked /\ Goes(s, Idle)
    BY <1>7 DEF CommitSettlement, Commits
  <2> HIDE DEF cleared
  <2>2. loan' = [l \in Loans |-> loan'[l]]
    BY <2>1
  <2>3. ASSUME NEW l \in Loans, loan'[l] # loan[l] PROVE LoanOpen(loan'[l])
    BY <1>0, <2>1, <2>3, OweOpen
  <2> QED
    BY <1>0, <2>1, <2>2, <2>3, RowsUnchanged, CommitAmounts
<1>8. ASSUME NEW s \in Sessions, SessionStep(s)
      PROVE  SessionAmountInv'
  BY <1>3, <1>4, <1>5, <1>6, <1>7, <1>8, ReadingAmounts DEF SessionStep
<1> QED
  BY <1>1, <1>2, <1>8 DEF SessionsNext

\* Whatever overlaps, a loan that is still active has something outstanding: what
\* brings it to nothing closes it, and what reopens it puts an amount on it.
THEOREM EmptyLoansAreClosed == SessionsSpec => []RepaidIsClosed
<1>1. SessionsInit => SessionAmountInv
  <2> SUFFICES ASSUME SessionsInit PROVE SessionAmountInv
    OBVIOUS
  <2>1. AmountInv /\ LockInv
    BY AmountInit, LockInit DEF SessionsInit
  <2>2. \A s \in Sessions : SessionAmounts(s)
    BY DEF SessionsInit, SessionAmounts, Idle, Undoing
  <2>3. \A e \in Employees, c \in Cycles : row[e][c].deduction \in Nat
    BY <2>1 DEF AmountInv, TypeOK, ComputedRow
  <2>4. RepaidIsClosed /\ LoansTyped /\ booked \in [Runs -> [Loans -> Nat]]
    BY <2>1 DEF AmountInv, LoanFits, RepaidIsClosed, TypeOK, AccountsTypeOK, LoansTyped
  <2> QED
    BY <2>1, <2>2, <2>3, <2>4 DEF SessionAmountInv, LockInv, Shape, SessionsInit
<1>2. SessionAmountInv => RepaidIsClosed
  BY DEF SessionAmountInv
<1> QED
  BY <1>1, <1>2, SessionLocksHold, SessionAmountStep, PTL DEF SessionsSpec

-------------------------------------------------------------------------------
(* Sessions: one at a time *)

\* Handlers is PayrollRun itself, over the same constants and variables: unfolded
\* to the end, its actions are the actions of PayrollRun.
LEMMA SameCreate ==
  ASSUME NEW l
  PROVE  Handlers!CreateLoanAdvance(l) <=> CreateLoanAdvance(l)
BY DEF CreateLoanAdvance, Handlers!CreateLoanAdvance, Stored, Handlers!Stored,
       Amounts, Handlers!Amounts

LEMMA SameUpdate ==
  ASSUME NEW l
  PROVE  Handlers!UpdateLoanAdvance(l) <=> UpdateLoanAdvance(l)
BY DEF UpdateLoanAdvance, Handlers!UpdateLoanAdvance, Active, Handlers!Active,
       Amounts, Handlers!Amounts

LEMMA SameInstallment ==
  ASSUME NEW l
  PROVE  Handlers!UpdateInstallment(l) <=> UpdateInstallment(l)
BY DEF UpdateInstallment, Handlers!UpdateInstallment, Active, Handlers!Active,
       Amounts, Handlers!Amounts

LEMMA SameClose ==
  ASSUME NEW l
  PROVE  Handlers!CloseLoanAdvance(l) <=> CloseLoanAdvance(l)
BY DEF CloseLoanAdvance, Handlers!CloseLoanAdvance, Active, Handlers!Active

LEMMA SameDelete ==
  ASSUME NEW l
  PROVE  Handlers!DeleteLoanAdvance(l) <=> DeleteLoanAdvance(l)
BY DEF DeleteLoanAdvance, Handlers!DeleteLoanAdvance, Stored, Handlers!Stored,
       HasTransactions, Handlers!HasTransactions, NoLoan, Handlers!NoLoan

LEMMA SameRepay ==
  ASSUME NEW l, NEW amount
  PROVE  Handlers!Repay(l, amount) <=> Repay(l, amount)
BY DEF Repay, Handlers!Repay, Active, Handlers!Active, Instalments,
       Handlers!Instalments, Amounts, Handlers!Amounts, Owe, Handlers!Owe

LEMMA SameLend ==
  ASSUME NEW l, NEW amount
  PROVE  Handlers!Lend(l, amount) <=> Lend(l, amount)
BY DEF Lend, Handlers!Lend, Active, Handlers!Active, Instalments,
       Handlers!Instalments, Amounts, Handlers!Amounts

LEMMA SameCredit ==
  ASSUME NEW e, NEW amount
  PROVE  Handlers!CreditArrears(e, amount) <=> CreditArrears(e, amount)
BY DEF CreditArrears, Handlers!CreditArrears

LEMMA SamePay ==
  ASSUME NEW e, NEW amount
  PROVE  Handlers!PayArrears(e, amount) <=> PayArrears(e, amount)
BY DEF PayArrears, Handlers!PayArrears, PayOut, Handlers!PayOut

LEMMA SameRevise ==
  ASSUME NEW e, NEW amount
  PROVE  Handlers!UpdateArrears(e, amount) <=> UpdateArrears(e, amount)
BY DEF UpdateArrears, Handlers!UpdateArrears, NoArrears, Handlers!NoArrears, Revise,
       Handlers!Revise, Max, Handlers!Max

LEMMA SameGenerate ==
  ASSUME NEW c, NEW S
  PROVE  Handlers!GeneratePayroll(c, S) <=> GeneratePayroll(c, S)
BY DEF GeneratePayroll, Handlers!GeneratePayroll, Finalized, Handlers!Finalized,
       Computed, Handlers!Computed, Due, Handlers!Due, OwnLoans, Handlers!OwnLoans,
       Instalment, Handlers!Instalment, Active, Handlers!Active, accounts,
       Handlers!accounts, Min, Handlers!Min, SumFunction, Handlers!SumFunction,
       SumFunctionOnSet, Handlers!SumFunctionOnSet, FoldFunctionOnSet,
       Handlers!FoldFunctionOnSet, MapThenFoldSet, Handlers!MapThenFoldSet

LEMMA SameFinalize ==
  ASSUME NEW c, NEW r
  PROVE  Handlers!FinalizePayroll(c, r) <=> FinalizePayroll(c, r)
BY DEF FinalizePayroll, Handlers!FinalizePayroll, ActiveRuns, Handlers!ActiveRuns,
       InRun, Handlers!InRun, Finalized, Handlers!Finalized, ArrearsSuffice,
       Handlers!ArrearsSuffice, ArrearsDue, Handlers!ArrearsDue, Share,
       Handlers!Share, Collects, Handlers!Collects, Left, Handlers!Left, Deduction,
       Handlers!Deduction, Due, Handlers!Due, OwnLoans, Handlers!OwnLoans,
       Instalment, Handlers!Instalment, Active, Handlers!Active, Owe, Handlers!Owe,
       PayOut, Handlers!PayOut, Min, Handlers!Min, SumFunction,
       Handlers!SumFunction, SumFunctionOnSet, Handlers!SumFunctionOnSet,
       FoldFunctionOnSet, Handlers!FoldFunctionOnSet, MapThenFoldSet,
       Handlers!MapThenFoldSet

LEMMA SameDefinalize ==
  ASSUME NEW r
  PROVE  Handlers!DefinalizePayroll(r) <=> DefinalizePayroll(r)
BY DEF DefinalizePayroll, Handlers!DefinalizePayroll, Unlocked, Handlers!Unlocked,
       Reopen, Handlers!Reopen, PayOut, Handlers!PayOut

LEMMA SameSettlement ==
  ASSUME NEW e
  PROVE  Handlers!FinalizeSettlement(e) <=> FinalizeSettlement(e)
BY DEF FinalizeSettlement, Handlers!FinalizeSettlement, ActiveRuns,
       Handlers!ActiveRuns, OwnLoans, Handlers!OwnLoans, Active, Handlers!Active,
       Owe, Handlers!Owe, PayOut, Handlers!PayOut

LEMMA NextIsHandlers == Next => Handlers!Next
<1>1. Accounts => Handlers!Accounts
  <2>1. \A l : LoanOperation(l) => Handlers!LoanOperation(l)
    BY SameCreate, SameUpdate, SameInstallment, SameClose, SameDelete, SameRepay, SameLend
       DEF LoanOperation, Handlers!LoanOperation, Amounts, Handlers!Amounts
  <2>2. \A e : ArrearsOperation(e) => Handlers!ArrearsOperation(e)
    BY SameCredit, SamePay, SameRevise
       DEF ArrearsOperation, Handlers!ArrearsOperation, ArrearsAmounts, Handlers!ArrearsAmounts
  <2> QED
    BY <2>1, <2>2 DEF Accounts, Handlers!Accounts
<1>2. \A c, S : RecalculatePayroll(c, S) => Handlers!RecalculatePayroll(c, S)
  BY SameGenerate DEF RecalculatePayroll, Handlers!RecalculatePayroll, Finalized, Handlers!Finalized
<1>3. Payroll => Handlers!Payroll
  BY <1>2, SameGenerate, SameFinalize, SameDefinalize DEF Payroll, Handlers!Payroll
<1> QED
  BY <1>1, <1>3, SameSettlement DEF Next, Handlers!Next

\* The commits: with current reads each is the handler that runs alone.
LEMMA DraftsSerial ==
  ASSUME NEW s \in Sessions, Current(s), WriteDrafts(s)
  PROVE  Next
<1> DEFINE c == task[s].cycle
<1>1. /\ task[s].at = "drafts"
      /\ row' = [e \in Employees |-> IF e \in DOMAIN task[s].rows
                                     THEN [row[e] EXCEPT ![c] = task[s].rows[e]] ELSE row[e]]
      /\ UNCHANGED <<accounts, run, paidOut, settled>>
  BY DEF WriteDrafts
<1>2. PICK S \in SUBSET Employees \ {{}} :
        task[s].rows = [e \in {d \in S : ~Finalized(d, c)} |-> Computed(e)]
  BY <1>1 DEF Current
<1>3. ~BranchRequired /\ c \in Cycles
  BY <1>1 DEF Current
<1> HIDE DEF c
<1>4. row' = [e \in Employees |->
                IF e \in S /\ ~Finalized(e, c)
                THEN [row[e] EXCEPT ![c] = Computed(e)] ELSE row[e]]
  BY <1>1, <1>2
<1>5. GeneratePayroll(c, S)
  BY <1>1, <1>3, <1>4 DEF GeneratePayroll
<1> QED
  BY <1>3, <1>5 DEF Next, Payroll

LEMMA PayNothing ==
  ASSUME NEW x \in ArrearsRow
  PROVE  PayOut(x, 0) = x /\ PayOut(x, -0) = x
<1>1. x.paid \in Nat /\ x.outstanding \in Nat
  BY DEF ArrearsRow
<1>2. /\ x.paid + 0 = x.paid /\ x.paid + (-0) = x.paid
      /\ x.outstanding - 0 = x.outstanding /\ x.outstanding - (-0) = x.outstanding
  BY <1>1
<1>3. [x EXCEPT !.paid = x.paid, !.outstanding = x.outstanding] = x
  BY DEF ArrearsRow
<1> QED
  BY <1>2, <1>3 DEF PayOut

LEMMA CreatedKept ==
  ASSUME NEW x \in ArrearsRow, NEW n
  PROVE  [PayOut(x, n) EXCEPT !.created = x.created] = PayOut(x, n)
BY DEF ArrearsRow, PayOut

LEMMA RunSerial ==
  ASSUME AmountInv, NEW s \in Sessions, Current(s), NEW r \in Runs, CommitRun(s, r)
  PROVE  Next
<1> DEFINE c == task[s].cycle
           slip == task[s].rows
           paid == {e \in Employees : slip[e].arrears > 0}
<1>0. /\ task[s].at = "collect" /\ run[r].status = "absent"
      /\ \A e \in paid : task[s].arrears[e].outstanding >= 0
      /\ run' = [run EXCEPT ![r] = [status |-> "active", cycle |-> c]]
      /\ row' = [e \in Employees |->
                   IF slip[e].exists THEN [row[e] EXCEPT ![c].run = r] ELSE row[e]]
      /\ loan' = [l \in Loans |->
                    IF task[s].share[l] > 0
                    THEN Owe(loan[l], task[s].loan[l].outstanding - task[s].share[l])
                    ELSE loan[l]]
      /\ booked' = [booked EXCEPT ![r] = task[s].share]
      /\ arrears' = [e \in Employees |->
                       IF e \in paid
                       THEN [task[s].arrears[e] EXCEPT !.created = arrears[e].created]
                       ELSE arrears[e]]
      /\ paidOut' = [paidOut EXCEPT ![r] = [e \in Employees |-> slip[e].arrears]]
      /\ entries' = entries /\ settled' = settled
  BY DEF CommitRun
<1>1. /\ MayFinalize(c) /\ slip = Slips(c) /\ task[s].loan = loan
      /\ task[s].share = Shares(c)
      /\ task[s].arrears = [e \in Employees |-> PayOut(arrears[e], row[e][c].arrears)]
  BY <1>0 DEF Current
<1> HIDE DEF c, slip
<1>2. \A e \in Employees : /\ slip[e] = row[e][c] /\ arrears[e] \in ArrearsRow
                           /\ row[e][c].arrears \in Nat
  BY <1>1 DEF Slips, MayFinalize, AmountInv, TypeOK, AccountsTypeOK, ComputedRow
<1>3. \A l \in Loans : task[s].share[l] = Share(l, Deduction(l, c))
  BY <1>1 DEF Shares
<1>4. ArrearsSuffice(c)
  <2> SUFFICES ASSUME NEW e \in Employees PROVE row[e][c].arrears <= arrears[e].outstanding
    BY DEF ArrearsSuffice, ArrearsDue
  <2>1. arrears[e].outstanding \in Nat /\ row[e][c].arrears \in Nat
    BY <1>2 DEF ArrearsRow
  <2>2. CASE row[e][c].arrears > 0
    <3>1. task[s].arrears[e] = PayOut(arrears[e], row[e][c].arrears) /\ e \in paid
      BY <1>1, <1>2, <2>2
    <3>2. PayOut(arrears[e], row[e][c].arrears).outstanding
            = arrears[e].outstanding - row[e][c].arrears
      BY <1>2 DEF PayOut, ArrearsRow
    <3>3. arrears[e].outstanding - row[e][c].arrears >= 0
      BY <1>0, <3>1, <3>2
    <3> QED
      BY <2>1, <3>3
  <2> QED
    BY <2>1, <2>2
<1>5. row' = [e \in Employees |->
                IF InRun(e, c) THEN [row[e] EXCEPT ![c].run = r] ELSE row[e]]
  BY <1>0, <1>2 DEF InRun
<1>6. loan' = [l \in Loans |->
                 IF Share(l, Deduction(l, c)) > 0
                 THEN Owe(loan[l], loan[l].outstanding - Share(l, Deduction(l, c)))
                 ELSE loan[l]]
  BY <1>0, <1>1, <1>3
<1>7. booked' = [booked EXCEPT ![r] = [l \in Loans |-> Share(l, Deduction(l, c))]]
  BY <1>0, <1>1 DEF Shares
<1>8. arrears' = [e \in Employees |-> PayOut(arrears[e], ArrearsDue(e, c))]
  <2>1. ASSUME NEW e \in Employees
        PROVE  (IF e \in paid THEN [task[s].arrears[e] EXCEPT !.created = arrears[e].created]
                ELSE arrears[e]) = PayOut(arrears[e], row[e][c].arrears)
    <3>1. CASE e \in paid
      BY <1>1, <1>2, <3>1, CreatedKept
    <3>2. CASE e \notin paid
      <4>1. row[e][c].arrears = 0
        BY <1>2, <3>2
      <4> QED
        BY <1>2, <3>2, <4>1, PayNothing
    <3> QED
      BY <3>1, <3>2
  <2> HIDE DEF paid
  <2> QED
    BY <1>0, <2>1 DEF ArrearsDue
<1>9. paidOut' = [paidOut EXCEPT ![r] = [e \in Employees |-> ArrearsDue(e, c)]]
  BY <1>0, <1>2 DEF ArrearsDue
<1>10. FinalizePayroll(c, r)
  BY <1>0, <1>1, <1>4, <1>5, <1>6, <1>7, <1>8, <1>9 DEF FinalizePayroll, MayFinalize
<1> QED
  BY <1>1, <1>10 DEF Next, Payroll, MayFinalize

LEMMA UndoSerial ==
  ASSUME AmountInv, NEW s \in Sessions, Current(s), CommitUndo(s)
  PROVE  Next
<1> DEFINE r == task[s].run
<1>0. /\ task[s].at = "restore"
      /\ loan' = [l \in Loans |->
                    IF task[s].share[l] > 0
                    THEN Restore(l, task[s].loan[l], task[s].share[l]) ELSE loan[l]]
      /\ booked' = [booked EXCEPT ![r] = [l \in Loans |-> 0]]
      /\ arrears' = [e \in Employees |->
                       IF task[s].paid[e] > 0
                       THEN [task[s].arrears[e] EXCEPT !.created = arrears[e].created]
                       ELSE arrears[e]]
      /\ paidOut' = [paidOut EXCEPT ![r] = [e \in Employees |-> 0]]
      /\ run' = [run EXCEPT ![r].status = "definalized"]
      /\ row' = [e \in Employees |-> [d \in Cycles |->
                  IF <<e, d>> \in task[s].locked THEN [row[e][d] EXCEPT !.run = NoRun] ELSE row[e][d]]]
      /\ entries' = entries /\ settled' = settled
  BY DEF CommitUndo, LedgerRowsLeft, UnlockSeen
<1>1. /\ r \in Runs /\ run[r].status = "active" /\ task[s].loan = loan
      /\ task[s].share = booked[r] /\ task[s].paid = paidOut[r]
      /\ task[s].arrears = [e \in Employees |-> PayOut(arrears[e], -paidOut[r][e])]
      /\ \A e \in Employees, d \in Cycles : <<e, d>> \in task[s].locked <=> row[e][d].run = r
  <2>1. /\ r \in Runs /\ run[r].status = "active" /\ task[s].loan = loan
        /\ task[s].share = booked[r] /\ task[s].paid = paidOut[r]
        /\ task[s].arrears = [e \in Employees |-> PayOut(arrears[e], -task[s].paid[e])]
        /\ \A e \in Employees, d \in Cycles : <<e, d>> \in task[s].locked <=> row[e][d].run = r
    BY <1>0 DEF Current, Undoing
  <2> HIDE DEF r
  <2> QED
    BY <2>1
<1> HIDE DEF r
<1>2. /\ \A l \in Loans : loan[l] \in LoanRow /\ booked[r][l] \in Nat
      /\ \A e \in Employees : arrears[e] \in ArrearsRow /\ paidOut[r][e] \in Nat
  BY <1>1 DEF AmountInv, TypeOK, AccountsTypeOK
<1>3. row' = Unlocked(r)
  BY <1>0, <1>1 DEF Unlocked
<1>4. loan' = [l \in Loans |->
                 IF booked[r][l] > 0 THEN Reopen(loan[l], booked[r][l]) ELSE loan[l]]
  <2>1. ASSUME NEW l \in Loans, booked[r][l] > 0
        PROVE  Restore(l, loan[l], booked[r][l]) = Reopen(loan[l], booked[r][l])
    <3> DEFINE x == loan[l]  n == booked[r][l]
    <3>1. x.outstanding \in Nat /\ x.outstanding + n > 0 /\ x \in LoanRow
      <4>1. x.outstanding \in Nat /\ x \in LoanRow /\ n \in Nat
        BY <1>2 DEF LoanRow
      <4> QED
        BY <2>1, <4>1
    <3>2. Reopen(x, n) = [x EXCEPT !.status = "active", !.outstanding = x.outstanding + n]
      BY <3>1 DEF Reopen, LoanRow
    <3>3. Restore(l, x, n) = [x EXCEPT !.outstanding = x.outstanding + n, !.status = "active"]
      BY <3>1 DEF Restore, LoanRow
    <3> HIDE DEF x, n
    <3>4. [x EXCEPT !.status = "active", !.outstanding = x.outstanding + n]
            = [x EXCEPT !.outstanding = x.outstanding + n, !.status = "active"]
      BY <3>1 DEF LoanRow
    <3> QED
      BY <3>2, <3>3, <3>4 DEF x, n
  <2> QED
    BY <1>0, <1>1, <2>1
<1>5. arrears' = [e \in Employees |-> PayOut(arrears[e], -paidOut[r][e])]
  <2>1. ASSUME NEW e \in Employees
        PROVE  (IF paidOut[r][e] > 0
                THEN [task[s].arrears[e] EXCEPT !.created = arrears[e].created]
                ELSE arrears[e]) = PayOut(arrears[e], -paidOut[r][e])
    <3>1. CASE paidOut[r][e] > 0
      BY <1>1, <1>2, <3>1, CreatedKept
    <3>2. CASE ~(paidOut[r][e] > 0)
      <4>1. paidOut[r][e] = 0
        BY <1>2, <3>2
      <4> QED
        BY <1>2, <3>2, <4>1, PayNothing
    <3> QED
      BY <3>1, <3>2
  <2> QED
    BY <1>0, <1>1, <2>1
<1>6. DefinalizePayroll(r)
  BY <1>0, <1>1, <1>3, <1>4, <1>5 DEF DefinalizePayroll
<1> QED
  BY <1>1, <1>6 DEF Next, Payroll

LEMMA RepaymentSerial ==
  ASSUME AmountInv, NEW s \in Sessions, Current(s), CommitRepayment(s)
  PROVE  Next
<1> DEFINE l == task[s].loan  amount == task[s].amount  x == loan[l]
           i == x.installment
<1>0. /\ task[s].at = "repay"
      /\ loan' = [loan EXCEPT ![l] = Owe(x, task[s].owed)]
      /\ entries' = [entries EXCEPT ![l].repaid = @ + amount]
      /\ UNCHANGED <<booked, arrears, row, run, paidOut, settled>>
  BY DEF CommitRepayment, WriteOwed
<1>1. /\ l \in Loans /\ Active(l) /\ amount \in Amounts /\ amount <= loan[l].outstanding
      /\ task[s].owed = x.outstanding - amount
  BY <1>0 DEF Current
<1> HIDE DEF l, amount
<1>2. x \in LoanRow /\ loan \in [Loans -> LoanRow]
  BY <1>1 DEF AmountInv, TypeOK, AccountsTypeOK
<1>3. [Owe(x, x.outstanding - amount) EXCEPT !.installment = i] = Owe(x, x.outstanding - amount)
  <2> DEFINE n == x.outstanding - amount
  <2> HIDE DEF n, x
  <2> QED
    BY <1>2 DEF Owe, LoanRow, i
<1>4. loan' = [loan EXCEPT ![l] = [Owe(@, @.outstanding - amount) EXCEPT !.installment = i]]
  BY <1>0, <1>1, <1>2, <1>3
<1>5. i \in Instalments(loan[l])
  BY DEF Instalments
<1>6. Repay(l, amount)
  <2> HIDE DEF i
  <2> QED
    BY <1>0, <1>1, <1>4, <1>5 DEF Repay
<1>7. LoanOperation(l)
  BY <1>1, <1>6 DEF LoanOperation
<1>8. Accounts
  BY <1>0, <1>1, <1>7 DEF Accounts
<1> QED
  BY <1>8 DEF Next

LEMMA SettlementSerial ==
  ASSUME AmountInv, NEW s \in Sessions, Current(s), CommitSettlement(s)
  PROVE  Next
<1> DEFINE e == task[s].employee  owed == task[s].owed
           cleared == {l \in DOMAIN owed : owed[l] > 0}
<1>0. /\ task[s].at = "clear"
      /\ loan' = [l \in Loans |-> IF l \in cleared THEN Owe(loan[l], 0) ELSE loan[l]]
      /\ entries' = [l \in Loans |->
                       IF l \in cleared THEN [entries[l] EXCEPT !.repaid = @ + owed[l]]
                       ELSE entries[l]]
      /\ arrears' = IF task[s].arrears.outstanding > 0
                    THEN [arrears EXCEPT
                            ![e].paid = task[s].arrears.paid + task[s].arrears.outstanding,
                            ![e].outstanding = 0]
                    ELSE arrears
      /\ settled' = [settled EXCEPT ![e] = TRUE]
      /\ UNCHANGED <<booked, row, run, paidOut>>
  BY DEF CommitSettlement
<1>1. /\ e \in Leavers /\ ~settled[e] /\ ActiveRuns(LastCycle) # {}
      /\ task[s].arrears = arrears[e]
      /\ owed = [l \in OwnLoans(e) |-> loan[l].outstanding]
  BY <1>0 DEF Current
<1>2. e \in Employees
  BY <1>1, PayrollAssumption DEF PayrollAssumption
<1> HIDE DEF e, owed
<1>3. \A l \in Loans : l \in OwnLoans(e) => loan[l].outstanding > 0
  BY DEF AmountInv, LoanFits, OwnLoans
<1>4. cleared = OwnLoans(e)
  BY <1>1, <1>3 DEF OwnLoans
<1>5. loan' = [l \in Loans |-> IF l \in OwnLoans(e) /\ loan[l].outstanding > 0
                               THEN Owe(loan[l], 0) ELSE loan[l]]
  BY <1>0, <1>3, <1>4
<1>6. entries' = [l \in Loans |->
                    IF l \in OwnLoans(e)
                    THEN [entries[l] EXCEPT !.repaid = @ + loan[l].outstanding]
                    ELSE entries[l]]
  BY <1>0, <1>1, <1>4
<1>7. arrears' = [arrears EXCEPT ![e] = PayOut(@, @.outstanding)]
  <2> DEFINE x == arrears[e]
  <2>1. x \in ArrearsRow /\ arrears \in [Employees -> ArrearsRow] /\ x.outstanding \in Nat
        /\ x.paid \in Nat
    BY <1>2 DEF AmountInv, TypeOK, AccountsTypeOK, ArrearsRow
  <2>2. CASE x.outstanding > 0
    <3>1. PayOut(x, x.outstanding) = [x EXCEPT !.paid = x.paid + x.outstanding, !.outstanding = 0]
      <4> HIDE DEF x
      <4>1. x.outstanding - x.outstanding = 0
        BY <2>1
      <4> QED
        BY <2>1, <4>1 DEF PayOut, ArrearsRow
    <3>2. arrears' = [arrears EXCEPT ![e] = [x EXCEPT !.paid = x.paid + x.outstanding, !.outstanding = 0]]
      BY <1>0, <1>1, <1>2, <2>1, <2>2
    <3> QED
      BY <3>1, <3>2
  <2>3. CASE ~(x.outstanding > 0)
    <3>1. x.outstanding = 0
      BY <2>1, <2>3
    <3>2. PayOut(x, x.outstanding) = x
      BY <2>1, <3>1, PayNothing
    <3>3. arrears' = arrears
      BY <1>0, <1>1, <2>3
    <3> QED
      BY <2>1, <3>2, <3>3
  <2> QED
    BY <2>2, <2>3
<1>8. FinalizeSettlement(e)
  BY <1>0, <1>1, <1>5, <1>6, <1>7 DEF FinalizeSettlement
<1> QED
  BY <1>2, <1>8 DEF Next

\* A session that is not open has read nothing.
LEMMA IdleIsCurrent ==
  ASSUME NEW t \in Sessions, task'[t] = Idle
  PROVE  Current(t)'
BY DEF Current, Undoing, Idle

LEMMA InvsKept ==
  ASSUME LockInv, AmountInv, Next \/ UNCHANGED vars
  PROVE  LockInv' /\ AmountInv'
BY LockStep, AmountStep

\* A step of a session alone: it reads, or it commits as a handler.
LEMMA SerialStep ==
  ASSUME SerialInv, NEW s \in Sessions, NEW next, Goes(s, next),
         overlap' \in {overlap, overlap \/ \E t \in Sessions : Open(t)},
         overlap' = overlap => Open(s) \/ ~\E t \in Sessions : Open(t),
         ~overlap' => Next \/ UNCHANGED vars,
         ~overlap' => next = Idle \/ Current(s)'
  PROVE  SerialInv'
<1>1. /\ DOMAIN task' = Sessions /\ task'[s] = next
      /\ \A t \in Sessions \ {s} : task'[t] = task[t]
  BY Went DEF SerialInv
<1>2. overlap' \in BOOLEAN
  BY DEF SerialInv
<1>3. ASSUME ~overlap'
      PROVE  /\ LockInv' /\ AmountInv'
             /\ \A t, u \in Sessions : Open(t)' /\ Open(u)' => t = u
             /\ \A t \in Sessions : Current(t)'
  <2>1. ~overlap
    BY <1>3 DEF SerialInv
  <2>2. LockInv' /\ AmountInv'
    BY <1>3, <2>1, InvsKept DEF SerialInv
  <2>3. overlap' = overlap
    BY <1>2, <1>3, <2>1 DEF SerialInv
  <2>4. \A t \in Sessions \ {s} : ~Open(t)
    BY <2>1, <2>3 DEF SerialInv
  <2>5. \A t \in Sessions \ {s} : task'[t] = Idle
    BY <1>1, <2>4 DEF Open
  <2>6. \A t \in Sessions \ {s} : Current(t)'
    BY <2>5, IdleIsCurrent
  <2>7. Current(s)'
    BY <1>1, <1>3, IdleIsCurrent
  <2> QED
    BY <2>2, <2>5, <2>6, <2>7 DEF Open
<1> QED
  BY <1>1, <1>2, <1>3 DEF SerialInv

\* What begins a session sees the tables as they are.
LEMMA BeginningSerial ==
  ASSUME SerialInv, NEW s \in Sessions,
         \/ \E c \in Cycles, S \in SUBSET Employees \ {{}} :
              ReadDrafts(s, c, S) \/ ReadDraftsAgain(s, c, S)
         \/ \E c \in Cycles : CheckRun(s, c)
         \/ \E r \in Runs : CheckUndo(s, r)
         \/ \E l \in Loans, amount \in Amounts : LoadLoan(s, l, amount)
         \/ \E e \in Employees : CheckSettlement(s, e)
  PROVE  SerialInv' /\ UNCHANGED vars
<1>1. ASSUME NEW next, Begin(s, next), task'[s] = next /\ UNCHANGED vars => Current(s)'
      PROVE  SerialInv' /\ UNCHANGED vars
  <2>1. /\ Goes(s, next) /\ UNCHANGED vars /\ task'[s] = next
        /\ overlap' = (overlap \/ \E t \in Sessions : Open(t))
    BY <1>1, Went DEF Begin, SerialInv
  <2>2. overlap' = overlap => overlap' \/ ~\E t \in Sessions : Open(t)
    BY <2>1 DEF SerialInv
  <2>3. CASE overlap'
    BY <2>1, <2>3, Went DEF SerialInv
  <2>4. CASE ~overlap'
    BY <1>1, <2>1, <2>2, <2>4, SerialStep
  <2> QED
    BY <2>1, <2>3, <2>4 DEF SerialInv
<1>2. ASSUME NEW c \in Cycles, NEW S \in SUBSET Employees \ {{}}, ReadDrafts(s, c, S)
      PROVE  SerialInv' /\ UNCHANGED vars
  <2> DEFINE T == {e \in S : ~Finalized(e, c)}
             next == [at |-> "drafts", cycle |-> c, rows |-> [e \in T |-> Computed(e)],
                      inserts |-> {e \in T : ~row[e][c].exists}]
  <2>1. Begin(s, next) /\ ~BranchRequired
    BY <1>2 DEF ReadDrafts
  <2>2. next.at = "drafts" /\ next.cycle = c /\ next.rows = [e \in T |-> Computed(e)]
    OBVIOUS
  <2> HIDE DEF next
  <2>3. ASSUME task'[s] = next, UNCHANGED vars
        PROVE  Current(s)'
    <3>1. [e \in {d \in S : ~Finalized(d, c)} |-> Computed(e)]
            = [e \in {d \in S : ~Finalized(d, c)'} |-> Computed(e)']
      BY <2>3 DEF vars, accounts, Finalized, Computed, Due, OwnLoans, Instalment, Active
    <3>2. task'[s].rows = [e \in {d \in S : ~Finalized(d, task[s].cycle)'} |-> Computed(e)']
      BY <2>2, <2>3, <3>1 DEF Finalized
    <3> QED
      BY <2>1, <2>2, <2>3, <3>2 DEF Current, Undoing
  <2> QED
    BY <1>1, <2>1, <2>3
<1>3. ASSUME NEW c \in Cycles, CheckRun(s, c)
      PROVE  SerialInv' /\ UNCHANGED vars
  <2> DEFINE next == [at |-> "finalize", cycle |-> c, rows |-> [e \in Employees |-> row[e][c]]]
  <2>1. Begin(s, next) /\ MayFinalize(c)
    BY <1>3 DEF CheckRun, MayFinalize
  <2>2. next.at = "finalize" /\ next.cycle = c /\ next.rows = Slips(c)
    BY DEF Slips
  <2> HIDE DEF next
  <2>3. ASSUME task'[s] = next, UNCHANGED vars
        PROVE  Current(s)'
    <3>1. row' = row /\ run' = run
      BY <2>3 DEF vars
    <3>2. MayFinalize(c)' /\ Slips(c)' = Slips(c)
      BY <2>1, <3>1 DEF MayFinalize, Slips, ActiveRuns, InRun, Finalized
    <3>3. task'[s].cycle = c /\ task'[s].rows = Slips(c)' /\ task'[s].at = "finalize"
      BY <2>2, <2>3, <3>2
    <3> QED
      BY <3>2, <3>3 DEF Current, Undoing, MayFinalize, Slips, ActiveRuns, InRun, Finalized
  <2> QED
    BY <1>1, <2>1, <2>3
<1>4. ASSUME NEW r \in Runs, CheckUndo(s, r)
      PROVE  SerialInv' /\ UNCHANGED vars
  <2> DEFINE next == [at |-> "undo", run |-> r]
  <2>1. Begin(s, next) /\ run[r].status = "active" /\ next.at = "undo" /\ next.run = r
    BY <1>4 DEF CheckUndo
  <2> HIDE DEF next
  <2>2. ASSUME task'[s] = next, UNCHANGED vars
        PROVE  Current(s)'
    BY <2>1, <2>2 DEF Current, Undoing, vars
  <2> QED
    BY <1>1, <2>1, <2>2
<1>5. ASSUME NEW l \in Loans, NEW amount \in Amounts, LoadLoan(s, l, amount)
      PROVE  SerialInv' /\ UNCHANGED vars
  <2> DEFINE next == [at |-> "repay", loan |-> l, owed |-> loan[l].outstanding - amount,
                      amount |-> amount]
  <2>1. /\ Begin(s, next) /\ Active(l) /\ amount <= loan[l].outstanding
        /\ next.at = "repay" /\ next.loan = l /\ next.amount = amount
        /\ next.owed = loan[l].outstanding - amount
    BY <1>5 DEF LoadLoan
  <2> HIDE DEF next
  <2>2. ASSUME task'[s] = next, UNCHANGED vars
        PROVE  Current(s)'
    BY <2>1, <2>2 DEF Current, Undoing, vars, accounts, Active, Amounts
  <2> QED
    BY <1>1, <2>1, <2>2
<1>6. ASSUME NEW e \in Employees, CheckSettlement(s, e)
      PROVE  SerialInv' /\ UNCHANGED vars
  <2> DEFINE next == [at |-> "settle", employee |-> e]
  <2>1. /\ Begin(s, next) /\ next.at = "settle" /\ next.employee = e
        /\ e \in Leavers /\ ~settled[e] /\ ActiveRuns(LastCycle) # {}
    BY <1>6 DEF CheckSettlement
  <2> HIDE DEF next
  <2>2. ASSUME task'[s] = next, UNCHANGED vars
        PROVE  Current(s)'
    BY <2>1, <2>2 DEF Current, Undoing, vars, ActiveRuns
  <2> QED
    BY <1>1, <2>1, <2>2
<1> QED
  BY <1>2, <1>3, <1>4, <1>5, <1>6 DEF ReadDraftsAgain


\* What an open session reads next is how the tables are, when no other is open.
LEMMA ReadingSerial ==
  ASSUME SerialInv, NEW s \in Sessions,
         LoadAccounts(s) \/ LoadBookings(s) \/ LoadBookedAccounts(s) \/ LoadOwed(s) \/ GiveUp(s)
  PROVE  SerialInv' /\ UNCHANGED vars
<1>1. ASSUME NEW next, Reads(s, next), Open(s),
             Current(s) /\ UNCHANGED vars /\ task'[s] = next => next = Idle \/ Current(s)'
      PROVE  SerialInv' /\ UNCHANGED vars
  <2>1. Goes(s, next) /\ UNCHANGED vars /\ overlap' = overlap /\ task'[s] = next
    BY <1>1, Went DEF Reads, SerialInv
  <2>2. ~overlap' => next = Idle \/ Current(s)'
    BY <1>1, <2>1 DEF SerialInv
  <2> QED
    BY <1>1, <2>1, <2>2, SerialStep
<1>2. task[s].at # "idle" => Open(s)
  BY DEF Open, Idle
<1>3. ASSUME LoadAccounts(s)
      PROVE  SerialInv' /\ UNCHANGED vars
  <2>0. PICK slip, c : slip = task[s].rows /\ c = task[s].cycle
    OBVIOUS
  <2> DEFINE x == [l \in Loans |-> Share(l, slip[Owner[l]].deduction)]
             y == [e \in Employees |-> PayOut(arrears[e], slip[e].arrears)]
             next == [at |-> "collect", cycle |-> c, rows |-> slip, loan |-> loan,
                      share |-> x, arrears |-> y]
  <2>1. /\ Reads(s, next) /\ task[s].at = "finalize"
        /\ next.at = "collect" /\ next.cycle = c /\ next.rows = slip /\ next.loan = loan
        /\ next.share = x /\ next.arrears = y
    BY <1>3, <2>0 DEF LoadAccounts
  <2>2. ASSUME Current(s)
        PROVE  /\ MayFinalize(c) /\ slip = Slips(c) /\ x = Shares(c)
               /\ y = [e \in Employees |-> PayOut(arrears[e], row[e][c].arrears)]
    <3>1. MayFinalize(c) /\ slip = Slips(c)
      BY <2>0, <2>1, <2>2 DEF Current
    <3>2. \A e \in Employees : slip[e] = row[e][c]
      BY <3>1 DEF Slips
    <3>3. \A l \in Loans : Owner[l] \in Employees
      BY SettlementAssumption DEF SettlementAssumption
    <3> QED
      BY <3>1, <3>2, <3>3 DEF Shares, Deduction
  <2> HIDE DEF next, x, y
  <2>3. ASSUME Current(s), UNCHANGED vars, task'[s] = next
        PROVE  Current(s)'
    <3>1. row' = row /\ run' = run /\ loan' = loan /\ arrears' = arrears
      BY <2>3 DEF vars, accounts
    <3>2. MayFinalize(c)' /\ Slips(c)' = Slips(c)
      BY <2>2, <2>3, <3>1 DEF MayFinalize, Slips, ActiveRuns, InRun, Finalized
    <3>3. Shares(c)' = Shares(c)
      BY <3>1 DEF Shares, Share, Collects, Left, Due, OwnLoans, Instalment, Active, Deduction
    <3>4. [e \in Employees |-> PayOut(arrears[e], row[e][c].arrears)]
            = [e \in Employees |-> PayOut(arrears[e], row[e][c].arrears)']
      BY <3>1 DEF PayOut
    <3>5. /\ task'[s].at = "collect" /\ task'[s].cycle = c
          /\ task'[s].rows = Slips(c)' /\ task'[s].loan = loan'
          /\ task'[s].share = Shares(c)'
          /\ task'[s].arrears = [e \in Employees |-> PayOut(arrears[e], row[e][c].arrears)']
      BY <2>1, <2>2, <2>3, <3>1, <3>2, <3>3, <3>4
    <3> HIDE DEF Slips, Shares
    <3> QED
      BY <3>2, <3>5, Zenon DEF Current, Undoing
  <2> QED
    BY <1>1, <1>2, <2>1, <2>3
<1>4. ASSUME LoadBookings(s)
      PROVE  SerialInv' /\ UNCHANGED vars
  <2>0. PICK r : r = task[s].run
    OBVIOUS
  <2> DEFINE next == [at |-> "bookings", run |-> r, share |-> booked[r], paid |-> paidOut[r]]
  <2>1. /\ Reads(s, next) /\ task[s].at = "undo"
        /\ next.at = "bookings" /\ next.run = r
        /\ next.share = booked[r] /\ next.paid = paidOut[r]
    BY <1>4, <2>0 DEF LoadBookings
  <2>2. Current(s) => r \in Runs /\ run[r].status = "active"
    BY <2>0, <2>1 DEF Current, Undoing
  <2> HIDE DEF next
  <2>3. ASSUME Current(s), UNCHANGED vars, task'[s] = next
        PROVE  Current(s)'
    <3>1. run' = run /\ booked' = booked /\ paidOut' = paidOut
      BY <2>3 DEF vars, accounts
    <3> QED
      BY <2>1, <2>2, <2>3, <3>1 DEF Current, Undoing
  <2> QED
    BY <1>1, <1>2, <2>1, <2>3
<1>5. ASSUME LoadBookedAccounts(s)
      PROVE  SerialInv' /\ UNCHANGED vars
  <2>0. PICK r, share, paid : r = task[s].run /\ share = task[s].share /\ paid = task[s].paid
    OBVIOUS
  <2> DEFINE y == [e \in Employees |-> PayOut(arrears[e], -paid[e])]
             z == {p \in Employees \X Cycles : row[p[1]][p[2]].run = r}
             next == [at |-> "restore", run |-> r, loan |-> loan, share |-> share,
                      paid |-> paid, arrears |-> y, locked |-> z]
  <2>1. /\ Reads(s, next) /\ task[s].at = "bookings"
        /\ next.at = "restore" /\ next.run = r /\ next.loan = loan
        /\ next.share = share /\ next.paid = paid /\ next.arrears = y /\ next.locked = z
    BY <1>5, <2>0 DEF LoadBookedAccounts
  <2>2. Current(s) => /\ r \in Runs /\ run[r].status = "active"
                      /\ share = booked[r] /\ paid = paidOut[r]
    BY <2>0, <2>1 DEF Current, Undoing
  <2>3. \A e \in Employees, c \in Cycles : <<e, c>> \in z <=> row[e][c].run = r
    OBVIOUS
  <2> HIDE DEF next, z
  <2>4. ASSUME Current(s), UNCHANGED vars, task'[s] = next
        PROVE  Current(s)'
    <3>1. row' = row /\ run' = run /\ loan' = loan /\ arrears' = arrears
          /\ booked' = booked /\ paidOut' = paidOut
      BY <2>4 DEF vars, accounts
    <3> QED
      BY <2>1, <2>2, <2>3, <2>4, <3>1 DEF Current, Undoing
  <2> QED
    BY <1>1, <1>2, <2>1, <2>4
<1>6. ASSUME LoadOwed(s)
      PROVE  SerialInv' /\ UNCHANGED vars
  <2>0. PICK e : e = task[s].employee
    OBVIOUS
  <2> DEFINE x == [l \in OwnLoans(e) |-> loan[l].outstanding]
             next == [at |-> "clear", employee |-> e, arrears |-> arrears[e], owed |-> x]
  <2>1. /\ Reads(s, next) /\ task[s].at = "settle"
        /\ next.at = "clear" /\ next.employee = e /\ next.arrears = arrears[e]
        /\ next.owed = x
    BY <1>6, <2>0 DEF LoadOwed
  <2>2. Current(s) => e \in Leavers /\ ~settled[e] /\ ActiveRuns(LastCycle) # {}
    BY <2>0, <2>1 DEF Current
  <2> HIDE DEF next
  <2>3. ASSUME Current(s), UNCHANGED vars, task'[s] = next
        PROVE  Current(s)'
    <3>1. loan' = loan /\ arrears' = arrears /\ run' = run /\ settled' = settled
      BY <2>3 DEF vars, accounts
    <3>2. [l \in OwnLoans(e) |-> loan[l].outstanding]
            = [l \in OwnLoans(e)' |-> loan'[l].outstanding]
      BY <3>1 DEF OwnLoans, Active
    <3> QED
      BY <2>1, <2>2, <2>3, <3>1, <3>2 DEF Current, Undoing, ActiveRuns
  <2> QED
    BY <1>1, <1>2, <2>1, <2>3
<1>7. ASSUME GiveUp(s)
      PROVE  SerialInv' /\ UNCHANGED vars
  BY <1>1, <1>7 DEF GiveUp
<1> QED
  BY <1>3, <1>4, <1>5, <1>6, <1>7


\* A commit of the only open session is a handler that runs alone.
LEMMA CommitSerial ==
  ASSUME SerialInv, NEW s \in Sessions,
         \/ \E r \in Runs : CommitRun(s, r)
         \/ WriteDrafts(s) \/ CommitUndo(s) \/ CommitRepayment(s) \/ CommitSettlement(s)
  PROVE  SerialInv' /\ (~overlap' => Next)
<1>1. Goes(s, Idle) /\ overlap' = overlap /\ Open(s)
  <2>1. (\E r \in Runs : CommitRun(s, r)) => Commits(s) /\ task[s].at = "collect"
    BY Zenon DEF CommitRun
  <2>2. WriteDrafts(s) => Commits(s) /\ task[s].at = "drafts"
    BY Zenon DEF WriteDrafts
  <2>3. CommitUndo(s) => Commits(s) /\ task[s].at = "restore"
    BY Zenon DEF CommitUndo
  <2>4. CommitRepayment(s) => Commits(s) /\ task[s].at = "repay"
    BY Zenon DEF CommitRepayment
  <2>5. CommitSettlement(s) => Commits(s) /\ task[s].at = "clear"
    BY Zenon DEF CommitSettlement
  <2>6. Commits(s) /\ task[s].at # "idle"
    BY <2>1, <2>2, <2>3, <2>4, <2>5
  <2> QED
    BY <2>6 DEF Commits, Open, Idle
<1>2. ASSUME ~overlap'
      PROVE  Next
  <2>1. AmountInv /\ Current(s)
    BY <1>1, <1>2 DEF SerialInv
  <2> QED
    BY <2>1, RunSerial, DraftsSerial, UndoSerial, RepaymentSerial, SettlementSerial
<1> QED
  BY <1>1, <1>2, SerialStep

LEMMA SessionSerial ==
  ASSUME SerialInv, NEW s \in Sessions, SessionStep(s)
  PROVE  SerialInv' /\ (~overlap' => Next \/ UNCHANGED vars)
<1>1. \/ \/ \E c \in Cycles, S \in SUBSET Employees \ {{}} :
              ReadDrafts(s, c, S) \/ ReadDraftsAgain(s, c, S)
         \/ \E c \in Cycles : CheckRun(s, c)
         \/ \E r \in Runs : CheckUndo(s, r)
         \/ \E l \in Loans, amount \in Amounts : LoadLoan(s, l, amount)
         \/ \E e \in Employees : CheckSettlement(s, e)
      \/ LoadAccounts(s) \/ LoadBookings(s) \/ LoadBookedAccounts(s) \/ LoadOwed(s) \/ GiveUp(s)
      \/ \/ \E r \in Runs : CommitRun(s, r)
         \/ WriteDrafts(s) \/ CommitUndo(s) \/ CommitRepayment(s) \/ CommitSettlement(s)
  BY Zenon DEF SessionStep
<1> QED
  BY <1>1, BeginningSerial, ReadingSerial, CommitSerial

LEMMA SingleStepSerial ==
  ASSUME SerialInv, SingleStep
  PROVE  SerialInv' /\ (~overlap' => Next)
<1>1. /\ task' = task /\ Accounts
      /\ overlap' = (overlap \/ \E s \in Sessions : Open(s))
  BY DEF SingleStep
<1>2. Next
  BY <1>1 DEF Next
<1>3. ASSUME ~overlap'
      PROVE  /\ LockInv' /\ AmountInv'
             /\ \A s, t \in Sessions : Open(s)' /\ Open(t)' => s = t
             /\ \A s \in Sessions : Current(s)'
  <2>1. ~overlap /\ \A s \in Sessions : ~Open(s)
    BY <1>1, <1>3 DEF SerialInv
  <2>2. \A s \in Sessions : task'[s] = Idle
    BY <1>1, <2>1 DEF Open
  <2>3. \A s \in Sessions : Current(s)'
    BY <2>2, IdleIsCurrent
  <2>4. LockInv' /\ AmountInv'
    BY <1>2, <2>1, InvsKept DEF SerialInv
  <2> QED
    BY <2>2, <2>3, <2>4 DEF Open
<1>4. DOMAIN task' = Sessions /\ overlap' \in BOOLEAN
  BY <1>1 DEF SerialInv
<1> QED
  BY <1>2, <1>3, <1>4 DEF SerialInv

LEMMA SerialStutter ==
  ASSUME SerialInv, UNCHANGED <<vars, sessionVars>>
  PROVE  SerialInv'
<1>1. task' = task /\ overlap' = overlap /\ UNCHANGED vars
  BY DEF sessionVars
<1>2. ASSUME NEW s \in Sessions, Current(s)
      PROVE  Current(s)'
  <2>1. /\ row' = row /\ run' = run /\ loan' = loan /\ arrears' = arrears
        /\ booked' = booked /\ paidOut' = paidOut /\ settled' = settled
    BY <1>1 DEF vars, accounts
  <2>2. PICK c, e : c = task[s].cycle /\ e = task[s].employee
    OBVIOUS
  <2>3. task'[s].cycle = c /\ task'[s].employee = e
    BY <1>1, <2>2
  <2>4. task'[s].at = "drafts" =>
          /\ ~BranchRequired /\ c \in Cycles
          /\ \E S \in SUBSET Employees \ {{}} :
               task'[s].rows = [d \in {k \in S : ~Finalized(k, c)'} |-> Computed(d)']
    <3> SUFFICES ASSUME task[s].at = "drafts"
                 PROVE  /\ ~BranchRequired /\ c \in Cycles
                        /\ \E S \in SUBSET Employees \ {{}} :
                             task'[s].rows = [d \in {k \in S : ~Finalized(k, c)'} |-> Computed(d)']
      BY <1>1
    <3>1. PICK S \in SUBSET Employees \ {{}} :
            task[s].rows = [d \in {k \in S : ~Finalized(k, c)} |-> Computed(d)]
      BY <1>2, <2>2 DEF Current
    <3>2. [d \in {k \in S : ~Finalized(k, c)} |-> Computed(d)]
            = [d \in {k \in S : ~Finalized(k, c)'} |-> Computed(d)']
      BY <2>1 DEF Finalized, Computed, Due, OwnLoans, Instalment, Active
    <3>3. ~BranchRequired /\ c \in Cycles
      BY <1>2, <2>2 DEF Current
    <3> QED
      BY <1>1, <3>1, <3>2, <3>3
  <2>5. ActiveRuns(LastCycle)' = ActiveRuns(LastCycle)
    BY <2>1 DEF ActiveRuns
  <2>6. [l \in OwnLoans(e) |-> loan[l].outstanding]
          = [l \in OwnLoans(e)' |-> loan'[l].outstanding]
    BY <2>1 DEF OwnLoans, Active
  <2>7. task'[s].at = "clear" => task'[s].owed = [l \in OwnLoans(e)' |-> loan'[l].outstanding]
    BY <1>1, <1>2, <2>2, <2>6 DEF Current
  <2>8. (MayFinalize(c) => MayFinalize(c)') /\ Slips(c)' = Slips(c)
    BY <2>1 DEF MayFinalize, Slips, ActiveRuns, InRun, Finalized
  <2>9. Shares(c)' = Shares(c)
    BY <2>1 DEF Shares, Share, Collects, Left, Due, OwnLoans, Instalment, Active, Deduction
  <2>10. \A l \in Loans : Active(l) => Active(l)'
    BY <2>1 DEF Active
  <2>11. task'[s].at \in {"finalize", "collect"} => MayFinalize(c)' /\ task'[s].rows = Slips(c)'
    BY <1>1, <1>2, <2>2, <2>8 DEF Current
  <2>12. task'[s].at = "collect" =>
           /\ task'[s].loan = loan'
           /\ task'[s].share = Shares(c)'
           /\ task'[s].arrears = [d \in Employees |-> PayOut(arrears'[d], row'[d][c].arrears)]
    BY <1>1, <1>2, <2>1, <2>2, <2>9 DEF Current
  <2>13. Undoing(s)' => task'[s].run \in Runs /\ run'[task'[s].run].status = "active"
    BY <1>1, <1>2, <2>1 DEF Current, Undoing
  <2>14. task'[s].at \in {"bookings", "restore"} =>
           task'[s].share = booked'[task'[s].run] /\ task'[s].paid = paidOut'[task'[s].run]
    BY <1>1, <1>2, <2>1 DEF Current
  <2>15. task'[s].at = "restore" =>
           /\ task'[s].loan = loan'
           /\ task'[s].arrears = [d \in Employees |-> PayOut(arrears'[d], -task'[s].paid[d])]
           /\ \A d \in Employees, k \in Cycles :
                <<d, k>> \in task'[s].locked <=> row'[d][k].run = task'[s].run
    BY <1>1, <1>2, <2>1 DEF Current
  <2>16. task'[s].at = "repay" =>
           /\ task'[s].loan \in Loans /\ Active(task[s].loan)' /\ task'[s].amount \in Amounts
           /\ task'[s].amount <= loan'[task'[s].loan].outstanding
           /\ task'[s].owed = loan'[task'[s].loan].outstanding - task'[s].amount
    BY <1>1, <1>2, <2>1 DEF Current, Active
  <2>17. task'[s].at \in {"settle", "clear"} =>
           e \in Leavers /\ ~settled'[e] /\ ActiveRuns(LastCycle)' # {}
    BY <1>1, <1>2, <2>1, <2>2, <2>5 DEF Current
  <2>18. task'[s].at = "clear" => task'[s].arrears = arrears'[e]
    BY <1>1, <1>2, <2>1, <2>2 DEF Current
  <2> QED
    <3>1. task'[s].at = "drafts" =>
            /\ ~BranchRequired /\ task'[s].cycle \in Cycles
            /\ \E S \in SUBSET Employees \ {{}} :
                 task'[s].rows
                   = [d \in {k \in S : ~Finalized(k, task[s].cycle)'} |-> Computed(d)']
      BY <2>3, <2>4 DEF Finalized
    <3>2. /\ task'[s].at \in {"finalize", "collect"} =>
               MayFinalize(task[s].cycle)' /\ task'[s].rows = Slips(task[s].cycle)'
          /\ task'[s].at = "collect" => task'[s].share = Shares(task[s].cycle)'
      BY <2>3, <2>11, <2>12 DEF MayFinalize, Slips, ActiveRuns, InRun, Finalized,
                               Shares, Share, Collects, Left, Due, OwnLoans, Instalment,
                               Active, Deduction
    <3>3. task'[s].at = "clear" =>
            task'[s].owed = [l \in OwnLoans(task[s].employee)' |-> loan'[l].outstanding]
      BY <2>3, <2>7 DEF OwnLoans, Active
    <3> QED
      BY <2>3, <2>12, <2>13, <2>14, <2>15, <2>16, <2>17, <2>18, <3>1, <3>2, <3>3 DEF Current
<1>3. LockInv /\ AmountInv => LockInv' /\ AmountInv'
  BY <1>1, InvsKept
<1> QED
  BY <1>1, <1>2, <1>3 DEF SerialInv, Open

LEMMA SerialHolds == SessionsSpec => []SerialInv
<1>1. SessionsInit => SerialInv
  <2> SUFFICES ASSUME SessionsInit PROVE SerialInv
    OBVIOUS
  <2>1. Init /\ task = [s \in Sessions |-> Idle] /\ overlap = FALSE
    BY DEF SessionsInit
  <2>2. LockInv /\ AmountInv
    BY <2>1, LockInit, AmountInit
  <2>3. \A s \in Sessions : Current(s) /\ ~Open(s)
    BY <2>1 DEF Current, Undoing, Idle, Open
  <2> QED
    BY <2>1, <2>2, <2>3 DEF SerialInv
<1>2. SerialInv /\ [SessionsNext]_<<vars, sessionVars>> => SerialInv'
  BY SessionSerial, SingleStepSerial, SerialStutter DEF SessionsNext
<1> QED
  BY <1>1, <1>2, PTL DEF SessionsSpec

\* While no two requests were open together, each step of the sessions is a step of
\* a handler of PayrollRun or changes none of its tables: nothing is read, checked or
\* written in several steps that the handler does not do in one.
THEOREM SerialSessionsRunHandlers == SessionsSpec => SerialSessionsAreHandlers
<1>1. SerialInv /\ [SessionsNext]_<<vars, sessionVars>>
        => [~overlap' => [Handlers!Next]_vars]_<<vars, sessionVars>>
  <2> SUFFICES ASSUME SerialInv, SessionsNext, ~overlap'
               PROVE  Handlers!Next \/ UNCHANGED vars
    OBVIOUS
  <2>1. Next \/ UNCHANGED vars
    BY SessionSerial, SingleStepSerial DEF SessionsNext
  <2> QED
    BY <2>1, NextIsHandlers
<1> QED
  BY <1>1, SerialHolds, PTL DEF SessionsSpec, SerialSessionsAreHandlers


\* A behaviour in which no two requests are ever open together is one of PayrollRun: the
\* handlers that are single steps there are what generate, finalize, undo, a repayment
\* and a settlement are here.
THEOREM SerialImplementsPayroll == SessionsSpec /\ []~overlap => Spec
<1>1. SessionsInit => Init
  BY DEF SessionsInit
<1>2. SerialInv /\ ~overlap' /\ [SessionsNext]_<<vars, sessionVars>> => [Next]_vars
  <2> SUFFICES ASSUME SerialInv, ~overlap', [SessionsNext]_<<vars, sessionVars>>
               PROVE  Next \/ UNCHANGED vars
    OBVIOUS
  <2>1. CASE SessionsNext
    BY <2>1, SessionSerial, SingleStepSerial DEF SessionsNext
  <2> QED
    BY <2>1
<1> QED
  BY <1>1, <1>2, SerialHolds, PTL DEF SessionsSpec, Spec

\* So what payroll books, collects and pays adds up there, reads and commits apart:
\* loans follow their ledger, a run takes what its payslips deduct at most, and pays the
\* arrears they promise.
THEOREM SerialSessionsAddUp ==
  SessionsSpec /\ []~overlap =>
    /\ []LoanMatchesLedger /\ []NeverOverCollected
    /\ ArrearsMoveTogether /\ []ArrearsPaidAsOnPayslip
<1> QED
  BY SerialImplementsPayroll, OutstandingIsLedger, CollectsWithinPayslip, ArrearsKeepEquation,
     PaidAsOnPayslip, PTL
===============================================================================
