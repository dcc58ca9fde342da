--------------------------- MODULE LeaveLedger_proofs ---------------------------
(***************************************************************************)
(* What LeaveApproval makes of LeaveLedger.  Sessions that follow one      *)
(* another, rather than interleave, do what the handlers of the ledger do  *)
(* in one step each; and what is proved of the ledger holds of them.       *)
(***************************************************************************)
EXTENDS LeaveApproval_proofs, SumTheorems

-------------------------------------------------------------------------------
(* The ledger by itself *)

\* What is booked by hand on a row is what its history row says.
LEMMA DeltaIsBooked ==
  ASSUME NEW op \in AllAdminOps, NEW row \in BalanceRow, NEW d \in Int
  PROVE  AdminResult(op, row, d).adjusted = row.adjusted + Delta(op, row, d)
<1>1. Created(row) \in BalanceRow /\ Created(row).adjusted = row.adjusted
  BY CreatedType DEF Created, BalanceRow
<1> QED
  BY <1>1 DEF AdminResult, Delta, AllAdminOps, Credit, Debit, Adjust, Assign, Unassign, BalanceRow

\* Deciding and cancelling a request books nothing by hand.
LEMMA ChargeBooksNothing ==
  ASSUME NEW row \in BalanceRow, NEW d \in Nat
  PROVE  Deduct(row, d).adjusted = row.adjusted /\ Refund(row, d).adjusted = row.adjusted
BY DEF Deduct, Refund, BalanceRow

LedgerInv == LedgerTypeOK /\ AdjustedMatchesHistory

\* The tables a service starts with.
LEMMA LedgerStart == LedgerInit => LedgerInv
<1> SUFFICES ASSUME LedgerInit PROVE LedgerInv
  OBVIOUS
<1>1. leave \in [Requests -> LeaveRow] /\ env \in [Requests -> EnvStatus]
  <2>1. PICK pending \in SUBSET Requests, form \in [Requests -> Form] :
          /\ leave = [r \in Requests |->
                        Row(IF r \in pending THEN "pending" ELSE "absent", form[r])]
          /\ env = [r \in Requests |-> IF r \in pending THEN "pending" ELSE "absent"]
    BY DEF LedgerInit
  <2>2. \A r \in Requests :
          Row(IF r \in pending THEN "pending" ELSE "absent", form[r]) \in LeaveRow
    BY RowType DEF RowStatus
  <2> QED
    BY <2>1, <2>2 DEF EnvStatus
<1>2. Missing \in BalanceRow /\ Missing.adjusted = 0
  BY DEF Missing, BalanceRow
<1>3. ASSUME NEW d \in Days PROVE Accrue(Missing, d) \in BalanceRow
                                  /\ Accrue(Missing, d).adjusted = 0
  <2>1. d \in Int
    BY LedgerAssumption DEF LedgerAssumption, Days
  <2>2. Accrue(Missing, d) \in BalanceRow
    BY <1>2, <2>1, AccrueType
  <2> QED
    BY <2>2 DEF Accrue, Created, Missing
<1>4. /\ bal \in [Balances -> BalanceRow]
      /\ \A b \in Balances : bal[b].adjusted = 0
  BY <1>2, <1>3 DEF LedgerInit
<1>5. history = [b \in Balances |-> 0]
  BY DEF LedgerInit
<1> QED
  BY <1>1, <1>4, <1>5 DEF LedgerInv, LedgerTypeOK, AdjustedMatchesHistory

\* Each handler, from its first read to its commit, keeps a balance and its
\* history in step.
LEMMA LedgerStep == LedgerInv /\ [LedgerNext]_ledger => LedgerInv'
<1> SUFFICES ASSUME LedgerInv, [LedgerNext]_ledger PROVE LedgerInv'
  OBVIOUS
<1> USE DEF LedgerInv
<1>1. CASE Apply
  <2>1. PICK r \in Requests, f \in Form :
          /\ leave' = [leave EXCEPT ![r] = Row("pending", f)]
          /\ env' = [env EXCEPT ![r] = "pending"]
          /\ UNCHANGED <<bal, history>>
    BY <1>1 DEF Apply
  <2>2. Row("pending", f) \in LeaveRow
    BY RowType DEF RowStatus
  <2> QED
    BY <2>1, <2>2 DEF LedgerTypeOK, AdjustedMatchesHistory, EnvStatus
<1>2. CASE Edit
  <2>1. PICK r \in Requests, f \in Form :
          /\ leave' = [leave EXCEPT ![r] = Row("pending", f)]
          /\ UNCHANGED <<env, bal, history>>
    BY <1>2 DEF Edit
  <2>2. Row("pending", f) \in LeaveRow
    BY RowType DEF RowStatus
  <2> QED
    BY <2>1, <2>2 DEF LedgerTypeOK, AdjustedMatchesHistory
<1>3. CASE Approve
  <2>1. PICK r \in Requests :
          /\ leave' = [leave EXCEPT ![r].status = "approved"]
          /\ bal' = [bal EXCEPT ![leave[r].bal] = Deduct(@, leave[r].days)]
          /\ env' = [env EXCEPT ![r] = "approved"]
          /\ UNCHANGED history
    BY <1>3 DEF Approve
  <2>2. leave[r].bal \in Balances /\ leave[r].days \in Nat
    BY LedgerAssumption DEF LedgerAssumption, LedgerTypeOK, LeaveRow, Days
  <2>3. /\ Deduct(bal[leave[r].bal], leave[r].days) \in BalanceRow
        /\ Deduct(bal[leave[r].bal], leave[r].days).adjusted = bal[leave[r].bal].adjusted
    BY <2>2, ChargeType, ChargeBooksNothing DEF LedgerTypeOK
  <2>4. leave' \in [Requests -> LeaveRow] /\ env' \in [Requests -> EnvStatus]
    BY <2>1 DEF LedgerTypeOK, LeaveRow, RowStatus, EnvStatus
  <2> QED
    BY <2>1, <2>2, <2>3, <2>4 DEF LedgerTypeOK, AdjustedMatchesHistory
<1>4. CASE Reject
  BY <1>4 DEF Reject, LedgerTypeOK, AdjustedMatchesHistory, LeaveRow, RowStatus, EnvStatus
<1>5. CASE Withdraw
  BY <1>5 DEF Withdraw, LedgerTypeOK, AdjustedMatchesHistory, LeaveRow, RowStatus, EnvStatus
<1>6. CASE Cancel
  <2>1. PICK r \in Requests :
          /\ leave' = [leave EXCEPT ![r].status = "cancelled"]
          /\ bal' = IF leave[r].status = "approved" /\ bal[leave[r].bal].exists
                    THEN [bal EXCEPT ![leave[r].bal] = Refund(@, leave[r].days)]
                    ELSE bal
          /\ UNCHANGED <<env, history>>
    BY <1>6 DEF Cancel
  <2>2. leave[r].bal \in Balances /\ leave[r].days \in Nat
    BY LedgerAssumption DEF LedgerAssumption, LedgerTypeOK, LeaveRow, Days
  <2>3. /\ Refund(bal[leave[r].bal], leave[r].days) \in BalanceRow
        /\ Refund(bal[leave[r].bal], leave[r].days).adjusted = bal[leave[r].bal].adjusted
    BY <2>2, ChargeType, ChargeBooksNothing DEF LedgerTypeOK
  <2>4. leave' \in [Requests -> LeaveRow]
    BY <2>1 DEF LedgerTypeOK, LeaveRow, RowStatus
  <2> QED
    BY <2>1, <2>2, <2>3, <2>4 DEF LedgerTypeOK, AdjustedMatchesHistory
<1>7. CASE Administer
  <2>1. PICK op \in AdminOps, b \in Balances, d \in Amounts :
          /\ bal' = [bal EXCEPT ![b] = AdminResult(op, @, d)]
          /\ history' = [history EXCEPT ![b] = @ + Delta(op, bal[b], d)]
          /\ UNCHANGED <<leave, env>>
    BY <1>7 DEF Administer
  <2>2. op \in AllAdminOps /\ d \in Int /\ bal[b] \in BalanceRow
    BY LedgerAssumption DEF LedgerAssumption, Amounts, LedgerTypeOK
  <2>3. /\ AdminResult(op, bal[b], d) \in BalanceRow
        /\ Delta(op, bal[b], d) \in Int
        /\ AdminResult(op, bal[b], d).adjusted = bal[b].adjusted + Delta(op, bal[b], d)
    BY <2>2, AdminResultType, DeltaType, DeltaIsBooked
  <2> QED
    BY <2>1, <2>3 DEF LedgerTypeOK, AdjustedMatchesHistory
<1>8. CASE UNCHANGED ledger
  BY <1>8 DEF ledger, LedgerTypeOK, AdjustedMatchesHistory
<1> QED
  BY <1>1, <1>2, <1>3, <1>4, <1>5, <1>6, <1>7, <1>8 DEF LedgerNext

LEMMA LedgerInvariant == LedgerSpec => []LedgerInv
<1> QED
  BY LedgerStart, LedgerStep, PTL DEF LedgerSpec

\* The adjusted column is the sum of the history, as far as the handlers do not
\* interleave.
THEOREM LedgerKeepsHistory == LedgerSpec => []AdjustedMatchesHistory
<1>1. LedgerInv => AdjustedMatchesHistory
  BY DEF LedgerInv
<1> QED
  BY LedgerInvariant, <1>1, PTL

-------------------------------------------------------------------------------
(* What the balances are charged *)

\* The days of the approved requests on a balance.
Charged(b) == SumFunctionOnSet([r \in Requests |-> leave[r].days], ApprovedOn(b))

\* An operation by hand leaves what is used, and the parts add up afterwards.
LEMMA ByHandAddsUp ==
  ASSUME NEW op \in AllAdminOps, NEW row \in BalanceRow, NEW d \in Int, Balanced(row)
  PROVE  /\ Balanced(AdminResult(op, row, d))
         /\ AdminResult(op, row, d).used = row.used
         /\ row.exists => AdminResult(op, row, d).exists
<1>1. /\ Created(row) \in BalanceRow /\ Created(row).exists
      /\ Created(row).allocated = row.allocated /\ Created(row).adjusted = row.adjusted
      /\ Created(row).used = row.used /\ Created(row).closing = row.closing
  BY CreatedType DEF Created, BalanceRow
<1> QED
  BY <1>1 DEF AdminResult, AllAdminOps, Credit, Debit, Adjust, Assign, Unassign, BalanceRow, Balanced

\* Nothing is lost to the floor at 0 when no more is given back than is used.
LEMMA ChargeAddsUp ==
  ASSUME NEW row \in BalanceRow, NEW d \in Nat, Balanced(row)
  PROVE  /\ Balanced(Deduct(row, d)) /\ Deduct(row, d).used = row.used + d
         /\ Deduct(row, d).exists = row.exists
         /\ d <= row.used =>
              Balanced(Refund(row, d)) /\ Refund(row, d).used = row.used - d
         /\ Refund(row, d).exists = row.exists
BY DEF Deduct, Refund, BalanceRow, Balanced

LEMMA RowFacts ==
  ASSUME LedgerTypeOK, NEW r \in Requests
  PROVE  leave[r] \in LeaveRow /\ leave[r].bal \in Balances /\ leave[r].days \in Nat
BY LedgerAssumption DEF LedgerAssumption, LedgerTypeOK, LeaveRow, Days

LEMMA ApprovedFinite == \A b : IsFiniteSet(ApprovedOn(b)) /\ ApprovedOn(b) \subseteq Requests
BY FS_Subset, LedgerAssumption DEF ApprovedOn, LedgerAssumption

\* Requests that are approved neither before nor after a step charge nothing.
LEMMA NoneMore ==
  ASSUME NEW b \in Balances, ApprovedOn(b)' = ApprovedOn(b),
         \A r \in ApprovedOn(b) : leave'[r].days = leave[r].days
  PROVE  Charged(b)' = Charged(b)
<1> DEFINE S == ApprovedOn(b)
           v == [r \in Requests |-> leave'[r].days]
           w == [r \in Requests |-> leave[r].days]
<1>1. IsFiniteSet(S) /\ S \subseteq Requests
  BY ApprovedFinite
<1>2. \A r \in S : v[r] = w[r]
  BY <1>1
<1>3. Charged(b)' = SumFunctionOnSet(v, S) /\ Charged(b) = SumFunctionOnSet(w, S)
  BY DEF Charged
<1> HIDE DEF S, v, w
<1> QED
  BY <1>1, <1>2, <1>3, SumSame

\* An approval adds its days, a cancellation takes them off.
LEMMA OneMore ==
  ASSUME LedgerTypeOK, NEW b \in Balances, NEW r \in Requests \ ApprovedOn(b),
         ApprovedOn(b)' = ApprovedOn(b) \cup {r},
         \A q \in Requests : leave'[q].days = leave[q].days
  PROVE  Charged(b)' = Charged(b) + leave[r].days
<1> DEFINE S == ApprovedOn(b)
           v == [q \in Requests |-> leave'[q].days]
           w == [q \in Requests |-> leave[q].days]
<1>1. IsFiniteSet(S) /\ S \subseteq Requests
  BY ApprovedFinite
<1>2. v = w /\ \A q \in Requests : w[q] \in Int
  BY RowFacts
<1>3. Charged(b)' = SumFunctionOnSet(v, S \cup {r}) /\ Charged(b) = SumFunctionOnSet(w, S)
  BY DEF Charged
<1>4. w[r] = leave[r].days /\ r \notin S
  OBVIOUS
<1> HIDE DEF S, v, w
<1>5. SumFunctionOnSet(w, S \cup {r}) = w[r] + SumFunctionOnSet(w, S)
  BY <1>1, <1>2, <1>4, SumAdd
<1>6. SumFunctionOnSet(w, S) \in Int /\ w[r] \in Int
  BY <1>1, <1>2, SumInt
<1> QED
  BY <1>2, <1>3, <1>4, <1>5, <1>6

LEMMA OneLess ==
  ASSUME LedgerTypeOK, NEW b \in Balances, NEW r \in ApprovedOn(b),
         ApprovedOn(b)' = ApprovedOn(b) \ {r},
         \A q \in Requests : leave'[q].days = leave[q].days
  PROVE  Charged(b)' = Charged(b) - leave[r].days /\ leave[r].days <= Charged(b)
<1> DEFINE S == ApprovedOn(b)
           v == [q \in Requests |-> leave'[q].days]
           w == [q \in Requests |-> leave[q].days]
<1>1. IsFiniteSet(S) /\ S \subseteq Requests /\ r \in Requests
  BY ApprovedFinite
<1>2. v = w /\ \A q \in Requests : w[q] \in Nat
  BY RowFacts
<1>3. Charged(b)' = SumFunctionOnSet(v, S \ {r}) /\ Charged(b) = SumFunctionOnSet(w, S)
  BY DEF Charged
<1>4. w[r] = leave[r].days /\ r \in S
  BY <1>1
<1> HIDE DEF S, v, w
<1>5. IsFiniteSet(S \ {r}) /\ \A q \in S : w[q] \in Nat /\ w[q] \in Int
  BY <1>1, <1>2, FS_Subset
<1>6. SumFunctionOnSet(w, S) = w[r] + SumFunctionOnSet(w, S \ {r})
  BY <1>1, <1>4, <1>5, SumTake
<1>7. SumFunctionOnSet(w, S \ {r}) \in Nat /\ w[r] \in Nat
  BY <1>4, <1>5, SumNat
<1> QED
  BY <1>2, <1>3, <1>4, <1>6, <1>7

\* A row that is approved was decided in its envelope, and is on a balance that is there.
ApprovedIsBacked ==
  \A r \in Requests :
    leave[r].status = "approved" => env[r] = "approved" /\ bal[leave[r].bal].exists

ChargeInv == LedgerTypeOK /\ ApprovedIsBacked /\ UsedMatchesRequests /\ BalancesAddUp

LEMMA UsedIsCharged == UsedMatchesRequests <=> \A b \in Balances : bal[b].used = Charged(b)
BY DEF UsedMatchesRequests, Charged

\* A step that changes one request that is approved neither before nor after.
LEMMA UnapprovedStep ==
  ASSUME ChargeInv, LedgerTypeOK', NEW r \in Requests, NEW x,
         leave' = [leave EXCEPT ![r] = x], bal' = bal,
         leave[r].status # "approved", x.status # "approved",
         \A q \in Requests \ {r} : env'[q] = env[q]
  PROVE  ChargeInv'
<1>1. /\ leave'[r] = x /\ \A q \in Requests \ {r} : leave'[q] = leave[q]
  BY DEF ChargeInv, LedgerTypeOK
<1>2. ASSUME NEW b \in Balances
      PROVE  Charged(b)' = Charged(b)
  <2>1. ApprovedOn(b)' = ApprovedOn(b) /\ r \notin ApprovedOn(b)
    BY <1>1 DEF ApprovedOn
  <2>2. \A q \in ApprovedOn(b) : leave'[q].days = leave[q].days
    BY <1>1, <2>1, ApprovedFinite
  <2> QED
    BY <2>1, <2>2, NoneMore
<1>3. ApprovedIsBacked'
  BY <1>1 DEF ApprovedIsBacked, ChargeInv
<1>4. UsedMatchesRequests'
  BY <1>2, UsedIsCharged DEF ChargeInv, UsedMatchesRequests, Charged
<1> QED
  BY <1>3, <1>4 DEF ChargeInv, BalancesAddUp

LEMMA ChargeStart == LedgerInit => ChargeInv
<1> SUFFICES ASSUME LedgerInit PROVE ChargeInv
  OBVIOUS
<1>1. LedgerTypeOK
  BY LedgerStart DEF LedgerInv
<1>2. \A r \in Requests : leave[r].status # "approved"
  BY DEF LedgerInit, Row
<1>3. ASSUME NEW b \in Balances
      PROVE  bal[b].used = 0 /\ Balanced(bal[b])
  <2>1. Missing.used = 0 /\ Balanced(Missing)
    BY DEF Missing, Balanced
  <2>2. ASSUME NEW d \in Days
        PROVE  Accrue(Missing, d).used = 0 /\ Balanced(Accrue(Missing, d))
    <3>1. d \in Int
      BY LedgerAssumption DEF LedgerAssumption, Days
    <3> QED
      BY <3>1 DEF Accrue, Created, Missing, Balanced
  <2>3. bal[b] \in {Missing} \cup {Accrue(Missing, d) : d \in Days}
    BY DEF LedgerInit
  <2> QED
    BY <2>1, <2>2, <2>3
<1>4. ASSUME NEW b \in Balances
      PROVE  Charged(b) = 0
  <2>1. ApprovedOn(b) = {}
    BY <1>2 DEF ApprovedOn
  <2> QED
    BY <2>1, SumEmpty DEF Charged
<1> QED
  BY <1>1, <1>2, <1>3, <1>4, UsedIsCharged DEF ChargeInv, ApprovedIsBacked, BalancesAddUp

\* An approval charges the balance once, and a cancellation gives back what was
\* charged: the row is there, and what is used covers it.
LEMMA ApproveCharges == ChargeInv /\ LedgerTypeOK' /\ Approve => ChargeInv'
<1> SUFFICES ASSUME ChargeInv, LedgerTypeOK', Approve PROVE ChargeInv'
  OBVIOUS
<1>1. PICK r \in Requests :
        /\ env[r] = "pending" /\ Sufficient(bal[leave[r].bal], leave[r].days)
        /\ leave' = [leave EXCEPT ![r].status = "approved"]
        /\ bal' = [bal EXCEPT ![leave[r].bal] = Deduct(@, leave[r].days)]
        /\ env' = [env EXCEPT ![r] = "approved"]
  BY DEF Approve
<1>2. PICK b \in Balances, d \in Nat : b = leave[r].bal /\ d = leave[r].days
  BY RowFacts DEF ChargeInv
<1>3. /\ leave[r].status # "approved" /\ bal[b] \in BalanceRow /\ Balanced(bal[b])
      /\ bal[b].exists /\ leave \in [Requests -> LeaveRow]
      /\ bal \in [Balances -> BalanceRow] /\ env \in [Requests -> EnvStatus]
  BY <1>1, <1>2 DEF ChargeInv, ApprovedIsBacked, LedgerTypeOK, BalancesAddUp, Sufficient
<1>4. /\ Balanced(Deduct(bal[b], d)) /\ Deduct(bal[b], d).used = bal[b].used + d
      /\ Deduct(bal[b], d).exists
  BY <1>3, ChargeAddsUp
<1>5. /\ bal'[b] = Deduct(bal[b], d)
      /\ \A c \in Balances \ {b} : bal'[c] = bal[c]
  BY <1>1, <1>2, <1>3
<1>6. /\ leave'[r].status = "approved" /\ leave'[r].bal = b /\ leave'[r].days = d
      /\ \A q \in Requests \ {r} : leave'[q] = leave[q]
  BY <1>1, <1>2, <1>3 DEF LeaveRow
<1>7. /\ env'[r] = "approved" /\ \A q \in Requests \ {r} : env'[q] = env[q]
  BY <1>1, <1>3
<1>8. ApprovedIsBacked'
  BY <1>3, <1>4, <1>5, <1>6, <1>7, RowFacts DEF ApprovedIsBacked, ChargeInv
<1>9. BalancesAddUp'
  BY <1>4, <1>5 DEF BalancesAddUp, ChargeInv
<1>10. ASSUME NEW c \in Balances PROVE bal'[c].used = Charged(c)'
  <2>0. \A q \in Requests : leave'[q].days = leave[q].days
    BY <1>2, <1>6
  <2>1. CASE c = b
    <3>1. ApprovedOn(b)' = ApprovedOn(b) \cup {r} /\ r \notin ApprovedOn(b)
      BY <1>3, <1>6 DEF ApprovedOn
    <3>2. Charged(b)' = Charged(b) + leave[r].days
      BY <2>0, <3>1, OneMore DEF ChargeInv
    <3> QED
      BY <1>2, <1>4, <1>5, <2>1, <3>2, UsedIsCharged DEF ChargeInv
  <2>2. CASE c # b
    <3>1. ApprovedOn(c)' = ApprovedOn(c)
      BY <1>2, <1>3, <1>6, <2>2 DEF ApprovedOn
    <3>2. Charged(c)' = Charged(c)
      BY <2>0, <3>1, NoneMore, ApprovedFinite
    <3> QED
      BY <1>5, <2>2, <3>2, UsedIsCharged DEF ChargeInv
  <2> QED
    BY <2>1, <2>2
<1>11. UsedMatchesRequests'
  BY <1>10 DEF UsedMatchesRequests, Charged
<1> QED
  BY <1>8, <1>9, <1>11 DEF ChargeInv

LEMMA CancelCharges == ChargeInv /\ LedgerTypeOK' /\ Cancel => ChargeInv'
<1> SUFFICES ASSUME ChargeInv, LedgerTypeOK', Cancel PROVE ChargeInv'
  OBVIOUS
<1>1. PICK r \in Requests :
        /\ leave' = [leave EXCEPT ![r].status = "cancelled"]
        /\ bal' = IF leave[r].status = "approved" /\ bal[leave[r].bal].exists
                  THEN [bal EXCEPT ![leave[r].bal] = Refund(@, leave[r].days)]
                  ELSE bal
        /\ UNCHANGED <<env, history>>
  BY DEF Cancel
<1>2. PICK b \in Balances, d \in Nat : b = leave[r].bal /\ d = leave[r].days
  BY RowFacts DEF ChargeInv
<1>3. /\ bal[b] \in BalanceRow /\ Balanced(bal[b]) /\ leave \in [Requests -> LeaveRow]
      /\ bal \in [Balances -> BalanceRow]
  BY <1>2 DEF ChargeInv, LedgerTypeOK, BalancesAddUp
<1>4. /\ leave'[r].status = "cancelled" /\ leave'[r].bal = b /\ leave'[r].days = d
      /\ \A q \in Requests \ {r} : leave'[q] = leave[q]
  BY <1>1, <1>2, <1>3 DEF LeaveRow
<1>5. CASE leave[r].status # "approved"
  <2> DEFINE x == [leave[r] EXCEPT !.status = "cancelled"]
  <2>1. /\ leave' = [leave EXCEPT ![r] = x] /\ bal' = bal /\ env' = env
    BY <1>1, <1>5
  <2>2. x.status # "approved"
    BY <1>3 DEF LeaveRow
  <2> HIDE DEF x
  <2> QED
    BY <1>5, <2>1, <2>2, UnapprovedStep
<1>6. CASE leave[r].status = "approved"
  <2>1. bal[b].exists
    BY <1>2, <1>6 DEF ChargeInv, ApprovedIsBacked
  <2>2. /\ bal'[b] = Refund(bal[b], d)
        /\ \A c \in Balances \ {b} : bal'[c] = bal[c]
    BY <1>1, <1>2, <1>3, <1>6, <2>1
  <2>3. \A q \in Requests : leave'[q].days = leave[q].days
    BY <1>2, <1>4
  <2>4. ApprovedOn(b)' = ApprovedOn(b) \ {r} /\ r \in ApprovedOn(b)
    BY <1>2, <1>4, <1>6 DEF ApprovedOn
  <2>5. Charged(b)' = Charged(b) - d /\ d <= Charged(b)
    BY <1>2, <2>3, <2>4, OneLess DEF ChargeInv
  <2>6. bal[b].used = Charged(b)
    BY UsedIsCharged DEF ChargeInv
  <2>7. /\ Balanced(Refund(bal[b], d)) /\ Refund(bal[b], d).used = Charged(b)'
        /\ Refund(bal[b], d).exists
    BY <1>3, <2>1, <2>5, <2>6, ChargeAddsUp
  <2>8. ApprovedIsBacked'
    BY <1>1, <1>4, <2>2, <2>7, RowFacts DEF ApprovedIsBacked, ChargeInv
  <2>9. BalancesAddUp'
    BY <2>2, <2>7 DEF BalancesAddUp, ChargeInv
  <2>10. ASSUME NEW c \in Balances PROVE bal'[c].used = Charged(c)'
    <3>1. CASE c = b
      BY <2>2, <2>7, <3>1
    <3>2. CASE c # b
      <4>1. ApprovedOn(c)' = ApprovedOn(c)
        BY <1>2, <1>4, <3>2 DEF ApprovedOn
      <4>2. Charged(c)' = Charged(c)
        BY <2>3, <4>1, NoneMore, ApprovedFinite
      <4> QED
        BY <2>2, <3>2, <4>2, UsedIsCharged DEF ChargeInv
    <3> QED
      BY <3>1, <3>2
  <2>11. UsedMatchesRequests'
    BY <2>10 DEF UsedMatchesRequests, Charged
  <2> QED
    BY <2>8, <2>9, <2>11 DEF ChargeInv
<1> QED
  BY <1>5, <1>6

LEMMA ChargeStep == ChargeInv /\ LedgerTypeOK' /\ [LedgerNext]_ledger => ChargeInv'
<1> SUFFICES ASSUME ChargeInv, LedgerTypeOK', [LedgerNext]_ledger PROVE ChargeInv'
  OBVIOUS
<1>0. leave \in [Requests -> LeaveRow] /\ env \in [Requests -> EnvStatus]
  BY DEF ChargeInv, LedgerTypeOK
<1>1. CASE Apply
  <2>1. PICK r \in Requests, f \in Form :
          /\ leave[r].status = "absent" /\ leave' = [leave EXCEPT ![r] = Row("pending", f)]
          /\ env' = [env EXCEPT ![r] = "pending"] /\ bal' = bal
    BY <1>1 DEF Apply
  <2>2. Row("pending", f).status # "approved"
    BY DEF Row
  <2> QED
    BY <1>0, <2>1, <2>2, UnapprovedStep
<1>2. CASE Edit
  <2>1. PICK r \in Requests, f \in Form :
          /\ leave[r].status = "pending" /\ leave' = [leave EXCEPT ![r] = Row("pending", f)]
          /\ env' = env /\ bal' = bal
    BY <1>2 DEF Edit
  <2>2. Row("pending", f).status # "approved"
    BY DEF Row
  <2> QED
    BY <2>1, <2>2, UnapprovedStep
<1>3. CASE Reject \/ Withdraw
  <2>1. PICK r \in Requests, s \in {"rejected", "deleted"} :
          /\ env[r] = "pending" /\ leave' = [leave EXCEPT ![r].status = s]
          /\ env' = [env EXCEPT ![r] = s] /\ bal' = bal
    BY <1>3 DEF Reject, Withdraw
  <2> DEFINE x == [leave[r] EXCEPT !.status = s]
  <2>2. leave' = [leave EXCEPT ![r] = x] /\ x.status # "approved"
    BY <1>0, <2>1 DEF LeaveRow
  <2>3. leave[r].status # "approved" /\ \A q \in Requests \ {r} : env'[q] = env[q]
    BY <1>0, <2>1 DEF ChargeInv, ApprovedIsBacked
  <2> HIDE DEF x
  <2> QED
    BY <2>1, <2>2, <2>3, UnapprovedStep
<1>4. CASE Administer
  <2>1. PICK op \in AdminOps, b \in Balances, d \in Amounts :
          /\ bal' = [bal EXCEPT ![b] = AdminResult(op, @, d)]
          /\ UNCHANGED <<leave, env>>
    BY <1>4 DEF Administer
  <2>2. /\ op \in AllAdminOps /\ d \in Int /\ bal[b] \in BalanceRow /\ Balanced(bal[b])
        /\ bal \in [Balances -> BalanceRow]
    BY LedgerAssumption DEF LedgerAssumption, Amounts, ChargeInv, LedgerTypeOK, BalancesAddUp
  <2>3. /\ bal'[b] = AdminResult(op, bal[b], d)
        /\ \A c \in Balances \ {b} : bal'[c] = bal[c]
    BY <2>1, <2>2
  <2>4. /\ Balanced(bal'[b]) /\ bal'[b].used = bal[b].used
        /\ bal[b].exists => bal'[b].exists
    BY <2>2, <2>3, ByHandAddsUp
  <2>5. ASSUME NEW c \in Balances
        PROVE  /\ Balanced(bal'[c]) /\ bal'[c].used = bal[c].used
               /\ bal[c].exists => bal'[c].exists
    BY <2>3, <2>4 DEF ChargeInv, BalancesAddUp
  <2>6. leave' = leave /\ env' = env
    BY <2>1
  <2>7. ApprovedIsBacked'
    BY <2>5, <2>6, RowFacts DEF ApprovedIsBacked, ChargeInv
  <2>8. UsedMatchesRequests'
    BY <2>5, <2>6 DEF UsedMatchesRequests, ApprovedOn, ChargeInv
  <2> QED
    BY <2>5, <2>7, <2>8 DEF ChargeInv, BalancesAddUp
<1>5. CASE UNCHANGED ledger
  BY <1>5 DEF ledger, ChargeInv, ApprovedIsBacked, UsedMatchesRequests, ApprovedOn, BalancesAddUp
<1> QED
  BY <1>1, <1>2, <1>3, <1>4, <1>5, ApproveCharges, CancelCharges DEF LedgerNext

LEMMA ChargeInvariant == LedgerSpec => []ChargeInv
<1>1. LedgerInv => LedgerTypeOK
  BY DEF LedgerInv
<1>2. LedgerInv' => LedgerTypeOK'
  BY DEF LedgerInv
<1> QED
  BY <1>1, <1>2, ChargeStart, ChargeStep, LedgerStart, LedgerStep, PTL DEF LedgerSpec

\* Whatever is applied for, decided, cancelled and booked by hand, one handler after
\* the other: a closing balance is the sum of its parts.
THEOREM LedgerAddsUp == LedgerSpec => []BalancesAddUp
<1>1. ChargeInv => BalancesAddUp
  BY DEF ChargeInv
<1> QED
  BY ChargeInvariant, <1>1, PTL

\* What a balance has used is what its approved requests take, each once: no refund
\* is cut short by the floor at 0 and none finds its balance row missing.
THEOREM LedgerChargesOnce == LedgerSpec => []UsedMatchesRequests
<1>1. ChargeInv => UsedMatchesRequests
  BY DEF ChargeInv
<1> QED
  BY ChargeInvariant, <1>1, PTL

-------------------------------------------------------------------------------
(* One session at a time *)

OneSession == \A v, w \in Workers : v = w

Deciding == {"approve.load", "approve.mark", "approve.commit",
             "reject.load", "reject.commit", "withdraw.delete"}

\* What session w has checked and loaded is still so: nobody else writes.
UpToDate(w) ==
  LET c == ctx[w]
      r == c.req
  IN
  /\ c.at = "apply.insert" => Eligible(c.form, {})
  /\ c.at = "update.write" =>
       leave[r].status = "pending" /\ c.row = leave[r] /\ Eligible(c.form, {r})
  /\ c.at \in Deciding => env[r] = "pending"
  /\ c.at \in {"approve.mark", "reject.commit"} => Stored(r) /\ c.row = leave[r]
  /\ c.at = "approve.commit" =>
       /\ Stored(r) /\ c.row = [leave[r] EXCEPT !.status = "approved"]
       /\ c.seen = bal[c.row.bal] /\ Sufficient(c.seen, c.row.days)
  /\ c.at \in {"cancel.refund", "cancel.commit"} =>
       c.row = leave[r] /\ leave[r].status \in {"pending", "approved"}
  /\ c.at = "cancel.refund" => c.row.status = "approved"
  /\ c.at = "cancel.commit" /\ c.row.status = "approved" => c.seen = bal[c.row.bal]
  /\ c.at = "admin.write" =>
       /\ c.admin \in AdminOps /\ Admitted(c.admin, c.form.bal, c.amount)
       /\ c.seen = bal[c.form.bal]

SerialInv == TypeInv /\ \A w \in Workers : UpToDate(w)

\* A row that nobody has written since it was loaded is flushed as it is meant.
LEMMA FlushOwnRow ==
  ASSUME NEW loaded \in LeaveRow, NEW new \in LeaveRow
  PROVE  Flush(loaded, loaded, new) = new
BY DEF Flush, LeaveRow

LEMMA FlushOwnBalance ==
  ASSUME NEW loaded \in BalanceRow, NEW new \in BalanceRow
  PROVE  Flush(loaded, loaded, new) = new
BY DEF Flush, BalanceRow

\* A session that is over has nothing to be right about.
LEMMA IdleUpToDate ==
  ASSUME NEW w \in Workers, ctx'[w].at = "idle"
  PROVE  UpToDate(w)'
BY DEF UpToDate, Deciding

\* What a session begins with is what it has just read.
LEMMA BeginUpToDate ==
  ASSUME TypeInv, NEW w \in Workers, Begin(w)
  PROVE  UpToDate(w)'
<1> USE DEF TypeInv
<1>0. UNCHANGED ledger
  BY DEF Begin, ApplyCheck, UpdateCheck, ApproveCheck, RejectCheck, WithdrawCheck,
    CancelCheck, AdminRead
<1>1. CASE ApplyCheck(w)
  <2>1. PICK f \in Form : /\ Eligible(f, {})
                          /\ ctx'[w] = [Idle EXCEPT !.at = "apply.insert", !.form = f]
    BY <1>1 DEF ApplyCheck, Goto
  <2>2. ctx'[w].at = "apply.insert" /\ ctx'[w].form = f
    BY <2>1 DEF Idle
  <2>3. Eligible(f, {})'
    BY <1>0, <2>1 DEF Eligible, HasOverlap, ledger
  <2> QED
    BY <2>2, <2>3 DEF UpToDate, Deciding
<1>2. CASE UpdateCheck(w)
  <2>1. PICK r \in Requests, f \in Form :
          /\ leave[r].status = "pending" /\ Eligible(f, {r})
          /\ ctx'[w] = [Idle EXCEPT !.at = "update.write", !.req = r,
                                    !.row = leave[r], !.form = f]
    BY <1>2 DEF UpdateCheck, Goto
  <2>2. /\ ctx'[w].at = "update.write" /\ ctx'[w].req = r /\ ctx'[w].row = leave[r]
        /\ ctx'[w].form = f
    BY <2>1 DEF Idle
  <2>3. Eligible(f, {r})'
    BY <1>0, <2>1 DEF Eligible, HasOverlap, ledger
  <2> QED
    BY <1>0, <2>1, <2>2, <2>3 DEF UpToDate, Deciding, ledger
<1>3. CASE ApproveCheck(w) \/ RejectCheck(w) \/ WithdrawCheck(w)
  <2>1. PICK r \in Requests, place \in {"approve.load", "reject.load", "withdraw.delete"} :
          /\ env[r] = "pending"
          /\ ctx'[w] = [Idle EXCEPT !.at = place, !.req = r]
    BY <1>3 DEF ApproveCheck, RejectCheck, WithdrawCheck, Goto
  <2>2. ctx'[w].at = place /\ ctx'[w].req = r
    BY <2>1 DEF Idle
  <2> QED
    BY <1>0, <2>1, <2>2 DEF UpToDate, Deciding, ledger
<1>4. CASE CancelCheck(w)
  <2>1. PICK r \in Requests :
          /\ leave[r].status \in {"pending", "approved"}
          /\ ctx'[w] = [Idle EXCEPT !.req = r, !.row = leave[r],
                          !.at = IF leave[r].status = "approved"
                                 THEN "cancel.refund" ELSE "cancel.commit"]
    BY <1>4 DEF CancelCheck, Goto
  <2>2. /\ ctx'[w].req = r /\ ctx'[w].row = leave[r]
        /\ ctx'[w].at = IF leave[r].status = "approved" THEN "cancel.refund" ELSE "cancel.commit"
    BY <2>1 DEF Idle
  <2> QED
    BY <1>0, <2>1, <2>2 DEF UpToDate, Deciding, ledger
<1>5. CASE AdminRead(w)
  <2>1. PICK op \in AdminOps, b \in Balances, d \in Amounts :
          /\ Admitted(op, b, d)
          /\ ctx'[w] = [Idle EXCEPT !.at = "admin.write", !.admin = op,
                                    !.form.bal = b, !.amount = d, !.seen = bal[b]]
    BY <1>5 DEF AdminRead, Goto
  <2>2. /\ ctx'[w].at = "admin.write" /\ ctx'[w].admin = op /\ ctx'[w].form.bal = b
        /\ ctx'[w].amount = d /\ ctx'[w].seen = bal[b]
    BY <2>1, AnyFormType DEF Idle, Form
  <2>3. Admitted(op, b, d)'
    BY <1>0, <2>1 DEF Admitted, WithinBounds, ledger
  <2> QED
    BY <1>0, <2>1, <2>2, <2>3 DEF UpToDate, Deciding, ledger
<1> QED
  BY <1>1, <1>2, <1>3, <1>4, <1>5 DEF Begin

\* Later reads of a session.
LEMMA ReadUpToDate ==
  ASSUME TypeInv, NEW w \in Workers, UpToDate(w),
         ApproveLoad(w) \/ ApproveMark(w) \/ RejectLoad(w) \/ CancelRefund(w)
  PROVE  UNCHANGED ledger /\ UpToDate(w)'
<1> DEFINE c == ctx[w]
           r == c.req
<1>0. UNCHANGED ledger
  BY DEF ApproveLoad, ApproveMark, RejectLoad, CancelRefund
<1>1. c \in Context /\ ctx \in [Workers -> Session]
  BY DEF TypeInv, Session
<1>2. CASE ApproveLoad(w)
  <2>1. ctx'[w] = [c EXCEPT !.at = "approve.mark", !.row = leave[r]] /\ Stored(r)
    BY <1>1, <1>2 DEF ApproveLoad, Goto
  <2>2. ctx'[w].at = "approve.mark" /\ ctx'[w].row = leave[r] /\ ctx'[w].req = r
    BY <1>1, <2>1 DEF Context
  <2>3. env[r] = "pending"
    BY <1>2 DEF ApproveLoad, UpToDate, Deciding
  <2> QED
    BY <1>0, <2>1, <2>2, <2>3 DEF UpToDate, Deciding, ledger, Stored
<1>3. CASE RejectLoad(w)
  <2>1. ctx'[w] = [c EXCEPT !.at = "reject.commit", !.row = leave[r]] /\ Stored(r)
    BY <1>1, <1>3 DEF RejectLoad, Goto
  <2>2. ctx'[w].at = "reject.commit" /\ ctx'[w].row = leave[r] /\ ctx'[w].req = r
    BY <1>1, <2>1 DEF Context
  <2>3. env[r] = "pending"
    BY <1>3 DEF RejectLoad, UpToDate, Deciding
  <2> QED
    BY <1>0, <2>1, <2>2, <2>3 DEF UpToDate, Deciding, ledger, Stored
<1>4. CASE ApproveMark(w)
  <2> DEFINE marked == [leave[r] EXCEPT !.status = "approved"]
  <2>1. c.at = "approve.mark" /\ c.row = leave[r] /\ env[r] = "pending" /\ Stored(r)
    BY <1>4 DEF ApproveMark, UpToDate, Deciding
  <2>2. c.row \in LeaveRow /\ marked \in LeaveRow
    BY <1>1, <2>1 DEF Context, LeaveRow, RowStatus
  <2>3. Flush(leave[r], c.row, [c.row EXCEPT !.status = "approved"]) = marked
    BY <2>1, <2>2, FlushOwnRow
  <2>4. /\ ctx'[w] = [c EXCEPT !.at = "approve.commit", !.row = marked,
                                !.seen = bal[marked.bal]]
        /\ Sufficient(bal[marked.bal], marked.days)
    BY <1>1, <1>4, <2>3 DEF ApproveMark, Goto
  <2>5. /\ ctx'[w].at = "approve.commit" /\ ctx'[w].row = marked
        /\ ctx'[w].seen = bal[marked.bal] /\ ctx'[w].req = r
    BY <1>1, <2>4 DEF Context
  <2> QED
    BY <1>0, <2>1, <2>4, <2>5 DEF UpToDate, Deciding, ledger, Stored
<1>5. CASE CancelRefund(w)
  <2>1. /\ ctx'[w] = [c EXCEPT !.at = "cancel.commit", !.seen = bal[c.row.bal]]
        /\ c.at = "cancel.refund"
    BY <1>1, <1>5 DEF CancelRefund, Goto
  <2>2. /\ ctx'[w].at = "cancel.commit" /\ ctx'[w].row = c.row
        /\ ctx'[w].seen = bal[c.row.bal] /\ ctx'[w].req = r
    BY <1>1, <2>1 DEF Context
  <2>3. c.row = leave[r] /\ leave[r].status \in {"pending", "approved"}
    BY <2>1 DEF UpToDate
  <2> QED
    BY <1>0, <2>2, <2>3 DEF UpToDate, Deciding, ledger
<1> QED
  BY <1>0, <1>2, <1>3, <1>4, <1>5

\* A commit of a session that nobody interfered with is the handler's one step
\* in the ledger, and it ends the session.
LEMMA CommitIsHandler ==
  ASSUME TypeInv, NEW w \in Workers, UpToDate(w),
         \/ ApplyInsert(w) \/ UpdateWrite(w) \/ ApproveCommit(w) \/ RejectCommit(w)
         \/ WithdrawDelete(w) \/ CancelCommit(w) \/ AdminWrite(w)
  PROVE  LedgerNext /\ ctx'[w].at = "idle"
<1> DEFINE c == ctx[w]
           r == c.req
<1>1. c \in Session /\ c \in Context /\ ctx \in [Workers -> Session]
  BY DEF TypeInv, Session
<1>2. ctx'[w].at = "idle"
  <2>1. Done(w)
    BY DEF ApplyInsert, UpdateWrite, ApproveCommit, RejectCommit, WithdrawDelete, CancelCommit, AdminWrite
  <2> QED
    BY <1>1, <2>1 DEF Done, Goto, Idle
<1>3. c.at \notin {"idle", "apply.insert", "admin.write"} => r \in Requests /\ leave[r] \in LeaveRow
  BY <1>1 DEF TypeInv, LedgerTypeOK, Session, Context
<1>4. CASE ApplyInsert(w)
  <2>1. c.form \in Form /\ Eligible(c.form, {})
    BY <1>1, <1>4 DEF ApplyInsert, UpToDate, Context
  <2> QED
    BY <1>2, <1>4, <2>1 DEF ApplyInsert, Apply, LedgerNext
<1>5. CASE UpdateWrite(w)
  <2>1. /\ leave[r].status = "pending" /\ c.row = leave[r] /\ Eligible(c.form, {r})
        /\ c.form \in Form /\ r \in Requests /\ leave[r] \in LeaveRow
    BY <1>1, <1>3, <1>5 DEF UpdateWrite, UpToDate, Context
  <2>2. Row("pending", c.form) \in LeaveRow
    BY <2>1, RowType DEF RowStatus
  <2>3. Flush(leave[r], c.row, Row(c.row.status, c.form)) = Row("pending", c.form)
    BY <2>1, <2>2, FlushOwnRow
  <2> QED
    BY <1>2, <1>5, <2>1, <2>3 DEF UpdateWrite, Edit, LedgerNext, TypeInv, LedgerTypeOK
<1>6. CASE ApproveCommit(w)
  <2> DEFINE b == leave[r].bal
  <2>1. /\ c.at = "approve.commit" /\ env[r] = "pending" /\ Stored(r)
        /\ c.row = [leave[r] EXCEPT !.status = "approved"]
        /\ c.seen = bal[c.row.bal] /\ Sufficient(c.seen, c.row.days)
        /\ r \in Requests /\ leave[r] \in LeaveRow
    BY <1>3, <1>6 DEF ApproveCommit, UpToDate, Deciding
  <2>2. c.row.bal = b /\ c.row.days = leave[r].days /\ b \in Balances /\ leave[r].days \in Nat
    BY <2>1, LedgerAssumption DEF LedgerAssumption, LeaveRow, Days
  <2>3. bal[b] \in BalanceRow /\ Deduct(bal[b], leave[r].days) \in BalanceRow
    BY <2>2, ChargeType DEF TypeInv, LedgerTypeOK
  <2>4. Flush(bal[b], c.seen, Deduct(c.seen, c.row.days)) = Deduct(bal[b], leave[r].days)
    BY <2>1, <2>2, <2>3, FlushOwnBalance
  <2>5. /\ leave' = [leave EXCEPT ![r] = c.row]
        /\ bal' = [bal EXCEPT ![b] = Flush(bal[b], c.seen, Deduct(c.seen, c.row.days))]
        /\ env' = [env EXCEPT ![r] = "approved"] /\ history' = history
    BY <1>6, <2>2 DEF ApproveCommit, TypeInv, LedgerTypeOK
  <2>6. Approve
    BY <2>1, <2>2, <2>4, <2>5 DEF Approve, TypeInv, LedgerTypeOK
  <2> QED
    BY <1>2, <2>6 DEF LedgerNext
<1>7. CASE RejectCommit(w)
  <2>1. /\ env[r] = "pending" /\ Stored(r) /\ c.row = leave[r]
        /\ r \in Requests /\ leave[r] \in LeaveRow
    BY <1>3, <1>7 DEF RejectCommit, UpToDate, Deciding
  <2>2. [leave[r] EXCEPT !.status = "rejected"] \in LeaveRow
    BY <2>1 DEF LeaveRow, RowStatus
  <2>3. Flush(leave[r], c.row, [c.row EXCEPT !.status = "rejected"])
          = [leave[r] EXCEPT !.status = "rejected"]
    BY <2>1, <2>2, FlushOwnRow
  <2> QED
    BY <1>2, <1>7, <2>1, <2>3 DEF RejectCommit, Reject, LedgerNext, TypeInv, LedgerTypeOK
<1>8. CASE WithdrawDelete(w)
  <2>1. env[r] = "pending" /\ r \in Requests
    BY <1>3, <1>8 DEF WithdrawDelete, UpToDate, Deciding
  <2> QED
    BY <1>2, <1>8, <2>1 DEF WithdrawDelete, Withdraw, LedgerNext
<1>9. CASE CancelCommit(w)
  <2> DEFINE b == leave[r].bal
             charged == leave[r].status = "approved" /\ bal[b].exists
  <2>1. /\ c.at = "cancel.commit" /\ c.row = leave[r] /\ leave[r].status \in {"pending", "approved"}
        /\ leave[r].status = "approved" => c.seen = bal[b]
        /\ r \in Requests /\ leave[r] \in LeaveRow
    BY <1>3, <1>9 DEF CancelCommit, UpToDate
  <2>2. b \in Balances /\ leave[r].days \in Nat
    BY <2>1, LedgerAssumption DEF LedgerAssumption, LeaveRow, Days
  <2>3. bal[b] \in BalanceRow /\ Refund(bal[b], leave[r].days) \in BalanceRow
    BY <2>2, ChargeType DEF TypeInv, LedgerTypeOK
  <2>4. Flush(bal[b], bal[b], Refund(bal[b], leave[r].days)) = Refund(bal[b], leave[r].days)
    BY <2>3, FlushOwnBalance
  <2>5. bal' = IF c.row.status = "approved" /\ c.seen.exists
               THEN [bal EXCEPT ![c.row.bal] = Flush(@, c.seen, Refund(c.seen, c.row.days))]
               ELSE bal
    BY <1>9 DEF CancelCommit
  <2>6. bal' = IF charged THEN [bal EXCEPT ![b] = Refund(@, leave[r].days)] ELSE bal
    <3>1. CASE leave[r].status = "approved"
      BY <2>1, <2>2, <2>4, <2>5, <3>1 DEF TypeInv, LedgerTypeOK
    <3>2. CASE leave[r].status # "approved"
      BY <2>1, <2>5, <3>2
    <3> QED
      BY <3>1, <3>2
  <2>7. Cancel
    BY <1>9, <2>1, <2>6 DEF CancelCommit, Cancel
  <2> QED
    BY <1>2, <2>7 DEF LedgerNext
<1>10. CASE AdminWrite(w)
  <2> DEFINE b == c.form.bal
  <2>1. /\ c.admin \in AdminOps /\ Admitted(c.admin, b, c.amount) /\ c.seen = bal[b]
        /\ b \in Balances /\ c.amount \in Amounts
    BY <1>1, <1>10 DEF AdminWrite, UpToDate, Context, Form
  <2>2. bal[b] \in BalanceRow /\ AdminResult(c.admin, bal[b], c.amount) \in BalanceRow
    BY <2>1, AdminResultType, LedgerAssumption
    DEF LedgerAssumption, Amounts, TypeInv, LedgerTypeOK
  <2>3. Flush(bal[b], c.seen, AdminResult(c.admin, c.seen, c.amount))
          = AdminResult(c.admin, bal[b], c.amount)
    BY <2>1, <2>2, FlushOwnBalance
  <2>4. /\ bal' = [bal EXCEPT ![b] = AdminResult(c.admin, @, c.amount)]
        /\ history' = [history EXCEPT ![b] = @ + Delta(c.admin, bal[b], c.amount)]
        /\ UNCHANGED <<leave, env>>
    BY <1>10, <2>1, <2>3 DEF AdminWrite, TypeInv, LedgerTypeOK
  <2>5. Administer
    BY <2>1, <2>4 DEF Administer
  <2> QED
    BY <1>2, <2>5 DEF LedgerNext
<1> QED
  BY <1>4, <1>5, <1>6, <1>7, <1>8, <1>9, <1>10

\* With one session, every step is a handler's or changes no table.
LEMMA SerialStep ==
  ASSUME OneSession, SerialInv, [Next]_vars
  PROVE  SerialInv' /\ [LedgerNext]_ledger
<1>1. TypeInv'
  BY StepType DEF SerialInv
<1>2. CASE UNCHANGED vars
  <2>1. \A w \in Workers : UpToDate(w)'
    BY <1>2 DEF SerialInv, UpToDate, vars, ledger, Eligible, HasOverlap, Stored, Admitted, WithinBounds
  <2> QED
    BY <1>1, <1>2, <2>1 DEF SerialInv, vars
<1>3. ASSUME NEW w \in Workers, Begin(w) \/ Continue(w) \/ Abort(w)
      PROVE  UpToDate(w)' /\ [LedgerNext]_ledger
  <2>1. CASE Begin(w)
    <3>1. UNCHANGED ledger
      BY <2>1 DEF Begin, ApplyCheck, UpdateCheck, ApproveCheck, RejectCheck, WithdrawCheck,
        CancelCheck, AdminRead
    <3> QED
      BY <2>1, <3>1, BeginUpToDate DEF SerialInv
  <2>2. CASE Refuse(w) \/ Abort(w)
    <3>1. UNCHANGED ledger /\ Done(w)
      BY <2>2 DEF Refuse, Abort
    <3>2. ctx'[w].at = "idle"
      BY <3>1 DEF Done, Goto, Idle, SerialInv, TypeInv
    <3> QED
      BY <3>1, <3>2, IdleUpToDate
  <2>3. CASE ApproveLoad(w) \/ ApproveMark(w) \/ RejectLoad(w) \/ CancelRefund(w)
    BY <2>3, ReadUpToDate DEF SerialInv
  <2>4. CASE \/ ApplyInsert(w) \/ UpdateWrite(w) \/ ApproveCommit(w) \/ RejectCommit(w)
             \/ WithdrawDelete(w) \/ CancelCommit(w) \/ AdminWrite(w)
    BY <2>4, CommitIsHandler, IdleUpToDate DEF SerialInv
  <2> QED
    BY <1>3, <2>1, <2>2, <2>3, <2>4 DEF Continue
<1>4. ASSUME NEW w \in Workers, Begin(w) \/ Continue(w) \/ Abort(w)
      PROVE  (\A v \in Workers : UpToDate(v)') /\ [LedgerNext]_ledger
  BY <1>3, <1>4 DEF OneSession
<1> QED
  BY <1>1, <1>2, <1>4 DEF Next, SerialInv

LEMMA SerialInit == Init => SerialInv
<1> SUFFICES ASSUME Init PROVE SerialInv
  OBVIOUS
<1>1. \A w \in Workers : ctx[w].at = "idle"
  BY DEF Init, Idle
<1> QED
  BY <1>1, InitType DEF SerialInv, UpToDate, Deciding

\* LeaveApproval implements LeaveLedger as long as one API request ends before
\* the next begins: what the services promise is what they do when nothing
\* interleaves, the split into reads, checks and commits notwithstanding.
THEOREM SerialImplementsLedger == OneSession => (Spec => LedgerSpec)
<1> SUFFICES ASSUME OneSession PROVE Spec => LedgerSpec
  OBVIOUS
<1>1. Init => LedgerInit
  BY DEF Init
<1>2. Init => SerialInv
  BY SerialInit
<1>3. SerialInv /\ [Next]_vars => SerialInv' /\ [LedgerNext]_ledger
  BY SerialStep
<1> QED
  BY <1>1, <1>2, <1>3, PTL DEF Spec, LedgerSpec

\* So the adjusted column is the sum of the history there, too.
THEOREM SerialKeepsHistory == OneSession => (Spec => []AdjustedMatchesHistory)
<1> QED
  BY SerialImplementsLedger, LedgerKeepsHistory, PTL

\* Nor do sessions that follow one another lose or double a charge: a balance they
\* leave is the sum of its parts,
THEOREM SerialAddsUp == OneSession => (Spec => []BalancesAddUp)
<1> QED
  BY SerialImplementsLedger, LedgerAddsUp, PTL

\* and its used days are those of its approved requests.
THEOREM SerialChargesOnce == OneSession => (Spec => []UsedMatchesRequests)
<1> QED
  BY SerialImplementsLedger, LedgerChargesOnce, PTL
===============================================================================
