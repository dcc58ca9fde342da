------------------------- MODULE BackgroundJobs_proofs -------------------------
(***************************************************************************)
(* Proofs about the delivery of notifications and about the accrual, for   *)
(* any number of jobs, sessions, users, nights and deaths of the worker.   *)
(***************************************************************************)
EXTENDS BackgroundJobs, FiniteSetTheorems, WellFoundedInduction, TLAPS

RecipientTable == [Notifications -> [Users -> RecipientRow]]

-------------------------------------------------------------------------------
(* The rows of recipients *)

\* Rows come into being, are delivered and are marked; a step that delivers one
\* changes nothing else of it, and nothing is taken back but a mark.
RowsGrow ==
  /\ rcpt' \in RecipientTable
  /\ \A n \in Notifications, u \in Users :
       /\ rcpt[n][u].exists => rcpt'[n][u].exists
       /\ rcpt[n][u].delivered => rcpt'[n][u].delivered
       /\ rcpt'[n][u].delivered # rcpt[n][u].delivered =>
            rcpt'[n][u].exists = rcpt[n][u].exists /\ rcpt'[n][u].marks = rcpt[n][u].marks

\* Nobody becomes a recipient.
RowsKept == \A n \in Notifications, u \in Users : rcpt'[n][u].exists => rcpt[n][u].exists

LEMMA SameRows == ASSUME rcpt \in RecipientTable, rcpt' = rcpt PROVE RowsGrow /\ RowsKept
BY DEF RowsGrow, RowsKept

LEMMA InsertedRows ==
  ASSUME rcpt \in RecipientTable, NEW n \in Notifications, NEW S \in SUBSET Users,
         rcpt' = WithRecipients(n, S)
  PROVE  /\ RowsGrow /\ \A u \in S : rcpt'[n][u].exists
         /\ \A m \in Notifications, u \in Users :
              rcpt'[m][u].exists => rcpt[m][u].exists \/ m = n
<1>1. ASSUME NEW row \in RecipientRow
      PROVE  /\ Insert(row) \in RecipientRow /\ Insert(row).exists = TRUE
             /\ Insert(row).delivered = row.delivered /\ Insert(row).marks = row.marks
  BY DEF Insert, RecipientRow
<1>2. ASSUME NEW m \in Notifications, NEW u \in Users
      PROVE  rcpt'[m][u] = IF m = n /\ u \in S THEN Insert(rcpt[m][u]) ELSE rcpt[m][u]
  BY DEF WithRecipients, RecipientTable
<1>3. rcpt' \in RecipientTable
  BY <1>1 DEF WithRecipients, RecipientTable
<1>4. ASSUME NEW m \in Notifications, NEW u \in Users
      PROVE  /\ rcpt[m][u].exists => rcpt'[m][u].exists
             /\ u \in S => rcpt'[n][u].exists
             /\ rcpt'[m][u].delivered = rcpt[m][u].delivered
  <2>1. rcpt[m][u] \in RecipientRow /\ rcpt[n][u] \in RecipientRow
    BY DEF RecipientTable
  <2>2. u \in S => rcpt'[n][u].exists
    BY <1>1, <1>2, <2>1
  <2>3. CASE m = n /\ u \in S
    BY <1>1, <1>2, <2>1, <2>2, <2>3
  <2>4. CASE ~(m = n /\ u \in S)
    BY <1>2, <2>2, <2>4
  <2> QED
    BY <2>3, <2>4
<1> QED
  BY <1>2, <1>3, <1>4 DEF RowsGrow

LEMMA OwnedRows ==
  ASSUME rcpt \in RecipientTable, NEW n \in Notifications, NEW u \in Users, NEW row \in RecipientRow,
         row.exists = rcpt[n][u].exists,
         \/ row.delivered = rcpt[n][u].delivered
         \/ row.delivered = TRUE /\ row.marks = rcpt[n][u].marks,
         rcpt' = [rcpt EXCEPT ![n][u] = row]
  PROVE  RowsGrow /\ RowsKept
<1>1. \A m \in Notifications, v \in Users :
        rcpt'[m][v] = IF m = n /\ v = u THEN row ELSE rcpt[m][v]
  BY DEF RecipientTable
<1>2. rcpt' \in RecipientTable
  BY DEF RecipientTable
<1>3. rcpt[n][u] \in RecipientRow
  BY DEF RecipientTable
<1> QED
  BY <1>1, <1>2, <1>3 DEF RowsGrow, RowsKept, RecipientRow

\* What recipients do to their own rows.
LEMMA RecipientRows ==
  ASSUME rcpt \in RecipientTable, NEW u \in Users, Recipient(u)
  PROVE  RowsGrow /\ RowsKept /\ UNCHANGED <<notif, api, work, mailed, promised, queue>>
<1>1. ASSUME NEW n \in Notifications, GetUserNotification(n, u)
      PROVE  RowsGrow /\ RowsKept /\ UNCHANGED <<notif, api, work, mailed, promised, queue>>
  <2> DEFINE row == [rcpt[n][u] EXCEPT !.delivered = TRUE]
  <2>1. rcpt[n][u] \in RecipientRow
    BY DEF RecipientTable
  <2>2. /\ row \in RecipientRow /\ row.exists = rcpt[n][u].exists
        /\ row.delivered = TRUE /\ row.marks = rcpt[n][u].marks
    BY <2>1 DEF RecipientRow
  <2> QED
    BY <1>1, <2>2, OwnedRows DEF GetUserNotification, OwnRow
<1>2. ASSUME NEW n \in Notifications, NEW mark \in Marks, SetMark(n, u, mark) \/ ClearMark(n, u, mark)
      PROVE  RowsGrow /\ RowsKept /\ UNCHANGED <<notif, api, work, mailed, promised, queue>>
  <2>1. rcpt[n][u] \in RecipientRow
    BY DEF RecipientTable
  <2>2. PICK marks \in {rcpt[n][u].marks \cup {mark}, rcpt[n][u].marks \ {mark}} :
          OwnRow(n, u, [rcpt[n][u] EXCEPT !.marks = marks])
    BY <1>2 DEF SetMark, ClearMark
  <2> DEFINE row == [rcpt[n][u] EXCEPT !.marks = marks]
  <2>3. /\ row \in RecipientRow /\ row.exists = rcpt[n][u].exists
        /\ row.delivered = rcpt[n][u].delivered
    BY <2>1, <2>2 DEF RecipientRow
  <2> QED
    BY <2>2, <2>3, OwnedRows DEF OwnRow
<1>3. ASSUME NEW S \in SUBSET Notifications, NEW mark \in Marks, Bulk(u, S, mark)
      PROVE  RowsGrow /\ RowsKept /\ UNCHANGED <<notif, api, work, mailed, promised, queue>>
  <2>1. ASSUME NEW row \in RecipientRow
        PROVE  LET new == [row EXCEPT !.marks = @ \cup {mark}] IN
               new \in RecipientRow /\ new.exists = row.exists /\ new.delivered = row.delivered
    BY DEF RecipientRow
  <2>2. /\ rcpt' = [n \in Notifications |->
                      IF n \in S /\ Visible(n, u)
                      THEN [rcpt[n] EXCEPT ![u] = [rcpt[n][u] EXCEPT !.marks = @ \cup {mark}]]
                      ELSE rcpt[n]]
        /\ UNCHANGED <<notif, api, work, mailed, promised, queue>>
    BY <1>3 DEF Bulk, RecipientTable
  <2>3. \A n \in Notifications, v \in Users : rcpt[n][v] \in RecipientRow
    BY DEF RecipientTable
  <2>4. \A n \in Notifications, v \in Users :
          rcpt'[n][v] = IF n \in S /\ Visible(n, u) /\ v = u
                        THEN [rcpt[n][v] EXCEPT !.marks = @ \cup {mark}] ELSE rcpt[n][v]
    BY <2>2 DEF RecipientTable
  <2>5. rcpt' \in RecipientTable
    BY <2>1, <2>2, <2>3 DEF RecipientTable
  <2> QED
    BY <2>1, <2>2, <2>3, <2>4, <2>5 DEF RowsGrow, RowsKept
<1> QED
  BY <1>1, <1>2, <1>3 DEF Recipient

\* The commit of a delivery stamps rows as they are by then.
LEMMA StampedRows ==
  ASSUME rcpt \in RecipientTable, NEW j \in Deliveries, DeliverCommit(j)
  PROVE  RowsGrow /\ RowsKept /\ \A u \in work[j].sent \cap Users : rcpt'[About[j]][u].delivered
<1> DEFINE n == About[j]
<1>1. n \in Notifications
  BY NotificationAssumption DEF NotificationAssumption
<1>2. ASSUME NEW row \in RecipientRow
      PROVE  LET new == [row EXCEPT !.delivered = TRUE] IN
             /\ new \in RecipientRow /\ new.exists = row.exists
             /\ new.marks = row.marks /\ new.delivered = TRUE
  BY DEF RecipientRow
<1>3. rcpt' = [rcpt EXCEPT ![n] =
                [u \in Users |-> IF u \in work[j].sent THEN [rcpt[n][u] EXCEPT !.delivered = TRUE]
                                 ELSE rcpt[n][u]]]
  BY <1>1 DEF DeliverCommit, Stamp, RecipientTable
<1>4. \A m \in Notifications, v \in Users : rcpt[m][v] \in RecipientRow
  BY DEF RecipientTable
<1>5. \A m \in Notifications, u \in Users :
        rcpt'[m][u] = IF m = n /\ u \in work[j].sent
                      THEN [rcpt[m][u] EXCEPT !.delivered = TRUE] ELSE rcpt[m][u]
  BY <1>1, <1>3 DEF RecipientTable
<1>6. rcpt' \in RecipientTable
  BY <1>1, <1>2, <1>3, <1>4 DEF RecipientTable
<1>7. ASSUME NEW m \in Notifications, NEW u \in Users
      PROVE  /\ rcpt[m][u].exists => rcpt'[m][u].exists
             /\ rcpt[m][u].delivered => rcpt'[m][u].delivered
             /\ rcpt'[m][u].exists = rcpt[m][u].exists /\ rcpt'[m][u].marks = rcpt[m][u].marks
             /\ m = n /\ u \in work[j].sent => rcpt'[n][u].delivered
  <2>1. CASE m = n /\ u \in work[j].sent
    <3>1. rcpt[m][u] \in RecipientRow /\ rcpt'[m][u] = [rcpt[m][u] EXCEPT !.delivered = TRUE]
      BY <1>4, <1>5, <2>1
    <3> QED
      BY <2>1, <3>1 DEF RecipientRow
  <2>2. CASE ~(m = n /\ u \in work[j].sent)
    BY <1>5, <2>2
  <2> QED
    BY <2>1, <2>2
<1> QED
  BY <1>1, <1>6, <1>7 DEF RowsGrow, RowsKept

-------------------------------------------------------------------------------
(* Type correctness *)

\* Steps of the queue by itself.
LEMMA QueueTypes ==
  ASSUME QueueTypeOK, NEW j \in Jobs,
         \/ Start(j) \/ GiveUp(j) \/ Report(j) \/ WorkerDies(j)
         \/ Accept(j) /\ tracked' = tracked
         \/ \E ok \in BOOLEAN : End(j, ok)
  PROVE  QueueTypeOK'
<1>1. job[j] \in JobRow /\ job[j].try \in 0..MaxTries /\ (job[j].try < MaxTries => job[j].try + 1 \in 0..MaxTries)
  BY QueueAssumption DEF QueueTypeOK, JobRow, QueueAssumption
<1>2. CASE Start(j)
  BY <1>1, <1>2 DEF QueueTypeOK, JobRow, Start, Tell, Tracking
<1>3. CASE GiveUp(j) \/ WorkerDies(j) \/ (Accept(j) /\ tracked' = tracked)
  BY <1>1, <1>3 DEF QueueTypeOK, JobRow, GiveUp, WorkerDies, Accept
<1>4. CASE Report(j)
  BY <1>1, <1>4 DEF QueueTypeOK, JobRow, Report, Tell, Tracking
<1>5. ASSUME NEW ok \in BOOLEAN, End(j, ok) PROVE QueueTypeOK'
  <2>1. [job[j] EXCEPT !.state = "ended", !.ok = ok] \in JobRow
    BY <1>1 DEF JobRow
  <2>2. job' = [job EXCEPT ![j] = [job[j] EXCEPT !.state = "ended", !.ok = ok]] /\ tracked' = tracked
    BY <1>5 DEF End, QueueTypeOK
  <2> QED
    BY <2>1, <2>2 DEF QueueTypeOK
<1> QED
  BY <1>2, <1>3, <1>4, <1>5

\* A session that has begun is about a notification.
ApiRow ==
  {c \in [at : ApiPlaces, note : Notifications \cup {0},
          users : SUBSET Users, job : Deliveries \cup {NoJob}] :
     c.at # "idle" => c.note \in Notifications}

WorkRow == [at : WorkPlaces, rows : SUBSET Users,
            seen : [Users -> RecipientRow], sent : SUBSET Users]

PromiseRow == [users : SUBSET Users, early : BOOLEAN]

TypeInv ==
  /\ QueueTypeOK
  /\ rcpt \in RecipientTable
  /\ api \in [Sessions -> ApiRow]
  /\ work \in [Deliveries -> WorkRow]
  /\ notif \in [Notifications -> NotifStatus]
  /\ mailed \in [Notifications -> SUBSET Users]
  /\ promised \in [Deliveries -> PromiseRow]

LEMMA QuietType == Quiet \in ApiRow /\ Fresh \in WorkRow /\ NoPromise \in PromiseRow
<1>1. NoRecipient \in RecipientRow
  BY DEF NoRecipient, RecipientRow
<1> QED
  BY <1>1 DEF Quiet, ApiPlaces, Fresh, WorkPlaces, ApiRow, WorkRow, NoPromise, PromiseRow

LEMMA TypeInit == JobsInit => TypeInv
<1> SUFFICES ASSUME JobsInit PROVE TypeInv
  OBVIOUS
<1>1. QueueTypeOK
  BY QueueAssumption DEF JobsInit, QueueInit, QueueTypeOK, JobRow, NewJob, Tracking, QueueAssumption
<1>2. NoRecipient \in RecipientRow
  BY DEF NoRecipient, RecipientRow
<1>3. rcpt \in RecipientTable
  BY <1>2 DEF JobsInit, NotificationInit, RecipientTable
<1> QED
  BY <1>1, <1>3, QuietType DEF JobsInit, NotificationInit, TypeInv, NotifStatus

\* Where an API session goes.
LEMMA MoveType ==
  ASSUME api \in [Sessions -> ApiRow], NEW s \in Sessions
  PROVE  /\ \A c \in ApiRow : Move(s, c) => api' \in [Sessions -> ApiRow]
         /\ Leave(s) => api' \in [Sessions -> ApiRow]
         /\ \A place \in ApiPlaces :
              ~At(s, "idle") /\ MoveTo(s, place) => api' \in [Sessions -> ApiRow]
         /\ ~At(s, "idle") /\ After(s) => api' \in [Sessions -> ApiRow]
<1>1. \A c \in ApiRow : Move(s, c) => api' \in [Sessions -> ApiRow]
  BY DEF Move
<1>2. ASSUME NEW place \in ApiPlaces, ~At(s, "idle"), MoveTo(s, place)
      PROVE  api' \in [Sessions -> ApiRow]
  <2>1. [api[s] EXCEPT !.at = place] \in ApiRow
    BY <1>2 DEF ApiRow, At
  <2> QED
    BY <1>2, <2>1 DEF MoveTo
<1>3. Leave(s) => api' \in [Sessions -> ApiRow]
  BY <1>1, QuietType DEF Leave
<1> QED
  BY <1>1, <1>2, <1>3 DEF After, ApiPlaces

LEMMA StaffType == \A n, S : S \in SUBSET Staff(n) => S \in SUBSET Users
BY DEF Staff

\* API sessions write notifications, rows of recipients and jobs.
LEMMA ApiTypes ==
  ASSUME TypeInv, NEW s \in Sessions, Api(s)
  PROVE  TypeInv' /\ RowsGrow
<1>0. rcpt \in RecipientTable /\ api \in [Sessions -> ApiRow] /\ api[s] \in ApiRow
  BY DEF TypeInv
<1>1. ASSUME UNCHANGED queue PROVE QueueTypeOK'
  BY <1>1 DEF TypeInv, queue, QueueTypeOK
<1>2. ASSUME NEW n \in Notifications, NEW S \in SUBSET Users, CreateNotification(s, n, S)
      PROVE  TypeInv' /\ RowsGrow
  <2>1. RowsGrow
    BY <1>0, <1>2, InsertedRows DEF CreateNotification
  <2>2. [at |-> "enqueue", note |-> n, users |-> S, job |-> NoJob] \in ApiRow
    BY DEF ApiRow, ApiPlaces
  <2>3. api' \in [Sessions -> ApiRow]
    BY <1>0, <1>2, <2>2, MoveType DEF CreateNotification
  <2> QED
    BY <1>1, <1>2, <2>1, <2>3 DEF CreateNotification, RowsGrow, NotifStatus, TypeInv
<1>3. ASSUME NEW n \in Notifications, NEW S \in SUBSET Users, Emit(s, n, S) \/ AssignRead(s, n, S)
      PROVE  TypeInv' /\ RowsGrow
  <2>1. \A place \in ApiPlaces, R \in SUBSET Users :
          [at |-> place, note |-> n, users |-> R, job |-> NoJob] \in ApiRow
    BY DEF ApiRow
  <2>2. api' \in [Sessions -> ApiRow]
    BY <1>0, <1>3, <2>1, MoveType DEF Emit, AssignRead, ApiPlaces
  <2>3. RowsGrow
    BY <1>0, <1>3, SameRows DEF Emit, AssignRead
  <2> QED
    BY <1>1, <1>3, <2>2, <2>3 DEF Emit, AssignRead, NotifStatus, TypeInv, RowsGrow
<1>4. CASE AssignInsert(s)
  <2>1. api[s].note \in Notifications /\ api[s].users \in SUBSET Users /\ ~At(s, "idle")
    BY <1>0, <1>4 DEF AssignInsert, ApiRow, At
  <2>2. api' \in [Sessions -> ApiRow]
    BY <1>0, <1>4, <2>1, MoveType DEF AssignInsert, ApiPlaces
  <2>3. RowsGrow
    BY <1>0, <1>4, <2>1, SameRows, InsertedRows DEF AssignInsert
  <2>4. UNCHANGED <<notif, work, mailed, promised, queue>>
    BY <1>4 DEF AssignInsert
  <2> QED
    BY <1>1, <2>2, <2>3, <2>4 DEF RowsGrow, TypeInv
<1>5. CASE EnqueueFails(s)
  <2>1. ~At(s, "idle")
    BY <1>5 DEF EnqueueFails, At
  <2>2. api' \in [Sessions -> ApiRow] /\ RowsGrow
    BY <1>0, <1>5, <2>1, MoveType, SameRows DEF EnqueueFails
  <2> QED
    BY <1>1, <1>5, <2>2 DEF EnqueueFails, TypeInv, RowsGrow
<1>6. CASE TrackJob(s)
  <2>1. ~At(s, "idle")
    BY <1>6 DEF TrackJob, At
  <2>2. api' \in [Sessions -> ApiRow] /\ RowsGrow
    BY <1>0, <1>6, <2>1, MoveType, SameRows DEF TrackJob
  <2>3. QueueTypeOK'
    BY <1>6 DEF TrackJob, Track, Tell, TypeInv, QueueTypeOK, Tracking
  <2> QED
    BY <1>6, <2>2, <2>3 DEF TrackJob, TypeInv, RowsGrow
<1>7. CASE EmitCommit(s)
  <2>1. api[s].note \in Notifications /\ api[s].users \in SUBSET Users
    BY <1>0, <1>7 DEF EmitCommit, ApiRow, At
  <2>2. api' \in [Sessions -> ApiRow]
    BY <1>0, <1>7, MoveType DEF EmitCommit
  <2>3. RowsGrow
    BY <1>0, <1>7, <2>1, SameRows, InsertedRows DEF EmitCommit
  <2>4. notif' \in [Notifications -> NotifStatus] /\ UNCHANGED <<work, mailed, promised, queue>>
    BY <1>7 DEF EmitCommit, TypeInv, NotifStatus
  <2> QED
    BY <1>1, <2>2, <2>3, <2>4 DEF RowsGrow, TypeInv
<1>8. ASSUME NEW j \in Deliveries, Enqueue(s, j)
      PROVE  TypeInv' /\ RowsGrow
  <2>1. /\ j \in Jobs /\ ~At(s, "idle")
    BY <1>8, NotificationAssumption DEF Enqueue, At, NotificationAssumption
  <2>2. QueueTypeOK'
    BY <1>8, <2>1, QueueTypes DEF Enqueue, TypeInv
  <2>3. RowsGrow
    BY <1>0, <1>8, SameRows DEF Enqueue
  <2>4. api' \in [Sessions -> ApiRow]
    <3>1. \A place \in ApiPlaces : [api[s] EXCEPT !.at = place, !.job = j] \in ApiRow
      BY <1>0, <2>1 DEF ApiRow, At
    <3>2. PICK place \in ApiPlaces : Move(s, [api[s] EXCEPT !.at = place, !.job = j])
      BY <1>0, <1>8 DEF Enqueue, ApiPlaces, ApiRow
    <3> QED
      BY <1>0, <3>1, <3>2, MoveType
  <2>5. promised' \in [Deliveries -> PromiseRow]
    BY <1>0, <1>8 DEF Enqueue, ApiRow, TypeInv, PromiseRow, At
  <2> QED
    BY <1>8, <2>2, <2>3, <2>4, <2>5 DEF Enqueue, TypeInv, RowsGrow
<1> QED
  BY <1>2, <1>3, <1>4, <1>5, <1>6, <1>7, <1>8, StaffType DEF Api

\* A page is of what it is a page of, and is all of it if that is little.
LEMMA PageOf ==
  ASSUME NEW S, NEW R \in Pages(S)
  PROVE  R \in SUBSET S /\ (Cardinality(S) <= PageSize => R = S)
BY DEF Pages

LEMMA EndTypes ==
  ASSUME TypeInv, NEW j \in Deliveries, NEW ok \in BOOLEAN, Finish(j, ok)
  PROVE  QueueTypeOK' /\ work' \in [Deliveries -> WorkRow]
<1>1. j \in Jobs
  BY NotificationAssumption DEF NotificationAssumption
<1> QED
  BY <1>1, QueueTypes, QuietType DEF Finish, TypeInv

\* Deliveries write their own work, rows of recipients and the job they are.
LEMMA DeliverTypes ==
  ASSUME TypeInv, NEW j \in Deliveries, Deliver(j) \/ DeliverDies(j)
  PROVE  TypeInv' /\ RowsGrow
<1>0. /\ rcpt \in RecipientTable /\ work \in [Deliveries -> WorkRow] /\ work[j] \in WorkRow
      /\ j \in Jobs /\ About[j] \in Notifications
  BY NotificationAssumption DEF TypeInv, NotificationAssumption
<1>1. ASSUME UNCHANGED queue PROVE QueueTypeOK'
  BY <1>1 DEF TypeInv, queue, QueueTypeOK
<1>2. CASE DeliverLoad(j)
  <2>1. RowsGrow /\ UNCHANGED <<notif, api, mailed, promised>>
    BY <1>0, <1>2, SameRows DEF DeliverLoad
  <2>2. \A rows \in Pages(Undelivered(About[j])) : rows \in SUBSET Users
    BY PageOf DEF Undelivered, Recipients
  <2>3. \A rows \in Pages(Undelivered(About[j])) :
          [at |-> "send", rows |-> rows, seen |-> rcpt[About[j]], sent |-> {}] \in WorkRow
    BY <1>0, <2>2 DEF WorkRow, WorkPlaces, RecipientTable
  <2>4. [work[j] EXCEPT !.at = "missing"] \in WorkRow
    BY <1>0 DEF WorkRow, WorkPlaces
  <2>5. \/ Finish(j, TRUE)
        \/ /\ UNCHANGED queue
           /\ \E c \in WorkRow : work' = [work EXCEPT ![j] = c]
    BY <1>0, <1>2, <2>3, <2>4 DEF DeliverLoad
  <2>6. QueueTypeOK' /\ work' \in [Deliveries -> WorkRow]
    BY <1>0, <1>1, <2>5, EndTypes
  <2> QED
    BY <2>1, <2>6 DEF TypeInv, RowsGrow
<1>3. ASSUME NEW u \in Users, DeliverTo(j, u)
      PROVE  TypeInv' /\ RowsGrow
  <2>1. [work[j] EXCEPT !.sent = @ \cup {u}] \in WorkRow
    BY <1>0 DEF WorkRow
  <2>2. work' \in [Deliveries -> WorkRow] /\ RowsGrow
    BY <1>0, <1>3, <2>1, SameRows DEF DeliverTo
  <2>3. mailed' \in [Notifications -> SUBSET Users]
    BY <1>0, <1>3 DEF DeliverTo, TypeInv
  <2> QED
    BY <1>1, <1>3, <2>2, <2>3 DEF DeliverTo, TypeInv, RowsGrow
<1>4. CASE DeliverCommit(j)
  <2>1. [Fresh EXCEPT !.at = "done"] \in WorkRow
    BY QuietType DEF WorkRow, WorkPlaces
  <2>2. work' \in [Deliveries -> WorkRow] /\ RowsGrow
    BY <1>0, <1>4, <2>1, StampedRows DEF DeliverCommit
  <2> QED
    BY <1>1, <1>4, <2>2 DEF DeliverCommit, TypeInv, RowsGrow
<1>5. CASE DeliverReturn(j) \/ DeliverRaises(j)
  <2>1. QueueTypeOK' /\ work' \in [Deliveries -> WorkRow]
    BY <1>5, EndTypes DEF DeliverReturn, DeliverRaises
  <2> QED
    BY <1>0, <1>5, <2>1, SameRows DEF DeliverReturn, DeliverRaises, TypeInv, RowsGrow
<1>6. CASE DeliverDies(j)
  <2>1. QueueTypeOK' /\ work' \in [Deliveries -> WorkRow]
    BY <1>0, <1>6, QueueTypes, QuietType DEF DeliverDies, TypeInv
  <2> QED
    BY <1>0, <1>6, <2>1, SameRows DEF DeliverDies, TypeInv, RowsGrow
<1> QED
  BY <1>2, <1>3, <1>4, <1>5, <1>6 DEF Deliver

\* An accrual changes no notice, and of the queue the job it is.
AccrualStep(j) ==
  /\ UNCHANGED notices
  /\ \/ UNCHANGED queue
     \/ Accept(j) /\ tracked' = tracked
     \/ WorkerDies(j)
     \/ \E ok \in BOOLEAN : End(j, ok)

LEMMA AccrualIsApart ==
  ASSUME UNCHANGED notices, AccrualNext \/ \E j \in Nights : NightDies(j)
  PROVE  UNCHANGED queue \/ \E j \in Nights : AccrualStep(j)
<1>1. ASSUME NEW j \in Nights, NightFalls(j) \/ NightReturns(j) \/ NightRaises(j) \/ NightDies(j)
      PROVE  AccrualStep(j)
  BY <1>1 DEF NightFalls, NightReturns, NightRaises, NightDies, AccrualStep
<1>2. ASSUME NEW j \in Nights, ListEmployees(j) \/ Probe(j) \/ Load(j) \/ Store(j)
      PROVE  UNCHANGED queue
  BY <1>2 DEF ListEmployees, Probe, Load, Store
<1>3. ASSUME NEW c \in Clerks, NEW e \in Employees, AssignTypesRead(c, e) \/ Hire(e)
      PROVE  UNCHANGED queue
  BY <1>3 DEF AssignTypesRead, Hire
<1>4. ASSUME NEW c \in Clerks, AssignTypesWrite(c)
      PROVE  UNCHANGED queue
  BY <1>4 DEF AssignTypesWrite
<1>5. ASSUME (\E e \in Employees : Hire(e)) \/ PeriodEnds
      PROVE  UNCHANGED queue
  BY <1>5 DEF PeriodEnds, Hire
<1> QED
  BY <1>1, <1>2, <1>3, <1>4, <1>5 DEF AccrualNext, Accrual

\* The steps of JobsNext as the deliveries see them.
LEMMA StepKinds ==
  ASSUME [JobsNext]_jobVars
  PROVE  \/ \E s \in Sessions : Api(s)
         \/ \E j \in Deliveries : Deliver(j) \/ DeliverDies(j)
         \/ \E u \in Users : Recipient(u)
         \/ UNCHANGED notices /\ \E j \in Jobs : Start(j) \/ GiveUp(j) \/ Report(j)
         \/ \E j \in Nights : AccrualStep(j)
         \/ UNCHANGED <<notices, queue>>
<1>1. CASE NotificationNext
  BY <1>1 DEF NotificationNext
<1>2. CASE AccrualNext /\ UNCHANGED <<notices, deaths>>
  BY <1>2, AccrualIsApart
<1>3. ASSUME NEW j \in Jobs, Dies(j)
      PROVE  \/ j \in Deliveries /\ DeliverDies(j)
             \/ UNCHANGED <<notices, queue>> \/ \E i \in Nights : AccrualStep(i)
  BY <1>3, AccrualIsApart DEF Dies
<1>4. ASSUME NEW j \in Jobs, Handle(j)
      PROVE  UNCHANGED notices /\ (Start(j) \/ GiveUp(j) \/ Report(j))
  BY <1>4 DEF Handle
<1>5. CASE UNCHANGED jobVars
  BY <1>5 DEF jobVars
<1> QED
  BY <1>1, <1>2, <1>3, <1>4, <1>5 DEF JobsNext

LEMMA TypeStep == TypeInv /\ [JobsNext]_jobVars => TypeInv' /\ RowsGrow
<1> SUFFICES ASSUME TypeInv, [JobsNext]_jobVars PROVE TypeInv' /\ RowsGrow
  OBVIOUS
<1>1. ASSUME UNCHANGED notices, QueueTypeOK' PROVE TypeInv' /\ RowsGrow
  BY <1>1, SameRows DEF TypeInv, notices
<1>2. ASSUME NEW u \in Users, Recipient(u) PROVE TypeInv' /\ RowsGrow
  BY <1>2, RecipientRows DEF TypeInv, RowsGrow, queue, QueueTypeOK
<1>3. CASE UNCHANGED notices /\ \E j \in Jobs : Start(j) \/ GiveUp(j) \/ Report(j)
  BY <1>1, <1>3, QueueTypes DEF TypeInv
<1>4. ASSUME NEW j \in Nights, AccrualStep(j) PROVE TypeInv' /\ RowsGrow
  <2>1. j \in Jobs
    BY AccrualAssumption DEF AccrualAssumption
  <2>2. QueueTypeOK'
    BY <1>4, <2>1, QueueTypes DEF AccrualStep, TypeInv, queue, QueueTypeOK
  <2> QED
    BY <1>1, <1>4, <2>2 DEF AccrualStep
<1>5. CASE UNCHANGED <<notices, queue>>
  BY <1>1, <1>5 DEF TypeInv, queue, QueueTypeOK
<1> QED
  BY <1>2, <1>3, <1>4, <1>5, StepKinds, ApiTypes, DeliverTypes

LEMMA TypeInvariant == JobsSpec => []TypeInv
<1> QED
  BY TypeInit, TypeStep, PTL DEF JobsSpec

\* A delivery takes back nothing a recipient did to a row it had loaded.
THEOREM MarksAreKept == JobsSpec => DeliveryKeepsMarks
<1> DEFINE Kept == \A n \in Notifications, u \in Users :
                     rcpt'[n][u].delivered # rcpt[n][u].delivered
                       => [rcpt'[n][u] EXCEPT !.delivered = FALSE] = rcpt[n][u]
<1>1. TypeInv /\ [JobsNext]_jobVars => [Kept]_<<queue, notices>>
  <2> SUFFICES ASSUME TypeInv, [JobsNext]_jobVars, NEW n \in Notifications, NEW u \in Users,
                      rcpt'[n][u].delivered # rcpt[n][u].delivered
               PROVE  [rcpt'[n][u] EXCEPT !.delivered = FALSE] = rcpt[n][u]
    OBVIOUS
  <2>1. rcpt[n][u] \in RecipientRow /\ rcpt'[n][u] \in RecipientRow
    BY TypeStep DEF TypeInv, RecipientTable
  <2>2. /\ rcpt[n][u].delivered => rcpt'[n][u].delivered
        /\ rcpt'[n][u].exists = rcpt[n][u].exists /\ rcpt'[n][u].marks = rcpt[n][u].marks
    BY TypeStep DEF RowsGrow
  <2> QED
    BY <2>1, <2>2 DEF RecipientRow
<1> QED
  BY TypeInvariant, <1>1, PTL DEF JobsSpec, DeliveryKeepsMarks


-------------------------------------------------------------------------------
(* What a delivery was enqueued for *)

Present(n, S) == \A u \in S : rcpt[n][u].exists
Delivered(j) == \A u \in promised[j].users : rcpt[About[j]][u].delivered

\* What delivers to all: one page holds the recipients, and if the job may run
\* before the commit, it finds nothing before it.
Reaches(j) ==
  /\ Cardinality(Recipients(About[j])) <= PageSize
  /\ promised[j].early => Org[About[j]] = About[j]

Emitting(s) == api[s].at \in {"emit.enqueue", "emit.track", "emit.commit"}

\* A session enqueues for rows that are there, or for rows of its own that are
\* about to be: one session at most has a notification open.
SessionInv ==
  /\ \A s \in Sessions :
       /\ At(s, "assign.insert") => notif[api[s].note] = "committed"
       /\ At(s, "enqueue") => /\ notif[api[s].note] = "committed"
                              /\ Present(api[s].note, api[s].users)
       /\ Emitting(s) => notif[api[s].note] = "open"
  /\ \A s, t \in Sessions : Emitting(s) /\ Emitting(t) /\ api[s].note = api[t].note => s = t

PromiseInv ==
  \A j \in Deliveries :
    /\ job[j].state = "new" => promised[j].users = {}
    /\ notif[About[j]] = "absent" => promised[j].users = {}
    /\ notif[About[j]] = "committed" \/ ~promised[j].early =>
         Present(About[j], promised[j].users)
    /\ \A s \in Sessions :
         Emitting(s) /\ api[s].note = About[j] => promised[j].users \subseteq api[s].users

\* The rows of recipients are those of a notification that is committed.
RowsInv ==
  \A n \in Notifications, u \in Users : rcpt[n][u].exists => notif[n] = "committed"

\* A delivery loads what it was enqueued for, but for what is delivered already.
DeliversRight(j) ==
  /\ job[j].state = "new" => work[j].at = "load" /\ ~job[j].ok /\ tracked[j] # "completed"
  /\ work[j].at = "send" =>
       /\ Found(About[j]) /\ Present(About[j], work[j].rows)
       /\ Reaches(j) =>
            \A u \in promised[j].users : u \in work[j].rows \/ rcpt[About[j]][u].delivered
  /\ work[j].at = "done" \/ job[j].ok \/ tracked[j] = "completed" =>
       (Reaches(j) => Delivered(j))

DeliverInv == \A j \in Deliveries : DeliversRight(j)

DeliveryInv ==
  TypeInv /\ SessionInv /\ PromiseInv /\ RowsInv /\ DeliverInv /\ NoMailBeforeCommit

LEMMA DeliveryInit == JobsInit => DeliveryInv
<1> SUFFICES ASSUME JobsInit PROVE DeliveryInv
  OBVIOUS
<1>1. TypeInv
  BY TypeInit
<1>2. SessionInv
  BY DEF JobsInit, NotificationInit, SessionInv, At, Emitting, Quiet
<1>3. \A j \in Deliveries : j \in Jobs /\ About[j] \in Notifications
  BY NotificationAssumption DEF NotificationAssumption
<1>4. PromiseInv /\ DeliverInv /\ RowsInv
  BY <1>3 DEF JobsInit, NotificationInit, QueueInit, NewJob, Fresh, Quiet, NoPromise, NoRecipient,
              PromiseInv, DeliverInv, RowsInv, DeliversRight, Emitting, Present, Delivered
<1>5. NoMailBeforeCommit
  BY DEF JobsInit, NotificationInit, NoMailBeforeCommit
<1> QED
  BY <1>1, <1>2, <1>4, <1>5 DEF DeliveryInv


\* A step of the queue tells nothing that its jobs do not.
QueueKeeps ==
  \A j \in Deliveries :
    /\ job'[j].state = "new" => job[j].state = "new"
    /\ job'[j].ok => job[j].ok
    /\ tracked'[j] = "completed" => tracked[j] = "completed" \/ job[j].ok

LEMMA SameQueue == UNCHANGED queue => QueueKeeps
BY DEF queue, QueueKeeps

LEMMA QueueSteps ==
  ASSUME QueueTypeOK, NEW j \in Jobs,
         \/ Start(j) \/ GiveUp(j) \/ Report(j) \/ WorkerDies(j)
         \/ Accept(j) /\ tracked' = tracked
         \/ End(j, FALSE)
         \/ j \notin Deliveries /\ \E ok \in BOOLEAN : End(j, ok)
  PROVE  QueueKeeps
<1> SUFFICES ASSUME NEW i \in Deliveries
             PROVE  /\ job'[i].state = "new" => job[i].state = "new"
                    /\ job'[i].ok => job[i].ok
                    /\ tracked'[i] = "completed" => tracked[i] = "completed" \/ job[i].ok
  BY DEF QueueKeeps
<1>1. i \in Jobs /\ job[i] \in JobRow /\ job[j] \in JobRow
  BY NotificationAssumption DEF NotificationAssumption, QueueTypeOK
<1>2. CASE i # j
  BY <1>1, <1>2 DEF Start, GiveUp, Report, WorkerDies, Accept, End, Tell, QueueTypeOK
<1>3. CASE i = j
  BY <1>1, <1>3 DEF Start, GiveUp, Report, WorkerDies, Accept, End, Tell, QueueTypeOK, JobRow
<1> QED
  BY <1>2, <1>3

LEMMA PresentGrows ==
  ASSUME RowsGrow
  PROVE  \A n \in Notifications : \A S \in SUBSET Users :
           Present(n, S) => \A u \in S : rcpt'[n][u].exists
BY DEF RowsGrow, Present

\* Recipients become more, so what reaches all of them did so before.
LEMMA ReachedBefore ==
  ASSUME RowsGrow, NEW j \in Deliveries, promised'[j] = promised[j], Reaches(j)'
  PROVE  Reaches(j)
<1> DEFINE n == About[j]
<1>1. n \in Notifications
  BY NotificationAssumption DEF NotificationAssumption
<1>2. /\ Recipients(n) \subseteq Recipients(n)' /\ Recipients(n)' \subseteq Users
  BY <1>1 DEF Recipients, RowsGrow
<1>3. IsFiniteSet(Recipients(n)')
  BY <1>2, FS_Subset, NotificationAssumption DEF NotificationAssumption
<1>4. Cardinality(Recipients(n)) <= Cardinality(Recipients(n)')
  BY <1>2, <1>3, FS_Subset
<1>5. Cardinality(Recipients(n)) \in Nat /\ Cardinality(Recipients(n)') \in Nat
  BY <1>2, <1>3, FS_Subset, FS_CardinalityType
<1>6. PageSize \in Nat /\ Cardinality(Recipients(n)') <= PageSize
  BY NotificationAssumption DEF NotificationAssumption, Reaches
<1>7. Cardinality(Recipients(n)) <= PageSize
  BY <1>4, <1>5, <1>6
<1> QED
  BY <1>7 DEF Reaches

CommitsStay == \A n \in Notifications : notif[n] = "committed" => notif'[n] = "committed"

LEMMA FoundStays ==
  ASSUME CommitsStay, NEW n, Found(n)
  PROVE  Found(n)'
BY DEF CommitsStay, Found

\* What is true of a delivery that stays where it is.
LEMMA RightStays ==
  ASSUME TypeInv, RowsGrow, NEW j \in Deliveries, DeliversRight(j),
         work'[j] = work[j], promised'[j] = promised[j], CommitsStay,
         job'[j].state = "new" => job[j].state = "new",
         job'[j].ok => job[j].ok,
         tracked'[j] = "completed" => tracked[j] = "completed" \/ job[j].ok
  PROVE  DeliversRight(j)'
<1>1. /\ About[j] \in Notifications
      /\ promised[j].users \in SUBSET Users /\ work[j].rows \in SUBSET Users
  BY NotificationAssumption DEF NotificationAssumption, TypeInv, WorkRow, PromiseRow
<1>2. \A u \in promised[j].users : rcpt[About[j]][u].delivered => rcpt'[About[j]][u].delivered
  BY <1>1 DEF RowsGrow
<1>3. Present(About[j], work[j].rows) => \A u \in work[j].rows : rcpt'[About[j]][u].exists
  BY <1>1, PresentGrows
<1>4. (Reaches(j)' => Reaches(j)) /\ (Found(About[j]) => Found(About[j])')
  BY ReachedBefore, FoundStays
<1>5. work[j].at = "send" =>
        /\ Found(About[j])' /\ Present(About[j], work[j].rows)'
        /\ Reaches(j)' =>
             \A u \in promised[j].users : u \in work[j].rows \/ rcpt'[About[j]][u].delivered
  BY <1>2, <1>3, <1>4 DEF DeliversRight, Present
<1>6. work[j].at = "done" \/ job[j].ok \/ tracked[j] = "completed" =>
        (Reaches(j)' => \A u \in promised[j].users : rcpt'[About[j]][u].delivered)
  BY <1>2, <1>4 DEF DeliversRight, Delivered
<1> HIDE DEF CommitsStay
<1> QED
  BY <1>5, <1>6 DEF DeliversRight, Delivered, Present

\* Steps that leave sessions and deliveries where they are.
LEMMA RowsStep ==
  ASSUME DeliveryInv, TypeInv', RowsGrow, RowsKept, QueueKeeps,
         UNCHANGED <<notif, api, work, mailed, promised>>
  PROVE  DeliveryInv'
<1>1. SessionInv'
  <2>1. \A s \in Sessions : At(s, "enqueue") =>
          api[s].note \in Notifications /\ api[s].users \in SUBSET Users
    BY DEF DeliveryInv, TypeInv, ApiRow, At
  <2> QED
    BY <2>1, PresentGrows DEF DeliveryInv, SessionInv, At, Emitting, Present
<1>2. \A j \in Deliveries : /\ About[j] \in Notifications
                            /\ promised[j].users \in SUBSET Users /\ work[j].rows \in SUBSET Users
  BY NotificationAssumption DEF NotificationAssumption, DeliveryInv, TypeInv, WorkRow, PromiseRow
<1>3. PromiseInv'
  BY <1>2, PresentGrows DEF DeliveryInv, PromiseInv, QueueKeeps, Emitting, Present
<1>4. DeliverInv'
  <2> SUFFICES ASSUME NEW j \in Deliveries PROVE DeliversRight(j)'
    BY DEF DeliverInv
  <2>1. DeliversRight(j)
    BY DEF DeliveryInv, DeliverInv
  <2> QED
    BY <2>1, RightStays DEF DeliveryInv, QueueKeeps, CommitsStay
<1>5. NoMailBeforeCommit'
  BY DEF DeliveryInv, NoMailBeforeCommit, RowsGrow, Found
<1>6. RowsInv'
  BY DEF DeliveryInv, RowsInv, RowsKept
<1> QED
  BY <1>1, <1>3, <1>4, <1>5, <1>6 DEF DeliveryInv


\* The steps of a delivery change its own work, its job and the rows it sends.
LEMMA DeliverFrame ==
  ASSUME TypeInv, NEW j \in Deliveries, Deliver(j) \/ DeliverDies(j)
  PROVE  /\ UNCHANGED <<notif, api, promised, tracked>>
         /\ job[j].state = "running" /\ job'[j].state # "new"
         /\ \A i \in Deliveries : i # j => job'[i] = job[i] /\ work'[i] = work[i]
         /\ \A i \in Deliveries : job'[i].state = "new" => job[i].state = "new"
<1>0. j \in Jobs /\ job \in [Jobs -> JobRow] /\ job[j] \in JobRow /\ work \in [Deliveries -> WorkRow]
  BY NotificationAssumption DEF NotificationAssumption, TypeInv, QueueTypeOK
<1>1. \A i \in Deliveries : i \in Jobs
  BY NotificationAssumption DEF NotificationAssumption
<1>2. ASSUME NEW ok \in BOOLEAN, Finish(j, ok)
      PROVE  /\ tracked' = tracked /\ job[j].state = "running" /\ job'[j].state # "new"
             /\ \A i \in Deliveries : i # j => job'[i] = job[i] /\ work'[i] = work[i]
  BY <1>0, <1>1, <1>2 DEF Finish, End, Running, JobRow
<1>3. CASE DeliverDies(j)
  BY <1>0, <1>1, <1>3 DEF DeliverDies, WorkerDies, Running, JobRow
<1>4. CASE DeliverLoad(j)
  BY <1>0, <1>1, <1>2, <1>4 DEF DeliverLoad, Running, queue
<1>5. CASE DeliverReturn(j) \/ DeliverRaises(j)
  BY <1>0, <1>2, <1>5 DEF DeliverReturn, DeliverRaises
<1>6. CASE DeliverCommit(j) \/ \E u \in Users : DeliverTo(j, u)
  BY <1>0, <1>1, <1>6 DEF DeliverCommit, DeliverTo, Running, queue
<1> QED
  BY <1>3, <1>4, <1>5, <1>6 DEF Deliver

LEMMA DeliverRight ==
  ASSUME DeliveryInv, RowsGrow, NEW j \in Deliveries, Deliver(j) \/ DeliverDies(j)
  PROVE  DeliversRight(j)'
<1> DEFINE n == About[j]
<1>0. /\ j \in Jobs /\ n \in Notifications /\ rcpt \in RecipientTable /\ work[j] \in WorkRow
      /\ work \in [Deliveries -> WorkRow] /\ job[j] \in JobRow /\ job \in [Jobs -> JobRow]
      /\ promised[j].users \in SUBSET Users
  BY NotificationAssumption
     DEF NotificationAssumption, DeliveryInv, TypeInv, QueueTypeOK, PromiseRow
<1>1. /\ UNCHANGED <<notif, api, promised, tracked>>
      /\ job[j].state = "running" /\ job'[j].state # "new"
  BY DeliverFrame DEF DeliveryInv
<1>2. (Delivered(j) => Delivered(j)') /\ (Reaches(j)' => Reaches(j))
  BY <1>0, <1>1, ReachedBefore DEF Delivered, RowsGrow
<1>3. DeliversRight(j)
  BY DEF DeliveryInv, DeliverInv
<1>4. ASSUME work'[j].at \notin {"send", "done"},
             job'[j].ok => job[j].ok \/ (Reaches(j) => Delivered(j))
      PROVE  DeliversRight(j)'
  BY <1>1, <1>2, <1>3, <1>4 DEF DeliversRight
<1>5. ASSUME NEW ok \in BOOLEAN, Finish(j, ok), ok => (Reaches(j) => Delivered(j))
      PROVE  DeliversRight(j)'
  <2>1. work'[j].at = "load" /\ (job'[j].ok = ok)
    BY <1>0, <1>5 DEF Finish, End, JobRow, Fresh
  <2> QED
    BY <1>4, <1>5, <2>1
<1>7. CASE DeliverLoad(j)
  <2>1. CASE ~Found(n) /\ work' = [work EXCEPT ![j].at = "missing"] /\ UNCHANGED queue
    <3>1. work'[j].at = "missing" /\ job' = job
      BY <1>0, <2>1 DEF WorkRow, queue
    <3> QED
      BY <1>4, <3>1
  <2>p. Found(n) /\ Reaches(j) => Present(n, promised[j].users)
    BY DEF Found, Reaches, DeliveryInv, PromiseInv
  <2>2. CASE Found(n) /\ Undelivered(n) = {} /\ Finish(j, TRUE)
    <3>1. Reaches(j) => Delivered(j)
      BY <1>0, <2>p, <2>2 DEF Undelivered, Recipients, Delivered, Present
    <3> QED
      BY <1>5, <2>2, <3>1
  <2>3. ASSUME Found(n), NEW rows \in Pages(Undelivered(n)), UNCHANGED queue,
               work' = [work EXCEPT ![j] = [at |-> "send", rows |-> rows,
                                            seen |-> rcpt[n], sent |-> {}]]
        PROVE  DeliversRight(j)'
    <3>1. /\ work'[j].at = "send" /\ work'[j].rows = rows
          /\ notif' = notif /\ job' = job /\ rcpt' = rcpt
      BY <1>0, <1>7, <2>3 DEF queue, DeliverLoad
    <3>2. rows \subseteq Undelivered(n)
      BY <2>3, PageOf
    <3>3. Present(n, rows)' /\ Found(n)'
      BY <2>3, <3>1, <3>2 DEF Undelivered, Recipients, Present, Found
    <3>4. ASSUME Reaches(j) PROVE rows = Undelivered(n)
      <4>1. Undelivered(n) \subseteq Recipients(n) /\ Recipients(n) \subseteq Users
        BY DEF Undelivered, Recipients
      <4>2. /\ IsFiniteSet(Recipients(n)) /\ IsFiniteSet(Undelivered(n))
            /\ Cardinality(Undelivered(n)) <= Cardinality(Recipients(n))
        BY <4>1, FS_Subset, NotificationAssumption DEF NotificationAssumption
      <4>3. Cardinality(Undelivered(n)) \in Nat /\ Cardinality(Recipients(n)) \in Nat
        BY <4>2, FS_CardinalityType
      <4>4. Cardinality(Undelivered(n)) <= PageSize
        BY <3>4, <4>2, <4>3, NotificationAssumption DEF NotificationAssumption, Reaches
      <4> QED
        BY <2>3, <4>4, PageOf
    <3>5. Reaches(j) => \A u \in promised[j].users : u \in rows \/ rcpt[n][u].delivered
      BY <1>0, <2>p, <2>3, <3>4 DEF Present, Undelivered, Recipients
    <3> QED
      BY <1>1, <1>2, <1>3, <3>1, <3>3, <3>5 DEF DeliversRight
  <2> QED
    BY <1>7, <2>1, <2>2, <2>3 DEF DeliverLoad
<1>8. ASSUME NEW u \in Users, DeliverTo(j, u)
      PROVE  DeliversRight(j)'
  <2>1. /\ work'[j].at = "send" /\ work'[j].rows = work[j].rows /\ work[j].at = "send"
        /\ job' = job /\ rcpt' = rcpt
    BY <1>0, <1>8 DEF DeliverTo, queue, WorkRow
  <2>2. Present(n, work[j].rows)' /\ Found(n)'
    BY <1>1, <1>3, <2>1 DEF DeliversRight, Present, Found
  <2> QED
    BY <1>1, <1>2, <1>3, <2>1, <2>2 DEF DeliversRight
<1>9. CASE DeliverCommit(j)
  <2>1. /\ work'[j].at = "done" /\ job' = job
        /\ work[j].at = "send" /\ work[j].sent = work[j].rows
    BY <1>0, <1>9 DEF DeliverCommit, queue, Fresh
  <2>2. \A u \in work[j].sent \cap Users : rcpt'[n][u].delivered
    BY <1>0, <1>9, StampedRows
  <2>3. Reaches(j) => \A u \in promised[j].users : u \in work[j].sent \/ rcpt[n][u].delivered
    BY <1>3, <2>1 DEF DeliversRight
  <2>4. Reaches(j) => Delivered(j)'
    BY <1>0, <1>1, <2>2, <2>3 DEF Delivered, RowsGrow
  <2> QED
    BY <1>1, <1>2, <2>1, <2>4 DEF DeliversRight
<1>10. CASE DeliverReturn(j)
  <2>1. Finish(j, TRUE) /\ (Reaches(j) => Delivered(j))
    BY <1>3, <1>10 DEF DeliverReturn, DeliversRight
  <2> QED
    BY <1>5, <2>1
<1>11. CASE DeliverRaises(j)
  <2>1. Finish(j, FALSE)
    BY <1>11 DEF DeliverRaises
  <2> QED
    BY <1>5, <2>1
<1>12. CASE DeliverDies(j)
  <2>1. work'[j].at = "load" /\ job'[j].ok = job[j].ok
    BY <1>0, <1>12 DEF DeliverDies, WorkerDies, JobRow, Fresh
  <2> QED
    BY <1>4, <2>1
<1> QED
  BY <1>7, <1>8, <1>9, <1>10, <1>11, <1>12 DEF Deliver


LEMMA DeliverStep ==
  ASSUME DeliveryInv, TypeInv', RowsGrow, NEW j \in Deliveries, Deliver(j) \/ DeliverDies(j)
  PROVE  DeliveryInv'
<1>0. /\ j \in Jobs /\ About[j] \in Notifications /\ work[j] \in WorkRow
  BY NotificationAssumption DEF NotificationAssumption, DeliveryInv, TypeInv
<1>1. /\ UNCHANGED <<notif, api, promised, tracked>>
      /\ \A i \in Deliveries : i # j => job'[i] = job[i] /\ work'[i] = work[i]
      /\ \A i \in Deliveries : job'[i].state = "new" => job[i].state = "new"
  BY DeliverFrame DEF DeliveryInv
<1>2. SessionInv'
  <2>1. \A s \in Sessions : At(s, "enqueue") =>
          api[s].note \in Notifications /\ api[s].users \in SUBSET Users
    BY DEF DeliveryInv, TypeInv, ApiRow, At
  <2> QED
    BY <1>1, <2>1, PresentGrows DEF DeliveryInv, SessionInv, At, Emitting, Present
<1>3. PromiseInv'
  <2>1. \A i \in Deliveries : About[i] \in Notifications /\ promised[i].users \in SUBSET Users
    BY NotificationAssumption DEF NotificationAssumption, DeliveryInv, TypeInv, PromiseRow
  <2> QED
    BY <1>1, <2>1, PresentGrows DEF DeliveryInv, PromiseInv, Emitting, Present
<1>4. DeliverInv'
  <2> SUFFICES ASSUME NEW i \in Deliveries PROVE DeliversRight(i)'
    BY DEF DeliverInv
  <2>1. CASE i = j
    BY <2>1, DeliverRight
  <2>2. CASE i # j
    <3>1. DeliversRight(i) /\ TypeInv
      BY DEF DeliveryInv, DeliverInv
    <3> QED
      BY <1>1, <2>2, <3>1, RightStays DEF CommitsStay
  <2> QED
    BY <2>1, <2>2
<1>5. NoMailBeforeCommit'
  <2>1. CASE mailed' = mailed
    BY <1>1, <2>1 DEF DeliveryInv, NoMailBeforeCommit, RowsGrow, Found
  <2>2. ASSUME NEW u \in Users, DeliverTo(j, u)
        PROVE  NoMailBeforeCommit'
    <3>1. Found(About[j]) /\ rcpt[About[j]][u].exists /\ rcpt' = rcpt
      BY <1>0, <2>2 DEF DeliverTo, DeliveryInv, DeliverInv, DeliversRight, Present
    <3>n. notif[About[j]] = "committed"
      BY <1>0, <3>1 DEF DeliveryInv, RowsInv
    <3>2. \A m \in Notifications, v \in Users :
            v \in mailed'[m] => v \in mailed[m] \/ (m = About[j] /\ v = u)
      BY <2>2 DEF DeliverTo, DeliveryInv, TypeInv
    <3> QED
      BY <1>1, <3>1, <3>n, <3>2 DEF DeliveryInv, NoMailBeforeCommit, Found
  <2>3. mailed' = mailed \/ \E u \in Users : DeliverTo(j, u)
    BY DEF Deliver, DeliverLoad, DeliverCommit, DeliverReturn, DeliverRaises, DeliverDies
  <2> QED
    BY <2>1, <2>2, <2>3
<1>6. RowsInv'
  <2>1. RowsKept
    <3>1. rcpt' = rcpt \/ DeliverCommit(j)
      BY DEF Deliver, DeliverLoad, DeliverTo, DeliverReturn, DeliverRaises, DeliverDies
    <3> QED
      BY <3>1, SameRows, StampedRows DEF DeliveryInv, TypeInv
  <2> QED
    BY <1>1, <2>1 DEF DeliveryInv, RowsInv, RowsKept
<1> QED
  BY <1>2, <1>3, <1>4, <1>5, <1>6 DEF DeliveryInv

\* A session begins, writes and ends without touching what others rely on.
LEMMA ApiFrame ==
  ASSUME TypeInv, NEW s \in Sessions, Api(s)
  PROVE  /\ mailed' = mailed /\ work' = work
         /\ \A t \in Sessions : t # s => api'[t] = api[t]
         /\ api'[s] \in ApiRow
<1>1. api \in [Sessions -> ApiRow] /\ api' \in [Sessions -> ApiRow]
  BY ApiTypes DEF TypeInv
<1>2. \E c : api' = [api EXCEPT ![s] = c]
  <2>1. \A c : Move(s, c) => \E d : api' = [api EXCEPT ![s] = d]
    BY DEF Move
  <2>2. \A place : MoveTo(s, place) => \E d : api' = [api EXCEPT ![s] = d]
    BY <1>1 DEF MoveTo
  <2>3. api' = api => \E d : api' = [api EXCEPT ![s] = d]
    BY <1>1
  <2> QED
    BY <2>1, <2>2, <2>3 DEF Api, CreateNotification, Emit, AssignRead, AssignInsert, EnqueueFails,
         TrackJob, EmitCommit, Enqueue, After, Leave
<1>3. mailed' = mailed /\ work' = work
  BY DEF Api, CreateNotification, Emit, AssignRead, AssignInsert, EnqueueFails,
         TrackJob, EmitCommit, Enqueue
<1> QED
  BY <1>1, <1>2, <1>3

LEMMA CommittedStays ==
  ASSUME DeliveryInv, NEW s \in Sessions, Api(s), NEW n \in Notifications, notif[n] = "committed"
  PROVE  notif'[n] = "committed"
<1>1. CASE UNCHANGED notif
  BY <1>1
<1>2. ASSUME NEW m \in Notifications, NEW S \in SUBSET Users, CreateNotification(s, m, S) \/ Emit(s, m, S)
      PROVE  notif'[n] = "committed"
  BY <1>2 DEF CreateNotification, Emit, DeliveryInv, TypeInv
<1>3. CASE EmitCommit(s)
  BY <1>3 DEF EmitCommit, DeliveryInv, TypeInv, SessionInv, Emitting, At
<1> QED
  BY <1>1, <1>2, <1>3, StaffType DEF Api, AssignRead, AssignInsert, EnqueueFails, TrackJob, Enqueue


LEMMA OpenStays ==
  ASSUME DeliveryInv, NEW s \in Sessions, Api(s), NEW t \in Sessions, t # s, Emitting(t)
  PROVE  notif'[api[t].note] = "open"
<1>0. /\ notif \in [Notifications -> NotifStatus] /\ notif[api[t].note] = "open"
      /\ api[t].note \in Notifications
  BY DEF DeliveryInv, TypeInv, SessionInv, ApiRow, Emitting
<1>1. CASE UNCHANGED notif
  BY <1>0, <1>1
<1>2. ASSUME NEW m \in Notifications, NEW S \in SUBSET Users, CreateNotification(s, m, S) \/ Emit(s, m, S)
      PROVE  notif'[api[t].note] = "open"
  <2>1. m # api[t].note /\ \E v : notif' = [notif EXCEPT ![m] = v]
    BY <1>0, <1>2 DEF CreateNotification, Emit
  <2> QED
    BY <1>0, <2>1
<1>3. CASE EmitCommit(s)
  <2>1. api[s].note # api[t].note /\ \E v : notif' = [notif EXCEPT ![api[s].note] = v]
    BY <1>3 DEF EmitCommit, DeliveryInv, SessionInv, Emitting, At
  <2> QED
    BY <1>0, <2>1
<1> QED
  BY <1>1, <1>2, <1>3, StaffType DEF Api, AssignRead, AssignInsert, EnqueueFails, TrackJob, Enqueue

\* Where the session itself gets to.
LEMMA OwnSession ==
  ASSUME DeliveryInv, TypeInv', RowsGrow, NEW s \in Sessions, Api(s)
  PROVE  /\ api'[s].at = "assign.insert" => notif'[api'[s].note] = "committed"
         /\ api'[s].at = "enqueue" => /\ notif'[api'[s].note] = "committed"
                                      /\ \A u \in api'[s].users : rcpt'[api'[s].note][u].exists
         /\ Emitting(s)' =>
              /\ notif'[api'[s].note] = "open"
              /\ \/ /\ Emitting(s) /\ api'[s].note = api[s].note
                    /\ api'[s].users = api[s].users
                 \/ notif[api'[s].note] = "absent"
<1>0. /\ notif \in [Notifications -> NotifStatus] /\ api \in [Sessions -> ApiRow] /\ api[s] \in ApiRow
      /\ rcpt \in RecipientTable
  BY DEF DeliveryInv, TypeInv
<1> DEFINE Goal == /\ api'[s].at = "assign.insert" => notif'[api'[s].note] = "committed"
                   /\ api'[s].at = "enqueue" => /\ notif'[api'[s].note] = "committed"
                                                /\ \A u \in api'[s].users : rcpt'[api'[s].note][u].exists
                   /\ Emitting(s)' =>
                        /\ notif'[api'[s].note] = "open"
                        /\ \/ /\ Emitting(s) /\ api'[s].note = api[s].note
                              /\ api'[s].users = api[s].users
                           \/ notif[api'[s].note] = "absent"
<1>1. \A c : Move(s, c) => api'[s] = c
  BY <1>0 DEF Move
<1>2. Leave(s) => api'[s].at = "idle"
  BY <1>1 DEF Leave, Quiet
<1>3. \A place : MoveTo(s, place) =>
        api'[s].at = place /\ api'[s].note = api[s].note /\ api'[s].users = api[s].users
  BY <1>0 DEF MoveTo, ApiRow
<1>4. ASSUME NEW n \in Notifications, NEW S \in SUBSET Users, CreateNotification(s, n, S)
      PROVE  Goal
  <2>1. CASE S = {}
    BY <1>0, <1>4, <2>1 DEF CreateNotification, Emitting, At
  <2>2. CASE S # {}
    <3>1. api'[s].at = "enqueue" /\ api'[s].note = n /\ api'[s].users = S
      BY <1>1, <1>4, <2>2 DEF CreateNotification
    <3>2. notif'[n] = "committed" /\ \A u \in S : rcpt'[n][u].exists
      BY <1>0, <1>4, InsertedRows DEF CreateNotification
    <3> QED
      BY <3>1, <3>2 DEF Emitting
  <2> QED
    BY <2>1, <2>2
<1>5. ASSUME NEW n \in Notifications, NEW S \in SUBSET Users, Emit(s, n, S)
      PROVE  Goal
  <2>1. api'[s].at = "emit.enqueue" /\ api'[s].note = n
    BY <1>1, <1>5 DEF Emit
  <2>2. notif[n] = "absent" /\ notif'[n] = "open"
    BY <1>0, <1>5 DEF Emit
  <2> QED
    BY <2>1, <2>2
<1>6. ASSUME NEW n \in Notifications, NEW S \in SUBSET Users, AssignRead(s, n, S)
      PROVE  Goal
  <2>1. api'[s].at = "assign.insert" /\ api'[s].note = n /\ notif'[n] = "committed"
    BY <1>1, <1>6 DEF AssignRead
  <2> QED
    BY <2>1 DEF Emitting
<1>7. CASE AssignInsert(s)
  <2>1. CASE Leave(s)
    BY <1>2, <2>1 DEF Emitting
  <2>2. CASE rcpt' = WithRecipients(api[s].note, api[s].users) /\ MoveTo(s, "enqueue")
    <3>1. notif'[api[s].note] = "committed" /\ api[s].note \in Notifications /\ api[s].users \in SUBSET Users
      BY <1>0, <1>7 DEF AssignInsert, DeliveryInv, SessionInv, ApiRow, At
    <3>2. \A u \in api[s].users : rcpt'[api[s].note][u].exists
      BY <1>0, <2>2, <3>1, InsertedRows
    <3> QED
      BY <1>3, <2>2, <3>1, <3>2 DEF Emitting
  <2> QED
    BY <1>7, <2>1, <2>2 DEF AssignInsert
<1>8. CASE EnqueueFails(s) \/ TrackJob(s)
  <2>1. After(s) /\ notif' = notif
    BY <1>8 DEF EnqueueFails, TrackJob
  <2>2. CASE Leave(s)
    BY <1>2, <2>2 DEF Emitting
  <2>3. CASE MoveTo(s, "emit.commit") /\ ~(At(s, "enqueue") \/ At(s, "track"))
    <3>1. Emitting(s) /\ notif[api[s].note] = "open"
      BY <1>8, <2>3 DEF EnqueueFails, TrackJob, At, Emitting, DeliveryInv, SessionInv
    <3> QED
      BY <1>3, <2>1, <2>3, <3>1
  <2> QED
    BY <2>1, <2>2, <2>3 DEF After
<1>9. CASE EmitCommit(s)
  BY <1>2, <1>9 DEF EmitCommit, Emitting
<1>10. ASSUME NEW j \in Deliveries, Enqueue(s, j)
       PROVE  Goal
  <2>1. /\ api'[s].at = IF At(s, "enqueue") THEN "track" ELSE "emit.track"
        /\ api'[s].note = api[s].note /\ api'[s].users = api[s].users /\ notif' = notif
    BY <1>0, <1>10 DEF Enqueue, Move, At, ApiRow
  <2>2. ~At(s, "enqueue") => Emitting(s) /\ notif[api[s].note] = "open"
    BY <1>10 DEF Enqueue, At, Emitting, DeliveryInv, SessionInv
  <2> QED
    BY <2>1, <2>2 DEF Emitting
<1> QED
  BY <1>4, <1>5, <1>6, <1>7, <1>8, <1>9, <1>10, StaffType DEF Api


\* What a session makes of the jobs: one that it enqueues, at most.
LEMMA ApiJobs ==
  ASSUME TypeInv, NEW s \in Sessions, Api(s), NEW i \in Deliveries
  PROVE  /\ job'[i].state = "new" => job[i].state = "new"
         /\ job'[i].ok = job[i].ok
         /\ tracked'[i] = "completed" => tracked[i] = "completed"
         /\ promised'[i] # promised[i] => Enqueue(s, i) /\ job'[i].state = "queued"
<1>0. /\ i \in Jobs /\ job \in [Jobs -> JobRow] /\ tracked \in [Jobs -> Tracking] /\ job[i] \in JobRow
      /\ promised \in [Deliveries -> PromiseRow]
  BY NotificationAssumption DEF NotificationAssumption, TypeInv, QueueTypeOK
<1>1. CASE UNCHANGED <<queue, promised>>
  BY <1>1 DEF queue
<1>2. CASE TrackJob(s)
  BY <1>0, <1>2 DEF TrackJob, Track, Tell
<1>3. ASSUME NEW j \in Deliveries, Enqueue(s, j)
      PROVE  /\ job'[i].state = "new" => job[i].state = "new"
             /\ job'[i].ok = job[i].ok /\ tracked' = tracked
             /\ promised'[i] # promised[i] => Enqueue(s, i) /\ job'[i].state = "queued"
  <2>1. j \in Jobs /\ job[j] \in JobRow
    BY <1>0, NotificationAssumption DEF NotificationAssumption
  <2>2. CASE i = j
    BY <1>0, <1>3, <2>1, <2>2 DEF Enqueue, Accept, JobRow
  <2>3. CASE i # j
    BY <1>0, <1>3, <2>1, <2>3 DEF Enqueue, Accept
  <2> QED
    BY <2>2, <2>3
<1> QED
  BY <1>1, <1>2, <1>3 DEF Api, CreateNotification, Emit, AssignRead, AssignInsert, EnqueueFails, EmitCommit

LEMMA ApiPromise ==
  ASSUME DeliveryInv, TypeInv', RowsGrow, NEW s \in Sessions, Api(s)
  PROVE  PromiseInv'
<1> SUFFICES ASSUME NEW i \in Deliveries
             PROVE  /\ job'[i].state = "new" => promised'[i].users = {}
                    /\ notif'[About[i]] = "absent" => promised'[i].users = {}
                    /\ notif'[About[i]] = "committed" \/ ~promised'[i].early =>
                         \A u \in promised'[i].users : rcpt'[About[i]][u].exists
                    /\ \A t \in Sessions : Emitting(t)' /\ api'[t].note = About[i]
                         => promised'[i].users \subseteq api'[t].users
  BY DEF PromiseInv, Present
<1> DEFINE n == About[i]
<1>0. /\ n \in Notifications /\ notif \in [Notifications -> NotifStatus] /\ TypeInv
      /\ promised \in [Deliveries -> PromiseRow] /\ promised[i].users \in SUBSET Users
      /\ api \in [Sessions -> ApiRow] /\ api[s] \in ApiRow /\ rcpt \in RecipientTable
  BY NotificationAssumption DEF NotificationAssumption, DeliveryInv, TypeInv, PromiseRow
<1>1. /\ job[i].state = "new" => promised[i].users = {}
      /\ notif[n] = "absent" => promised[i].users = {}
      /\ notif[n] = "committed" \/ ~promised[i].early => Present(n, promised[i].users)
      /\ \A t \in Sessions : Emitting(t) /\ api[t].note = n =>
           promised[i].users \subseteq api[t].users
  BY DEF DeliveryInv, PromiseInv
<1>2. \A t \in Sessions : t # s => api'[t] = api[t]
  BY <1>0, ApiFrame
<1>3. CASE promised'[i] # promised[i]
  <2>1. Enqueue(s, i) /\ job'[i].state = "queued"
    BY <1>0, <1>3, ApiJobs
  <2>2. /\ promised'[i].users = api[s].users /\ api[s].note = n /\ notif' = notif
        /\ rcpt' = rcpt /\ promised'[i].early = At(s, "emit.enqueue")
        /\ api'[s].note = n /\ api'[s].users = api[s].users
    BY <1>0, <2>1 DEF Enqueue, Move, ApiRow
  <2>3. \/ notif[n] = "committed" /\ Present(n, api[s].users) /\ At(s, "enqueue")
        \/ notif[n] = "open" /\ Emitting(s) /\ At(s, "emit.enqueue")
    BY <2>1, <2>2 DEF Enqueue, DeliveryInv, SessionInv, At, Emitting
  <2>4. ASSUME NEW t \in Sessions, t # s, Emitting(t)', api'[t].note = n
        PROVE  FALSE
    <3>1. Emitting(t) /\ api[t].note = n
      BY <1>2, <2>4 DEF Emitting
    <3>2. notif[n] = "open"
      BY <3>1 DEF DeliveryInv, SessionInv
    <3> QED
      BY <2>2, <2>3, <2>4, <3>1, <3>2 DEF DeliveryInv, SessionInv
  <2> QED
    BY <2>1, <2>2, <2>3, <2>4 DEF Present
<1>4. CASE promised'[i] = promised[i]
  <2>1. job'[i].state = "new" => promised'[i].users = {}
    BY <1>0, <1>1, <1>4, ApiJobs
  <2>2. notif'[n] = "absent" => notif[n] = "absent"
    BY <1>0 DEF Api, CreateNotification, Emit, EmitCommit, AssignRead, AssignInsert, EnqueueFails,
                TrackJob, Enqueue
  <2>3. notif'[n] = "committed" \/ ~promised[i].early =>
          \A u \in promised[i].users : rcpt'[n][u].exists
    <3>1. CASE notif[n] = "committed" \/ ~promised[i].early \/ promised[i].users = {}
      BY <1>0, <1>1, <3>1, PresentGrows
    <3>2. CASE EmitCommit(s) /\ api[s].note = n /\ notif'[n] = "committed"
      <4>1. promised[i].users \subseteq api[s].users /\ api[s].users \in SUBSET Users
        BY <1>0, <1>1, <3>2 DEF EmitCommit, At, Emitting, ApiRow
      <4>2. rcpt' = WithRecipients(n, api[s].users)
        BY <1>0, <3>2 DEF EmitCommit
      <4> QED
        BY <1>0, <4>1, <4>2, InsertedRows
    <3>3. CASE notif'[n] = notif[n]
      BY <1>0, <1>1, <3>3, PresentGrows
    <3>4. notif'[n] # notif[n] => notif[n] = "absent" \/ (EmitCommit(s) /\ api[s].note = n)
      <4>1. ASSUME NEW m \in Notifications, NEW S \in SUBSET Users,
                   CreateNotification(s, m, S) \/ Emit(s, m, S)
            PROVE  notif'[n] # notif[n] => notif[n] = "absent"
        BY <1>0, <4>1 DEF CreateNotification, Emit
      <4>2. CASE EmitCommit(s)
        BY <1>0, <4>2 DEF EmitCommit
      <4> QED
        BY <4>1, <4>2, StaffType DEF Api, AssignRead, AssignInsert, EnqueueFails, TrackJob, Enqueue
    <3> QED
      BY <1>1, <3>1, <3>2, <3>3, <3>4
  <2>4. ASSUME NEW t \in Sessions, Emitting(t)', api'[t].note = n
        PROVE  promised[i].users \subseteq api'[t].users
    <3>1. CASE t # s
      BY <1>1, <1>2, <2>4, <3>1 DEF Emitting
    <3>2. CASE t = s
      BY <1>1, <2>4, <3>2, OwnSession
    <3> QED
      BY <3>1, <3>2
  <2> QED
    BY <1>1, <1>4, <2>1, <2>2, <2>3, <2>4
<1> QED
  BY <1>3, <1>4

\* Recipients come with a notification that is committed.
LEMMA ApiRows ==
  ASSUME DeliveryInv, NEW s \in Sessions, Api(s),
         NEW n \in Notifications, NEW u \in Users, rcpt'[n][u].exists
  PROVE  rcpt[n][u].exists \/ notif'[n] = "committed"
<1>0. /\ notif \in [Notifications -> NotifStatus] /\ api[s] \in ApiRow /\ rcpt \in RecipientTable
  BY DEF DeliveryInv, TypeInv
<1>1. CASE rcpt' = rcpt
  BY <1>1
<1>2. ASSUME NEW m \in Notifications, NEW S \in SUBSET Users, rcpt' = WithRecipients(m, S),
             notif'[m] = "committed"
      PROVE  rcpt[n][u].exists \/ notif'[n] = "committed"
  BY <1>0, <1>2, InsertedRows
<1>3. ASSUME NEW m \in Notifications, NEW S \in SUBSET Users, CreateNotification(s, m, S)
      PROVE  rcpt[n][u].exists \/ notif'[n] = "committed"
  BY <1>0, <1>2, <1>3 DEF CreateNotification
<1>4. CASE AssignInsert(s)
  <2>1. /\ api[s].note \in Notifications /\ api[s].users \in SUBSET Users
        /\ notif'[api[s].note] = "committed"
    BY <1>0, <1>4 DEF AssignInsert, ApiRow, At, DeliveryInv, SessionInv
  <2> QED
    BY <1>1, <1>2, <1>4, <2>1 DEF AssignInsert
<1>5. CASE EmitCommit(s)
  <2>1. api[s].note \in Notifications /\ api[s].users \in SUBSET Users
    BY <1>0, <1>5 DEF EmitCommit, ApiRow, At
  <2> QED
    BY <1>0, <1>1, <1>2, <1>5, <2>1 DEF EmitCommit
<1> QED
  BY <1>1, <1>3, <1>4, <1>5, StaffType DEF Api, Emit, AssignRead, EnqueueFails, TrackJob, Enqueue

LEMMA ApiStep ==
  ASSUME DeliveryInv, TypeInv', RowsGrow, NEW s \in Sessions, Api(s)
  PROVE  DeliveryInv'
<1>0. TypeInv
  BY DEF DeliveryInv
<1>1. /\ mailed' = mailed /\ work' = work
      /\ \A t \in Sessions : t # s => api'[t] = api[t]
  BY <1>0, ApiFrame
<1>2. SessionInv'
  <2>1. ASSUME NEW t \in Sessions
        PROVE  /\ At(t, "assign.insert")' => notif'[api'[t].note] = "committed"
               /\ At(t, "enqueue")' => /\ notif'[api'[t].note] = "committed"
                                       /\ \A u \in api'[t].users : rcpt'[api'[t].note][u].exists
               /\ Emitting(t)' => notif'[api'[t].note] = "open"
    <3>1. CASE t = s
      BY <3>1, OwnSession DEF At
    <3>2. CASE t # s
      <4>1. api'[t] = api[t] /\ (api[t].at # "idle" => api[t].note \in Notifications)
            /\ api[t].users \in SUBSET Users
        BY <1>0, <1>1, <3>2 DEF TypeInv, ApiRow
      <4>2. Emitting(t)' => notif'[api'[t].note] = "open"
        BY <3>2, <4>1, OpenStays DEF Emitting
      <4>3. At(t, "assign.insert") \/ At(t, "enqueue") => notif'[api[t].note] = "committed"
        BY <4>1, CommittedStays DEF DeliveryInv, SessionInv, At
      <4>4. At(t, "enqueue") => \A u \in api[t].users : rcpt'[api[t].note][u].exists
        BY <4>1, PresentGrows DEF DeliveryInv, SessionInv, At
      <4> QED
        BY <4>1, <4>2, <4>3, <4>4 DEF At
    <3> QED
      BY <3>1, <3>2
  <2>2. ASSUME NEW t \in Sessions, t # s, Emitting(t)', Emitting(s)', api'[t].note = api'[s].note
        PROVE  FALSE
    <3>1. Emitting(t) /\ api'[t] = api[t] /\ notif[api[t].note] = "open"
      BY <1>1, <2>2 DEF Emitting, DeliveryInv, SessionInv
    <3>2. Emitting(s) /\ api'[s].note = api[s].note
      BY <2>2, <3>1, OwnSession
    <3> QED
      BY <2>2, <3>1, <3>2 DEF DeliveryInv, SessionInv
  <2>3. \A t, v \in Sessions : Emitting(t)' /\ Emitting(v)' /\ api'[t].note = api'[v].note => t = v
    <3> SUFFICES ASSUME NEW t \in Sessions, NEW v \in Sessions,
                        Emitting(t)', Emitting(v)', api'[t].note = api'[v].note, t # v
                 PROVE  FALSE
      OBVIOUS
    <3>1. CASE t = s \/ v = s
      BY <2>2, <3>1
    <3>2. CASE t # s /\ v # s
      BY <1>1, <3>2 DEF DeliveryInv, SessionInv, Emitting
    <3> QED
      BY <3>1, <3>2
  <2> QED
    BY <2>1, <2>3 DEF SessionInv, Present
<1>3. PromiseInv'
  BY ApiPromise
<1>4. DeliverInv'
  <2> SUFFICES ASSUME NEW i \in Deliveries PROVE DeliversRight(i)'
    BY DEF DeliverInv
  <2>1. DeliversRight(i) /\ About[i] \in Notifications
    BY NotificationAssumption DEF NotificationAssumption, DeliveryInv, DeliverInv
  <2>2. /\ job'[i].state = "new" => job[i].state = "new"
        /\ job'[i].ok = job[i].ok
        /\ tracked'[i] = "completed" => tracked[i] = "completed"
    BY <1>0, ApiJobs
  <2>3. CommitsStay
    BY CommittedStays DEF CommitsStay
  <2>4. CASE promised'[i] = promised[i]
    BY <1>0, <1>1, <2>1, <2>2, <2>3, <2>4, RightStays
  <2>5. CASE promised'[i] # promised[i]
    <3>1. job[i].state = "new" /\ job'[i].state = "queued"
      BY <1>0, <2>5, ApiJobs DEF Enqueue, Accept
    <3> QED
      BY <1>1, <2>1, <2>2, <3>1 DEF DeliversRight
  <2> QED
    BY <2>4, <2>5
<1>5. NoMailBeforeCommit'
  <2>1. \A n \in Notifications : Found(n) => Found(n)'
    BY CommittedStays, FoundStays DEF CommitsStay
  <2> QED
    BY <1>0, <1>1, <2>1, CommittedStays DEF DeliveryInv, NoMailBeforeCommit, RowsGrow
<1>6. RowsInv'
  <2>1. ASSUME NEW n \in Notifications, NEW u \in Users, rcpt'[n][u].exists
        PROVE  rcpt[n][u].exists \/ notif'[n] = "committed"
    BY <2>1, ApiRows
  <2> QED
    BY <2>1, CommittedStays DEF DeliveryInv, RowsInv
<1> QED
  BY <1>2, <1>3, <1>4, <1>5, <1>6 DEF DeliveryInv


LEMMA DeliveryStep == DeliveryInv /\ [JobsNext]_jobVars => DeliveryInv'
<1> SUFFICES ASSUME DeliveryInv, [JobsNext]_jobVars PROVE DeliveryInv'
  OBVIOUS
<1>1. TypeInv /\ TypeInv' /\ RowsGrow
  BY TypeStep DEF DeliveryInv
<1>2. ASSUME UNCHANGED notices, QueueKeeps PROVE DeliveryInv'
  BY <1>1, <1>2, SameRows, RowsStep DEF notices, TypeInv
<1>3. ASSUME NEW u \in Users, Recipient(u) PROVE DeliveryInv'
  BY <1>1, <1>3, RecipientRows, SameQueue, RowsStep DEF TypeInv
<1>4. ASSUME NEW j \in Jobs, Start(j) \/ GiveUp(j) \/ Report(j), UNCHANGED notices
      PROVE  DeliveryInv'
  BY <1>1, <1>2, <1>4, QueueSteps DEF TypeInv
<1>5. ASSUME NEW j \in Nights, AccrualStep(j) PROVE DeliveryInv'
  <2>1. j \in Jobs /\ j \notin Deliveries
    BY AccrualAssumption, FunctionAssumption DEF AccrualAssumption, FunctionAssumption
  <2>2. QueueKeeps
    BY <1>1, <1>5, <2>1, QueueSteps, SameQueue DEF AccrualStep, TypeInv
  <2> QED
    BY <1>2, <1>5, <2>2 DEF AccrualStep
<1>6. CASE UNCHANGED <<notices, queue>>
  BY <1>2, <1>6, SameQueue
<1> QED
  BY <1>1, <1>3, <1>4, <1>5, <1>6, StepKinds, ApiStep, DeliverStep

LEMMA DeliveryInvariant == JobsSpec => []DeliveryInv
<1> QED
  BY DeliveryInit, DeliveryStep, PTL DEF JobsSpec

\* No e-mail leaves before the notification it is about is committed, however
\* early its job was enqueued and however often the worker repeats it.
THEOREM MailWaitsForCommit == JobsSpec => []NoMailBeforeCommit
<1> QED
  BY DeliveryInvariant, PTL DEF DeliveryInv

\* A delivery that is told to be completed has reached everyone it was enqueued
\* for, if one page holds the recipients and it could not find another's
\* notification before its own was committed: the job then loads all of them that
\* are not delivered, and stamps them all.
THEOREM CompletedDelivers == JobsSpec => []CompletedMeansDelivered
<1>1. DeliveryInv => CompletedMeansDelivered
  BY DEF DeliveryInv, DeliverInv, DeliversRight, Delivered, Reaches, CompletedMeansDelivered
<1> QED
  BY <1>1, DeliveryInvariant, PTL

-------------------------------------------------------------------------------
(* Employees in their order, periods and their number *)

\* A run that has employees to go takes the first of them.
LEMMA FirstOfSome ==
  ASSUME NEW S \in SUBSET Nat, S # {}
  PROVE  \E e \in S : \A f \in S : e <= f
<1> DEFINE Less == {ss \in Nat \X Nat : ss[1] < ss[2]}
<1>1. OpToRel(<, Nat) = Less
  BY Zenon DEF OpToRel
<1>2. IsWellFoundedOn(Less, Nat)
  BY <1>1, NatLessThanWellFounded, Zenon
<1>3. \E e \in S : \A f \in S : ~(<<f, e>> \in Less)
  <2> HIDE DEF Less
  <2> QED
    BY <1>2, WFMin
<1>4. \A e, f \in Nat : f < e => <<f, e>> \in Less
  OBVIOUS
<1>5. PICK e \in S : \A f \in S : ~(<<f, e>> \in Less)
  <2> HIDE DEF Less
  <2> QED
    BY <1>3
<1>6. ASSUME NEW f \in S PROVE e <= f
  <2>1. ~(f < e)
    BY <1>4, <1>5
  <2> QED
    BY <2>1
<1> QED
  BY <1>6

LEMMA CurrentIsOne ==
  ASSUME NEW j \in Nights, night[j].todo \in SUBSET Employees, night[j].todo # {}
  PROVE  Current(j) \in night[j].todo
<1>1. \E e \in night[j].todo : \A f \in night[j].todo : e <= f
  BY FirstOfSome, AccrualAssumption DEF AccrualAssumption
<1> QED
  BY <1>1 DEF Current

\* What the periods credited so far grant an employee, and what an assignment
\* by hand may have added.
Accrued(e) == Count * Cardinality(PeriodsCredited(e))
Granted(e) == Accrued(e) + extra[e]

LEMMA AccruedType ==
  ASSUME NEW e \in Employees
  PROVE  /\ Accrued(e) \in Nat /\ IsFiniteSet(PeriodsCredited(e))
         /\ Accrued(e)' \in Nat
<1>1. \A S \in SUBSET (1..Periods) : IsFiniteSet(S) /\ Count * Cardinality(S) \in Nat
  <2>1. IsFiniteSet(1..Periods) /\ Count \in Nat
    BY FS_Interval, AccrualAssumption DEF AccrualAssumption
  <2>2. \A S \in SUBSET (1..Periods) : IsFiniteSet(S) /\ Cardinality(S) \in Nat
    BY <2>1, FS_Subset, FS_CardinalityType
  <2> QED
    BY <2>1, <2>2
<1>2. PeriodsCredited(e) \in SUBSET (1..Periods) /\ PeriodsCredited(e)' \in SUBSET (1..Periods)
  BY DEF PeriodsCredited
<1> QED
  BY <1>1, <1>2 DEF Accrued

LEMMA GrantedType ==
  ASSUME NEW e \in Employees, extra \in [Employees -> Nat]
  PROVE  Granted(e) \in Nat /\ (extra' \in [Employees -> Nat] => Granted(e)' \in Nat)
<1>1. Accrued(e) \in Nat /\ Accrued(e)' \in Nat
  BY AccruedType
<1>2. extra[e] \in Nat /\ (extra' \in [Employees -> Nat] => extra'[e] \in Nat)
  OBVIOUS
<1> QED
  BY <1>1, <1>2 DEF Granted

-------------------------------------------------------------------------------
(* Rows of balances and of allocations *)

\* The column of what is allocated is written as a whole, or kept.
LEMMA FlushAllocated ==
  ASSUME NEW stored \in BalanceRow, NEW loaded \in BalanceRow, NEW new \in BalanceRow
  PROVE  /\ Flush(stored, loaded, new) \in BalanceRow
         /\ Flush(stored, loaded, new).allocated =
              IF new.allocated # loaded.allocated THEN new.allocated ELSE stored.allocated
BY DEF Flush, BalanceRow

LEMMA GrantType ==
  ASSUME NEW row \in BalanceRow, NEW x \in Int, NEW y \in Int, NEW new,
         new = [row EXCEPT !.allocated = x, !.closing = y]
  PROVE  new \in BalanceRow /\ new.allocated = x
BY DEF BalanceRow

LEMMA CreatedGrant ==
  ASSUME NEW row \in BalanceRow
  PROVE  /\ Created(row) \in BalanceRow
         /\ Created(row).allocated = row.allocated /\ Created(row).closing = row.closing
BY DEF Created, BalanceRow

LEMMA AmountsGranted ==
  ASSUME NEW row \in BalanceRow
  PROVE  /\ Accrue(row, Count) \in BalanceRow /\ Accrue(row, Count).allocated = row.allocated + Count
         /\ \A days \in Nat : /\ Assign(row, days) \in BalanceRow
                             /\ Assign(row, days).allocated \in {days, row.allocated}
         /\ Unassign(row) \in BalanceRow /\ Unassign(row).allocated = 0
<1>1. Count \in Nat /\ Count > 0
  BY AccrualAssumption DEF AccrualAssumption
<1>2. PICK r \in BalanceRow : r = Created(row)
  BY CreatedGrant
<1>3. /\ r.allocated = row.allocated /\ r.closing = row.closing
      /\ r.allocated + Count \in Int /\ r.closing + Count \in Int
      /\ row.allocated \in Int /\ \A days \in Int : days + row.adjusted - row.used \in Int
      /\ row.adjusted - row.used \in Int
  BY <1>1, <1>2, CreatedGrant DEF BalanceRow
<1>4. Accrue(row, Count) \in BalanceRow /\ Accrue(row, Count).allocated = row.allocated + Count
  <2> DEFINE x == r.allocated + Count
             y == r.closing + Count
  <2>1. x \in Int /\ y \in Int
    BY <1>3
  <2>2. Accrue(row, Count) = [r EXCEPT !.allocated = x, !.closing = y]
    BY <1>1, <1>2 DEF Accrue
  <2>3. x = row.allocated + Count
    BY <1>3
  <2> HIDE DEF x, y
  <2> QED
    BY <2>1, <2>2, <2>3, GrantType
<1>5. ASSUME NEW days \in Nat
      PROVE  /\ Assign(row, days) \in BalanceRow
             /\ Assign(row, days).allocated \in {days, row.allocated}
  <2>1. PICK x \in Int : x = IF days > 0 THEN days ELSE row.allocated
    BY <1>3
  <2>2. PICK y \in Int : y = x + row.adjusted - row.used
    BY <1>3
  <2>3. PICK new : new = Assign(row, days)
    OBVIOUS
  <2>4. new = [r EXCEPT !.allocated = x, !.closing = y]
    BY <1>2, <2>1, <2>2, <2>3 DEF Assign
  <2>5. new \in BalanceRow /\ new.allocated = x
    BY <2>4 DEF BalanceRow
  <2> QED
    BY <2>1, <2>3, <2>5
<1>6. Unassign(row) \in BalanceRow /\ Unassign(row).allocated = 0
  <2> DEFINE x == 0
             y == row.adjusted - row.used
  <2>1. x \in Int /\ y \in Int
    BY <1>3
  <2>2. Unassign(row) = [r EXCEPT !.allocated = x, !.closing = y]
    BY <1>1, <1>2 DEF Unassign
  <2>3. x = 0
    BY <1>3
  <2> HIDE DEF x, y
  <2> QED
    BY <2>1, <2>2, <2>3, GrantType
<1> QED
  BY <1>4, <1>5, <1>6

\* A period that is credited grants an allocation.
LEMMA HeldIsGranted ==
  ASSUME NEW e \in Employees, NEW p \in 1..Periods, HoldsRow(e, p)
  PROVE  Count <= Accrued(e)
<1>1. IsFiniteSet(PeriodsCredited(e)) /\ p \in PeriodsCredited(e)
  BY AccruedType DEF PeriodsCredited
<1>2. PICK c \in Nat : c = Cardinality(PeriodsCredited(e)) /\ c >= 1
  BY <1>1, FS_CardinalityType, FS_EmptySet
<1>3. Count <= Count * c
  BY <1>2, AccrualAssumption, SMTT(30) DEF AccrualAssumption
<1> QED
  BY <1>2, <1>3 DEF Accrued

\* A recorded allocation is one more period credited, if it was not yet.
LEMMA RecordGrants ==
  ASSUME credits \in [Employees -> [1..Periods -> Nat]],
         NEW e \in Employees, NEW p \in 1..Periods, Record(e, p)
  PROVE  /\ credits' \in [Employees -> [1..Periods -> Nat]]
         /\ \A f \in Employees : Accrued(f) <= Accrued(f)'
         /\ ~HoldsRow(e, p) => Accrued(e)' = Accrued(e) + Count
         /\ Count <= Accrued(e)'
<1>0. /\ credits[e] \in [1..Periods -> Nat] /\ credits[e][p] \in Nat
      /\ credits' = [credits EXCEPT ![e] = [credits[e] EXCEPT ![p] = credits[e][p] + 1]]
  BY DEF Record
<1>1. /\ credits' \in [Employees -> [1..Periods -> Nat]]
      /\ \A f \in Employees : \A q \in 1..Periods :
           credits'[f][q] = IF f = e /\ q = p THEN credits[f][q] + 1 ELSE credits[f][q]
  <2>1. [credits[e] EXCEPT ![p] = credits[e][p] + 1] \in [1..Periods -> Nat]
    BY <1>0
  <2> QED
    BY <1>0, <2>1
<1>2. /\ PeriodsCredited(e)' = PeriodsCredited(e) \cup {p}
      /\ \A f \in Employees : f # e => PeriodsCredited(f)' = PeriodsCredited(f)
  BY <1>0, <1>1 DEF PeriodsCredited, HoldsRow
<1>3. /\ IsFiniteSet(PeriodsCredited(e)) /\ Cardinality(PeriodsCredited(e)) \in Nat
  BY AccruedType, FS_CardinalityType
<1>4. Cardinality(PeriodsCredited(e) \cup {p}) =
        IF p \in PeriodsCredited(e) THEN Cardinality(PeriodsCredited(e))
        ELSE Cardinality(PeriodsCredited(e)) + 1
  BY <1>3, FS_AddElement
<1>5. p \in PeriodsCredited(e) => Cardinality(PeriodsCredited(e)) >= 1
  BY <1>3, FS_EmptySet
<1>6. \A c \in Nat : /\ Count * c <= Count * (c + 1) /\ Count * (c + 1) = Count * c + Count
                     /\ c >= 1 => Count <= Count * c
  BY AccrualAssumption, SMTT(30) DEF AccrualAssumption
<1>7. /\ Accrued(e) <= Accrued(e)' /\ (~HoldsRow(e, p) => Accrued(e)' = Accrued(e) + Count)
      /\ Count <= Accrued(e)'
  <2>1. p \in PeriodsCredited(e) <=> HoldsRow(e, p)
    BY DEF PeriodsCredited
  <2> DEFINE c == Cardinality(PeriodsCredited(e))
  <2>2. Accrued(e) = Count * c /\ Accrued(e)' = Count * (IF p \in PeriodsCredited(e) THEN c ELSE c + 1)
    BY <1>2, <1>4 DEF Accrued
  <2>3. c \in Nat /\ Accrued(e) \in Nat
    BY <1>3, AccruedType
  <2> HIDE DEF c
  <2>4. CASE HoldsRow(e, p)
    BY <1>5, <1>6, <2>1, <2>2, <2>3, <2>4 DEF c
  <2>5. CASE ~HoldsRow(e, p)
    BY <1>6, <2>1, <2>2, <2>3, <2>5, AccrualAssumption DEF AccrualAssumption
  <2> QED
    BY <2>4, <2>5
<1>8. ASSUME NEW f \in Employees, f # e PROVE Accrued(f) <= Accrued(f)'
  BY <1>2, <1>8, AccruedType DEF Accrued
<1> QED
  BY <1>1, <1>7, <1>8

LEMMA AccruedStays ==
  ASSUME credits' = credits, NEW e \in Employees
  PROVE  Accrued(e)' = Accrued(e)
BY DEF Accrued, PeriodsCredited, HoldsRow

LEMMA GrantedStays ==
  ASSUME UNCHANGED <<credits, extra>>, NEW e \in Employees
  PROVE  Granted(e)' = Granted(e)
BY AccruedStays DEF Granted


-------------------------------------------------------------------------------
(* Invariant *)

\* A run that is at an employee has employees to go, and a session that has
\* read a balance has read somebody's.
NightRow ==
  {c \in [at : NightPlaces, period : 1..Periods, listed : SUBSET Employees,
          todo : SUBSET Employees, row : BalanceRow] :
     c.at \in {"probe", "load", "store"} => c.todo # {}}

ClerkRow ==
  {c \in [at : {"idle", "assign", "unassign"}, emp : Employees \cup {0}, row : BalanceRow,
          days : Nat] :
     c.at # "idle" => c.emp \in Employees}

AccrualType ==
  /\ period \in 1..Periods /\ active \in SUBSET Employees
  /\ balance \in [Employees -> BalanceRow]
  /\ credits \in [Employees -> [1..Periods -> Nat]]
  /\ night \in [Nights -> NightRow]
  /\ clerk \in [Clerks -> ClerkRow]
  /\ extra \in [Employees -> Nat]

\* What a run has read of the employee it is at was granted for periods credited
\* by then, of which the one it is about to credit is none.
CreditInv ==
  /\ AccrualType
  /\ NeverOverCredited
  /\ \A j \in Nights :
       night[j].at = "store" => night[j].row.allocated <= Granted(Current(j))

LEMMA CreditInit == JobsInit => CreditInv
<1> SUFFICES ASSUME JobsInit PROVE CreditInv
  OBVIOUS
<1>1. /\ Missing \in BalanceRow /\ Missing.allocated = 0
      /\ Created(Missing) \in BalanceRow /\ Created(Missing).allocated = 0
  <2>1. Missing \in BalanceRow /\ Missing.allocated = 0
    BY DEF Missing, BalanceRow
  <2> QED
    BY <2>1, CreatedGrant
<1>2. Asleep \in NightRow /\ Free \in ClerkRow /\ 1 \in 1..Periods
  BY <1>1, AccrualAssumption DEF AccrualAssumption, Asleep, NightRow, NightPlaces, Free, ClerkRow
<1>3. AccrualType
  BY <1>1, <1>2 DEF JobsInit, AccrualInit, AccrualType
<1>4. \A e \in Employees : balance[e].allocated = 0
  BY <1>1 DEF JobsInit, AccrualInit
<1>5. NeverOverCredited
  BY <1>3, <1>4, GrantedType DEF NeverOverCredited, Granted, Accrued, AccrualType
<1> QED
  BY <1>3, <1>5 DEF CreditInv, JobsInit, AccrualInit, Asleep

\* A run leaves an employee, or stays at the one it is at.
LEMMA NightMoves ==
  ASSUME night \in [Nights -> NightRow], NEW j \in Nights, night[j].todo # {}
  PROVE  /\ Onward(j) => night' \in [Nights -> NightRow] /\ night'[j].at # "store"
         /\ OrgFails(j) => night' \in [Nights -> NightRow] /\ night'[j].at # "store"
         /\ GoTo(j, "load") => night' \in [Nights -> NightRow] /\ night'[j].at # "store"
         /\ \A c : Onward(j) \/ OrgFails(j) \/ GoTo(j, "load") \/ Go(j, c) =>
              \A i \in Nights : i # j => night'[i] = night[i]
<1>1. night[j] \in NightRow
  OBVIOUS
<1> DEFINE rest == night[j].todo \ {Current(j)}
           next == [night[j] EXCEPT !.todo = rest, !.at = IF rest = {} THEN "done" ELSE "probe"]
<1>2. next \in NightRow /\ next.at # "store"
  BY <1>1 DEF NightRow, NightPlaces
<1>3. Onward(j) => night' = [night EXCEPT ![j] = next]
  BY DEF Onward, Go
<1>4. \A place \in {"done", "load"} : [night[j] EXCEPT !.at = place] \in NightRow
  BY <1>1 DEF NightRow, NightPlaces
<1>5. \A place \in {"done", "load"} : GoTo(j, place) =>
        night' \in [Nights -> NightRow] /\ night'[j].at # "store"
  BY <1>1, <1>4 DEF GoTo, NightRow
<1> HIDE DEF next
<1> QED
  BY <1>2, <1>3, <1>5 DEF OrgFails, GoTo, Go

\* No amount grows but by what is recorded beside it.
LEMMA CreditsGrow ==
  ASSUME CreditInv, AccrualType',
         \A e \in Employees : Granted(e) <= Granted(e)',
         \A e \in Employees : balance'[e].allocated <= Granted(e)' \/ balance'[e] = balance[e],
         \A j \in Nights :
           \/ night'[j].at # "store" \/ night'[j] = night[j]
           \/ night'[j].row.allocated <= Granted(Current(j))'
  PROVE  CreditInv'
<1>1. NeverOverCredited'
  <2> SUFFICES ASSUME NEW e \in Employees PROVE balance'[e].allocated <= Granted(e)'
    BY DEF NeverOverCredited, Granted, Accrued
  <2>1. balance[e] \in BalanceRow /\ balance[e].allocated <= Granted(e)
    BY DEF CreditInv, AccrualType, NeverOverCredited, Granted, Accrued
  <2>2. Granted(e) \in Nat /\ Granted(e)' \in Nat
    BY GrantedType DEF CreditInv, AccrualType
  <2> QED
    BY <2>1, <2>2 DEF BalanceRow
<1>2. ASSUME NEW j \in Nights, night'[j].at = "store"
      PROVE  night'[j].row.allocated <= Granted(Current(j))'
  <2>1. CASE night'[j] = night[j]
    <3>1. PICK e \in Employees : e = Current(j)
      BY <1>2, <2>1, CurrentIsOne DEF CreditInv, AccrualType, NightRow
    <3>2. Current(j)' = e
      BY <2>1, <3>1 DEF Current
    <3>3. night[j].row \in BalanceRow /\ night[j].row.allocated <= Granted(e)
      BY <1>2, <2>1, <3>1 DEF CreditInv, AccrualType, NightRow
    <3>4. Granted(e) \in Nat /\ Granted(e)' \in Nat /\ Granted(e) <= Granted(e)'
      BY GrantedType DEF CreditInv, AccrualType
    <3>5. Granted(Current(j))' = Granted(e)'
      BY <3>2 DEF Granted, Accrued, PeriodsCredited, HoldsRow
    <3> QED
      BY <2>1, <3>3, <3>4, <3>5 DEF BalanceRow
  <2> QED
    BY <1>2, <2>1
<1> QED
  BY <1>1, <1>2 DEF CreditInv


\* Steps that write neither balances nor allocations.
LEMMA QuietStep ==
  ASSUME CreditInv, AccrualType', UNCHANGED <<balance, credits, extra>>,
         \A j \in Nights :
           \/ night'[j].at # "store" \/ night'[j] = night[j]
           \/ night'[j].row.allocated <= Granted(Current(j))'
  PROVE  CreditInv'
<1>1. \A e \in Employees : Granted(e) <= Granted(e)'
  BY GrantedStays, GrantedType DEF CreditInv, AccrualType
<1> QED
  BY <1>1, CreditsGrow

\* A run goes over the employees.
LEMMA NightStep ==
  ASSUME Monthly, CreditInv, NEW j \in Nights,
         ListEmployees(j) \/ Probe(j) \/ Load(j) \/ Store(j)
  PROVE  CreditInv'
<1>e. PICK e : e = Current(j)
  OBVIOUS
<1>0. /\ AccrualType /\ night[j] \in NightRow /\ night \in [Nights -> NightRow]
      /\ balance \in [Employees -> BalanceRow]
  BY DEF CreditInv, AccrualType
<1>1. night[j].at \in {"probe", "load", "store"} => e \in Employees /\ night[j].todo # {}
  BY <1>0, <1>e, CurrentIsOne DEF NightRow
<1>2. CASE ListEmployees(j)
  <2> DEFINE next == [Asleep EXCEPT !.at = IF active = {} THEN "done" ELSE "probe",
                                    !.period = period, !.listed = active, !.todo = active]
  <2>1. Asleep.row = Missing /\ Missing \in BalanceRow
    BY DEF Asleep, Missing, BalanceRow
  <2>2. next \in NightRow /\ next.at # "store"
    BY <1>0, <2>1 DEF AccrualType, NightRow, NightPlaces, Asleep
  <2>3. night' = [night EXCEPT ![j] = next]
    BY <1>2 DEF ListEmployees, Go
  <2> HIDE DEF next
  <2>4. night' \in [Nights -> NightRow] /\ \A i \in Nights : night'[i].at # "store" \/ night'[i] = night[i]
    BY <1>0, <2>2, <2>3
  <2> QED
    BY <1>0, <1>2, <2>4, QuietStep DEF ListEmployees, AccrualType
<1>3. CASE Probe(j)
  <2>1. night' \in [Nights -> NightRow] /\ \A i \in Nights : night'[i].at # "store" \/ night'[i] = night[i]
    BY <1>0, <1>1, <1>3, NightMoves DEF Probe
  <2> QED
    BY <1>0, <1>3, <2>1, QuietStep DEF Probe, AccrualType
<1>4. CASE Load(j)
  <2>1. e \in Employees /\ balance[e] \in BalanceRow /\ night[j].todo # {}
    BY <1>0, <1>1, <1>4 DEF Load
  <2>2. CASE OrgFails(j)
    <3>1. night' \in [Nights -> NightRow] /\ \A i \in Nights : night'[i].at # "store" \/ night'[i] = night[i]
      BY <1>0, <2>1, <2>2, NightMoves
    <3> QED
      BY <1>0, <1>4, <3>1, QuietStep DEF Load, AccrualType
  <2>3. CASE Go(j, [night[j] EXCEPT !.at = "store", !.row = balance[e]])
    <3> DEFINE next == [night[j] EXCEPT !.at = "store", !.row = balance[e]]
    <3>1. next \in NightRow /\ next.row = balance[e] /\ next.todo = night[j].todo
      BY <1>0, <2>1 DEF NightRow, NightPlaces
    <3>2. night' = [night EXCEPT ![j] = next]
      BY <2>3 DEF Go
    <3> HIDE DEF next
    <3>3. night' \in [Nights -> NightRow] /\ \A i \in Nights : i # j => night'[i] = night[i]
      BY <1>0, <3>1, <3>2
    <3>4. night'[j].row = balance[e] /\ Current(j)' = e
      BY <1>0, <1>e, <3>1, <3>2 DEF Current
    <3>5. balance[e].allocated <= Granted(e) /\ Granted(e)' = Granted(e)
      <4>1. UNCHANGED <<credits, extra>>
        BY <1>4 DEF Load
      <4> QED
        BY <2>1, <4>1, GrantedStays DEF CreditInv, NeverOverCredited, Granted, Accrued
    <3>6. Granted(Current(j))' = Granted(e)
      BY <3>4, <3>5 DEF Granted, Accrued, PeriodsCredited, HoldsRow
    <3> QED
      BY <1>0, <1>4, <3>3, <3>4, <3>5, <3>6, QuietStep DEF Load, AccrualType
  <2> QED
    BY <1>e, <1>4, <2>2, <2>3 DEF Load
<1>5. CASE Store(j)
  <2>1. e \in Employees /\ balance[e] \in BalanceRow /\ night[j].todo # {}
        /\ night[j].period \in 1..Periods /\ night[j].row \in BalanceRow
    BY <1>0, <1>1, <1>5 DEF Store, NightRow
  <2>2. night' \in [Nights -> NightRow] /\ \A i \in Nights : night'[i].at # "store" \/ night'[i] = night[i]
    BY <1>0, <1>5, <2>1, NightMoves DEF Store
  <2>3. CASE UNCHANGED <<balance, credits>>
    BY <1>0, <1>5, <2>2, <2>3, QuietStep DEF Store, AccrualType
  <2>4. CASE KeyFree(e, night[j].period) /\ ~UNCHANGED <<balance, credits>>
    <3>p. PICK p \in 1..Periods : p = night[j].period
      BY <2>1
    <3> DEFINE new == Flush(balance[e], night[j].row, Accrue(night[j].row, Count))
    <3>1. balance' = [balance EXCEPT ![e] = new] /\ Record(e, p)
      BY <1>e, <1>5, <2>4, <3>p DEF Store
    <3>2. /\ new \in BalanceRow
          /\ new.allocated \in {night[j].row.allocated + Count, balance[e].allocated}
      BY <2>1, AmountsGranted, FlushAllocated
    <3> HIDE DEF new
    <3>3. /\ credits' \in [Employees -> [1..Periods -> Nat]]
          /\ \A f \in Employees : Granted(f) <= Granted(f)'
          /\ Granted(e)' = Granted(e) + Count
      <4>1. /\ credits' \in [Employees -> [1..Periods -> Nat]]
            /\ \A f \in Employees : Accrued(f) <= Accrued(f)'
            /\ Accrued(e)' = Accrued(e) + Count
        BY <1>0, <2>1, <2>4, <3>p, <3>1, RecordGrants DEF AccrualType, KeyFree
      <4>2. extra' = extra /\ \A f \in Employees : extra[f] \in Nat
        BY <1>0, <1>5 DEF Store, AccrualType
      <4>3. Count \in Nat /\ \A f \in Employees : Accrued(f) \in Nat /\ Accrued(f)' \in Nat
        BY AccruedType, AccrualAssumption DEF AccrualAssumption
      <4> QED
        BY <2>1, <4>1, <4>2, <4>3 DEF Granted
    <3>4. night[j].row.allocated <= Granted(e) /\ balance[e].allocated <= Granted(e)
      BY <1>e, <1>5, <2>1 DEF CreditInv, NeverOverCredited, Granted, Accrued, Store
    <3>5. new.allocated <= Granted(e)'
      <4>1. Granted(e) \in Nat /\ Count \in Nat
        BY <1>0, <2>1, GrantedType, AccrualAssumption DEF AccrualAssumption, AccrualType
      <4>2. night[j].row.allocated \in Int /\ balance[e].allocated \in Int
        BY <2>1 DEF BalanceRow
      <4> QED
        BY <3>2, <3>3, <3>4, <4>1, <4>2
    <3>6. balance' \in [Employees -> BalanceRow]
          /\ \A f \in Employees : balance'[f].allocated <= Granted(f)' \/ balance'[f] = balance[f]
      BY <1>0, <3>1, <3>2, <3>5
    <3>7. AccrualType'
      BY <1>0, <1>5, <2>2, <3>3, <3>6 DEF Store, AccrualType
    <3> QED
      BY <2>2, <3>3, <3>6, <3>7, CreditsGrow
  <2> QED
    BY <1>e, <1>5, <2>3, <2>4 DEF Store
<1> QED
  BY <1>2, <1>3, <1>4, <1>5

\* What else writes the rows of the accrual.
LEMMA ClerkStep ==
  ASSUME CreditInv, NEW c \in Clerks,
         AssignTypesWrite(c) \/ \E e \in Employees : AssignTypesRead(c, e)
  PROVE  CreditInv'
<1>0. /\ AccrualType /\ clerk \in [Clerks -> ClerkRow] /\ clerk[c] \in ClerkRow
      /\ balance \in [Employees -> BalanceRow] /\ night' = night
  BY DEF CreditInv, AccrualType, AssignTypesWrite, AssignTypesRead
<1>1. ASSUME NEW e \in Employees, AssignTypesRead(c, e) PROVE CreditInv'
  <2>1. PICK op \in {"assign", "unassign"}, days \in Nat : Open(c, op, e, days)
    <3>1. Count \in Nat /\ 0 \in Nat /\ Overrides \subseteq Nat
      BY AccrualAssumption DEF AccrualAssumption
    <3> QED
      BY <1>1, <3>1 DEF AssignTypesRead
  <2>2. [at |-> op, emp |-> e, row |-> balance[e], days |-> days] \in ClerkRow
    BY <1>0 DEF ClerkRow
  <2>3. AccrualType'
    BY <1>0, <1>1, <2>1, <2>2 DEF AssignTypesRead, AccrualType, Open
  <2> QED
    BY <1>0, <1>1, <2>3, QuietStep DEF AssignTypesRead
<1>2. CASE AssignTypesWrite(c)
  <2>e. PICK e \in Employees : e = clerk[c].emp
    BY <1>0, <1>2 DEF AssignTypesWrite, ClerkRow
  <2>d. PICK days \in Nat : days = clerk[c].days
    BY <1>0 DEF ClerkRow
  <2>1. /\ balance[e] \in BalanceRow /\ clerk[c].row \in BalanceRow
        /\ clerk[c].at \in {"assign", "unassign"} /\ period \in 1..Periods
        /\ extra \in [Employees -> Nat] /\ Count \in Nat
    BY <1>0, <1>2, AccrualAssumption
       DEF AssignTypesWrite, ClerkRow, AccrualType, AccrualAssumption
  <2>2. Free \in ClerkRow
    BY DEF Free, ClerkRow, Missing, BalanceRow
  <2>3. clerk' \in [Clerks -> ClerkRow] /\ UNCHANGED <<period, active>>
    BY <1>0, <1>2, <2>2 DEF AssignTypesWrite
  <2>4. CASE UNCHANGED <<balance, credits, extra>>
    <3>1. AccrualType'
      BY <1>0, <2>3, <2>4 DEF AccrualType
    <3> QED
      BY <1>0, <2>4, <3>1, QuietStep
  <2>5. CASE ~UNCHANGED <<balance, credits, extra>>
    <3> DEFINE new == IF clerk[c].at = "assign" THEN Assign(clerk[c].row, days)
                      ELSE Unassign(Created(clerk[c].row))
               row == Flush(balance[e], clerk[c].row, new)
    <3>1. /\ balance' = [balance EXCEPT ![e] = row]
          /\ IF clerk[c].at = "assign" /\ ~HoldsRow(e, period) THEN Record(e, period)
             ELSE credits' = credits
          /\ IF clerk[c].at = "assign" THEN extra' = [extra EXCEPT ![e] = Exceed(extra[e], days)]
             ELSE extra' = extra
      BY <1>2, <2>e, <2>d, <2>1, <2>5 DEF AssignTypesWrite
    <3>2. /\ new \in BalanceRow
          /\ new.allocated \in IF clerk[c].at = "assign" THEN {days, clerk[c].row.allocated} ELSE {0}
      BY <2>1, AmountsGranted, CreatedGrant
    <3>3. /\ row \in BalanceRow
          /\ \/ row.allocated = IF clerk[c].at = "assign" THEN days ELSE 0
             \/ row.allocated = balance[e].allocated
      <4> HIDE DEF new
      <4> QED
        BY <2>1, <3>2, FlushAllocated
    <3> HIDE DEF row
    <3>x. /\ extra' \in [Employees -> Nat]
          /\ \A f \in Employees : extra[f] <= extra'[f]
          /\ clerk[c].at = "assign" => days <= Count + extra'[e]
      <4>1. \A most \in Nat : /\ Exceed(most, days) \in Nat /\ most <= Exceed(most, days)
                              /\ days <= Count + Exceed(most, days)
        BY <2>1 DEF Exceed
      <4> QED
        BY <2>1, <3>1, <4>1
    <3>4. /\ credits' \in [Employees -> [1..Periods -> Nat]]
          /\ \A f \in Employees : Accrued(f) <= Accrued(f)'
          /\ clerk[c].at = "assign" => Count <= Accrued(e)'
      <4>1. CASE Record(e, period)
        <5> PICK p \in 1..Periods : p = period
          BY <2>1
        <5> QED
          BY <1>0, <2>1, <4>1, RecordGrants DEF AccrualType
      <4>2. CASE credits' = credits /\ (clerk[c].at = "assign" => HoldsRow(e, period))
        <5>1. \A f \in Employees : Accrued(f)' = Accrued(f) /\ Accrued(f) \in Nat
          BY <4>2, AccruedStays, AccruedType
        <5>2. clerk[c].at = "assign" => Count <= Accrued(e)
          BY <2>1, <4>2, HeldIsGranted
        <5> QED
          BY <1>0, <4>2, <5>1, <5>2 DEF AccrualType
      <4> QED
        BY <3>1, <4>1, <4>2
    <3>n. ASSUME NEW f \in Employees
          PROVE  /\ Accrued(f) \in Nat /\ Accrued(f)' \in Nat
                 /\ extra[f] \in Nat /\ extra'[f] \in Nat
      BY <2>1, <3>x, AccruedType
    <3>g. /\ \A f \in Employees : Granted(f) <= Granted(f)'
          /\ clerk[c].at = "assign" => days <= Granted(e)'
      BY <2>1, <3>x, <3>4, <3>n DEF Granted
    <3>5. row.allocated <= Granted(e)'
      <4>1. balance[e].allocated <= Granted(e) /\ balance[e].allocated \in Int
        BY <2>1 DEF CreditInv, NeverOverCredited, Granted, Accrued, BalanceRow
      <4>2. Granted(e) \in Nat /\ Granted(e)' \in Nat
        BY <2>1, <3>x, GrantedType
      <4>3. row.allocated = balance[e].allocated \/ row.allocated = 0
              \/ (clerk[c].at = "assign" /\ row.allocated = days)
        BY <3>3
      <4> QED
        BY <3>g, <4>1, <4>2, <4>3
    <3>6. /\ balance' \in [Employees -> BalanceRow]
          /\ \A f \in Employees : balance'[f].allocated <= Granted(f)' \/ balance'[f] = balance[f]
      BY <1>0, <3>1, <3>3, <3>5
    <3>7. AccrualType'
      BY <1>0, <2>3, <3>x, <3>4, <3>6 DEF AccrualType
    <3> QED
      BY <1>0, <3>g, <3>6, <3>7, CreditsGrow
  <2> QED
    BY <2>4, <2>5
<1> QED
  BY <1>1, <1>2


LEMMA CreditStep == Monthly /\ CreditInv /\ [JobsNext]_jobVars => CreditInv'
<1> SUFFICES ASSUME Monthly, CreditInv, [JobsNext]_jobVars PROVE CreditInv'
  OBVIOUS
<1>0. AccrualType /\ night \in [Nights -> NightRow]
  BY DEF CreditInv, AccrualType
<1>1. ASSUME UNCHANGED accruals PROVE CreditInv'
  BY <1>0, <1>1, QuietStep DEF accruals, AccrualType
<1>2. ASSUME NEW j \in Nights, NightDies(j) PROVE CreditInv'
  <2>1. Asleep \in NightRow /\ Asleep.at # "store"
    <3>1. Missing \in BalanceRow /\ 1 \in 1..Periods
      BY AccrualAssumption DEF AccrualAssumption, Missing, BalanceRow
    <3> QED
      BY <3>1 DEF Asleep, NightRow, NightPlaces
  <2>2. night' \in [Nights -> NightRow] /\ \A i \in Nights : night'[i].at # "store" \/ night'[i] = night[i]
    BY <1>0, <1>2, <2>1 DEF NightDies, Go
  <2> QED
    BY <1>0, <1>2, <2>2, QuietStep DEF NightDies, AccrualType
<1>3. ASSUME NEW j \in Nights, NightFalls(j) \/ NightReturns(j) \/ NightRaises(j)
      PROVE  CreditInv'
  BY <1>1, <1>3 DEF NightFalls, NightReturns, NightRaises
<1>4. ASSUME (\E e \in Employees : Hire(e)) \/ PeriodEnds PROVE CreditInv'
  <2>1. AccrualType'
    <3>1. ASSUME NEW e \in Employees, Hire(e) PROVE AccrualType'
      BY <1>0, <3>1 DEF Hire, AccrualType
    <3>2. CASE PeriodEnds
      <4>1. period' \in 1..Periods
        BY <1>0, <3>2, AccrualAssumption DEF PeriodEnds, AccrualType, AccrualAssumption
      <4> QED
        BY <1>0, <3>2, <4>1 DEF PeriodEnds, AccrualType
    <3> QED
      BY <1>4, <3>1, <3>2
  <2> QED
    BY <1>4, <2>1, QuietStep DEF Hire, PeriodEnds
<1>5. CASE AccrualNext
  BY <1>3, <1>4, <1>5, NightStep, ClerkStep DEF AccrualNext, Accrual
<1>6. CASE NotificationNext /\ UNCHANGED <<accruals, deaths>>
  BY <1>1, <1>6
<1>7. ASSUME NEW j \in Jobs, Dies(j) \/ Handle(j) PROVE CreditInv'
  BY <1>1, <1>2, <1>7 DEF Dies, Handle
<1>8. CASE UNCHANGED jobVars
  BY <1>1, <1>8 DEF jobVars
<1> QED
  BY <1>5, <1>6, <1>7, <1>8 DEF JobsNext

\* No employee is granted more than one allocation per period, beyond what an
\* assignment by hand exceeded it by, however often the accrual of a monthly type
\* is repeated, overlaps or meets such an assignment: the unique key of
\* employee_leave_allocations refuses the second.
THEOREM CreditedOnce == Monthly => (JobsSpec => []NeverOverCredited)
<1>1. ASSUME Monthly PROVE JobsSpec => []NeverOverCredited
  <2>1. CreditInv /\ [JobsNext]_jobVars => CreditInv'
    BY <1>1, CreditStep
  <2>2. CreditInv => NeverOverCredited
    BY DEF CreditInv
  <2> QED
    BY <2>1, <2>2, CreditInit, PTL DEF JobsSpec
<1> QED
  BY <1>1
===============================================================================
