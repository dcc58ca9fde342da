------------------------- MODULE NotificationDelivery -------------------------
(***************************************************************************)
(* Notifications, the rows of their recipients, and their delivery by a    *)
(* job of the queue.                                                       *)
(*                                                                         *)
(* create_notification and assign_recipients enqueue the job after their   *)
(* commit.  emit_system_notification runs inside the transaction of the    *)
(* service that calls it and enqueues before that commits: the job may     *)
(* find nothing, or the rows may never come to be.  An enqueue that fails  *)
(* is logged and forgotten by all three.  Meanwhile recipients read,       *)
(* archive and delete the same rows.                                       *)
(*                                                                         *)
(* Organizations are told apart by their ids, because the job exchanges    *)
(* them with those of notifications.  branch_id is taken to be nullable.   *)
(***************************************************************************)
EXTENDS JobQueue

CONSTANTS
  Notifications,   \* their ids
  Org,             \* the organization of each notification, by its id
  Users,
  Employer,        \* the organization of each user
  PageSize,        \* how many recipients a job loads at most
  Sessions,        \* API requests that create, emit or assign
  Deliveries,      \* the jobs that deliver
  About,           \* the notification each of them is enqueued for
  Marks,           \* what a recipient marks a row as, in this instance
  NoJob

ASSUME NotificationAssumption ==
  /\ Notifications \subseteq Nat \ {0} /\ Org \in [Notifications -> Nat \ {0}]
  /\ IsFiniteSet(Users) /\ Employer \in [Users -> Nat \ {0}]
  /\ PageSize \in Nat \ {0}
  /\ Marks \subseteq {"read", "archived", "deleted"}
  /\ Deliveries \subseteq Jobs /\ NoJob \notin Jobs
  /\ About \in [Deliveries -> Notifications]

VARIABLES
  notif,      \* the notification row
  rcpt,       \* notification_recipients, per notification and user
  api,        \* the API sessions
  work,       \* the delivery jobs: where they are and what they have loaded
  mailed,     \* the users an e-mail was handed to SMTP for, per notification
  promised    \* the recipients a job was enqueued for, and whether before the
              \* commit of their notification (no code: for a property)

notices == <<notif, rcpt, api, work, mailed, promised>>

NotifStatus == {"absent", "open", "committed", "rolledback"}

RecipientRow == [exists : BOOLEAN, delivered : BOOLEAN, marks : SUBSET Marks]
NoRecipient == [exists |-> FALSE, delivered |-> FALSE, marks |-> {}]
Insert(row) == [row EXCEPT !.exists = TRUE]

Quiet == [at |-> "idle", note |-> 0, users |-> {}, job |-> NoJob]
ApiPlaces == {"idle", "enqueue", "track", "emit.enqueue", "emit.track", "emit.commit",
              "assign.insert"}

Fresh == [at |-> "load", rows |-> {}, seen |-> [u \in Users |-> NoRecipient], sent |-> {}]
WorkPlaces == {"load", "missing", "send", "done"}

NoPromise == [users |-> {}, early |-> FALSE]

\* Those a notification can be for.
Staff(n) == {u \in Users : Employer[u] = Org[n]}

At(s, place) == api[s].at = place
Move(s, c) == api' = [api EXCEPT ![s] = c]
MoveTo(s, place) == api' = [api EXCEPT ![s].at = place]
Leave(s) == Move(s, Quiet)

WithRecipients(n, S) ==
  [rcpt EXCEPT ![n] = [u \in Users |-> IF u \in S THEN Insert(@[u]) ELSE @[u]]]

-------------------------------------------------------------------------------
(* NotificationService: writing notifications *)

\* create_notification commits rows and recipients, then enqueues.
CreateNotification(s, n, S) ==
  /\ At(s, "idle") /\ notif[n] = "absent"
  /\ notif' = [notif EXCEPT ![n] = "committed"]
  /\ rcpt' = WithRecipients(n, S)
  /\ IF S = {} THEN UNCHANGED api
     ELSE Move(s, [at |-> "enqueue", note |-> n, users |-> S, job |-> NoJob])
  /\ UNCHANGED <<work, mailed, promised, queue>>

\* emit_system_notification: the rows are flushed, not committed.
Emit(s, n, S) ==
  /\ At(s, "idle") /\ notif[n] = "absent" /\ S # {}
  /\ notif' = [notif EXCEPT ![n] = "open"]
  /\ Move(s, [at |-> "emit.enqueue", note |-> n, users |-> S, job |-> NoJob])
  /\ UNCHANGED <<rcpt, work, mailed, promised, queue>>

\* assign_recipients reads who is assigned already ...
AssignRead(s, n, S) ==
  /\ At(s, "idle") /\ notif[n] = "committed"
  /\ LET new == {u \in S : ~rcpt[n][u].exists} IN
       /\ new # {}
       /\ Move(s, [at |-> "assign.insert", note |-> n, users |-> new, job |-> NoJob])
  /\ UNCHANGED <<notif, rcpt, work, mailed, promised, queue>>

\* ... and inserts the others; a user another request has assigned meanwhile
\* makes the unique key refuse them all.
AssignInsert(s) ==
  /\ At(s, "assign.insert")
  /\ LET n == api[s].note IN
       IF \E u \in api[s].users : rcpt[n][u].exists
       THEN Leave(s) /\ UNCHANGED rcpt
       ELSE rcpt' = WithRecipients(n, api[s].users) /\ MoveTo(s, "enqueue")
  /\ UNCHANGED <<notif, work, mailed, promised, queue>>

\* What follows the enqueueing: nothing, or the commit of the caller.
After(s) == IF At(s, "enqueue") \/ At(s, "track") THEN Leave(s) ELSE MoveTo(s, "emit.commit")

Enqueue(s, j) ==
  /\ At(s, "enqueue") \/ At(s, "emit.enqueue")
  /\ About[j] = api[s].note
  /\ Accept(j)
  /\ Move(s, [api[s] EXCEPT !.at = IF @ = "enqueue" THEN "track" ELSE "emit.track", !.job = j])
  /\ promised' = [promised EXCEPT ![j] =
                    [users |-> api[s].users, early |-> At(s, "emit.enqueue")]]
  /\ UNCHANGED <<notif, rcpt, work, mailed, tracked>>

\* The queue cannot be reached: a warning is logged and the request goes on.
EnqueueFails(s) ==
  /\ At(s, "enqueue") \/ At(s, "emit.enqueue")
  /\ After(s)
  /\ UNCHANGED <<notif, rcpt, work, mailed, promised, queue>>

TrackJob(s) ==
  /\ At(s, "track") \/ At(s, "emit.track")
  /\ Track(api[s].job)
  /\ After(s)
  /\ UNCHANGED <<job, notif, rcpt, work, mailed, promised>>

\* The service that emitted commits or rolls back.
EmitCommit(s) ==
  /\ At(s, "emit.commit")
  /\ \/ /\ notif' = [notif EXCEPT ![api[s].note] = "committed"]
        /\ rcpt' = WithRecipients(api[s].note, api[s].users)
     \/ /\ notif' = [notif EXCEPT ![api[s].note] = "rolledback"]
        /\ UNCHANGED rcpt
  /\ Leave(s)
  /\ UNCHANGED <<work, mailed, promised, queue>>

-------------------------------------------------------------------------------
(* deliver_notification *)

\* The job looks the row up with its two ids exchanged: what it finds is the
\* notification whose id is that of the organization, if it belongs to the
\* organization whose id is that of the notification.
Found(n) ==
  LET m == Org[n] IN m \in Notifications /\ notif[m] = "committed" /\ Org[m] = n

Recipients(n) == {u \in Users : rcpt[n][u].exists}
Undelivered(n) == {u \in Recipients(n) : ~rcpt[n][u].delivered}

\* The first page of a search: all of it, or as many as a page holds, whichever
\* were created last.
Pages(S) ==
  IF Cardinality(S) <= PageSize THEN {S} ELSE {R \in SUBSET S : Cardinality(R) = PageSize}

Finish(j, ok) == End(j, ok) /\ work' = [work EXCEPT ![j] = Fresh]

LoadOnTrust(j) ==
  /\ Running(j) /\ work[j].at = "load"
  /\ work' = [work EXCEPT ![j] = [at |-> "send", rows |-> promised[j].users,
                                  seen |-> rcpt[About[j]], sent |-> {}]]
  /\ UNCHANGED <<notif, rcpt, api, mailed, promised, queue>>

LoadIgnoringMissing(j) ==
  /\ Running(j) /\ work[j].at = "load"
  /\ LET n == About[j] IN
     \/ /\ Undelivered(n) = {} /\ Finish(j, TRUE)
     \/ /\ Found(n) /\ Undelivered(n) # {}
        /\ \E rows \in Pages(Undelivered(n)) :
             work' = [work EXCEPT ![j] = [at |-> "send", rows |-> rows,
                                          seen |-> rcpt[n], sent |-> {}]]
        /\ UNCHANGED queue
  /\ UNCHANGED <<notif, rcpt, api, mailed, promised>>

DeliverLoad(j) ==
  /\ Running(j) /\ work[j].at = "load"
  /\ LET n == About[j] IN
     \/ /\ ~Found(n)
        /\ work' = [work EXCEPT ![j].at = "missing"]
        /\ UNCHANGED queue
     \/ /\ Found(n) /\ Undelivered(n) = {} /\ Finish(j, TRUE)
     \/ /\ Found(n) /\ Undelivered(n) # {}
        /\ \E rows \in Pages(Undelivered(n)) :
             work' = [work EXCEPT ![j] = [at |-> "send", rows |-> rows,
                                          seen |-> rcpt[n], sent |-> {}]]
        /\ UNCHANGED queue
  /\ UNCHANGED <<notif, rcpt, api, mailed, promised>>

\* Rows the job has updated stay locked until it commits.
RowLocked(n, u) == \E j \in Deliveries : About[j] = n /\ u \in work[j].sent

\* One turn of the loop over recipients: the row is updated, the e-mail sent,
\* or not (no address, SMTP not configured, or it refuses: logged).
DeliverTo(j, u) ==
  /\ Running(j) /\ work[j].at = "send" /\ u \in work[j].rows \ work[j].sent
  /\ ~RowLocked(About[j], u)
  /\ work' = [work EXCEPT ![j].sent = @ \cup {u}]
  /\ \/ mailed' = [mailed EXCEPT ![About[j]] = @ \cup {u}]
     \/ UNCHANGED mailed
  /\ UNCHANGED <<notif, rcpt, api, promised, queue>>

StampWholeRow(stored, loaded) == [loaded EXCEPT !.delivered = TRUE]

\* Only the column that changed is written.
Stamp(stored, loaded) == [stored EXCEPT !.delivered = TRUE]

\* The one commit of the job, that of its audit row.
DeliverCommit(j) ==
  /\ Running(j) /\ work[j].at = "send" /\ work[j].sent = work[j].rows
  /\ rcpt' = [rcpt EXCEPT ![About[j]] =
                [u \in Users |-> IF u \in work[j].sent THEN Stamp(@[u], work[j].seen[u])
                                 ELSE @[u]]]
  /\ work' = [work EXCEPT ![j] = [Fresh EXCEPT !.at = "done"]]
  /\ UNCHANGED <<notif, api, mailed, promised, queue>>

DeliverReturn(j) ==
  /\ work[j].at = "done" /\ Finish(j, TRUE)
  /\ UNCHANGED <<notif, rcpt, api, mailed, promised>>

\* A row that was not found, a database error, the job timeout: the job raises,
\* and its session is rolled back.
DeliverRaises(j) ==
  /\ work[j].at # "done" /\ Finish(j, FALSE)
  /\ UNCHANGED <<notif, rcpt, api, mailed, promised>>

DeliverDies(j) ==
  /\ WorkerDies(j)
  /\ work' = [work EXCEPT ![j] = Fresh]
  /\ UNCHANGED <<notif, rcpt, api, mailed, promised>>

-------------------------------------------------------------------------------
(* NotificationService: what a recipient does with a row *)

Visible(n, u) ==
  rcpt[n][u].exists /\ "deleted" \notin rcpt[n][u].marks /\ ~RowLocked(n, u)

OwnRow(n, u, row) ==
  /\ Visible(n, u)
  /\ row # rcpt[n][u]
  /\ rcpt' = [rcpt EXCEPT ![n][u] = row]
  /\ UNCHANGED <<notif, api, work, mailed, promised, queue>>

\* The first look at a notification marks it delivered.
GetUserNotification(n, u) == OwnRow(n, u, [rcpt[n][u] EXCEPT !.delivered = TRUE])

\* mark_read, archive_notification, delete_notification
SetMark(n, u, mark) == OwnRow(n, u, [rcpt[n][u] EXCEPT !.marks = @ \cup {mark}])

\* mark_unread, unarchive_notification
ClearMark(n, u, mark) ==
  mark # "deleted" /\ OwnRow(n, u, [rcpt[n][u] EXCEPT !.marks = @ \ {mark}])

\* bulk_mark_read, bulk_archive, bulk_delete: one UPDATE over rows of the user.
Bulk(u, S, mark) ==
  /\ \A n \in S : ~RowLocked(n, u)
  /\ rcpt' = [n \in Notifications |->
                IF n \in S /\ Visible(n, u) THEN [rcpt[n] EXCEPT ![u].marks = @ \cup {mark}]
                ELSE rcpt[n]]
  /\ rcpt' # rcpt
  /\ UNCHANGED <<notif, api, work, mailed, promised, queue>>

-------------------------------------------------------------------------------
Api(s) ==
  \/ \E n \in Notifications : \E S \in SUBSET Staff(n) :
       CreateNotification(s, n, S) \/ Emit(s, n, S) \/ AssignRead(s, n, S)
  \/ AssignInsert(s) \/ EnqueueFails(s) \/ TrackJob(s) \/ EmitCommit(s)
  \/ \E j \in Deliveries : Enqueue(s, j)

\* What the worker does for a job of its own accord, errors included.
Deliver(j) ==
  \/ DeliverLoad(j) \/ DeliverCommit(j) \/ DeliverReturn(j) \/ DeliverRaises(j)
  \/ \E u \in Users : DeliverTo(j, u)

Recipient(u) ==
  \/ \E n \in Notifications : GetUserNotification(n, u)
  \/ \E n \in Notifications, mark \in Marks : SetMark(n, u, mark) \/ ClearMark(n, u, mark)
  \/ \E S \in SUBSET {n \in Notifications : rcpt[n][u].exists}, mark \in Marks :
       Bulk(u, S, mark)

NotificationNext ==
  \/ \E s \in Sessions : Api(s)
  \/ \E j \in Deliveries : Deliver(j)
  \/ \E u \in Users : Recipient(u)

NotificationInit ==
  /\ notif = [n \in Notifications |-> "absent"]
  /\ rcpt = [n \in Notifications |-> [u \in Users |-> NoRecipient]]
  /\ api = [s \in Sessions |-> Quiet]
  /\ work = [j \in Deliveries |-> Fresh]
  /\ mailed = [n \in Notifications |-> {}]
  /\ promised = [j \in Deliveries |-> NoPromise]

-------------------------------------------------------------------------------
(* Properties *)

NotificationTypeOK ==
  /\ QueueTypeOK
  /\ notif \in [Notifications -> NotifStatus]
  /\ rcpt \in [Notifications -> [Users -> RecipientRow]]
  /\ api \in [Sessions -> [at : ApiPlaces, note : Notifications \cup {0},
                           users : SUBSET Users, job : Deliveries \cup {NoJob}]]
  /\ work \in [Deliveries -> [at : WorkPlaces, rows : SUBSET Users,
                              seen : [Users -> RecipientRow], sent : SUBSET Users]]
  /\ mailed \in [Notifications -> SUBSET Users]
  /\ promised \in [Deliveries -> [users : SUBSET Users, early : BOOLEAN]]

\* A job enqueued inside a transaction that is still open, or is rolled back,
\* announces nothing: no e-mail leaves before the notification it is sent for is
\* committed, nor before the one it quotes, which may be another.
NoMailBeforeCommit ==
  \A n \in Notifications, u \in Users :
    u \in mailed[n] => notif[n] = "committed" /\ rcpt[n][u].exists /\ Found(n)

\* A delivery the status record calls completed has delivered to everyone it was
\* enqueued for, whatever crashed, repeated or ran beside it, as long as one page
\* holds the recipients; and if it was enqueued before the commit, only where the
\* exchanged ids are the same: another's notification does not wait for the commit.
CompletedMeansDelivered ==
  \A j \in Deliveries : LET n == About[j] IN
    /\ tracked[j] = "completed"
    /\ Cardinality(Recipients(n)) <= PageSize
    /\ promised[j].early => Org[n] = n
    => \A u \in promised[j].users : rcpt[n][u].delivered

\* Delivery writes rows it loaded earlier, and takes back nothing their owners
\* did to them meanwhile: what was read, archived or deleted stays so.
DeliveryKeepsMarks ==
  [][\A n \in Notifications, u \in Users :
       rcpt'[n][u].delivered # rcpt[n][u].delivered
         => [rcpt'[n][u] EXCEPT !.delivered = FALSE] = rcpt[n][u]]_<<queue, notices>>
===============================================================================
