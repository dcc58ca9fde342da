---------------------------- MODULE BackgroundJobs ----------------------------
(***************************************************************************)
(* The worker and everything it runs here: notification deliveries and the *)
(* nightly leave accrual share one queue, its slots and its status record. *)
(***************************************************************************)
EXTENDS NotificationDelivery, LeaveAccrual

CONSTANT MaxDeaths   \* bound: how often the worker dies in one behaviour

ASSUME DeathAssumption == MaxDeaths \in Nat

\* A job is enqueued with one function to run; the nights are cron jobs, which
\* are built without keep_result and store no result.
ASSUME FunctionAssumption == Deliveries \cap Nights = {} /\ KeepsResult \cap Nights = {}

VARIABLE deaths

jobVars == <<queue, notices, accruals, deaths>>

\* The worker is killed in the middle of a job.
Dies(j) ==
  /\ deaths < MaxDeaths /\ deaths' = deaths + 1
  /\ \/ j \in Deliveries /\ DeliverDies(j) /\ UNCHANGED accruals
     \/ j \in Nights /\ NightDies(j) /\ UNCHANGED notices

\* What the worker does around a job, whatever the job is.
Handle(j) ==
  /\ Start(j) \/ GiveUp(j) \/ Report(j)
  /\ UNCHANGED <<notices, accruals, deaths>>

JobsNext ==
  \/ NotificationNext /\ UNCHANGED <<accruals, deaths>>
  \/ AccrualNext /\ UNCHANGED <<notices, deaths>>
  \/ \E j \in Jobs : Dies(j) \/ Handle(j)

JobsInit == QueueInit /\ NotificationInit /\ AccrualInit /\ deaths = 0

JobsSpec == JobsInit /\ [][JobsNext]_jobVars

\* The worker polls the queue and its event loop runs every job that can go on.
Worker(j) ==
  \/ Handle(j)
  \/ j \in Deliveries /\ Deliver(j) /\ UNCHANGED <<accruals, deaths>>
  \/ j \in Nights /\ Accrual(j) /\ UNCHANGED <<notices, deaths>>

\* Start is disabled while the other jobs hold the slots, and enabled again each
\* time one ends: a job left waiting needs the queue to be first in, first out.
JobsFairSpec == JobsSpec /\ \A j \in Jobs : SF_jobVars(Worker(j))

-------------------------------------------------------------------------------
(* Properties *)

\* A job that Redis has accepted is closed in the end: it is not lost with a
\* worker, and two deliveries that lock each other's rows get out of it.
JobsEnd == \A j \in Jobs : (job[j].state = "queued") ~> (job[j].state = "closed")

===============================================================================
