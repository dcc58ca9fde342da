------------------------------- MODULE JobQueue -------------------------------
(***************************************************************************)
(* The background queue: jobs handed to arq through Redis, the worker that *)
(* runs them, and the status record jobs/queue.py and the worker's hooks   *)
(* keep beside it under job_status:<id>.                                   *)
(*                                                                         *)
(* arq delivers at least once.  A worker that dies, or is stopped, leaves  *)
(* its job to be run again, job_max_tries times in all; a job that raises  *)
(* has failed for good.  What a job does is left to the modules that       *)
(* extend this one: they run its steps while Running(j), and end it.       *)
(***************************************************************************)
EXTENDS Integers, FiniteSets

CONSTANTS
  Jobs,         \* every job that is ever enqueued
  KeepsResult,  \* those whose result arq stores: all but cron jobs
  MaxTries,     \* job_max_tries
  Concurrency   \* worker_concurrency: jobs the worker runs at a time

ASSUME QueueAssumption ==
  /\ IsFiniteSet(Jobs) /\ KeepsResult \subseteq Jobs
  /\ MaxTries \in Nat \ {0} /\ Concurrency \in Nat \ {0}

VARIABLES
  job,       \* the job in arq: where it is, how often it was tried, how it ended
  tracked    \* job_status:<id>, what a client that polls the job is told

queue == <<job, tracked>>

JobRow == [state : {"new", "queued", "running", "ended", "closed"},
           try : 0..MaxTries, ok : BOOLEAN]
NewJob == [state |-> "new", try |-> 0, ok |-> FALSE]

Tracking == {"none", "pending", "running", "completed", "failed"}

Running(j) == job[j].state = "running"
Over(j) == job[j].state \in {"ended", "closed"}

Tell(j, s) == tracked' = [tracked EXCEPT ![j] = s]

\* enqueue, first half: Redis holds the job, and a worker may take it at once.
Accept(j) ==
  /\ job[j].state = "new"
  /\ job' = [job EXCEPT ![j].state = "queued"]

\* enqueue, second half: the status record is written whatever became of the
\* job since; a failure to write it is logged.
Track(j) == Tell(j, "pending") \/ UNCHANGED tracked

\* The worker starts a job it has a slot for; on_job_start updates its status.
Start(j) ==
  /\ job[j].state = "queued" /\ job[j].try < MaxTries
  /\ Cardinality({i \in Jobs : Running(i)}) < Concurrency
  /\ job' = [job EXCEPT ![j].state = "running", ![j].try = @ + 1]
  /\ Tell(j, "running")

GiveUpOneLater(j) ==
  /\ job[j].state = "queued" /\ job[j].try > MaxTries
  /\ job' = [job EXCEPT ![j].state = "closed"]
  /\ UNCHANGED tracked

\* A job that was tried often enough is given up without running any hook.
GiveUp(j) ==
  /\ job[j].state = "queued" /\ job[j].try = MaxTries
  /\ job' = [job EXCEPT ![j].state = "closed"]
  /\ UNCHANGED tracked

\* The worker is killed, or cancels its jobs to stop: the job is queued again.
WorkerDies(j) ==
  /\ Running(j)
  /\ job' = [job EXCEPT ![j].state = "queued"]
  /\ UNCHANGED tracked

\* The job returns or raises.
End(j, ok) ==
  /\ Running(j)
  /\ job' = [job EXCEPT ![j].state = "ended", ![j].ok = ok]
  /\ UNCHANGED tracked

\* after_job_end reports the result, if arq has stored one; the worker may die
\* first.
Report(j) ==
  /\ job[j].state = "ended"
  /\ job' = [job EXCEPT ![j].state = "closed"]
  /\ \/ j \in KeepsResult /\ Tell(j, IF job[j].ok THEN "completed" ELSE "failed")
     \/ UNCHANGED tracked

QueueInit ==
  /\ job = [j \in Jobs |-> NewJob]
  /\ tracked = [j \in Jobs |-> "none"]

QueueTypeOK ==
  /\ job \in [Jobs -> JobRow]
  /\ tracked \in [Jobs -> Tracking]
===============================================================================
