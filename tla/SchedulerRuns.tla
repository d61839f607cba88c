---------------------------- MODULE SchedulerRuns ----------------------------
(***************************************************************************)
(* Runs of the scheduler centre: the rows of t_scheduler_job_run, the      *)
(* asyncio tasks that execute them in one process, the PostgreSQL advisory *)
(* lock of each job, the process-wide execution semaphore, and the calls   *)
(* that interfere: cancellation, reload, shutdown, crash and restart.      *)
(*                                                                         *)
(* Source: app/modules/scheduler_center/{service,runtime,repository,api}.  *)
(* Every await of execute_started_job is a step of its own, so that any    *)
(* other task, request or failure can come between two of them.            *)
(***************************************************************************)
EXTENDS Naturals, FiniteSets

CONSTANTS
  Runs,            \* run ids; each is used by at most one start_job call
  Jobs,            \* job codes
  JobOf,           \* the job each run id is started for
  Modes,           \* how runs may be started, a subset of AllModes
  MaxConcurrent,   \* scheduler_max_concurrent_jobs
  RetryCount,      \* retry_count of every job
  ResultStatuses,  \* JobResult.status values handlers return
  SchedulerEnabled,\* SCHEDULER_ENABLED
  MaxDrops,        \* bound: database connections closed by the server
  MaxFaults,       \* bound: failures of connects, commits and reloads
  MaxCrashes,      \* bound: exits of the process
  MaxCancels,      \* bound: cancel requests and shutdowns
  None             \* no run holds the lock

AllModes == {"cron", "background", "request"}
Terminal == {"success", "skipped", "failed", "timeout", "cancelled"}
Statuses == Terminal \cup {"absent", "running"}
Errors   == {"none", "already_running", "job_timeout", "job_failed",
             "job_cancelled", "job_cancelled_not_active",
             "scheduler_orphaned_after_restart"}
Summaries == {"empty", "progress", "result"}
Verdicts == Terminal \cup {"none"}

\* Where an execution is suspended.  The four finishing points are the same
\* _finish_run awaited from different scopes: an except clause, the not-locked
\* branch, inside lock and semaphore, and under asyncio.shield.
Finishing == {"finish", "finishSkip", "finishHeld", "finishShield"}
Executing == {"run", "sleep"}
Points == {"idle", "recorded", "load", "trylock", "sem", "unwind", "rollback",
           "done"} \cup Executing \cup Finishing

ASSUME RunsAssumption == None \notin Runs
ASSUME JobOfAssumption == JobOf \in [Runs -> Jobs]
ASSUME LimitAssumption == MaxConcurrent \in Nat \ {0} /\ RetryCount \in Nat
ASSUME ModesAssumption == Modes \subseteq AllModes
ASSUME ResultAssumption == ResultStatuses \subseteq {"success", "skipped"}
ASSUME EnabledAssumption == SchedulerEnabled \in BOOLEAN
ASSUME BoundAssumption == {MaxDrops, MaxFaults, MaxCrashes, MaxCancels} \subseteq Nat

VARIABLES
  row,       \* t_scheduler_job_run: status, error_code, result_summary
  jobs,      \* rows of t_scheduler_job
  lock,      \* job -> run whose dedicated connection holds the advisory lock
  pc,        \* where the execution of each run is suspended
  mode,      \* how each run was started
  verdict,   \* the outcome an execution carries towards its final write
  attempts,  \* handler attempts made
  slots,     \* runs inside the execution semaphore
  tracked,   \* SchedulerRuntime._active_tasks
  cancel,    \* tasks with a cancellation not yet delivered
  repairing, \* cancel requests that found no active task, before their update
  broken,    \* runs whose database session lost its connection
  lost,      \* runs whose lock connection dropped while they held the lock
  proc,      \* the process is "up", "stopping" or "down"
  sched,     \* SchedulerRuntime._scheduler is not None
  drops, faults, crashes, cancels

taskVars == <<pc, mode, verdict, attempts, slots, tracked, cancel, broken, lost>>
envVars  == <<proc, sched, crashes, cancels>>
faultVars == <<drops, faults>>
vars == <<row, jobs, lock, taskVars, repairing, envVars, faultVars>>

Live(r) == pc[r] \notin {"idle", "done"}
Holds(r) == lock[JobOf[r]] = r
\* (mutant) the unlock runs on another connection than the lock.
FreeLockElsewhere(r) == lock
FreeLock(r) == [lock EXCEPT ![JobOf[r]] = IF @ = r THEN None ELSE @]

Init ==
  /\ row = [r \in Runs |-> [status |-> "absent", error |-> "none", summary |-> "empty"]]
  /\ jobs = Jobs
  /\ lock = [j \in Jobs |-> None]
  /\ pc = [r \in Runs |-> "idle"]
  /\ mode = [r \in Runs |-> "request"]
  /\ verdict = [r \in Runs |-> "none"]
  /\ attempts = [r \in Runs |-> 0]
  /\ slots = {} /\ tracked = {} /\ cancel = {} /\ repairing = {}
  /\ broken = {} /\ lost = {}
  /\ proc = "up" /\ sched = SchedulerEnabled
  /\ drops = 0 /\ faults = 0 /\ crashes = 0 /\ cancels = 0

-----------------------------------------------------------------------------
(* The life of one run. *)

\* start_job: the "running" row is committed.  A cron task and a background
\* request record the active task only after this commit returned.
StartJob(r, m) ==
  /\ pc[r] = "idle" /\ JobOf[r] \in jobs
  /\ IF m = "cron" THEN sched ELSE proc = "up"
  /\ row' = [row EXCEPT ![r].status = "running"]
  /\ mode' = [mode EXCEPT ![r] = m]
  /\ pc' = [pc EXCEPT ![r] = "recorded"]
  /\ UNCHANGED <<jobs, lock, verdict, attempts, slots, tracked, cancel,
                 repairing, broken, lost, envVars, faultVars>>

\* Only cron and background executions enter _active_tasks; a synchronous
\* request calls execute_started_job itself.
Track(r) ==
  /\ pc[r] = "recorded" /\ r \notin cancel
  /\ tracked' = IF mode[r] = "request" THEN tracked ELSE tracked \cup {r}
  /\ pc' = [pc EXCEPT ![r] = "load"]
  /\ UNCHANGED <<row, jobs, lock, mode, verdict, attempts, slots, cancel,
                 repairing, broken, lost, envVars, faultVars>>

\* (mutant) the finally does not pop the active task.
EndsActive(r) ==
  /\ pc' = [pc EXCEPT ![r] = "done"]
  /\ verdict' = [verdict EXCEPT ![r] = "none"]
  /\ UNCHANGED tracked
  /\ cancel' = cancel \ {r} /\ broken' = broken \ {r} /\ lost' = lost \ {r}

\* An execution returns or raises out of execute_started_job.
Ends(r) ==
  /\ pc' = [pc EXCEPT ![r] = "done"]
  /\ verdict' = [verdict EXCEPT ![r] = "none"]
  /\ tracked' = tracked \ {r}
  /\ cancel' = cancel \ {r}
  /\ broken' = broken \ {r}
  /\ lost' = lost \ {r}

\* get_job: it is outside the try, a failing session raises out of the task.
LoadJob(r) ==
  /\ pc[r] = "load" /\ r \notin cancel
  /\ \/ /\ r \in broken
        /\ Ends(r)
     \/ /\ r \notin broken /\ JobOf[r] \in jobs
        /\ pc' = [pc EXCEPT ![r] = "trylock"]
        /\ UNCHANGED <<verdict, tracked, cancel, broken, lost>>
     \/ /\ r \notin broken /\ JobOf[r] \notin jobs
        /\ pc' = [pc EXCEPT ![r] = "finish"]
        /\ verdict' = [verdict EXCEPT ![r] = "failed"]
        /\ UNCHANGED <<tracked, cancel, broken, lost>>
  /\ UNCHANGED <<row, jobs, lock, mode, attempts, slots, repairing, envVars, faultVars>>

\* pg_try_advisory_lock on the dedicated connection.
TryLock(r) ==
  /\ pc[r] = "trylock" /\ r \notin cancel
  /\ IF lock[JobOf[r]] = None
     THEN /\ lock' = [lock EXCEPT ![JobOf[r]] = r]
          /\ pc' = [pc EXCEPT ![r] = "sem"]
          /\ UNCHANGED verdict
     ELSE /\ pc' = [pc EXCEPT ![r] = "finishSkip"]
          /\ verdict' = [verdict EXCEPT ![r] = "skipped"]
          /\ UNCHANGED lock
  /\ UNCHANGED <<row, jobs, mode, attempts, slots, tracked, cancel, repairing,
                 broken, lost, envVars, faultVars>>

\* The execution leaves the semaphore, if it is inside, and starts to leave
\* the lock with verdict v.
Unwinds(r, v) ==
  /\ slots' = slots \ {r}
  /\ pc' = [pc EXCEPT ![r] = "unwind"]
  /\ verdict' = [verdict EXCEPT ![r] = v]

\* (mutant) the semaphore admits one handler too many.
AcquireSlotBeyond(r) ==
  /\ pc[r] = "sem" /\ r \notin cancel
  /\ Cardinality(slots) <= MaxConcurrent
  /\ slots' = slots \cup {r}
  /\ pc' = [pc EXCEPT ![r] = "run"]
  /\ attempts' = [attempts EXCEPT ![r] = 1]
  /\ UNCHANGED <<row, jobs, lock, mode, verdict, tracked, cancel, repairing,
                 broken, lost, envVars, faultVars>>

\* The semaphore is taken while the advisory lock is already held.  The
\* trigger source is then read on the run's session, inside the try.
AcquireSlot(r) ==
  /\ pc[r] = "sem" /\ r \notin cancel
  /\ Cardinality(slots) < MaxConcurrent
  /\ IF r \in broken
     THEN Unwinds(r, "failed") /\ UNCHANGED attempts
     ELSE /\ slots' = slots \cup {r}
          /\ pc' = [pc EXCEPT ![r] = "run"]
          /\ attempts' = [attempts EXCEPT ![r] = 1]
          /\ UNCHANGED verdict
  /\ UNCHANGED <<row, jobs, lock, mode, tracked, cancel, repairing, broken,
                 lost, envVars, faultVars>>

\* (mutant) the lock lives on the run's session, whose commit gives the
\* connection back to the pool.
ReportProgressUnlocks(r) ==
  /\ pc[r] = "run" /\ r \notin cancel /\ r \notin broken
  /\ row' = [row EXCEPT ![r].summary = "progress"]
  /\ lock' = FreeLock(r)
  /\ UNCHANGED <<jobs, taskVars, repairing, envVars, faultVars>>

\* report_progress.  The status it checks comes from the session's identity
\* map, which other sessions' writes do not refresh: it may be stale.
ReportProgress(r) ==
  /\ pc[r] = "run" /\ r \notin cancel /\ r \notin broken
  /\ row' = [row EXCEPT ![r].summary = "progress"]
  /\ UNCHANGED <<jobs, lock, taskVars, repairing, envVars, faultVars>>

HandlerReturns(r, s) ==
  /\ pc[r] = "run" /\ r \notin cancel
  /\ pc' = [pc EXCEPT ![r] = "finishHeld"]
  /\ verdict' = [verdict EXCEPT ![r] = s]
  /\ UNCHANGED <<row, jobs, lock, mode, attempts, slots, tracked, cancel,
                 repairing, broken, lost, envVars, faultVars>>

\* (mutant) one attempt more than retry_count allows.
HandlerRaisesOnce(r) ==
  /\ pc[r] = "run" /\ r \notin cancel
  /\ IF attempts[r] <= RetryCount + 1
     THEN pc' = [pc EXCEPT ![r] = "sleep"] /\ UNCHANGED <<slots, verdict>>
     ELSE Unwinds(r, "failed")
  /\ UNCHANGED <<row, jobs, lock, mode, attempts, tracked, cancel, repairing,
                 broken, lost, envVars, faultVars>>

\* Any exception but a timeout: sleep and retry, or give up.
HandlerRaises(r) ==
  /\ pc[r] = "run" /\ r \notin cancel
  /\ IF attempts[r] < RetryCount + 1
     THEN pc' = [pc EXCEPT ![r] = "sleep"] /\ UNCHANGED <<slots, verdict>>
     ELSE Unwinds(r, "failed")
  /\ UNCHANGED <<row, jobs, lock, mode, attempts, tracked, cancel, repairing,
                 broken, lost, envVars, faultVars>>

HandlerTimesOut(r) ==
  /\ pc[r] = "run" /\ r \notin cancel
  /\ Unwinds(r, "timeout")
  /\ UNCHANGED <<row, jobs, lock, mode, attempts, tracked, cancel, repairing,
                 broken, lost, envVars, faultVars>>

\* (mutant) attempts are not counted.
RetryUncounted(r) ==
  /\ pc[r] = "sleep" /\ r \notin cancel
  /\ pc' = [pc EXCEPT ![r] = "run"]
  /\ UNCHANGED <<row, jobs, lock, mode, verdict, attempts, slots, tracked,
                 cancel, repairing, broken, lost, envVars, faultVars>>

\* retry_interval_seconds elapsed: lock and slot were kept during the sleep.
Retry(r) ==
  /\ pc[r] = "sleep" /\ r \notin cancel
  /\ pc' = [pc EXCEPT ![r] = "run"]
  /\ attempts' = [attempts EXCEPT ![r] = @ + 1]
  /\ UNCHANGED <<row, jobs, lock, mode, verdict, slots, tracked, cancel,
                 repairing, broken, lost, envVars, faultVars>>

\* (mutant) a failing unlock fails the run.
UnlockRaises(r) ==
  /\ pc[r] = "unwind" /\ r \notin cancel
  /\ lock' = FreeLock(r)
  /\ IF r \notin lost /\ verdict[r] = "none"
     THEN Ends(r)
     ELSE /\ verdict' = [verdict EXCEPT ![r] = IF r \in lost THEN "failed" ELSE @]
          /\ pc' = [pc EXCEPT ![r] = IF verdict[r] = "timeout" THEN "finish" ELSE "rollback"]
          /\ lost' = lost \ {r}
          /\ UNCHANGED <<tracked, cancel, broken>>
  /\ UNCHANGED <<row, jobs, mode, attempts, slots, repairing, envVars, faultVars>>

\* hold_advisory_lock's finally: unlock and close.  A failing unlock changes
\* nothing more, PostgreSQL frees the lock with its connection.  Only a
\* timeout is written without rolling the session back first.
Unlock(r) ==
  /\ pc[r] = "unwind" /\ r \notin cancel
  /\ lock' = FreeLock(r)
  /\ \/ /\ verdict[r] = "none"
        /\ Ends(r)
     \/ /\ verdict[r] # "none"
        /\ pc' = [pc EXCEPT ![r] = IF verdict[r] = "timeout" THEN "finish" ELSE "rollback"]
        /\ lost' = lost \ {r}
        /\ UNCHANGED <<verdict, tracked, cancel, broken>>
  /\ UNCHANGED <<row, jobs, mode, attempts, slots, repairing, envVars, faultVars>>

Rollback(r) ==
  /\ pc[r] = "rollback" /\ r \notin cancel
  /\ pc' = [pc EXCEPT ![r] = IF verdict[r] = "cancelled" THEN "finishShield" ELSE "finish"]
  /\ broken' = broken \ {r}
  /\ UNCHANGED <<row, jobs, lock, mode, verdict, attempts, slots, tracked,
                 cancel, repairing, lost, envVars, faultVars>>

ErrorOf(r) ==
  CASE pc[r] = "finishHeld" -> "none"
    [] pc[r] = "finishSkip" -> "already_running"
    [] pc[r] = "finishShield" -> "job_cancelled"
    [] pc[r] = "finish" -> IF verdict[r] = "timeout" THEN "job_timeout" ELSE "job_failed"

\* (mutant) a missing result is written as an empty summary.
SummariesOfResult(r) == IF pc[r] = "finishHeld" THEN {"result"} ELSE {"empty"}

\* Without a result the last checkpoint is read back and kept, unless that
\* read fails; a failed handler may attach details of its own.
SummariesOf(r) ==
  LET kept == IF r \in broken THEN "empty" ELSE row[r].summary
  IN CASE pc[r] = "finishHeld" -> {"result"}
       [] pc[r] = "finish" /\ verdict[r] = "failed" -> {"result", kept}
       [] OTHER -> {kept}

\* The rows _finish_run may leave: the update names the run id, not the
\* status it expects.  A broken session is replaced by a fresh one.
FinalRows(r) ==
  {[row EXCEPT ![r] = [status |-> verdict[r], error |-> ErrorOf(r), summary |-> s]]
      : s \in SummariesOf(r)}

FinishRun(r) ==
  /\ pc[r] \in Finishing /\ r \notin cancel
  /\ row' \in FinalRows(r)
  /\ IF pc[r] = "finishHeld"
     THEN /\ Unwinds(r, "none")
          /\ broken' = broken \ {r}
          /\ UNCHANGED <<tracked, cancel, lost>>
     ELSE Ends(r) /\ UNCHANGED slots
  /\ UNCHANGED <<jobs, lock, mode, attempts, repairing, envVars, faultVars>>

-----------------------------------------------------------------------------
(* Cancellation. *)

\* POST /runs/{id}/cancel with an active task: task.cancel().
RequestCancel(r) ==
  /\ proc = "up" /\ cancels < MaxCancels
  /\ r \in tracked
  /\ cancel' = cancel \cup {r}
  /\ cancels' = cancels + 1
  /\ UNCHANGED <<row, jobs, lock, pc, mode, verdict, attempts, slots, tracked,
                 repairing, broken, lost, proc, sched, crashes, faultVars>>

\* The same call without an active task goes on to update the row ...
RequestRecordCancel(r) ==
  /\ proc = "up" /\ cancels < MaxCancels
  /\ pc[r] # "idle" /\ r \notin tracked
  /\ repairing' = repairing \cup {r}
  /\ cancels' = cancels + 1
  /\ UNCHANGED <<row, jobs, lock, taskVars, proc, sched, crashes, faultVars>>

\* (mutant) the update does not look at the status.
CancelAnyRecord(r) ==
  /\ r \in repairing
  /\ repairing' = repairing \ {r}
  /\ row' = [row EXCEPT ![r] = [@ EXCEPT !.status = "cancelled",
                                         !.error = "job_cancelled_not_active"]]
  /\ UNCHANGED <<jobs, lock, taskVars, envVars, faultVars>>

\* ... in a transaction of its own, which only touches a "running" row.
CancelRunRecord(r) ==
  /\ r \in repairing
  /\ repairing' = repairing \ {r}
  /\ row' = IF row[r].status = "running"
            THEN [row EXCEPT ![r] = [@ EXCEPT !.status = "cancelled",
                                              !.error = "job_cancelled_not_active"]]
            ELSE row
  /\ UNCHANGED <<jobs, lock, taskVars, envVars, faultVars>>

\* CancelledError at the await the task is suspended on.  A database write in
\* flight may have taken effect on the server.
DeliverCancel(r) ==
  /\ r \in cancel
  /\ \/ \* outside the try: nothing is written
        /\ pc[r] \in {"recorded", "load", "rollback"}
        /\ Ends(r) /\ UNCHANGED <<row, lock, slots>>
     \/ \* an except clause, or the not-locked branch whose finally returns
        /\ pc[r] \in {"finish", "finishSkip"}
        /\ row' \in FinalRows(r) \cup {row}
        /\ Ends(r) /\ UNCHANGED <<lock, slots>>
     \/ /\ pc[r] = "trylock"
        /\ pc' = [pc EXCEPT ![r] = "rollback"]
        /\ verdict' = [verdict EXCEPT ![r] = "cancelled"]
        /\ cancel' = cancel \ {r}
        /\ UNCHANGED <<row, lock, slots, tracked, broken, lost>>
     \/ /\ pc[r] \in {"sem", "finishHeld"} \cup Executing
        /\ row' \in IF pc[r] = "finishHeld" THEN FinalRows(r) \cup {row} ELSE {row}
        /\ Unwinds(r, "cancelled")
        /\ cancel' = cancel \ {r}
        /\ UNCHANGED <<lock, tracked, broken, lost>>
     \/ \* the unlock is interrupted, its connection is invalidated
        /\ pc[r] = "unwind"
        /\ lock' = FreeLock(r)
        /\ pc' = [pc EXCEPT ![r] = "rollback"]
        /\ verdict' = [verdict EXCEPT ![r] = "cancelled"]
        /\ cancel' = cancel \ {r} /\ lost' = lost \ {r}
        /\ UNCHANGED <<row, slots, tracked, broken>>
     \/ \* the shielded write goes on without the task
        /\ pc[r] = "finishShield"
        /\ tracked' = tracked \ {r} /\ cancel' = cancel \ {r}
        /\ UNCHANGED <<row, lock, slots, pc, verdict, broken, lost>>
  /\ UNCHANGED <<jobs, mode, attempts, repairing, envVars, faultVars>>

-----------------------------------------------------------------------------
(* Database faults. *)

Drop  == drops < MaxDrops /\ drops' = drops + 1 /\ UNCHANGED faults
Fault == faults < MaxFaults /\ faults' = faults + 1 /\ UNCHANGED drops

\* The connection of the run's session is closed by the server.
BreakSession(r) ==
  /\ Drop /\ Live(r)
  /\ broken' = broken \cup {r}
  /\ UNCHANGED <<row, jobs, lock, pc, mode, verdict, attempts, slots, tracked,
                 cancel, repairing, lost, envVars>>

\* The idle connection that holds the advisory lock is closed by the server.
DropLockConnection(r) ==
  /\ Drop /\ Holds(r)
  /\ lock' = FreeLock(r)
  /\ lost' = lost \cup {r}
  /\ UNCHANGED <<row, jobs, pc, mode, verdict, attempts, slots, tracked,
                 cancel, repairing, broken, envVars>>

\* The lock connection cannot be opened, or the final write fails on the
\* run's session and on the fresh one, though it may have been committed.
StepFails(r) ==
  /\ Fault /\ r \notin cancel
  /\ \/ /\ pc[r] = "trylock"
        /\ pc' = [pc EXCEPT ![r] = "rollback"]
        /\ verdict' = [verdict EXCEPT ![r] = "failed"]
        /\ UNCHANGED <<row, slots, tracked, cancel, broken, lost>>
     \/ /\ pc[r] \in Finishing \ {"finishHeld"}
        /\ row' \in FinalRows(r) \cup {row}
        /\ Ends(r) /\ UNCHANGED slots
     \/ /\ pc[r] = "finishHeld"
        /\ row' \in FinalRows(r) \cup {row}
        /\ Unwinds(r, "failed") /\ UNCHANGED <<tracked, cancel, broken, lost>>
  /\ UNCHANGED <<jobs, lock, mode, attempts, repairing, envVars>>

-----------------------------------------------------------------------------
(* The process. *)

MarkOrphaned(rows) ==
  [r \in Runs |-> IF rows[r].status = "running"
                  THEN [rows[r] EXCEPT !.status = "failed",
                                       !.error = "scheduler_orphaned_after_restart"]
                  ELSE rows[r]]

DeleteJob(j) ==
  /\ proc = "up" /\ j \in jobs
  /\ jobs' = jobs \ {j}
  /\ UNCHANGED <<row, lock, taskVars, repairing, envVars, faultVars>>

\* reload() without a scheduler runs start(), which marks every running row.
ReloadStarts ==
  /\ proc = "up" /\ ~sched
  /\ sched' = TRUE
  /\ row' = MarkOrphaned(row)
  /\ UNCHANGED <<jobs, lock, taskVars, repairing, proc, crashes, cancels, faultVars>>

CronTasks == {r \in Runs : Live(r) /\ mode[r] = "cron"}

\* A reload that fails shuts APScheduler down, whose executor cancels the
\* cron tasks it started.
ReloadFails ==
  /\ Fault /\ proc = "up" /\ sched
  /\ sched' = FALSE
  /\ cancel' = cancel \cup CronTasks
  /\ UNCHANGED <<row, jobs, lock, pc, mode, verdict, attempts, slots, tracked,
                 repairing, broken, lost, proc, crashes, cancels>>

\* stop(): cancel the active tasks and wait for them, up to ten seconds; cron
\* may still fire meanwhile.
Stop ==
  /\ proc = "up" /\ cancels < MaxCancels /\ crashes < MaxCrashes
  /\ proc' = "stopping"
  /\ cancel' = cancel \cup tracked
  /\ cancels' = cancels + 1
  /\ UNCHANGED <<row, jobs, lock, pc, mode, verdict, attempts, slots, tracked,
                 repairing, broken, lost, sched, crashes, faultVars>>

\* Then APScheduler is shut down.
StopScheduler ==
  /\ proc = "stopping" /\ sched
  /\ sched' = FALSE
  /\ cancel' = cancel \cup CronTasks
  /\ UNCHANGED <<row, jobs, lock, pc, mode, verdict, attempts, slots, tracked,
                 repairing, broken, lost, proc, crashes, cancels, faultVars>>

\* The process exits, after stop() or without it: every task is gone and
\* PostgreSQL frees the locks of its connections.
Exit ==
  /\ proc # "down" /\ crashes < MaxCrashes
  /\ proc' = "down" /\ sched' = FALSE /\ crashes' = crashes + 1
  /\ pc' = [r \in Runs |-> IF Live(r) THEN "done" ELSE pc[r]]
  /\ verdict' = [r \in Runs |-> "none"]
  /\ lock' = [j \in Jobs |-> None]
  /\ slots' = {} /\ tracked' = {} /\ cancel' = {} /\ repairing' = {}
  /\ broken' = {} /\ lost' = {}
  /\ UNCHANGED <<row, jobs, mode, attempts, cancels, faultVars>>

\* (mutant) the orphaned rows are not marked.
RestartOnly ==
  /\ proc = "down" /\ proc' = "up"
  /\ sched' = SchedulerEnabled
  /\ UNCHANGED <<row, jobs, lock, taskVars, repairing, crashes, cancels, faultVars>>

\* lifespan: mark the orphaned rows, then start the scheduler when enabled.
\* Both only log a database failure.
Restart ==
  /\ proc = "down" /\ proc' = "up"
  /\ \/ row' = MarkOrphaned(row) /\ sched' = SchedulerEnabled /\ UNCHANGED faultVars
     \/ Fault /\ sched' = FALSE /\ UNCHANGED row
  /\ UNCHANGED <<jobs, lock, taskVars, repairing, crashes, cancels>>

\* No execution is under way: the process waits for requests and cron.
Waiting == proc = "up" /\ (\A r \in Runs : ~Live(r)) /\ UNCHANGED vars

TaskStep(r) ==
  \/ Track(r) \/ LoadJob(r) \/ TryLock(r) \/ AcquireSlot(r)
  \/ (\E s \in ResultStatuses : HandlerReturns(r, s))
  \/ HandlerRaises(r) \/ HandlerTimesOut(r) \/ Retry(r)
  \/ Unlock(r) \/ Rollback(r) \/ FinishRun(r) \/ DeliverCancel(r)

Next ==
  \/ \E r \in Runs : \/ \E m \in Modes : StartJob(r, m)
                     \/ TaskStep(r) \/ ReportProgress(r)
                     \/ RequestCancel(r) \/ RequestRecordCancel(r)
                     \/ CancelRunRecord(r)
                     \/ BreakSession(r) \/ DropLockConnection(r) \/ StepFails(r)
  \/ \E j \in Jobs : DeleteJob(j)
  \/ ReloadStarts \/ ReloadFails \/ Stop \/ StopScheduler \/ Exit \/ Restart \/ Waiting

Spec == Init /\ [][Next]_vars

\* The event loop runs every ready task, handlers end (they have a timeout),
\* and a process that exits is started again.
FairSpec ==
  Spec /\ (\A r \in Runs : WF_vars(TaskStep(r))) /\ WF_vars(Restart)
       /\ WF_vars(StopScheduler) /\ WF_vars(proc = "stopping" /\ Exit)
-----------------------------------------------------------------------------
(* Properties. *)

RowType == [status : Statuses, error : Errors, summary : Summaries]

\* Every variable has the type its column or attribute has in the code.
TypeOK ==
  /\ row \in [Runs -> RowType]
  /\ jobs \subseteq Jobs
  /\ lock \in [Jobs -> Runs \cup {None}]
  /\ pc \in [Runs -> Points]
  /\ mode \in [Runs -> AllModes]
  /\ verdict \in [Runs -> Verdicts]
  /\ attempts \in [Runs -> 0 .. RetryCount + 1]
  /\ slots \subseteq Runs /\ tracked \subseteq Runs /\ cancel \subseteq Runs
  /\ repairing \subseteq Runs /\ broken \subseteq Runs /\ lost \subseteq Runs
  /\ proc \in {"up", "stopping", "down"} /\ sched \in BOOLEAN
  /\ drops \in Nat /\ faults \in Nat /\ crashes \in Nat /\ cancels \in Nat

SameJob(r, s) == r # s /\ JobOf[r] = JobOf[s]

\* Two handlers of one job run at the same time only if the connection that
\* held the advisory lock for one of them was closed under it
\* (execute_started_job inside hold_advisory_lock).
ExclusiveHandlers ==
  \A r, s \in Runs :
    SameJob(r, s) /\ {pc[r], pc[s]} \subseteq Executing => r \in lost \/ s \in lost

\* At most scheduler_max_concurrent_jobs handlers run or sleep before a retry
\* (_get_execution_semaphore).
BoundedHandlers == Cardinality({r \in Runs : pc[r] \in Executing}) <= MaxConcurrent

\* However an execution ended, by return, failure, timeout, cancellation or
\* process exit, it left neither its lock, nor its slot, nor an active task.
NothingLeaks ==
  \A r \in Runs : ~Live(r) => ~Holds(r) /\ r \notin slots \cup tracked \cup cancel

\* already_running is only recorded while another live execution of the job
\* is inside the lock: no run is skipped because of a stale lock.
NoStaleSkip ==
  [][\A r \in Runs : pc[r] = "trylock" /\ pc'[r] = "finishSkip"
       => \E s \in Runs : SameJob(r, s) /\ Live(s) /\ Holds(s)]_vars

\* A finished row is only rewritten by the run's own task on its way out,
\* never by a cancel request, a reload or a restart.
OnlyOwnerRewrites ==
  [][\A r \in Runs : row[r].status \in Terminal /\ row'[r].status # row[r].status
       => pc[r] \in Finishing]_vars

\* Once a handler's result is recorded, only a cancellation replaces it: a
\* dropped connection does not turn a finished run into a failed one, only a
\* final write that failed on two sessions may.
ResultStays ==
  [][\A r \in Runs : row[r].status = "success" /\ faults = 0
       => row'[r].status \in {"success", "cancelled"}]_vars

KeepsCheckpoint(r) ==
  row[r].summary = "progress" /\ row'[r].status \in {"timeout", "cancelled"}
    => row'[r].summary = "progress"

\* A timeout or a cancellation keeps the last checkpoint report_progress
\* wrote, as long as the run's session is connected.
CheckpointKept == [][\A r \in Runs : r \notin broken => KeepsCheckpoint(r)]_vars

\* A row marked scheduler_orphaned_after_restart belongs to an execution of an
\* earlier process.
OrphanHasNoTask ==
  \A r \in Runs : row[r].error = "scheduler_orphaned_after_restart" => ~Live(r)

\* Every execution that starts ends, whoever else waits for locks and slots.
ExecutionsEnd == \A r \in Runs : Live(r) ~> pc[r] = "done"

Disturbed == cancels > 0 \/ drops > 0 \/ faults > 0

\* Without cancellations and database faults, no row stays "running", across
\* exits and restarts.
RunsSettle ==
  \A r \in Runs : row[r].status = "running" ~> row[r].status \in Terminal \/ Disturbed
=============================================================================
