------------------------- MODULE SchedulerRunsProofs -------------------------
(* Proofs about SchedulerRuns, for every set of runs and every bound. *)
EXTENDS SchedulerRuns, FiniteSetTheorems, TLAPS

\* Suspension points inside hold_advisory_lock, and inside the semaphore.
InsideLock == {"sem", "run", "sleep", "finishHeld", "unwind"}
InsideSlot == {"run", "sleep", "finishHeld"}

\* What an execution carries to its final write is a terminal status, and a
\* sleeping one has an attempt left.
Carries(r) ==
  /\ pc[r] \in Finishing \cup {"rollback"} => verdict[r] \in Terminal
  /\ pc[r] = "sleep" => attempts[r] <= RetryCount

TypeInv == TypeOK /\ \A r \in Runs : Carries(r)

USE RunsAssumption, JobOfAssumption, LimitAssumption, ModesAssumption,
    ResultAssumption, EnabledAssumption, BoundAssumption

LEMMA FinalRowsType ==
  ASSUME TypeInv, NEW r \in Runs, pc[r] \in Finishing
  PROVE  FinalRows(r) \subseteq [Runs -> RowType]
<1>1. verdict[r] \in Statuses
  BY DEF TypeInv, Carries, Statuses
<1>2. ErrorOf(r) \in Errors
  BY DEF ErrorOf, Errors, Finishing
<1>3. SummariesOf(r) \subseteq Summaries
  BY DEF SummariesOf, Summaries, TypeInv, TypeOK, RowType
<1>4. QED
  BY <1>1, <1>2, <1>3 DEF FinalRows, TypeInv, TypeOK, RowType

LEMMA MarkOrphanedType ==
  ASSUME row \in [Runs -> RowType]
  PROVE  MarkOrphaned(row) \in [Runs -> RowType]
BY DEF MarkOrphaned, RowType, Statuses, Terminal, Errors

LEMMA TypeStep == TypeInv /\ [Next]_vars => TypeInv'
<1> SUFFICES ASSUME TypeInv, [Next]_vars PROVE TypeInv'
  OBVIOUS
<1> USE DEF TypeInv, TypeOK, Carries
<1>1. ASSUME NEW r \in Runs, NEW m \in Modes, StartJob(r, m) PROVE TypeInv'
  <2>1. row' \in [Runs -> RowType]
    <3>1. row[r] \in RowType
      OBVIOUS
    <3>2. [row[r] EXCEPT !.status = "running"] \in RowType
      BY <3>1 DEF RowType, Statuses
    <3>3. QED
      BY <1>1, <3>2 DEF StartJob
  <2>2. mode' \in [Runs -> AllModes]
    BY <1>1 DEF StartJob, AllModes
  <2>3. pc' \in [Runs -> Points]
    BY <1>1 DEF StartJob, Points, Executing
  <2>4. ASSUME NEW s \in Runs PROVE Carries(s)'
    BY <1>1 DEF StartJob, Finishing
  <2>5. QED
    BY <1>1, <2>1, <2>2, <2>3, <2>4 DEF StartJob, envVars, faultVars
<1>2. ASSUME NEW r \in Runs, Track(r) PROVE TypeInv'
  BY <1>2 DEF Track, envVars, faultVars, Points, Executing, Finishing
<1>3. ASSUME NEW r \in Runs, LoadJob(r) PROVE TypeInv'
  BY <1>3 DEF LoadJob, Ends, envVars, faultVars, Points, Executing, Finishing, Verdicts, Terminal
<1>4. ASSUME NEW r \in Runs, TryLock(r) PROVE TypeInv'
  BY <1>4 DEF TryLock, envVars, faultVars, Points, Executing, Finishing, Verdicts, Terminal
<1>5. ASSUME NEW r \in Runs, AcquireSlot(r) PROVE TypeInv'
  BY <1>5 DEF AcquireSlot, Unwinds, envVars, faultVars, Points, Executing, Finishing, Verdicts, Terminal
<1>6. ASSUME NEW r \in Runs, NEW s \in ResultStatuses, HandlerReturns(r, s) PROVE TypeInv'
  BY <1>6 DEF HandlerReturns, envVars, faultVars, Points, Executing, Finishing, Verdicts, Terminal
<1>7. ASSUME NEW r \in Runs, HandlerRaises(r) PROVE TypeInv'
  BY <1>7 DEF HandlerRaises, Unwinds, envVars, faultVars, Points, Executing, Finishing, Verdicts, Terminal
<1>8. ASSUME NEW r \in Runs, HandlerTimesOut(r) PROVE TypeInv'
  BY <1>8 DEF HandlerTimesOut, Unwinds, envVars, faultVars, Points, Executing, Finishing, Verdicts, Terminal
<1>9. ASSUME NEW r \in Runs, Retry(r) PROVE TypeInv'
  BY <1>9 DEF Retry, envVars, faultVars, Points, Executing, Finishing
<1>10. ASSUME NEW r \in Runs, Unlock(r) PROVE TypeInv'
  BY <1>10 DEF Unlock, FreeLock, Ends, envVars, faultVars, Points, Executing, Finishing, Verdicts
<1>11. ASSUME NEW r \in Runs, Rollback(r) PROVE TypeInv'
  BY <1>11 DEF Rollback, envVars, faultVars, Points, Executing, Finishing
<1>12. ASSUME NEW r \in Runs, FinishRun(r) PROVE TypeInv'
  BY <1>12, FinalRowsType DEF FinishRun, Unwinds, Ends, envVars, faultVars, Points, Executing, Finishing, Verdicts
<1>13. ASSUME NEW r \in Runs, DeliverCancel(r) PROVE TypeInv'
  <2>1. row' \in [Runs -> RowType]
    BY <1>13, FinalRowsType DEF DeliverCancel, Finishing
  <2>2. lock' \in [Jobs -> Runs \cup {None}]
    BY <1>13 DEF DeliverCancel, FreeLock
  <2>3. pc' \in [Runs -> Points] /\ verdict' \in [Runs -> Verdicts]
    BY <1>13 DEF DeliverCancel, Ends, Unwinds, Points, Verdicts, Terminal
  <2>4. ASSUME NEW s \in Runs PROVE Carries(s)'
    BY <1>13 DEF DeliverCancel, Ends, Unwinds, Finishing, Executing, Terminal
  <2>5. QED
    BY <1>13, <2>1, <2>2, <2>3, <2>4 DEF DeliverCancel, Ends, Unwinds, envVars, faultVars
<1>14. ASSUME NEW r \in Runs, ReportProgress(r) PROVE TypeInv'
  BY <1>14 DEF ReportProgress, taskVars, envVars, faultVars, RowType, Summaries
<1>15. ASSUME NEW r \in Runs, RequestCancel(r) \/ RequestRecordCancel(r) PROVE TypeInv'
  BY <1>15 DEF RequestCancel, RequestRecordCancel, taskVars, faultVars
<1>16. ASSUME NEW r \in Runs, CancelRunRecord(r) PROVE TypeInv'
  <2>1. row' \in [Runs -> RowType]
    <3>1. row[r] \in RowType
      OBVIOUS
    <3>2. [row[r] EXCEPT !.status = "cancelled",
                         !.error = "job_cancelled_not_active"] \in RowType
      BY <3>1 DEF RowType, Statuses, Terminal, Errors
    <3>3. QED
      BY <1>16, <3>2 DEF CancelRunRecord
  <2>2. QED
    BY <1>16, <2>1 DEF CancelRunRecord, taskVars, envVars, faultVars
<1>17. ASSUME NEW r \in Runs, BreakSession(r) \/ DropLockConnection(r) PROVE TypeInv'
  BY <1>17 DEF BreakSession, DropLockConnection, Drop, FreeLock, envVars
<1>18. ASSUME NEW r \in Runs, StepFails(r) PROVE TypeInv'
  <2>1. row' \in [Runs -> RowType]
    BY <1>18, FinalRowsType DEF StepFails, Finishing
  <2>2. pc' \in [Runs -> Points] /\ verdict' \in [Runs -> Verdicts]
    BY <1>18 DEF StepFails, Ends, Unwinds, Points, Verdicts, Terminal
  <2>3. ASSUME NEW s \in Runs PROVE Carries(s)'
    BY <1>18 DEF StepFails, Ends, Unwinds, Finishing, Terminal
  <2>4. QED
    BY <1>18, <2>1, <2>2, <2>3 DEF StepFails, Fault, Ends, Unwinds, envVars
<1>19. ASSUME NEW j \in Jobs, DeleteJob(j) PROVE TypeInv'
  BY <1>19 DEF DeleteJob, taskVars, envVars, faultVars
<1>20. CASE ReloadStarts
  BY <1>20, MarkOrphanedType DEF ReloadStarts, taskVars, faultVars
<1>21. CASE ReloadFails \/ Stop \/ StopScheduler
  <2>1. cancel' \subseteq Runs
    BY <1>21 DEF ReloadFails, Stop, StopScheduler, CronTasks
  <2>2. sched' \in BOOLEAN /\ proc' \in {"up", "stopping", "down"}
    BY <1>21 DEF ReloadFails, Stop, StopScheduler
  <2>3. faults' \in Nat /\ cancels' \in Nat /\ drops' \in Nat
    BY <1>21 DEF ReloadFails, Stop, StopScheduler, Fault, faultVars
  <2>4. QED
    BY <1>21, <2>1, <2>2, <2>3 DEF ReloadFails, Stop, StopScheduler
<1>22. CASE Exit
  <2>1. pc' \in [Runs -> Points] /\ verdict' \in [Runs -> Verdicts] /\ lock' \in [Jobs -> Runs \cup {None}]
    BY <1>22 DEF Exit, Points, Verdicts
  <2>2. ASSUME NEW s \in Runs PROVE Carries(s)'
    BY <1>22 DEF Exit, Finishing, Live
  <2>3. proc' = "down" /\ crashes' = crashes + 1
    BY <1>22 DEF Exit
  <2>5. sched' \in BOOLEAN
    BY <1>22 DEF Exit
  <2>4. /\ slots' = {} /\ tracked' = {} /\ cancel' = {} /\ repairing' = {}
        /\ broken' = {} /\ lost' = {}
        /\ UNCHANGED <<row, jobs, mode, attempts, cancels, drops, faults>>
    BY <1>22, Zenon DEF Exit, faultVars
  <2>6. TypeOK'
    BY <2>1, <2>3, <2>4, <2>5
  <2>7. QED
    BY <2>2, <2>6
<1>23. CASE Restart
  <2>1. row' \in [Runs -> RowType]
    BY <1>23, MarkOrphanedType DEF Restart
  <2>2. sched' \in BOOLEAN
    BY <1>23 DEF Restart
  <2>3. QED
    BY <1>23, <2>1, <2>2 DEF Restart, Fault, taskVars, faultVars
<1>24. CASE Waiting \/ UNCHANGED vars
  BY <1>24 DEF Waiting, vars, taskVars, envVars, faultVars
<1>25. QED
  BY <1>1, <1>2, <1>3, <1>4, <1>5, <1>6, <1>7, <1>8, <1>9, <1>10, <1>11, <1>12,
     <1>13, <1>14, <1>15, <1>16, <1>17, <1>18, <1>19, <1>20, <1>21, <1>22,
     <1>23, <1>24 DEF Next, TaskStep

-----------------------------------------------------------------------------
\* Who holds the lock, a slot or an entry of _active_tasks, told by where the
\* execution is suspended.
Owns(r) ==
  /\ Holds(r) => pc[r] \in InsideLock
  /\ pc[r] \in InsideLock => Holds(r) \/ r \in lost
  /\ r \in slots <=> pc[r] \in InsideSlot
  /\ r \in tracked \cup cancel => Live(r)

SlotBound == IsFiniteSet(slots) /\ Cardinality(slots) <= MaxConcurrent

OwnInv == \A r \in Runs : Owns(r)

LEMMA OwnStep == TypeInv /\ OwnInv /\ [Next]_vars => OwnInv'
<1> SUFFICES ASSUME TypeInv, OwnInv, [Next]_vars, NEW s \in Runs PROVE Owns(s)'
  BY DEF OwnInv
<1>0. /\ Owns(s) /\ JobOf[s] \in Jobs
      /\ pc \in [Runs -> Points] /\ lock \in [Jobs -> Runs \cup {None}]
      /\ \A r \in Runs : JobOf[r] \in Jobs /\ Owns(r)
  BY DEF OwnInv, TypeInv, TypeOK
<1> USE DEF Owns, Holds, Live, InsideLock, InsideSlot
<1>1. ASSUME NEW r \in Runs, NEW m \in Modes, StartJob(r, m) PROVE Owns(s)'
  BY <1>0, <1>1 DEF StartJob
<1>2. ASSUME NEW r \in Runs, Track(r) PROVE Owns(s)'
  BY <1>0, <1>2 DEF Track
<1>3. ASSUME NEW r \in Runs, LoadJob(r) PROVE Owns(s)'
  BY <1>0, <1>3 DEF LoadJob, Ends
<1>4. ASSUME NEW r \in Runs, TryLock(r) PROVE Owns(s)'
  BY <1>0, <1>4 DEF TryLock
<1>5. ASSUME NEW r \in Runs, AcquireSlot(r) PROVE Owns(s)'
  BY <1>0, <1>5 DEF AcquireSlot, Unwinds
<1>6. ASSUME NEW r \in Runs, NEW v \in ResultStatuses, HandlerReturns(r, v) PROVE Owns(s)'
  BY <1>0, <1>6 DEF HandlerReturns
<1>7. ASSUME NEW r \in Runs, HandlerRaises(r) PROVE Owns(s)'
  BY <1>0, <1>7 DEF HandlerRaises, Unwinds
<1>8. ASSUME NEW r \in Runs, HandlerTimesOut(r) PROVE Owns(s)'
  BY <1>0, <1>8 DEF HandlerTimesOut, Unwinds
<1>9. ASSUME NEW r \in Runs, Retry(r) PROVE Owns(s)'
  BY <1>0, <1>9 DEF Retry
<1>10. ASSUME NEW r \in Runs, Unlock(r) PROVE Owns(s)'
  BY <1>0, <1>10, RunsAssumption DEF Unlock, FreeLock, Ends
<1>11. ASSUME NEW r \in Runs, Rollback(r) PROVE Owns(s)'
  BY <1>0, <1>11 DEF Rollback
<1>12. ASSUME NEW r \in Runs, FinishRun(r) PROVE Owns(s)'
  BY <1>0, <1>12 DEF FinishRun, Unwinds, Ends, Finishing
<1>13. ASSUME NEW r \in Runs, DeliverCancel(r) PROVE Owns(s)'
  BY <1>0, <1>13, RunsAssumption DEF DeliverCancel, FreeLock, Unwinds, Ends, Executing
<1>14. ASSUME NEW r \in Runs, ReportProgress(r) PROVE Owns(s)'
  BY <1>0, <1>14 DEF ReportProgress, taskVars
<1>15. ASSUME NEW r \in Runs, RequestCancel(r) PROVE Owns(s)'
  BY <1>0, <1>15 DEF RequestCancel
<1>16. ASSUME NEW r \in Runs, RequestRecordCancel(r) \/ CancelRunRecord(r) PROVE Owns(s)'
  BY <1>0, <1>16 DEF RequestRecordCancel, CancelRunRecord, taskVars
<1>17. ASSUME NEW r \in Runs, BreakSession(r) PROVE Owns(s)'
  BY <1>0, <1>17 DEF BreakSession
<1>18. ASSUME NEW r \in Runs, DropLockConnection(r) PROVE Owns(s)'
  BY <1>0, <1>18, RunsAssumption DEF DropLockConnection, FreeLock
<1>19. ASSUME NEW r \in Runs, StepFails(r) PROVE Owns(s)'
  BY <1>0, <1>19 DEF StepFails, Unwinds, Ends, Finishing
<1>20. ASSUME NEW j \in Jobs, DeleteJob(j) PROVE Owns(s)'
  BY <1>0, <1>20 DEF DeleteJob, taskVars
<1>21. CASE ReloadStarts \/ Restart
  BY <1>0, <1>21 DEF ReloadStarts, Restart, taskVars
<1>22. CASE ReloadFails \/ Stop \/ StopScheduler
  BY <1>0, <1>22 DEF ReloadFails, Stop, StopScheduler, CronTasks
<1>23. CASE Exit
  BY <1>0, <1>23, RunsAssumption DEF Exit
<1>24. CASE Waiting \/ UNCHANGED vars
  BY <1>0, <1>24 DEF Waiting, vars, taskVars
<1>25. QED
  BY <1>1, <1>2, <1>3, <1>4, <1>5, <1>6, <1>7, <1>8, <1>9, <1>10, <1>11, <1>12,
     <1>13, <1>14, <1>15, <1>16, <1>17, <1>18, <1>19, <1>20, <1>21, <1>22,
     <1>23, <1>24 DEF Next, TaskStep

\* A slot is only taken below the limit; every other step keeps or frees slots.
LEMMA SlotStep == TypeInv /\ SlotBound /\ [Next]_vars => SlotBound'
<1> SUFFICES ASSUME TypeInv, SlotBound, [Next]_vars PROVE SlotBound'
  OBVIOUS
<1>1. ASSUME slots' \subseteq slots PROVE SlotBound'
  BY <1>1, FS_Subset, FS_CardinalityType DEF SlotBound
<1>2. ASSUME NEW r \in Runs, AcquireSlot(r) PROVE SlotBound'
  <2>1. CASE slots' = slots \cup {r}
    <3>1. IsFiniteSet(slots') /\ Cardinality(slots') <= Cardinality(slots) + 1
      <4>1. IsFiniteSet(slots) /\ Cardinality(slots) \in Nat
        BY FS_CardinalityType DEF SlotBound
      <4>2. /\ IsFiniteSet(slots \cup {r})
            /\ \/ Cardinality(slots \cup {r}) = Cardinality(slots)
               \/ Cardinality(slots \cup {r}) = Cardinality(slots) + 1
        BY <4>1, FS_AddElement
      <4>3. QED
        BY <2>1, <4>1, <4>2
    <3>2. Cardinality(slots) < MaxConcurrent
      BY <1>2 DEF AcquireSlot
    <3>3. QED
      BY <3>1, <3>2, FS_CardinalityType, LimitAssumption DEF SlotBound
  <2>2. QED
    BY <1>1, <1>2, <2>1 DEF AcquireSlot, Unwinds
<1>3. CASE \A r \in Runs : ~AcquireSlot(r)
  <2>1. slots' \subseteq slots
    BY ZenonT(60), <1>3 DEF Next, TaskStep, StartJob, Track, LoadJob, Ends, TryLock, Unwinds,
         HandlerReturns, HandlerRaises, HandlerTimesOut, Retry, Unlock, Rollback,
         FinishRun, DeliverCancel, ReportProgress, RequestCancel,
         RequestRecordCancel, CancelRunRecord, BreakSession, DropLockConnection,
         StepFails, DeleteJob, ReloadStarts, ReloadFails, Stop, StopScheduler,
         Exit, Restart, Waiting, vars, taskVars
  <2>2. QED
    BY <1>1, <2>1
<1>4. QED
  BY <1>2, <1>3

LEMMA Invariant == Spec => [](TypeInv /\ OwnInv /\ SlotBound)
<1>1. Init => TypeInv /\ OwnInv /\ SlotBound
  <2>1. Init => TypeInv
    BY DEF Init, TypeInv, TypeOK, Carries, RowType, Statuses, Errors, Summaries,
           Points, Finishing, Executing, AllModes, Verdicts, Terminal
  <2>2. Init => OwnInv
    BY RunsAssumption, JobOfAssumption
       DEF Init, OwnInv, Owns, Holds, Live, InsideLock, InsideSlot
  <2>3. Init => SlotBound
    BY FS_EmptySet, LimitAssumption DEF Init, SlotBound
  <2>4. QED
    BY <2>1, <2>2, <2>3
<1>2. QED
  BY <1>1, TypeStep, OwnStep, SlotStep, PTL DEF Spec

\* Every behaviour of the scheduler keeps its rows, tasks and locks well typed.
THEOREM TypeCorrect == Spec => []TypeOK
<1>1. TypeInv => TypeOK
  BY DEF TypeInv
<1>2. QED
  BY <1>1, Invariant, PTL
\* Unless the connection of a lock is closed under its holder, two handlers of
\* one job never run together.
THEOREM HandlersAreExclusive == Spec => []ExclusiveHandlers
<1>1. OwnInv => ExclusiveHandlers
  <2> SUFFICES ASSUME OwnInv, NEW r \in Runs, NEW s \in Runs, SameJob(r, s),
                      {pc[r], pc[s]} \subseteq Executing
               PROVE  r \in lost \/ s \in lost
    BY DEF ExclusiveHandlers
  <2>1. pc[r] \in InsideLock /\ pc[s] \in InsideLock
    BY DEF Executing, InsideLock
  <2>2. (Holds(r) \/ r \in lost) /\ (Holds(s) \/ s \in lost)
    BY <2>1 DEF OwnInv, Owns
  <2>3. ~(Holds(r) /\ Holds(s))
    BY DEF Holds, SameJob
  <2>4. QED
    BY <2>2, <2>3
<1>2. QED
  BY <1>1, Invariant, PTL

\* Never more handlers in progress than the execution semaphore admits.
THEOREM HandlersAreBounded == Spec => []BoundedHandlers
<1>1. OwnInv /\ SlotBound => BoundedHandlers
  <2> SUFFICES ASSUME OwnInv, SlotBound PROVE BoundedHandlers
    OBVIOUS
  <2>1. {r \in Runs : pc[r] \in Executing} \subseteq slots
    BY DEF OwnInv, Owns, InsideSlot, Executing
  <2>2. QED
    BY <2>1, FS_Subset, FS_CardinalityType, LimitAssumption DEF SlotBound, BoundedHandlers
<1>2. QED
  BY <1>1, Invariant, PTL

\* An execution that is over left no lock, no slot and no active task behind.
THEOREM ExecutionsLeakNothing == Spec => []NothingLeaks
<1>1. OwnInv => NothingLeaks
  BY DEF OwnInv, Owns, NothingLeaks, Live, InsideLock, InsideSlot
<1>2. QED
  BY <1>1, Invariant, PTL
-----------------------------------------------------------------------------
\* A lock is only ever held by a run of its own job.
LockOfJob == \A j \in Jobs : lock[j] \in Runs => JobOf[lock[j]] = j

LEMMA LockOfJobStep == TypeInv /\ LockOfJob /\ [Next]_vars => LockOfJob'
<1> SUFFICES ASSUME TypeInv, LockOfJob, [Next]_vars, NEW j \in Jobs, lock'[j] \in Runs
             PROVE  JobOf[lock'[j]] = j
  BY DEF LockOfJob
<1>0. lock \in [Jobs -> Runs \cup {None}] /\ (lock[j] \in Runs => JobOf[lock[j]] = j)
  BY DEF TypeInv, TypeOK, LockOfJob
<1>1. ASSUME lock' = lock \/ (\E r \in Runs : lock' = FreeLock(r)) PROVE JobOf[lock'[j]] = j
  BY <1>0, <1>1, RunsAssumption, JobOfAssumption DEF FreeLock
<1>2. ASSUME NEW r \in Runs, TryLock(r) PROVE JobOf[lock'[j]] = j
  BY <1>0, <1>2 DEF TryLock
<1>3. CASE Exit
  BY <1>3, RunsAssumption DEF Exit
<1>4. CASE (\A r \in Runs : ~TryLock(r)) /\ ~Exit
  <2>1. lock' = lock \/ \E r \in Runs : lock' = FreeLock(r)
    BY ZenonT(60), <1>4 DEF Next, TaskStep, StartJob, Track, LoadJob, AcquireSlot,
         HandlerReturns, HandlerRaises, HandlerTimesOut, Retry, Unlock, Rollback,
         FinishRun, DeliverCancel, ReportProgress, RequestCancel,
         RequestRecordCancel, CancelRunRecord, BreakSession, DropLockConnection,
         StepFails, DeleteJob, ReloadStarts, ReloadFails, Stop, StopScheduler,
         Restart, Waiting, vars
  <2>2. QED
    BY <1>1, <2>1
<1>5. QED
  BY <1>2, <1>3, <1>4

\* Only TryLock makes a run go from the lock attempt to the skipped outcome.
LEMMA SkipIsTryLock ==
  ASSUME TypeInv, [Next]_vars, NEW r \in Runs,
         pc[r] = "trylock", pc'[r] = "finishSkip"
  PROVE  TryLock(r)
<1>1. pc \in [Runs -> Points]
  BY DEF TypeInv, TypeOK
<1>2. pc' # pc
  BY <1>1
<1>3. ASSUME NEW t \in Runs, TaskStep(t) PROVE TryLock(r)
  <2>1. ASSUME Track(t) \/ LoadJob(t) \/ AcquireSlot(t) PROVE FALSE
    BY <1>1, <2>1 DEF Track, LoadJob, Ends, AcquireSlot, Unwinds
  <2>2. ASSUME (\E s \in ResultStatuses : HandlerReturns(t, s)) \/ HandlerRaises(t)
               \/ HandlerTimesOut(t) \/ Retry(t)
        PROVE FALSE
    BY <1>1, <2>2 DEF HandlerReturns, HandlerRaises, HandlerTimesOut, Retry, Unwinds
  <2>3. ASSUME Unlock(t) \/ Rollback(t) \/ FinishRun(t) PROVE FALSE
    BY <1>1, <2>3 DEF Unlock, Rollback, FinishRun, Ends, Unwinds
  <2>4. ASSUME DeliverCancel(t) PROVE FALSE
    BY <1>1, <2>4 DEF DeliverCancel, Ends, Unwinds
  <2>5. ASSUME TryLock(t) PROVE TryLock(r)
    BY <1>1, <2>5 DEF TryLock
  <2>6. QED
    BY <1>3, <2>1, <2>2, <2>3, <2>4, <2>5 DEF TaskStep
<1>4. ASSUME NEW t \in Runs, (\E m \in Modes : StartJob(t, m)) \/ StepFails(t) PROVE FALSE
  BY <1>1, <1>4 DEF StartJob, StepFails, Ends, Unwinds
<1>5. ASSUME Exit PROVE FALSE
  BY <1>1, <1>5 DEF Exit, Live
<1>6. QED
  BY <1>2, <1>3, <1>4, <1>5 DEF Next, ReportProgress, RequestCancel,
     RequestRecordCancel, CancelRunRecord, BreakSession, DropLockConnection,
     DeleteJob, ReloadStarts, ReloadFails, Stop, StopScheduler, Restart,
     Waiting, vars, taskVars

\* already_running is never recorded because of a stale lock.
THEOREM SkipsAreJustified == Spec => NoStaleSkip
<1>1. Init => LockOfJob
  BY RunsAssumption DEF Init, LockOfJob
<1>2. TypeInv /\ OwnInv /\ LockOfJob /\ [Next]_vars
      => [\A r \in Runs : pc[r] = "trylock" /\ pc'[r] = "finishSkip"
            => \E s \in Runs : SameJob(r, s) /\ Live(s) /\ Holds(s)]_vars
  <2> SUFFICES ASSUME TypeInv, OwnInv, LockOfJob, [Next]_vars, NEW r \in Runs,
                      pc[r] = "trylock", pc'[r] = "finishSkip"
               PROVE  \E s \in Runs : SameJob(r, s) /\ Live(s) /\ Holds(s)
    OBVIOUS
  <2>1. lock[JobOf[r]] # None
    BY SkipIsTryLock DEF TryLock, TypeInv, TypeOK
  <2>2. PICK s \in Runs : s = lock[JobOf[r]]
    BY <2>1, JobOfAssumption DEF TypeInv, TypeOK
  <2>3. JobOf[s] = JobOf[r] /\ Holds(s)
    BY <2>2, JobOfAssumption DEF LockOfJob, Holds
  <2>4. pc[s] \in InsideLock
    BY <2>3 DEF OwnInv, Owns
  <2>5. QED
    BY <2>3, <2>4 DEF SameJob, Live, InsideLock
<1>3. QED
  BY <1>1, <1>2, Invariant, LockOfJobStep, PTL DEF Spec, NoStaleSkip
-----------------------------------------------------------------------------
\* How a row stands to its execution: there is none before start_job; a handler's
\* result is only carried to the write inside the lock; and once a success is
\* written, with no database fault so far, the execution is over or leaves the lock
\* without a verdict or with a cancellation.
Settled(r) ==
  \/ pc[r] = "done"
  \/ pc[r] = "unwind" /\ verdict[r] \in {"none", "cancelled"}
  \/ pc[r] \in {"rollback", "finishShield"} /\ verdict[r] = "cancelled"

Outcome(r) ==
  /\ pc[r] = "idle" => row[r].status = "absent"
  /\ pc[r] = "finishHeld" => verdict[r] \in ResultStatuses
  /\ faults = 0 /\ row[r].status = "success" => Settled(r)

OutcomeInv == \A r \in Runs : Outcome(r)

\* The final write of one run leaves the rows of the others alone.
LEMMA FinalRowsOf ==
  ASSUME TypeInv, NEW t \in Runs, NEW x \in FinalRows(t)
  PROVE  /\ \A r \in Runs \ {t} : x[r] = row[r]
         /\ x[t].status = verdict[t] /\ x[t].summary \in SummariesOf(t)
BY DEF FinalRows, TypeInv, TypeOK

\* What any step may do to the row of r.
Started(r) == pc[r] = "idle" /\ row'[r].status = "running"
Reported(r) == pc[r] = "run" /\ row'[r].status = row[r].status /\ row'[r].summary = "progress"
Repaired(r) == /\ row[r].status = "running" /\ row'[r].status \in {"cancelled", "failed"}
               /\ row'[r].summary = row[r].summary
Written(r) == /\ pc[r] \in Finishing /\ row'[r].status = verdict[r]
              /\ row'[r].summary \in SummariesOf(r)

RowChange(r) == row'[r] = row[r] \/ Started(r) \/ Reported(r) \/ Repaired(r) \/ Written(r)

LEMMA RowStep ==
  ASSUME TypeInv, [Next]_vars, NEW r \in Runs
  PROVE  RowChange(r)
<1>0. row \in [Runs -> RowType] /\ row[r] \in RowType
  BY DEF TypeInv, TypeOK
<1>1. ASSUME NEW t \in Runs, NEW m \in Modes, StartJob(t, m) PROVE RowChange(r)
  <2>1. row' = [row EXCEPT ![t] = [row[t] EXCEPT !.status = "running"]] /\ pc[t] = "idle"
    BY <1>1 DEF StartJob
  <2>2. row[t] \in RowType
    BY <1>0
  <2>3. QED
    BY <1>0, <2>1, <2>2 DEF RowChange, Started, RowType
<1>2. ASSUME NEW t \in Runs, ReportProgress(t) PROVE RowChange(r)
  <2>1. row' = [row EXCEPT ![t] = [row[t] EXCEPT !.summary = "progress"]] /\ pc[t] = "run"
    BY <1>2 DEF ReportProgress
  <2>2. row[t] \in RowType
    BY <1>0
  <2>3. QED
    BY <1>0, <2>1, <2>2 DEF RowChange, Reported, RowType
<1>3. ASSUME NEW t \in Runs, CancelRunRecord(t) PROVE RowChange(r)
  <2>1. row[t] \in RowType
    BY <1>0
  <2>2. \/ row' = row
        \/ /\ row[t].status = "running"
           /\ row' = [row EXCEPT ![t] = [row[t] EXCEPT !.status = "cancelled",
                                                       !.error = "job_cancelled_not_active"]]
    BY <1>3 DEF CancelRunRecord
  <2>3. CASE t = r
    <3>1. row'[r] = row[r] \/ (row[r].status = "running"
             /\ row'[r] = [row[r] EXCEPT !.status = "cancelled",
                                         !.error = "job_cancelled_not_active"])
      BY <1>0, <2>2, <2>3
    <3>2. QED
      BY <1>0, <3>1 DEF RowChange, Repaired, RowType
  <2>4. CASE t # r
    BY <1>0, <2>2, <2>4 DEF RowChange
  <2>5. QED
    BY <2>3, <2>4
<1>4. ASSUME row' = MarkOrphaned(row) PROVE RowChange(r)
  BY <1>0, <1>4 DEF MarkOrphaned, RowChange, Repaired, RowType
<1>5. ASSUME NEW t \in Runs, pc[t] \in Finishing, row' \in FinalRows(t) PROVE RowChange(r)
  BY <1>5, FinalRowsOf DEF RowChange, Written
<1>6. ASSUME row' = row PROVE RowChange(r)
  BY <1>6 DEF RowChange
<1>7. ASSUME NEW t \in Runs, FinishRun(t) \/ DeliverCancel(t) \/ StepFails(t) PROVE RowChange(r)
  <2>1. row' = row \/ (pc[t] \in Finishing /\ row' \in FinalRows(t))
    BY <1>7 DEF FinishRun, DeliverCancel, StepFails, Finishing
  <2>2. QED
    BY <1>5, <1>6, <2>1
<1>8. CASE ReloadStarts \/ Restart
  BY <1>4, <1>6, <1>8 DEF ReloadStarts, Restart
<1>9. CASE /\ \A t \in Runs : /\ \A m \in Modes : ~StartJob(t, m)
                              /\ ~ReportProgress(t) /\ ~CancelRunRecord(t) /\ ~FinishRun(t)
                              /\ ~DeliverCancel(t) /\ ~StepFails(t)
           /\ ~ReloadStarts /\ ~Restart
  <2>1. row' = row
    BY ZenonT(60), <1>9 DEF Next, TaskStep, Track, LoadJob, TryLock, AcquireSlot,
         HandlerReturns, HandlerRaises, HandlerTimesOut, Retry, Unlock, Rollback,
         RequestCancel, RequestRecordCancel, BreakSession, DropLockConnection,
         DeleteJob, ReloadFails, Stop, StopScheduler, Exit, Waiting, vars
  <2>2. QED
    BY <1>6, <2>1
<1>10. QED
  BY <1>1, <1>2, <1>3, <1>7, <1>8, <1>9

\* faults only grows, so that what holds without a fault so far was true before.
LEMMA FaultsGrow == TypeInv /\ [Next]_vars => (faults' = 0 => faults = 0)
<1>1. ASSUME Fault PROVE faults' # 0 \/ ~TypeInv
  BY <1>1 DEF Fault, TypeInv, TypeOK
<1>2. ASSUME [Next]_vars PROVE faults' = faults \/ Fault
  BY ZenonT(60), <1>2 DEF Next, TaskStep, StartJob, Track, LoadJob, TryLock, AcquireSlot,
       HandlerReturns, HandlerRaises, HandlerTimesOut, Retry, Unlock, Rollback, FinishRun,
       DeliverCancel, ReportProgress, RequestCancel, RequestRecordCancel, CancelRunRecord,
       BreakSession, DropLockConnection, StepFails, Drop, DeleteJob, ReloadStarts,
       ReloadFails, Stop, StopScheduler, Exit, Restart, Waiting, vars, faultVars
<1>3. QED
  BY <1>1, <1>2

LEMMA OutcomeStep == TypeInv /\ OutcomeInv /\ [Next]_vars => OutcomeInv'
<1> SUFFICES ASSUME TypeInv, OutcomeInv, [Next]_vars, NEW s \in Runs PROVE Outcome(s)'
  BY DEF OutcomeInv
<1>0. /\ Outcome(s) /\ RowChange(s) /\ (faults' = 0 => faults = 0)
      /\ pc \in [Runs -> Points] /\ verdict \in [Runs -> Verdicts]
  BY RowStep, FaultsGrow DEF OutcomeInv, TypeInv, TypeOK
<1> USE DEF Outcome, Settled
<1>1. ASSUME row' = row, pc'[s] = pc[s], verdict'[s] = verdict[s] PROVE Outcome(s)'
  BY <1>0, <1>1
<1>2. ASSUME NEW r \in Runs, NEW m \in Modes, StartJob(r, m) PROVE Outcome(s)'
  <2>1. CASE r = s
    <3>1. row' = [row EXCEPT ![s] = [row[s] EXCEPT !.status = "running"]] /\ row[s] \in RowType
      BY <1>2, <2>1 DEF StartJob, TypeInv, TypeOK
    <3>2. row'[s].status = "running"
      BY <3>1 DEF TypeInv, TypeOK, RowType
    <3>3. pc'[s] = "recorded"
      BY <1>0, <1>2, <2>1 DEF StartJob
    <3>4. QED
      BY <3>2, <3>3
  <2>2. CASE r # s
    <3>1. row'[s] = row[s] /\ pc'[s] = pc[s] /\ verdict' = verdict
      BY <1>0, <1>2, <2>2 DEF StartJob, TypeInv, TypeOK
    <3>2. QED
      BY <1>0, <3>1
  <2>3. QED
    BY <2>1, <2>2
<1>3. ASSUME NEW r \in Runs, Track(r) \/ LoadJob(r) \/ TryLock(r) PROVE Outcome(s)'
  BY <1>0, <1>3 DEF Track, LoadJob, TryLock, Ends
<1>4. ASSUME NEW r \in Runs, AcquireSlot(r) \/ Retry(r) PROVE Outcome(s)'
  BY <1>0, <1>4 DEF AcquireSlot, Retry, Unwinds
<1>5. ASSUME NEW r \in Runs, NEW v \in ResultStatuses, HandlerReturns(r, v) PROVE Outcome(s)'
  BY <1>0, <1>5 DEF HandlerReturns
<1>6. ASSUME NEW r \in Runs, HandlerRaises(r) \/ HandlerTimesOut(r) PROVE Outcome(s)'
  BY <1>0, <1>6 DEF HandlerRaises, HandlerTimesOut, Unwinds
<1>7. ASSUME NEW r \in Runs, Unlock(r) \/ Rollback(r) PROVE Outcome(s)'
  BY <1>0, <1>7 DEF Unlock, Rollback, Ends
<1>8. ASSUME \/ row'[s].status = row[s].status
             \/ row[s].status = "running" /\ row'[s].status \in {"cancelled", "failed"},
             pc'[s] = pc[s], verdict'[s] = verdict[s]
      PROVE  Outcome(s)'
  BY <1>0, <1>8
<1>9. ASSUME NEW r \in Runs, ReportProgress(r) PROVE Outcome(s)'
  <2>1. row' = [row EXCEPT ![r] = [row[r] EXCEPT !.summary = "progress"]] /\ row[r] \in RowType
    BY <1>9 DEF ReportProgress, TypeInv, TypeOK
  <2>2. row'[s].status = row[s].status
    BY <2>1 DEF TypeInv, TypeOK, RowType
  <2>3. QED
    BY <1>8, <1>9, <2>2 DEF ReportProgress, taskVars
<1>10. ASSUME NEW r \in Runs, CancelRunRecord(r) PROVE Outcome(s)'
  <2>1. CASE row[r].status = "running" /\ r = s
    <3>1. row' = [row EXCEPT ![s] = [row[s] EXCEPT !.status = "cancelled",
                                                   !.error = "job_cancelled_not_active"]]
      BY <1>10, <2>1 DEF CancelRunRecord
    <3>2. row'[s].status = "cancelled" /\ row[s].status = "running"
      BY <2>1, <3>1 DEF TypeInv, TypeOK, RowType
    <3>3. QED
      BY <1>8, <1>10, <3>2 DEF CancelRunRecord, taskVars
  <2>2. CASE row[r].status # "running" \/ r # s
    <3>1. row'[s] = row[s]
      BY <1>10, <2>2 DEF CancelRunRecord, TypeInv, TypeOK
    <3>2. QED
      BY <1>8, <1>10, <3>1 DEF CancelRunRecord, taskVars
  <2>3. QED
    BY <2>1, <2>2
<1>11. ASSUME NEW r \in Runs, pc[r] \in Finishing, row' \in FinalRows(r), r # s,
              pc'[s] = pc[s], verdict'[s] = verdict[s]
       PROVE  Outcome(s)'
  <2>1. row'[s] = row[s]
    BY <1>11, FinalRowsOf
  <2>2. QED
    BY <1>8, <1>11, <2>1
<1>12. ASSUME NEW r \in Runs, FinishRun(r) PROVE Outcome(s)'
  <2>1. CASE r = s
    BY <1>0, <1>12, <2>1 DEF FinishRun, Unwinds, Ends
  <2>2. CASE r # s
    <3>1. pc'[s] = pc[s] /\ verdict'[s] = verdict[s]
      BY <1>0, <1>12, <2>2 DEF FinishRun, Unwinds, Ends
    <3>2. QED
      BY <1>11, <1>12, <2>2, <3>1 DEF FinishRun
  <2>3. QED
    BY <2>1, <2>2
<1>13. ASSUME NEW r \in Runs, DeliverCancel(r) PROVE Outcome(s)'
  <2>1. CASE r # s
    <3>1. pc'[s] = pc[s] /\ verdict'[s] = verdict[s]
      BY <1>0, <1>13, <2>1 DEF DeliverCancel, Unwinds, Ends
    <3>2. row' = row \/ (pc[r] \in Finishing /\ row' \in FinalRows(r))
      BY <1>13 DEF DeliverCancel, Finishing
    <3>3. QED
      BY <1>1, <1>11, <2>1, <3>1, <3>2
  <2>2. CASE r = s
    <3>1. pc'[s] \notin {"idle", "finishHeld"}
      BY <1>0, <1>13, <2>2 DEF DeliverCancel, Unwinds, Ends
    <3>2. \/ pc'[s] = "done" \/ row' = row
          \/ pc'[s] = "unwind" /\ verdict'[s] = "cancelled"
      BY <1>0, <1>13, <2>2 DEF DeliverCancel, Unwinds, Ends
    <3>3. CASE row' = row
      BY <1>0, <1>13, <2>2, <3>1, <3>3 DEF DeliverCancel, Unwinds, Ends
    <3>4. QED
      BY <3>1, <3>2, <3>3
  <2>3. QED
    BY <2>1, <2>2
<1>14. ASSUME NEW r \in Runs, StepFails(r) PROVE Outcome(s)'
  <2>1. faults' # 0
    BY <1>14 DEF StepFails, Fault, TypeInv, TypeOK
  <2>2. CASE r = s
    BY <1>0, <1>14, <2>1, <2>2 DEF StepFails, Unwinds, Ends
  <2>3. CASE r # s
    <3>1. pc'[s] = pc[s] /\ verdict'[s] = verdict[s]
      BY <1>0, <1>14, <2>3 DEF StepFails, Unwinds, Ends
    <3>2. row' = row \/ (pc[r] \in Finishing /\ row' \in FinalRows(r))
      BY <1>14 DEF StepFails, Finishing
    <3>3. QED
      BY <1>1, <1>11, <2>3, <3>1, <3>2
  <2>4. QED
    BY <2>2, <2>3
<1>15. CASE ReloadStarts \/ Restart
  <2>1. row' = MarkOrphaned(row) \/ row' = row
    BY <1>15 DEF ReloadStarts, Restart
  <2>2. \/ row'[s].status = row[s].status
        \/ row[s].status = "running" /\ row'[s].status \in {"cancelled", "failed"}
    <3>1. row[s] \in RowType
      BY DEF TypeInv, TypeOK
    <3>2. CASE row[s].status = "running" /\ row' = MarkOrphaned(row)
      <4>1. row'[s] = [row[s] EXCEPT !.status = "failed",
                                     !.error = "scheduler_orphaned_after_restart"]
        BY <3>2 DEF MarkOrphaned
      <4>2. QED
        BY <3>1, <3>2, <4>1 DEF RowType
    <3>3. CASE row[s].status # "running" \/ row' = row
      BY <2>1, <3>3 DEF MarkOrphaned
    <3>4. QED
      BY <2>1, <3>2, <3>3
  <2>3. pc' = pc /\ verdict' = verdict
    BY <1>15 DEF ReloadStarts, Restart, taskVars
  <2>4. QED
    BY <1>8, <2>2, <2>3
<1>16. CASE Exit
  BY <1>0, <1>16 DEF Exit, Live
<1>17. ASSUME row' = row, pc' = pc, verdict' = verdict PROVE Outcome(s)'
  BY <1>1, <1>17
<1>18. ASSUME NEW r \in Runs, \/ RequestCancel(r) \/ RequestRecordCancel(r)
                              \/ BreakSession(r) \/ DropLockConnection(r)
       PROVE  Outcome(s)'
  BY <1>17, <1>18 DEF RequestCancel, RequestRecordCancel, BreakSession, DropLockConnection,
                      taskVars
<1>19. CASE (\E j \in Jobs : DeleteJob(j)) \/ ReloadFails \/ Stop \/ StopScheduler
            \/ Waiting \/ UNCHANGED vars
  BY <1>17, <1>19 DEF DeleteJob, ReloadFails, Stop, StopScheduler, Waiting, vars, taskVars
<1>20. QED
  BY <1>2, <1>3, <1>4, <1>5, <1>6, <1>7, <1>9, <1>10, <1>12, <1>13, <1>14, <1>15, <1>16,
     <1>18, <1>19 DEF Next, TaskStep

LEMMA OutcomeInvariant == Spec => [](TypeInv /\ OutcomeInv)
<1>1. Init => OutcomeInv
  BY DEF Init, OutcomeInv, Outcome
<1>2. QED
  BY <1>1, OutcomeStep, Invariant, PTL DEF Spec

\* A finished row is only rewritten by the run's own final write.
THEOREM OwnersRewrite == Spec => OnlyOwnerRewrites
<1>1. TypeInv /\ OutcomeInv /\ [Next]_vars
      => [\A r \in Runs : row[r].status \in Terminal /\ row'[r].status # row[r].status
            => pc[r] \in Finishing]_vars
  <2> SUFFICES ASSUME TypeInv, OutcomeInv, [Next]_vars, NEW r \in Runs,
                      row[r].status \in Terminal, row'[r].status # row[r].status
               PROVE  pc[r] \in Finishing
    OBVIOUS
  <2>1. RowChange(r)
    BY RowStep
  <2>2. ~Started(r) /\ ~Reported(r) /\ ~Repaired(r)
    BY DEF OutcomeInv, Outcome, Started, Reported, Repaired, Terminal
  <2>3. QED
    BY <2>1, <2>2 DEF RowChange, Written
<1>2. QED
  BY <1>1, OutcomeInvariant, PTL DEF Spec, OnlyOwnerRewrites

\* While no final write has failed, a recorded success only gives way to a
\* cancellation: dropped connections, exits and restarts leave it.
THEOREM ResultsStay == Spec => ResultStays
<1>1. TypeInv /\ OutcomeInv /\ [Next]_vars
      => [\A r \in Runs : row[r].status = "success" /\ faults = 0
            => row'[r].status \in {"success", "cancelled"}]_vars
  <2> SUFFICES ASSUME TypeInv, OutcomeInv, [Next]_vars, NEW r \in Runs,
                      row[r].status = "success", faults = 0
               PROVE  row'[r].status \in {"success", "cancelled"}
    OBVIOUS
  <2>1. RowChange(r) /\ Outcome(r)
    BY RowStep DEF OutcomeInv
  <2>2. ~Started(r) /\ ~Repaired(r)
    BY <2>1 DEF Outcome, Started, Repaired
  <2>3. Reported(r) => row'[r].status = "success"
    BY DEF Reported
  <2>4. Written(r) => row'[r].status = "cancelled"
    BY <2>1 DEF Outcome, Settled, Written, Finishing
  <2>5. QED
    BY <2>1, <2>2, <2>3, <2>4 DEF RowChange
<1>2. QED
  BY <1>1, OutcomeInvariant, PTL DEF Spec, ResultStays

\* A run that ends by timeout or cancellation keeps the checkpoint its handler
\* reported, unless the session that reads it back is broken.
THEOREM CheckpointsAreKept == Spec => CheckpointKept
<1>1. TypeInv /\ OutcomeInv /\ [Next]_vars
      => [\A r \in Runs : r \notin broken => KeepsCheckpoint(r)]_vars
  <2> SUFFICES ASSUME TypeInv, OutcomeInv, [Next]_vars, NEW r \in Runs, r \notin broken,
                      row[r].summary = "progress", row'[r].status \in {"timeout", "cancelled"}
               PROVE  row'[r].summary = "progress"
    BY DEF KeepsCheckpoint
  <2>1. RowChange(r) /\ Outcome(r)
    BY RowStep DEF OutcomeInv
  <2>2. ASSUME Written(r) PROVE row'[r].summary = "progress"
    <3>1. pc[r] # "finishHeld" /\ verdict[r] # "failed"
      BY <2>1, <2>2 DEF Outcome, Written
    <3>2. SummariesOf(r) = {"progress"}
      BY <2>2, <3>1 DEF SummariesOf, Written, Finishing
    <3>3. QED
      BY <2>2, <3>2 DEF Written
  <2>3. QED
    BY <2>1, <2>2 DEF RowChange, Started, Reported, Repaired
<1>2. QED
  BY <1>1, OutcomeInvariant, PTL DEF Spec, CheckpointKept
=============================================================================
