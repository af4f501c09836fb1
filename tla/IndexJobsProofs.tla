--------------------------- MODULE IndexJobsProofs --------------------------
(***************************************************************************)
(* Proofs about IndexJobs, for any numbers of jobs, projects, workers,     *)
(* goroutines and retries and for any set of faults.                       *)
(***************************************************************************)
EXTENDS IndexJobs, TLAPS

\* A goroutine belongs to a worker.
LEMMA WorkerOfType == \A e \in Exec : WorkerOf(e) \in Workers
BY DEF Exec, WorkerOf

\* A failed delivery keeps the queue's types: retries stay within MaxRetry.
LEMMA TaskFailsType ==
  ASSUME TypeOK, NEW j \in Jobs, TaskFails(j)
  PROVE  task' \in [Jobs -> TaskStates] /\ retried' \in [Jobs -> 0..MaxRetry]
BY BoundsAssumption DEF TypeOK, TaskFails, TaskStates

\* Init establishes the type invariant.
LEMMA TypeInit == Init => TypeOK
BY JobsAssumption, WorkersAssumption, BoundsAssumption DEF Init, TypeOK, Steps, Statuses, ApiSteps, TaskStates, UpStates

\* Every step of every process keeps the type invariant.
LEMMA TypeStep == TypeOK /\ [Next]_vars => TypeOK'
<1> SUFFICES ASSUME TypeOK, [Next]_vars PROVE TypeOK'
  OBVIOUS
<1> USE JobsAssumption, WorkersAssumption, BoundsAssumption
    DEF TypeOK, Steps, Statuses, ApiSteps, TaskStates, UpStates,
        jobVars, queueVars, execVars, workerVars, beatVars, reapVars
<1>1. ASSUME NEW j \in Jobs, Request(j) PROVE TypeOK'
  <2>1. CASE FindActive(j)   BY <2>1 DEF FindActive
  <2>2. CASE CreateJob(j)    BY <2>2 DEF CreateJob
  <2>3. CASE Enqueue(j)      BY <2>3 DEF Enqueue
  <2>4. CASE EnqueueFails(j) BY <2>4 DEF EnqueueFails
  <2>5. CASE Compensate(j)   BY <2>5 DEF Compensate
  <2>6. CASE ApiStops(j)     BY <2>6 DEF ApiStops
  <2> QED BY <1>1, <2>1, <2>2, <2>3, <2>4, <2>5, <2>6 DEF Request
<1>2. ASSUME NEW j \in Jobs, Recover(j) PROVE TypeOK'
  <2>1. task' \in [Jobs -> TaskStates] /\ retried' \in [Jobs -> 0..MaxRetry]
    BY <1>2, TaskFailsType DEF Recover
  <2>2. lease' \in [Jobs -> Exec \cup {NoExec}]
    BY <1>2 DEF Recover
  <2> QED BY <1>2, <2>1, <2>2 DEF Recover
<1>3. ASSUME NEW j \in Jobs, Age(j) PROVE TypeOK'
  BY <1>3 DEF Age
<1>4. ASSUME NEW e \in Exec, NEW j \in Jobs, Deliver(e, j) PROVE TypeOK'
  BY <1>4, WorkerOfType DEF Deliver
<1>5. ASSUME NEW e \in Exec, Handle(e) PROVE TypeOK'
  <2> USE WorkerOfType DEF Goto, ReturnErr, Claimed, Finish
  <2>1. CASE Load(e)            BY <2>1 DEF Load
  <2>2. CASE TryProjectLock(e)
    <3>1. cur[e] \in Jobs /\ ProjectOf[cur[e]] \in Projects
      BY <2>2 DEF TryProjectLock
    <3>2. lock' \in [Projects -> Exec \cup {NoExec}]
      BY <2>2, <3>1 DEF TryProjectLock
    <3>a. /\ pc' = [pc EXCEPT ![e] = "claim"] \/ pc' = [pc EXCEPT ![e] = "clear"]
          /\ ret' = ret \/ ret' = [ret EXCEPT ![e] = "err"]
      BY <2>2 DEF TryProjectLock
    <3>3. pc' \in [Exec -> Steps] /\ ret' \in [Exec -> {"nil", "err"}]
      BY <3>a
    <3>4. pc'[e] # "idle" /\ pc[e] # "idle" /\ \A f \in Exec \ {e} : pc'[f] = pc[f]
      BY <2>2 DEF TryProjectLock
    <3>5. UNCHANGED <<status, owner, stale, api, task, retried, lease, cur, cancelled,
                      up, starts, active, key, hb, todo, doomed>>
      BY <2>2 DEF TryProjectLock
    <3> QED BY <3>2, <3>3, <3>4, <3>5
  <2>3. CASE ClaimJob(e)
    <3>1. cur[e] \in Jobs
      BY <2>3 DEF ClaimJob
    <3>2. /\ status' \in [Jobs -> Statuses]
          /\ owner' \in [Jobs -> Workers \cup {NoWorker}]
          /\ stale' = stale
      BY <2>3, <3>1 DEF ClaimJob
    <3>a. /\ pc' = [pc EXCEPT ![e] = "build"] \/ pc' = [pc EXCEPT ![e] = "unlock"]
          /\ ret' = ret \/ ret' = [ret EXCEPT ![e] = "err"]
      BY <2>3 DEF ClaimJob
    <3>3. pc' \in [Exec -> Steps] /\ ret' \in [Exec -> {"nil", "err"}]
      BY <3>a
    <3>4. pc'[e] # "idle" /\ pc[e] # "idle" /\ \A f \in Exec \ {e} : pc'[f] = pc[f]
      BY <2>3 DEF ClaimJob
    <3> QED BY <2>3, <3>2, <3>3, <3>4 DEF ClaimJob
  <2>4. CASE Build(e)           BY <2>4 DEF Build
  <2>5. CASE SetJobCompleted(e) BY <2>5 DEF SetJobCompleted
  <2>6. CASE SetJobFailed(e)    BY <2>6 DEF SetJobFailed
  <2>7. CASE ProjectUnlock(e)   BY <2>7 DEF ProjectUnlock
  <2>8. CASE ClearJob(e)        BY <2>8 DEF ClearJob
  <2>9. CASE Settle(e)
    <3>1. cur[e] \in Jobs
      BY <2>9 DEF Settle
    <3>2. /\ task' \in [Jobs -> TaskStates]
          /\ retried' \in [Jobs -> 0..MaxRetry]
          /\ lease' \in [Jobs -> Exec \cup {NoExec}]
      <4>1. CASE lease[cur[e]] # e
        BY <2>9, <4>1 DEF Settle
      <4>2. CASE lease[cur[e]] = e /\ ret[e] = "nil"
        <5>1. /\ task' = [task EXCEPT ![cur[e]] = "done"]
              /\ retried' = retried
              /\ lease' = [lease EXCEPT ![cur[e]] = NoExec]
          BY <2>9, <4>2 DEF Settle
        <5> QED BY <3>1, <5>1
      <4>3. CASE lease[cur[e]] = e /\ ret[e] # "nil"
        <5>1. TaskFails(cur[e])
          BY <2>9, <4>3 DEF Settle
        <5> QED BY <2>9, <3>1, <4>3, <5>1, TaskFailsType DEF Settle
      <4> QED BY <4>1, <4>2, <4>3
    <3>3. \A f \in Exec : cur'[f] = NoJob <=> pc'[f] = "idle"
      BY <2>9 DEF Settle
    <3> QED BY <2>9, <3>2, <3>3 DEF Settle
  <2> QED BY <1>5, <2>1, <2>2, <2>3, <2>4, <2>5, <2>6, <2>7, <2>8, <2>9 DEF Handle
<1>6. ASSUME NEW e \in Exec, Timeout(e) PROVE TypeOK'
  <2>1. cur[e] \in Jobs
    BY <1>6 DEF Timeout
  <2>2. task' \in [Jobs -> TaskStates] /\ retried' \in [Jobs -> 0..MaxRetry]
    BY <1>6, <2>1, TaskFailsType DEF Timeout
  <2>3. lease' \in [Jobs -> Exec \cup {NoExec}]
    BY <1>6 DEF Timeout
  <2> QED BY <1>6, <2>2, <2>3 DEF Timeout
<1>7. ASSUME NEW e \in Exec, Abort(e) PROVE TypeOK'
  BY <1>7 DEF Abort
<1>8. ASSUME NEW p \in Projects, LoseLock(p) PROVE TypeOK'
  BY <1>8 DEF LoseLock
<1>9. ASSUME NEW w \in Workers, Worker(w) PROVE TypeOK'
  <2> USE WorkerOfType DEF SetStatus, Reapers
  <2>1. CASE Start(w)         BY <2>1 DEF Start
  <2>2. CASE ServerStart(w)   BY <2>2 DEF ServerStart
  <2>3. CASE SetIdle(w)       BY <2>3 DEF SetIdle
  <2>4. CASE Drain(w)         BY <2>4 DEF Drain
  <2>5. CASE CloseRegistry(w) BY <2>5 DEF CloseRegistry
  <2>6. CASE Exit(w)          BY <2>6 DEF Exit
  <2>7. CASE Crash(w)         BY <2>7 DEF Crash
  <2>8. CASE Heartbeat(w)     BY <2>8 DEF Heartbeat
  <2>9. CASE Expire(w)        BY <2>9 DEF Expire
  <2> QED BY <1>9, <2>1, <2>2, <2>3, <2>4, <2>5, <2>6, <2>7, <2>8, <2>9 DEF Worker
<1>10. ASSUME NEW r \in Reapers, Reap(r) PROVE TypeOK'
  <2>1. CASE r \in Workers /\ ListStaleRunningJobs(r)
    BY <2>1 DEF ListStaleRunningJobs, StaleRunning
  <2>2. CASE r \in Checkers /\ ListJobs(r)
    BY <2>2 DEF ListJobs, StaleRunning
  <2>3. ASSUME NEW j \in Jobs, CheckAlive(r, j) PROVE TypeOK'
    BY <2>3 DEF CheckAlive
  <2>4. ASSUME NEW j \in Jobs, FailStaleJob(r, j) PROVE TypeOK'
    BY <2>4 DEF FailStaleJob
  <2> QED BY <1>10, <2>1, <2>2, <2>3, <2>4 DEF Reap
<1>11. CASE UNCHANGED vars
  BY <1>11 DEF vars
<1> QED BY <1>1, <1>2, <1>3, <1>4, <1>5, <1>6, <1>7, <1>8, <1>9, <1>10, <1>11 DEF Next

\* The type invariant of the job system, for every value of the constants.
THEOREM TypeCorrect == Spec => []TypeOK
BY TypeInit, TypeStep, PTL DEF Spec

-----------------------------------------------------------------------------
(* The claim has one winner, the life cycle is respected.                  *)

\* What JobInv is about.
jobInvVars == <<status, owner, api, task, pc, cur>>

\* Steps of the registry, of the heartbeats and of the reapers' lookups do not
\* touch what JobInv is about.
LEMMA JobInvFrame == JobInv /\ UNCHANGED jobInvVars => JobInv'
BY DEF JobInv, jobInvVars, SingleClaim, NotYetCreated, NotYetEnqueued, NoTaskNoHandler, Building

LEMMA JobInvInit == Init => JobInv
BY JobsAssumption, WorkersAssumption DEF Init, JobInv, SingleClaim, NotYetCreated, NotYetEnqueued,
   NoTaskNoHandler, Building

\* A delivery that fails leaves the task somewhere in asynq.
LEMMA TaskFailsStays ==
  ASSUME TypeOK, NEW j \in Jobs, TaskFails(j)
  PROVE  /\ task'[j] # "none"
         /\ \A k \in Jobs \ {j} : task'[k] = task[k]
BY DEF TypeOK, TaskFails

\* Settling, timing out, aborting and recovering a delivery: no handler begins
\* or goes on, no row changes, no task disappears.
LEMMA JobInvQueue ==
  ASSUME TypeOK, JobInv, UNCHANGED <<status, owner, api>>,
         \A k \in Jobs : task'[k] # task[k] => task[k] # "none" /\ task'[k] # "none",
         \A f \in Exec : \/ pc'[f] = pc[f] /\ cur'[f] = cur[f]
                         \/ pc'[f] = "idle" /\ cur'[f] = NoJob
  PROVE  JobInv'
<1> USE JobsAssumption DEF JobInv
<1>1. SingleClaim'
  BY DEF SingleClaim, Building
<1>2. NotYetCreated' /\ NotYetEnqueued'
  BY DEF NotYetCreated, NotYetEnqueued
<1>3. NoTaskNoHandler'
  BY DEF NoTaskNoHandler
<1> QED BY <1>1, <1>2, <1>3

LEMMA JobInvStep == TypeOK /\ JobInv /\ [Next]_vars => JobInv'
<1> SUFFICES ASSUME TypeOK, JobInv, [Next]_vars PROVE JobInv'
  OBVIOUS
<1> USE JobsAssumption, WorkersAssumption
    DEF jobVars, queueVars, execVars, workerVars, beatVars, reapVars
<1>1. ASSUME NEW j \in Jobs, Request(j) PROVE JobInv'
  <2> USE DEF TypeOK, JobInv, SingleClaim, NotYetCreated, NotYetEnqueued, NoTaskNoHandler, Building
  <2>1. CASE FindActive(j)   BY <2>1 DEF FindActive
  <2>2. CASE CreateJob(j)    BY <2>2 DEF CreateJob
  <2>3. CASE Enqueue(j)      BY <2>3 DEF Enqueue
  <2>4. CASE EnqueueFails(j) BY <2>4 DEF EnqueueFails
  <2>5. CASE Compensate(j)   BY <2>5 DEF Compensate
  <2>6. CASE ApiStops(j)     BY <2>6 DEF ApiStops
  <2> QED BY <1>1, <2>1, <2>2, <2>3, <2>4, <2>5, <2>6 DEF Request
<1>2. ASSUME NEW j \in Jobs, Recover(j) PROVE JobInv'
  <2>1. task[j] # "none" /\ TaskFails(j)
    BY <1>2 DEF Recover
  <2> QED BY <1>2, <2>1, TaskFailsStays, JobInvQueue DEF Recover
<1>3. ASSUME NEW j \in Jobs, Age(j) PROVE JobInv'
  BY <1>3, JobInvFrame DEF Age, jobInvVars
<1>4. ASSUME NEW e \in Exec, NEW j \in Jobs, Deliver(e, j) PROVE JobInv'
  BY <1>4 DEF Deliver, TypeOK, JobInv, SingleClaim, NotYetCreated, NotYetEnqueued, NoTaskNoHandler, Building
<1>5. ASSUME NEW e \in Exec, Handle(e) PROVE JobInv'
  <2> USE DEF TypeOK, JobInv, SingleClaim, NotYetCreated, NotYetEnqueued, NoTaskNoHandler, Building, Goto, ReturnErr
  <2>1. CASE Load(e)            BY <2>1 DEF Load
  <2>2. CASE TryProjectLock(e)  BY <2>2 DEF TryProjectLock
  <2>3. CASE ClaimJob(e)        BY <2>3 DEF ClaimJob, Claimed
  <2>4. CASE Build(e)           BY <2>4 DEF Build
  <2>5. CASE SetJobCompleted(e) BY <2>5 DEF SetJobCompleted, Finish
  <2>6. CASE SetJobFailed(e)    BY <2>6 DEF SetJobFailed, Finish
  <2>7. CASE ProjectUnlock(e)   BY <2>7 DEF ProjectUnlock
  <2>8. CASE ClearJob(e)        BY <2>8 DEF ClearJob
  <2>9. CASE Settle(e)          BY <2>9, TaskFailsStays, JobInvQueue DEF Settle
  <2> QED BY <1>5, <2>1, <2>2, <2>3, <2>4, <2>5, <2>6, <2>7, <2>8, <2>9 DEF Handle
<1>6. ASSUME NEW e \in Exec, Timeout(e) PROVE JobInv'
  BY <1>6, TaskFailsStays, JobInvQueue DEF Timeout, TypeOK, JobInv, NoTaskNoHandler
<1>7. ASSUME NEW e \in Exec, Abort(e) PROVE JobInv'
  BY <1>7, JobInvQueue DEF Abort, TypeOK, JobInv, NoTaskNoHandler
<1>8. ASSUME NEW p \in Projects, LoseLock(p) PROVE JobInv'
  BY <1>8, JobInvFrame DEF LoseLock, jobInvVars
<1>9. ASSUME NEW w \in Workers, Worker(w) PROVE JobInv'
  <2>1. CASE Crash(w)
    BY <2>1, JobInvQueue DEF Crash
  <2>2. CASE ~Crash(w)
    BY <1>9, <2>2, JobInvFrame DEF Worker, jobInvVars, Start, ServerStart, SetIdle, Drain,
       CloseRegistry, Exit, Heartbeat, Expire
  <2> QED BY <2>1, <2>2
<1>10. ASSUME NEW r \in Reapers, Reap(r) PROVE JobInv'
  <2>1. CASE r \in Workers /\ ListStaleRunningJobs(r)
    BY <2>1, JobInvFrame DEF ListStaleRunningJobs, jobInvVars
  <2>2. CASE r \in Checkers /\ ListJobs(r)
    BY <2>2, JobInvFrame DEF ListJobs, jobInvVars
  <2>3. ASSUME NEW j \in Jobs, CheckAlive(r, j) PROVE JobInv'
    BY <2>3, JobInvFrame DEF CheckAlive, jobInvVars
  <2>4. ASSUME NEW j \in Jobs, FailStaleJob(r, j) PROVE JobInv'
    BY <2>4 DEF FailStaleJob, TypeOK, JobInv, SingleClaim, NotYetCreated, NotYetEnqueued, NoTaskNoHandler, Building
  <2> QED BY <1>10, <2>1, <2>2, <2>3, <2>4 DEF Reap
<1>11. CASE UNCHANGED vars
  BY <1>11, JobInvFrame DEF vars, jobInvVars
<1> QED BY <1>1, <1>2, <1>3, <1>4, <1>5, <1>6, <1>7, <1>8, <1>9, <1>10, <1>11 DEF Next

\* ClaimJob's guarded UPDATE has a single winner, whatever is delivered twice,
\* times out, crashes or loses its lock.
THEOREM SingleClaimCorrect == Spec => []SingleClaim
<1>1. Init => TypeOK /\ JobInv
  BY TypeInit, JobInvInit
<1>2. (TypeOK /\ JobInv) /\ [Next]_vars => (TypeOK /\ JobInv)'
  BY TypeStep, JobInvStep
<1>3. JobInv => SingleClaim
  BY DEF JobInv
<1> QED BY <1>1, <1>2, <1>3, PTL DEF Spec

-----------------------------------------------------------------------------
(* The project lock.                                                       *)

lockInvVars == <<pc, cur, lock>>

LEMMA LockFrame == LockHeld /\ UNCHANGED lockInvVars => LockHeld'
BY DEF LockHeld, lockInvVars, InSection

LEMMA LockInit == Init => LockHeld
BY DEF Init, LockHeld, InSection

LEMMA LockStep == TypeOK /\ LockHeld /\ [Next]_vars => LockHeld'
<1> SUFFICES ASSUME TypeOK, LockHeld, [Next]_vars PROVE LockHeld'
  OBVIOUS
<1> USE JobsAssumption, WorkersAssumption
    DEF jobVars, queueVars, execVars, workerVars, beatVars, reapVars, lockInvVars
<1>1. ASSUME NEW j \in Jobs, Request(j) PROVE LockHeld'
  BY <1>1, LockFrame DEF Request, FindActive, CreateJob, Enqueue, EnqueueFails, Compensate, ApiStops
<1>2. ASSUME NEW j \in Jobs, Recover(j) PROVE LockHeld'
  BY <1>2, LockFrame DEF Recover
<1>3. ASSUME NEW j \in Jobs, Age(j) PROVE LockHeld'
  BY <1>3, LockFrame DEF Age
<1>4. ASSUME NEW e \in Exec, NEW j \in Jobs, Deliver(e, j) PROVE LockHeld'
  BY <1>4 DEF Deliver, TypeOK, LockHeld, InSection
<1>5. ASSUME NEW e \in Exec, Handle(e) PROVE LockHeld'
  <2> USE DEF TypeOK, LockHeld, InSection, Goto, ReturnErr
  <2>1. CASE Load(e)            BY <2>1 DEF Load
  <2>2. CASE TryProjectLock(e)
    <3>1. cur[e] \in Jobs /\ ProjectOf[cur[e]] \in Projects
      BY <2>2 DEF TryProjectLock
    <3> QED BY <2>2, <3>1 DEF TryProjectLock
  <2>3. CASE ClaimJob(e)        BY <2>3 DEF ClaimJob
  <2>4. CASE Build(e)           BY <2>4 DEF Build
  <2>5. CASE SetJobCompleted(e) BY <2>5 DEF SetJobCompleted, Finish
  <2>6. CASE SetJobFailed(e)    BY <2>6 DEF SetJobFailed, Finish
  <2>7. CASE ProjectUnlock(e)
    <3>1. cur[e] \in Jobs /\ ProjectOf[cur[e]] \in Projects
      BY <2>7 DEF ProjectUnlock
    <3> QED BY <2>7, <3>1 DEF ProjectUnlock
  <2>8. CASE ClearJob(e)        BY <2>8 DEF ClearJob
  <2>9. CASE Settle(e)          BY <2>9 DEF Settle
  <2> QED BY <1>5, <2>1, <2>2, <2>3, <2>4, <2>5, <2>6, <2>7, <2>8, <2>9 DEF Handle
<1>6. ASSUME NEW e \in Exec, Timeout(e) PROVE LockHeld'
  BY <1>6, LockFrame DEF Timeout
<1>7. ASSUME NEW e \in Exec, Abort(e) PROVE LockHeld'
  BY <1>7, LockFrame DEF Abort
<1>8. ASSUME NEW p \in Projects, LoseLock(p) PROVE LockHeld'
  BY <1>8 DEF LoseLock, LockHeld
<1>9. ASSUME NEW w \in Workers, Worker(w) PROVE LockHeld'
  <2>1. CASE Crash(w)
    <3> SUFFICES ASSUME "conn" \notin Faults, NEW f \in Exec, InSection(f)'
                 PROVE  lock'[ProjectOf[cur'[f]]] = f
      BY DEF LockHeld
    <3>1. WorkerOf(f) # w /\ pc'[f] = pc[f] /\ cur'[f] = cur[f]
      BY <2>1 DEF Crash, InSection
    <3>2. cur[f] \in Jobs /\ ProjectOf[cur[f]] \in Projects
      BY <3>1 DEF TypeOK, InSection
    <3>3. lock[ProjectOf[cur[f]]] = f
      BY <3>1 DEF LockHeld, InSection
    <3> QED BY <2>1, <3>1, <3>2, <3>3 DEF Crash
  <2>2. CASE ~Crash(w)
    BY <1>9, <2>2, LockFrame DEF Worker, Start, ServerStart, SetIdle, Drain,
       CloseRegistry, Exit, Heartbeat, Expire
  <2> QED BY <2>1, <2>2
<1>10. ASSUME NEW r \in Reapers, Reap(r) PROVE LockHeld'
  BY <1>10, LockFrame DEF Reap, ListStaleRunningJobs, ListJobs, CheckAlive, FailStaleJob
<1>11. CASE UNCHANGED vars
  BY <1>11, LockFrame DEF vars
<1> QED BY <1>1, <1>2, <1>3, <1>4, <1>5, <1>6, <1>7, <1>8, <1>9, <1>10, <1>11 DEF Next

\* Mutual exclusion per project: as long as the sessions that hold the locks
\* live as long as their handlers, redeliveries, timeouts and crashes never
\* put two handlers of one project in the protected section.
THEOREM OneBuilderCorrect == "conn" \notin Faults => (Spec => []OneBuilder)
<1> SUFFICES ASSUME "conn" \notin Faults PROVE Spec => []OneBuilder
  OBVIOUS
<1>1. Init => TypeOK /\ LockHeld
  BY TypeInit, LockInit
<1>2. (TypeOK /\ LockHeld) /\ [Next]_vars => (TypeOK /\ LockHeld)'
  BY TypeStep, LockStep
<1>3. LockHeld => OneBuilder
  BY DEF LockHeld, OneBuilder
<1> QED BY <1>1, <1>2, <1>3, PTL DEF Spec

-----------------------------------------------------------------------------
(* The jobs table implements JobLifecycle.                                 *)

\* Every step of the system is a step of the life cycle, or leaves the table
\* alone.  Only the compensating write needs the invariant: it is the one
\* UPDATE that does not look at the status it replaces.
LEMMA LifecycleStep ==
  "reply" \notin Faults /\ TypeOK /\ JobInv /\ [Next]_vars => [Lifecycle!Next]_status
<1> SUFFICES ASSUME "reply" \notin Faults, TypeOK, JobInv, [Next]_vars
             PROVE  [Lifecycle!Next]_status
  OBVIOUS
<1> USE JobsAssumption
    DEF jobVars, queueVars, execVars, workerVars, beatVars, reapVars,
        Lifecycle!Next, Lifecycle!Create, Lifecycle!GiveUp, Lifecycle!Claim,
        Lifecycle!Complete, Lifecycle!Fail, Lifecycle!Move
<1>1. ASSUME NEW j \in Jobs, Request(j) PROVE [Lifecycle!Next]_status
  <2>1. CASE CreateJob(j)
    BY <2>1 DEF CreateJob, JobInv, NotYetCreated
  <2>2. CASE Compensate(j)
    BY <2>2 DEF Compensate, JobInv, NotYetEnqueued
  <2>3. CASE FindActive(j) \/ Enqueue(j) \/ EnqueueFails(j) \/ ApiStops(j)
    BY <2>3 DEF FindActive, Enqueue, EnqueueFails, ApiStops
  <2> QED BY <1>1, <2>1, <2>2, <2>3 DEF Request
<1>2. ASSUME NEW e \in Exec, Handle(e) PROVE [Lifecycle!Next]_status
  <2>1. CASE ClaimJob(e)
    <3>1. cur[e] \in Jobs
      BY <2>1 DEF ClaimJob, TypeOK
    <3> QED BY <2>1, <3>1 DEF ClaimJob, Claimed
  <2>2. CASE SetJobCompleted(e) \/ SetJobFailed(e)
    <3>1. cur[e] \in Jobs
      BY <2>2 DEF SetJobCompleted, SetJobFailed, TypeOK
    <3> QED BY <2>2, <3>1 DEF SetJobCompleted, SetJobFailed, Finish
  <2>3. CASE \/ Load(e) \/ TryProjectLock(e) \/ Build(e) \/ ProjectUnlock(e)
             \/ ClearJob(e) \/ Settle(e)
    BY <2>3 DEF Load, TryProjectLock, Build, ProjectUnlock, ClearJob, Settle
  <2> QED BY <1>2, <2>1, <2>2, <2>3 DEF Handle
<1>3. ASSUME NEW r \in Reapers, Reap(r) PROVE [Lifecycle!Next]_status
  BY <1>3 DEF Reap, ListStaleRunningJobs, ListJobs, CheckAlive, FailStaleJob
<1>4. ASSUME NEW w \in Workers, Worker(w) PROVE [Lifecycle!Next]_status
  BY <1>4 DEF Worker, Start, ServerStart, SetIdle, Drain, CloseRegistry, Exit, Crash,
     Heartbeat, Expire
<1>5. ASSUME NEW e \in Exec, Timeout(e) \/ Abort(e) \/ \E j \in Jobs : Deliver(e, j)
      PROVE  [Lifecycle!Next]_status
  BY <1>5 DEF Timeout, Abort, Deliver
<1>6. ASSUME NEW j \in Jobs, Recover(j) \/ Age(j) PROVE [Lifecycle!Next]_status
  BY <1>6 DEF Recover, Age
<1>7. ASSUME NEW p \in Projects, LoseLock(p) PROVE [Lifecycle!Next]_status
  BY <1>7 DEF LoseLock
<1>8. CASE UNCHANGED vars
  BY <1>8 DEF vars
<1> QED BY <1>1, <1>2, <1>3, <1>4, <1>5, <1>6, <1>7, <1>8 DEF Next

\* Refinement: unless an enqueue can store the task and still report an error,
\* the table only ever shows the abstract life cycle, so a job is claimed at
\* most once and its final status never changes.
THEOREM LifecycleCorrect == "reply" \notin Faults => (Spec => LifecycleSpec)
<1> SUFFICES ASSUME "reply" \notin Faults PROVE Spec => LifecycleSpec
  OBVIOUS
<1>1. Init => TypeOK /\ JobInv
  BY TypeInit, JobInvInit
<1>2. (TypeOK /\ JobInv) /\ [Next]_vars => (TypeOK /\ JobInv)'
  BY TypeStep, JobInvStep
<1>3. Init => Lifecycle!Init
  BY DEF Init, Lifecycle!Init
<1>4. TypeOK /\ JobInv /\ [Next]_vars => [Lifecycle!Next]_status
  BY LifecycleStep
<1> QED BY <1>1, <1>2, <1>3, <1>4, PTL DEF Spec, LifecycleSpec, Lifecycle!Spec
=============================================================================
