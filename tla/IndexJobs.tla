----------------------------- MODULE IndexJobs ------------------------------
(***************************************************************************)
(* The life of an indexing job, from the request that creates it to its    *)
(* final status:                                                           *)
(*                                                                         *)
(*   - the API handler HandleIndex (deduplicate, insert, enqueue, and the  *)
(*     compensating write when the enqueue fails);                         *)
(*   - the asynq queue, which delivers a task at least once (external);    *)
(*   - the worker's delivery wrapper and the workflow handlers, up to the  *)
(*     point where the index is built (one step here, SnapshotIndex has    *)
(*     the detail);                                                        *)
(*   - the worker registry, whose heartbeat tells which jobs are alive;    *)
(*   - the two reapers that fail running jobs nobody works on: the one a   *)
(*     worker runs when it starts, and the one behind the API's job pages. *)
(*                                                                         *)
(* Time is abstracted: a running job may grow older than the stale         *)
(* threshold once its worker has sent a heartbeat since (the interval is   *)
(* 10 s, the threshold minutes), and the heartbeat key of a worker that no *)
(* longer refreshes it may expire.                                         *)
(***************************************************************************)
EXTENDS Naturals, FiniteSets

CONSTANTS
  Jobs,        \* the jobs that requests may create
  Projects,    \* the projects they belong to
  ProjectOf,   \* the project of each job
  TypeOf,      \* the job type of each job: full or incremental
  Workers,     \* worker ids (WORKER_ID or the host name, kept over restarts)
  Slots,       \* handler goroutines a worker may run at a time
  Checkers,    \* API requests that read job pages
  MaxRetry,    \* deliveries after the first before a task is archived
  MaxStarts,   \* bound on the number of worker process starts
  Faults,      \* the failures that may happen (see FaultKinds)
  NoWorker, NoExec, NoJob

\* enqueue:  storing the task in Redis fails
\* reply:    the task is stored but the call reports an error
\* api:      the API process stops between the INSERT and the enqueue
\* db:       a database call of the worker or of a reaper fails
\* conn:     the session that holds a project lock is lost
\* timeout:  a task outlives its deadline
\* crash:    a worker process dies
\* redis:    a reaper cannot read a heartbeat
FaultKinds == {"enqueue", "reply", "api", "db", "conn", "timeout", "crash", "redis"}

Exec     == Workers \X Slots         \* one handler goroutine
WorkerOf(e) == e[1]
Reapers  == Workers \cup Checkers
JobTypes == {"full", "incremental"}

ASSUME JobsAssumption ==
  /\ ProjectOf \in [Jobs -> Projects]
  /\ TypeOf \in [Jobs -> JobTypes]
  /\ NoJob \notin Jobs
ASSUME WorkersAssumption ==
  /\ NoWorker \notin Workers
  /\ NoExec \notin Exec
  /\ Workers \cap Checkers = {}
ASSUME BoundsAssumption ==
  /\ MaxRetry \in Nat
  /\ MaxStarts \in Nat
  /\ Faults \subseteq FaultKinds

VARIABLES
  \* the table indexing_jobs
  status,    \* per job; "absent" before the INSERT
  owner,     \* worker_id, written by the claim
  stale,     \* jobs running longer than the stale threshold
  \* the requests
  api,       \* where the request that may create the job stands
  \* asynq
  task,      \* per job: where its task is
  retried,   \* deliveries already retried
  lease,     \* the goroutine that has the task
  \* handler goroutines
  pc, cur,   \* the step and the job of each
  ret,       \* what Handle returns: "nil" or "err"
  cancelled, \* goroutines whose task context is cancelled
  lock,      \* holder of the advisory lock of each project
  \* worker processes and their registry
  up,        \* App.Run's progress
  starts,    \* process starts so far (bounded by MaxStarts)
  active,    \* Registry.activeJobs
  key, hb,   \* workers whose key is in Redis, and the jobs it lists
  \* the reapers
  todo,      \* stale running jobs read, not yet looked at
  doomed     \* jobs found without a live worker, not yet failed

jobVars    == <<status, owner, stale>>
queueVars  == <<task, retried, lease>>
execVars   == <<pc, cur, ret, cancelled>>
workerVars == <<up, starts>>
beatVars   == <<key, hb>>
reapVars   == <<todo, doomed>>
vars == <<jobVars, api, queueVars, execVars, lock, workerVars, active, beatVars, reapVars>>

Statuses == {"absent", "queued", "running", "completed", "failed"}
Terminal == {"completed", "failed"}
ApiSteps == {"idle", "checked", "created", "compensate", "done"}
TaskStates == {"none", "pending", "active", "archived", "done"}
Steps == {"idle", "load", "lock", "claim", "build", "complete", "fail",
          "unlock", "clear", "returned"}
UpStates == {"down", "starting", "reaping", "started", "running", "draining", "closing"}

\* One type invariant: every variable has its shape, and a goroutine has a
\* job exactly while it runs.
TypeOK ==
  /\ status \in [Jobs -> Statuses]
  /\ owner \in [Jobs -> Workers \cup {NoWorker}]
  /\ stale \subseteq Jobs
  /\ api \in [Jobs -> ApiSteps]
  /\ task \in [Jobs -> TaskStates]
  /\ retried \in [Jobs -> 0..MaxRetry]
  /\ lease \in [Jobs -> Exec \cup {NoExec}]
  /\ pc \in [Exec -> Steps]
  /\ cur \in [Exec -> Jobs \cup {NoJob}]
  /\ ret \in [Exec -> {"nil", "err"}]
  /\ cancelled \subseteq Exec
  /\ lock \in [Projects -> Exec \cup {NoExec}]
  /\ up \in [Workers -> UpStates]
  /\ starts \in 0..MaxStarts
  /\ active \in [Workers -> SUBSET Jobs]
  /\ key \subseteq Workers
  /\ hb \in [Workers -> SUBSET Jobs]
  /\ todo \in [Reapers -> SUBSET Jobs]
  /\ doomed \in [Reapers -> SUBSET Jobs]
  /\ \A e \in Exec : cur[e] = NoJob <=> pc[e] = "idle"

Init ==
  /\ status = [j \in Jobs |-> "absent"]
  /\ owner = [j \in Jobs |-> NoWorker]
  /\ stale = {}
  /\ api = [j \in Jobs |-> "idle"]
  /\ task = [j \in Jobs |-> "none"]
  /\ retried = [j \in Jobs |-> 0]
  /\ lease = [j \in Jobs |-> NoExec]
  /\ pc = [e \in Exec |-> "idle"]
  /\ cur = [e \in Exec |-> NoJob]
  /\ ret = [e \in Exec |-> "nil"]
  /\ cancelled = {}
  /\ lock = [p \in Projects |-> NoExec]
  /\ up = [w \in Workers |-> "down"]
  /\ starts = 0
  /\ active = [w \in Workers |-> {}]
  /\ key = {}
  /\ hb = [w \in Workers |-> {}]
  /\ todo = [r \in Reapers |-> {}]
  /\ doomed = [r \in Reapers |-> {}]

-----------------------------------------------------------------------------
(* The API: HandleIndex.                                                   *)

\* FindActiveIndexingJobForProjectAndType: the jobs a request is merged with.
ActiveJobsLike(j) ==
  {k \in Jobs : /\ ProjectOf[k] = ProjectOf[j] /\ TypeOf[k] = TypeOf[j]
                /\ status[k] \in {"queued", "running"}}

\* The dedup lookup.  A request that finds an active job answers with it.
FindActive(j) ==
  /\ api[j] = "idle"
  /\ api' = [api EXCEPT ![j] = IF ActiveJobsLike(j) = {} THEN "checked" ELSE "done"]
  /\ UNCHANGED <<jobVars, queueVars, execVars, lock, workerVars, active, beatVars, reapVars>>

\* CreateIndexingJob: nothing ties the INSERT to the lookup before it.
CreateJob(j) ==
  /\ api[j] = "checked"
  /\ api' = [api EXCEPT ![j] = "created"]
  /\ status' = [status EXCEPT ![j] = "queued"]
  /\ UNCHANGED <<owner, stale, queueVars, execVars, lock, workerVars, active, beatVars, reapVars>>

\* EnqueueIndexJob stores the task.
Enqueue(j) ==
  /\ api[j] = "created"
  /\ api' = [api EXCEPT ![j] = "done"]
  /\ task' = [task EXCEPT ![j] = "pending"]
  /\ UNCHANGED <<jobVars, retried, lease, execVars, lock, workerVars, active, beatVars, reapVars>>

\* EnqueueIndexJob reports an error; under "reply" the task is stored all the same.
EnqueueFails(j) ==
  /\ api[j] = "created"
  /\ api' = [api EXCEPT ![j] = "compensate"]
  /\ \/ "enqueue" \in Faults /\ UNCHANGED task
     \/ "reply" \in Faults /\ task' = [task EXCEPT ![j] = "pending"]
  /\ UNCHANGED <<jobVars, retried, lease, execVars, lock, workerVars, active, beatVars, reapVars>>

\* The compensating SetIndexingJobFailed, whose UPDATE does not look at the status.
Compensate(j) ==
  /\ api[j] = "compensate"
  /\ api' = [api EXCEPT ![j] = "done"]
  /\ \/ status' = [status EXCEPT ![j] = "failed"]
     \/ "db" \in Faults /\ UNCHANGED status
  /\ UNCHANGED <<owner, stale, queueVars, execVars, lock, workerVars, active, beatVars, reapVars>>

\* The API process stops after the INSERT.
ApiStops(j) ==
  /\ "api" \in Faults
  /\ api[j] \in {"created", "compensate"}
  /\ api' = [api EXCEPT ![j] = "done"]
  /\ UNCHANGED <<jobVars, queueVars, execVars, lock, workerVars, active, beatVars, reapVars>>

Request(j) == \/ FindActive(j) \/ CreateJob(j) \/ Enqueue(j)
              \/ EnqueueFails(j) \/ Compensate(j) \/ ApiStops(j)

-----------------------------------------------------------------------------
(* asynq.                                                                  *)

\* A failed delivery goes back to the queue until the retries are used up.
TaskFails(j) ==
  IF retried[j] < MaxRetry
  THEN /\ task' = [task EXCEPT ![j] = "pending"]
       /\ retried' = [retried EXCEPT ![j] = @ + 1]
  ELSE /\ task' = [task EXCEPT ![j] = "archived"]
       /\ UNCHANGED retried

\* A delivery: asynq hands the task to a goroutine and wrapHandler's prologue
\* (SetBusy) enters the job in the registry.
Deliver(e, j) ==
  /\ up[WorkerOf(e)] \in {"started", "running"}
  /\ pc[e] = "idle"
  /\ task[j] = "pending"
  /\ task' = [task EXCEPT ![j] = "active"]
  /\ lease' = [lease EXCEPT ![j] = e]
  /\ pc' = [pc EXCEPT ![e] = "load"]
  /\ cur' = [cur EXCEPT ![e] = j]
  /\ active' = [active EXCEPT ![WorkerOf(e)] = @ \cup {j}]
  /\ UNCHANGED <<jobVars, api, retried, ret, cancelled, lock, workerVars, beatVars, reapVars>>

\* asynq settles the task after Handle returned, unless it gave it up before.
Settle(e) ==
  /\ pc[e] = "returned"
  /\ pc' = [pc EXCEPT ![e] = "idle"]
  /\ cur' = [cur EXCEPT ![e] = NoJob]
  /\ ret' = [ret EXCEPT ![e] = "nil"]
  /\ cancelled' = cancelled \ {e}
  /\ IF lease[cur[e]] # e THEN UNCHANGED queueVars
     ELSE /\ lease' = [lease EXCEPT ![cur[e]] = NoExec]
          /\ IF ret[e] = "nil"
             THEN /\ task' = [task EXCEPT ![cur[e]] = "done"]
                  /\ UNCHANGED retried
             ELSE TaskFails(cur[e])
  /\ UNCHANGED <<jobVars, api, lock, workerVars, active, beatVars, reapVars>>

\* The deadline passes: asynq cancels the context and counts a failed delivery,
\* while the goroutine keeps running until it notices.
Timeout(e) ==
  /\ "timeout" \in Faults
  /\ pc[e] # "idle"
  /\ lease[cur[e]] = e
  /\ lease' = [lease EXCEPT ![cur[e]] = NoExec]
  /\ cancelled' = cancelled \cup {e}
  /\ TaskFails(cur[e])
  /\ UNCHANGED <<jobVars, api, pc, cur, ret, lock, workerVars, active, beatVars, reapVars>>

\* Shutdown waited ShutdownTimeout: the task is put back, not counted as failed.
Abort(e) ==
  /\ up[WorkerOf(e)] = "draining"
  /\ pc[e] # "idle"
  /\ lease[cur[e]] = e
  /\ lease' = [lease EXCEPT ![cur[e]] = NoExec]
  /\ task' = [task EXCEPT ![cur[e]] = "pending"]
  /\ cancelled' = cancelled \cup {e}
  /\ UNCHANGED <<jobVars, api, retried, pc, cur, ret, lock, workerVars, active, beatVars, reapVars>>

\* The lease of a goroutine that died with its process runs out.
Recover(j) ==
  /\ task[j] = "active"
  /\ lease[j] # NoExec
  /\ cur[lease[j]] # j
  /\ lease' = [lease EXCEPT ![j] = NoExec]
  /\ TaskFails(j)
  /\ UNCHANGED <<jobVars, api, execVars, lock, workerVars, active, beatVars, reapVars>>

-----------------------------------------------------------------------------
(* The handlers: Handle of full-index and of incremental-index.            *)

\* A call that takes the task's context fails once that is cancelled.
MayFail(e) == e \in cancelled \/ "db" \in Faults

Goto(e, step) == pc' = [pc EXCEPT ![e] = step]

\* Handle returns before it holds anything: only the registry entry is left.
ReturnErr(e, step) ==
  /\ Goto(e, step)
  /\ ret' = [ret EXCEPT ![e] = "err"]

\* LoadExecutionContext.
Load(e) ==
  /\ pc[e] = "load"
  /\ \/ e \notin cancelled /\ Goto(e, "lock") /\ UNCHANGED ret
     \/ MayFail(e) /\ ReturnErr(e, "clear")
  /\ UNCHANGED <<jobVars, api, queueVars, cur, cancelled, lock, workerVars, active, beatVars, reapVars>>

\* Mutant of TryProjectLock: the result of pg_try_advisory_lock is not looked at.
TryProjectLockUnchecked(e) ==
  /\ pc[e] = "lock"
  /\ \/ /\ e \notin cancelled
        /\ lock' = [lock EXCEPT ![ProjectOf[cur[e]]] = e]
        /\ Goto(e, "claim")
        /\ UNCHANGED ret
     \/ MayFail(e) /\ ReturnErr(e, "clear") /\ UNCHANGED lock
  /\ UNCHANGED <<jobVars, api, queueVars, cur, cancelled, workerVars, active, beatVars, reapVars>>

\* TryProjectLock: never waits; a held lock is an error and the queue retries.
TryProjectLock(e) ==
  LET p == ProjectOf[cur[e]] IN
  /\ pc[e] = "lock"
  /\ \/ /\ e \notin cancelled
        /\ lock[p] = NoExec
        /\ lock' = [lock EXCEPT ![p] = e]
        /\ Goto(e, "claim")
        /\ UNCHANGED ret
     \/ /\ lock[p] # NoExec \/ MayFail(e)
        /\ ReturnErr(e, "clear")
        /\ UNCHANGED lock
  /\ UNCHANGED <<jobVars, api, queueVars, cur, cancelled, workerVars, active, beatVars, reapVars>>

\* Mutant of Claimed: the UPDATE is not guarded by the status.
ClaimedUnguarded(e) ==
  /\ status' = [status EXCEPT ![cur[e]] = "running"]
  /\ owner' = [owner EXCEPT ![cur[e]] = WorkerOf(e)]
  /\ UNCHANGED stale

\* ClaimQueuedIndexingJob, an UPDATE guarded by status = 'queued'.
Claimed(e) ==
  /\ status[cur[e]] = "queued"
  /\ status' = [status EXCEPT ![cur[e]] = "running"]
  /\ owner' = [owner EXCEPT ![cur[e]] = WorkerOf(e)]
  /\ UNCHANGED stale

\* ClaimJob: claimed, skipped as a stale retry (nil), or failed (err) with or
\* without the UPDATE having reached the database.
ClaimJob(e) ==
  /\ pc[e] = "claim"
  /\ \/ e \notin cancelled /\ Claimed(e) /\ Goto(e, "build") /\ UNCHANGED ret
     \/ /\ e \notin cancelled
        /\ status[cur[e]] # "queued"
        /\ Goto(e, "unlock")
        /\ UNCHANGED <<jobVars, ret>>
     \/ MayFail(e) /\ ReturnErr(e, "unlock") /\ UNCHANGED jobVars
     \/ "db" \in Faults /\ Claimed(e) /\ ReturnErr(e, "unlock")
  /\ UNCHANGED <<api, queueVars, cur, cancelled, lock, workerVars, active, beatVars, reapVars>>

\* Everything between the claim and the final status: it ends with the new
\* snapshot active, or with an error.
Build(e) ==
  /\ pc[e] = "build"
  /\ \/ e \notin cancelled /\ Goto(e, "complete")
     \/ Goto(e, "fail")
  /\ UNCHANGED <<jobVars, api, queueVars, cur, ret, cancelled, lock, workerVars, active, beatVars, reapVars>>

\* Mutant of Finish: the final UPDATE is not guarded by status = 'running'.
FinishUnguarded(e, final) ==
  /\ status' = [status EXCEPT ![cur[e]] = final]
  /\ stale' = stale \ {cur[e]}
  /\ Goto(e, "unlock")
  /\ UNCHANGED <<owner, api, queueVars, cur, ret, cancelled, lock, workerVars, active, beatVars, reapVars>>

\* SetIndexingJobCompletedFromRunning / SetIndexingJobFailedFromRunning, each
\* on a context of its own; an error is only logged.
Finish(e, final) ==
  /\ \/ /\ status[cur[e]] = "running"
        /\ status' = [status EXCEPT ![cur[e]] = final]
        /\ stale' = stale \ {cur[e]}
     \/ /\ status[cur[e]] # "running" \/ "db" \in Faults
        /\ UNCHANGED <<status, stale>>
  /\ Goto(e, "unlock")
  /\ UNCHANGED <<owner, api, queueVars, cur, ret, cancelled, lock, workerVars, active, beatVars, reapVars>>

SetJobCompleted(e) == pc[e] = "complete" /\ Finish(e, "completed")
SetJobFailed(e)    == pc[e] = "fail" /\ Finish(e, "failed")

\* Mutant of ProjectUnlock: the unlock runs on the task's context, and a session
\* that could not unlock goes back to the pool.
ProjectUnlockOnTaskContext(e) ==
  LET p == ProjectOf[cur[e]] IN
  /\ pc[e] = "unlock"
  /\ Goto(e, "clear")
  /\ lock' = IF lock[p] = e /\ e \notin cancelled THEN [lock EXCEPT ![p] = NoExec] ELSE lock
  /\ UNCHANGED <<jobVars, api, queueVars, cur, ret, cancelled, workerVars, active, beatVars, reapVars>>

\* The deferred unlock; a session that cannot unlock is destroyed.
ProjectUnlock(e) ==
  LET p == ProjectOf[cur[e]] IN
  /\ pc[e] = "unlock"
  /\ Goto(e, "clear")
  /\ lock' = IF lock[p] = e THEN [lock EXCEPT ![p] = NoExec] ELSE lock
  /\ UNCHANGED <<jobVars, api, queueVars, cur, ret, cancelled, workerVars, active, beatVars, reapVars>>

\* The wrapper's deferred ClearJob.
ClearJob(e) ==
  /\ pc[e] = "clear"
  /\ Goto(e, "returned")
  /\ active' = [active EXCEPT ![WorkerOf(e)] = @ \ {cur[e]}]
  /\ UNCHANGED <<jobVars, api, queueVars, cur, ret, cancelled, lock, workerVars, beatVars, reapVars>>

\* The session that holds the lock is lost; the handler does not notice.
LoseLock(p) ==
  /\ "conn" \in Faults
  /\ lock[p] # NoExec
  /\ lock' = [lock EXCEPT ![p] = NoExec]
  /\ UNCHANGED <<jobVars, api, queueVars, execVars, workerVars, active, beatVars, reapVars>>

Handle(e) == \/ Load(e) \/ TryProjectLock(e) \/ ClaimJob(e) \/ Build(e)
             \/ SetJobCompleted(e) \/ SetJobFailed(e)
             \/ ProjectUnlock(e) \/ ClearJob(e) \/ Settle(e)

-----------------------------------------------------------------------------
(* Worker processes: App.Run and App.Close, and the registry.              *)

\* SetStatus: a lifecycle transition forgets every active job.
SetStatus(w, state) ==
  /\ up' = [up EXCEPT ![w] = state]
  /\ active' = [active EXCEPT ![w] = {}]

Start(w) ==
  /\ up[w] = "down"
  /\ starts < MaxStarts
  /\ starts' = starts + 1
  /\ SetStatus(w, "starting")
  /\ UNCHANGED <<jobVars, api, queueVars, execVars, lock, beatVars, reapVars>>

\* Server.Start, once the startup reap is over.
ServerStart(w) ==
  /\ up[w] = "reaping"
  /\ todo[w] = {} /\ doomed[w] = {}
  /\ up' = [up EXCEPT ![w] = "started"]
  /\ UNCHANGED <<jobVars, api, queueVars, execVars, lock, starts, active, beatVars, reapVars>>

\* SetStatus(idle), when tasks may already be running.
SetIdle(w) ==
  /\ up[w] = "started"
  /\ SetStatus(w, "running")
  /\ UNCHANGED <<jobVars, api, queueVars, execVars, lock, starts, beatVars, reapVars>>

\* SIGTERM: the heartbeat loop stops, handlers go on.
Drain(w) ==
  /\ up[w] = "running"
  /\ SetStatus(w, "draining")
  /\ UNCHANGED <<jobVars, api, queueVars, execVars, lock, starts, beatVars, reapVars>>

\* Server.Shutdown has returned: Registry.Close sends a last heartbeat.
CloseRegistry(w) ==
  /\ up[w] = "draining"
  /\ \A e \in Exec : WorkerOf(e) = w /\ pc[e] # "idle" => lease[cur[e]] # e
  /\ SetStatus(w, "closing")
  /\ key' = key \cup {w}
  /\ hb' = [hb EXCEPT ![w] = {}]
  /\ UNCHANGED <<jobVars, api, queueVars, execVars, lock, starts, reapVars>>

\* DB.Close waits for the connections that handlers still use.
Exit(w) ==
  /\ up[w] = "closing"
  /\ \A e \in Exec : WorkerOf(e) = w => pc[e] = "idle"
  /\ up' = [up EXCEPT ![w] = "down"]
  /\ UNCHANGED <<jobVars, api, queueVars, execVars, lock, starts, active, beatVars, reapVars>>

\* The process dies: its goroutines, sessions and registry are gone.
Crash(w) ==
  /\ "crash" \in Faults
  /\ up[w] # "down"
  /\ up' = [up EXCEPT ![w] = "down"]
  /\ pc' = [e \in Exec |-> IF WorkerOf(e) = w THEN "idle" ELSE pc[e]]
  /\ cur' = [e \in Exec |-> IF WorkerOf(e) = w THEN NoJob ELSE cur[e]]
  /\ ret' = [e \in Exec |-> IF WorkerOf(e) = w THEN "nil" ELSE ret[e]]
  /\ cancelled' = {e \in cancelled : WorkerOf(e) # w}
  /\ lock' = [p \in Projects |->
                IF lock[p] # NoExec /\ WorkerOf(lock[p]) = w THEN NoExec ELSE lock[p]]
  /\ active' = [active EXCEPT ![w] = {}]
  /\ todo' = [todo EXCEPT ![w] = {}]
  /\ doomed' = [doomed EXCEPT ![w] = {}]
  /\ UNCHANGED <<jobVars, api, queueVars, starts, beatVars>>

Beating(w) == up[w] \in {"starting", "reaping", "started", "running"}

\* The heartbeat goroutine publishes the active jobs with a TTL.
Heartbeat(w) ==
  /\ Beating(w)
  /\ key' = key \cup {w}
  /\ hb' = [hb EXCEPT ![w] = active[w]]
  /\ UNCHANGED <<jobVars, api, queueVars, execVars, lock, workerVars, active, reapVars>>

\* The key of a worker that no longer beats outlives its TTL.
Expire(w) ==
  /\ w \in key
  /\ ~Beating(w)
  /\ key' = key \ {w}
  /\ hb' = [hb EXCEPT ![w] = {}]
  /\ UNCHANGED <<jobVars, api, queueVars, execVars, lock, workerVars, active, reapVars>>

Worker(w) == \/ Start(w) \/ ServerStart(w) \/ SetIdle(w) \/ Drain(w)
             \/ CloseRegistry(w) \/ Exit(w) \/ Crash(w)
             \/ Heartbeat(w) \/ Expire(w)

-----------------------------------------------------------------------------
(* The reapers: Reaper.RunOnce and Checker.CheckAndReapIfDead.             *)

\* A job has been running for longer than the threshold: many heartbeat
\* intervals, so a worker that beats has published since the claim.
Age(j) ==
  /\ status[j] = "running"
  /\ j \notin stale
  /\ Beating(owner[j]) => owner[j] \in key /\ hb[owner[j]] = active[owner[j]]
  /\ stale' = stale \cup {j}
  /\ UNCHANGED <<status, owner, api, queueVars, execVars, lock, workerVars, active, beatVars, reapVars>>

StaleRunning == {j \in Jobs : status[j] = "running" /\ j \in stale}

\* ListStaleRunningJobs, once per start of a worker, which goes on if it fails ...
ListStaleRunningJobs(w) ==
  /\ up[w] = "starting"
  /\ up' = [up EXCEPT ![w] = "reaping"]
  /\ \/ todo' = [todo EXCEPT ![w] = StaleRunning]
     \/ "db" \in Faults /\ UNCHANGED todo
  /\ UNCHANGED <<jobVars, api, queueVars, execVars, lock, starts, active, beatVars, doomed>>

\* ... and the rows of a job page, of which the checker looks at the stale ones.
ListJobs(c) ==
  /\ todo[c] = {} /\ doomed[c] = {}
  /\ todo' = [todo EXCEPT ![c] = StaleRunning]
  /\ UNCHANGED <<jobVars, api, queueVars, execVars, lock, workerVars, active, beatVars, doomed>>

\* Mutant of WorkerAlive: a key is enough, the jobs it lists are not looked at.
WorkerAliveByKey(j) == owner[j] \in key

\* isWorkerAlive: the worker's key exists and lists the job.
WorkerAlive(j) == owner[j] \in key /\ j \in hb[owner[j]]

\* The heartbeat lookup; a Redis error counts as alive.
CheckAlive(r, j) ==
  /\ j \in todo[r]
  /\ doomed[r] = {}
  /\ todo' = [todo EXCEPT ![r] = @ \ {j}]
  /\ \/ ~WorkerAlive(j) /\ doomed' = [doomed EXCEPT ![r] = {j}]
     \/ /\ WorkerAlive(j) \/ "redis" \in Faults
        /\ UNCHANGED doomed
  /\ UNCHANGED <<jobVars, api, queueVars, execVars, lock, workerVars, active, beatVars>>

\* FailStaleJob, an UPDATE guarded by status = 'running'.
FailStaleJob(r, j) ==
  /\ j \in doomed[r]
  /\ doomed' = [doomed EXCEPT ![r] = {}]
  /\ \/ /\ status[j] = "running"
        /\ status' = [status EXCEPT ![j] = "failed"]
        /\ stale' = stale \ {j}
     \/ /\ status[j] # "running" \/ "db" \in Faults
        /\ UNCHANGED <<status, stale>>
  /\ UNCHANGED <<owner, api, queueVars, execVars, lock, workerVars, active, beatVars, todo>>

Reap(r) == \/ r \in Workers /\ ListStaleRunningJobs(r)
           \/ r \in Checkers /\ ListJobs(r)
           \/ \E j \in Jobs : CheckAlive(r, j) \/ FailStaleJob(r, j)

-----------------------------------------------------------------------------
Next ==
  \/ \E j \in Jobs : Request(j) \/ Recover(j) \/ Age(j)
  \/ \E e \in Exec : \/ \E j \in Jobs : Deliver(e, j)
                     \/ Handle(e) \/ Timeout(e) \/ Abort(e)
  \/ \E p \in Projects : LoseLock(p)
  \/ \E w \in Workers : Worker(w)
  \/ \E r \in Reapers : Reap(r)

Spec == Init /\ [][Next]_vars

\* What keeps happening: handlers take their next step, asynq recovers expired
\* leases, workers send heartbeats and finish starting and stopping, unrefreshed
\* keys expire, time passes, and somebody polls the job page (the backoffice
\* does, every 3 s, while a job is queued or running).  Requests, starts,
\* signals and faults need not happen.
Fairness ==
  /\ \A e \in Exec : WF_vars(Handle(e))
  /\ \A j \in Jobs : WF_vars(Recover(j)) /\ WF_vars(Age(j))
  /\ \A w \in Workers : /\ WF_vars(Heartbeat(w))
                        /\ WF_vars(Expire(w))
                        /\ WF_vars(Exit(w))
  /\ \A c \in Checkers : WF_vars(Reap(c))

FairSpec == Spec /\ Fairness

-----------------------------------------------------------------------------
(* Properties.                                                             *)

InSection(e) == pc[e] \in {"claim", "build", "complete", "fail", "unlock"}
Building(e)  == pc[e] \in {"build", "complete", "fail"}

\* The advisory lock serialises a project's handlers: of all the goroutines of
\* all workers, redelivered and timed-out ones included, at most one per
\* project is between TryProjectLock and the deferred unlock.
OneBuilder ==
  \A e1, e2 \in Exec :
    e1 # e2 /\ InSection(e1) /\ InSection(e2) => ProjectOf[cur[e1]] # ProjectOf[cur[e2]]

\* ClaimJob has a single winner even when the lock does not protect it: a job
\* is built by at most one goroutine, whatever is delivered twice, and the row
\* names the worker of that goroutine, which is where the reapers look for it.
SingleClaim ==
  \A e1 \in Exec :
    Building(e1) => /\ status[cur[e1]] \notin {"absent", "queued"}
                    /\ owner[cur[e1]] = WorkerOf(e1)
                    /\ \A e2 \in Exec : Building(e2) /\ cur[e2] = cur[e1] => e2 = e1

\* The jobs table implements the abstract life cycle: no handler, stale retry,
\* reaper or compensating write takes a job out of completed or failed, or into
\* running a second time.
Lifecycle == INSTANCE JobLifecycle WITH Jobs <- Jobs, status <- status
LifecycleSpec == Lifecycle!Spec

\* A running job always ends: if its handler, its worker or its final write is
\* lost, a reaper fails it.
RunningEnds == \A j \in Jobs : status[j] = "running" ~> status[j] \in Terminal

\* A project never stays locked: handlers unlock on every path, and a session
\* dies with its process.
LockReleased == \A p \in Projects : lock[p] # NoExec ~> lock[p] = NoExec

-----------------------------------------------------------------------------
(* The parts of the inductive invariant behind the proofs.                 *)

\* Before the INSERT there is neither a row nor a task.
NotYetCreated ==
  \A j \in Jobs : api[j] \in {"idle", "checked"} => status[j] = "absent" /\ task[j] = "none"

\* Unless an enqueue stored the task and reported an error, a job whose request
\* is not over is still queued and unknown to asynq.
NotYetEnqueued ==
  "reply" \notin Faults =>
    \A j \in Jobs : api[j] \in {"created", "compensate"} => status[j] = "queued" /\ task[j] = "none"

\* No handler runs a job that was never enqueued.
NoTaskNoHandler ==
  \A j \in Jobs : task[j] = "none" => \A e \in Exec : cur[e] # j

\* Unless a session may be lost, whoever is in the section holds the lock.
LockHeld ==
  "conn" \notin Faults => \A e \in Exec : InSection(e) => lock[ProjectOf[cur[e]]] = e

JobInv == SingleClaim /\ NotYetCreated /\ NotYetEnqueued /\ NoTaskNoHandler
=============================================================================
