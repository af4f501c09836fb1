# Verification of the indexing backend

This directory holds TLA+ models of the backend of the code-intelligence
platform in `src/`: a Go API (`backend-api`), a Go worker (`backend-worker`) and
the PostgreSQL schema and queries they share (`datastore`). TLC checks the models
on small instances; TLAPS proves the most important safety properties for every
instance. `PROJECT.json` relates every definition to its source lines and lists
the components, runs, mutants, hazards and theorems.

Paths below are relative to `src/`; `worker/` stands for
`backend-worker/internal/` and `api/` for `backend-api/internal/`.

## 1. Inventory

### The system

A user asks the API to index a project. The API inserts a row in
`indexing_jobs` and enqueues an asynq task in Redis. A worker takes the task,
locks the project (a PostgreSQL advisory lock), claims the row, prepares a git
workspace, parses and embeds the files, writes artifacts to PostgreSQL and points
to Qdrant, activates the new snapshot and sets the job's final status. While it
works, a heartbeat in Redis says which jobs the worker has. Reapers fail jobs
whose worker is gone. Workers and API processes publish events through Redis
pub/sub; every API process forwards them to its connected browsers by SSE,
filtered by project membership. Requests that read the index look up the active
snapshot and query its rows. Members, accounts, API keys, SSH keys and provider
settings are managed by API requests that run PostgreSQL transactions.

The processes share no memory. They meet in the rows of PostgreSQL, in its
locks, in asynq's tasks, in Redis keys and channels, and in Qdrant's points.

### The components

| Component | State it keeps | Operations | What is hard | What makes it correct |
|---|---|---|---|---|
| index requests (`api/handler/project.go`, `api/queue/publisher.go`) | rows of `indexing_jobs`, asynq tasks | dedup lookup, INSERT, enqueue, compensating write | two requests at once; a stop between statements; an enqueue whose reply is lost | duplicates are built one after the other; a final status is final |
| asynq (external) | tasks, retry counters, leases | deliver, retry, archive, recover | at-least-once delivery; a goroutine outlives its timed-out task | - |
| workflow handlers (`worker/workflow`, `worker/repository/job.go`) | advisory lock, job row | load, lock, claim, build, finish, unlock | redelivery beside the first goroutine; cancelled contexts; lost sessions; a crash between any two statements | one builder per project; one claim per job; a final status is final; locks are released |
| storage of an index (`worker/workflow/*`, `worker/indexing`, `worker/artifact`) | snapshots, files, artifacts, dependencies, points | create snapshot, clean, write, embed, copy forward, activate | failure at any statement; take-over of a failed attempt's row; the base of an incremental build; a reaper beside a build | an active snapshot has exactly its commit's files, artifacts and points; publication is atomic |
| worker registry, application (`worker/registry`, `worker/app`) | active jobs, heartbeat key | SetBusy, ClearJob, SetStatus, heartbeat, Run, Close | tasks run before and after the status changes that clear the registry | a dead worker's jobs are not in the heartbeat |
| reapers (`worker/reaper`, `api/jobhealth`) | lists read earlier | list, look up heartbeat, fail; delete orphaned snapshots | decisions on stale reads; several reapers | a dead job ends; an ended one is left alone |
| endpoints that read the index (`api/handler/project.go`, `symbolquery.go`, `codesearchquery.go`) | none | look up the snapshot, then up to three queries, or a search of the dependency graph level by level | no transaction around the statements; the snapshot is replaced or rebuilt meanwhile; the node limit | answers are of one commit and whole; graphs are closed |
| workspace manager (`worker/workspace`, `worker/gitclient`, `worker/sshenv`) | repository caches, worktrees, key files on disk | lock, clone, rename, fetch, check out, clean up | two processes on one cache, with or without working locks; crashes in a clone; a changed URL | a whole cache of the right repository, no older than the job; nothing left behind |
| commit history (`worker/workflow/commits`, `api/handler/commits.go`) | commits, parents, file diffs, the snapshot's link | read git log three times, insert, link; list, count, page | failure halfway that is only logged; merges; repeated inserts; counts beside lists | rows are what git printed; success means complete; pages agree with totals |
| parser engine (`worker/parser`) | a pool of parsers | parse a batch, acquire, release, shut down | a pool shared by jobs; deadlines, cancellation, shutdown | no parser is lost or shared; each file has its result; batches return |
| chunk splitting, embedding, upsert (`worker/workflow/*/handler.go`, `worker/embedding`, `worker/vectorstore`, `worker/indexing/pipeline.go`) | chunks, vectors, points | cut, embed and store in batches | boundaries of runes, lines and batches | chunks tile the file; lines are right; each chunk has its own vector |
| import resolution (`worker/indexing/resolve.go`, `worker/parser/extractors/imports.go`) | dependency rows | resolve, copy forward | files that compete for one import; rows copied from older trees | a resolved target is the one the tree defines |
| membership service (`api/membership`, `api/storage/postgres/tx.go`, `api/middleware/projectrole.go`) | rows of `project_members`, row locks | add, change role, remove; retry after deadlock | two owners demote each other; a role read before the transaction; deadlocks | an owner remains; owners are touched by owners only; every request is answered |
| accounts (`api/handler/admin.go`, `user.go`, `auth.go`, `apikey.go`, `api/apikey`, `api/middleware`) | users, sessions, platform roles, API keys | register, log in and out, grant, revoke, activate, deactivate, create and delete keys, check access | two admins remove each other; limits counted before inserting; a key used after it was identified | an admin remains; limits hold; a key gives no more than it should |
| provider settings (`api/embedding`, `api/llm`, `api/providersetting`, triggers) | platform and custom configurations, selections, versions | select, customise, reset, replace, create, PATCH, delete, promote, resolve | decisions on rows read earlier; two-statement changes of the default; triggers that lock in opposite orders | one default; one choice per project; resolution finds something |
| projects and SSH keys (`api/handler/project.go`, `sshkey.go`, `api/sshkey`) | projects, keys, assignments | create, assign, generate, remove, retire, delete | an assignment crosses a deletion; rivals at the unique index | an assignment has its project and key; requests are answered |
| SSE hub and subscriber (`api/sse`, `api/handler/event.go`, `api/handler/membership.go`) | clients, their projects and channels, the subscription | connect, register, send, apply deltas, refresh, reconnect | deltas out of order, lost, repeated, overwritten by a refresh; slow clients; capacity checked twice | limits hold; an own event arrives once; memberships converge to the table |
| extractors' rules, HTTP and JSON of the clients, MCP server, backoffice, wiring | - | I/O and data transformation | - | not modelled, see section 9 |

## 2. Plan

Done, in this order, the most important behaviour first:

1. `JobLifecycle`, `IndexJobs`: the life of a job.
2. `PublishedIndex`, `SnapshotIndex`: the build, which is one step of `IndexJobs`.
3. `ProjectMembers`: concurrent changes of memberships.
4. `EventHub`: live events and the memberships they depend on.
5. Proofs beside each of the four.
6. `IndexReaders`, composed with `SnapshotIndex`: what requests see of builds.
7. `ProjectKeys`, and `RepoCache` composed with it: from a project's URL and key to a worktree.
8. `ProviderSettings`, `Accounts`: the other tables that concurrent requests change.
9. `CommitHistory`: what a job stores beside its snapshot and the browser reads.
10. `ParserPool`, `ChunkPipeline`, `ImportTargets`: the content of a build.
11. Proofs of the safety invariants of `ProjectKeys`, `RepoCache`, `Accounts`,
    `ParserPool`, `ChunkPipeline`, `ProviderSettings`, `IndexReaders`, `CommitHistory`
    and `ImportTargets`: every invariant that a run checks is now also a theorem, but for
    `AdminRemains` (section 6).

Next:

1. `IndexJobs` and `SnapshotIndex` composed for two builders after a lost lock
   session, to say what of `ActiveIsWhole` survives without `OneBuilder`.
2. An abstract specification of `ProjectMembers` (a table changed by atomic
   requests) and its refinement.

## 3. Modules

| Module | Models | Lines of the code |
|---|---|---|
| `JobLifecycle` | abstract: what a row of `indexing_jobs` promises | the status values and guarded UPDATEs of `indexing.sql` |
| `IndexJobs` | requests, asynq, workers, handlers, registry, reapers | `HandleIndex`, `wrapHandler`, `Handle`, `TryProjectLock`, `Registry`, `Reaper`, `Checker` |
| `PublishedIndex` | abstract: what readers see of a branch | - |
| `SnapshotIndex` | the build of one branch's index, the orphan pass | `runFullPipeline`, `runIncrementalPipeline`, `WriteFile`, `CopyForward*`, `ActivateSnapshotTx` |
| `ProjectMembers` | requests that change the members of one project | `Add`, `UpdateRole`, `Remove`, `RequireProjectRole`, `WithTx` |
| `EventHub` | the SSE hub of one API process | `Hub`, `Subscriber`, `EventPublisher`, `HandleStream`, `HandleLogStream`, membership handlers |
| `IndexReaders` | extends `SnapshotIndex`: requests that read the index | `HandleSearch`, `HandleListSymbols`, `HandleDependencies`, `HandleDependencyGraph`, `HandleStructure`, `HandleFile*` |
| `ProjectKeys` | projects, SSH keys and their assignment | `HandleCreate`, `HandleDelete`, `setSSHKeyReassign`, `setSSHKeyGenerate`, the SSH key handlers |
| `RepoCache` | extends `ProjectKeys`: the worker's workspaces | `LoadExecutionContext`, `Manager.Prepare` and its cleanup, `lockProject`, `sshenv` |
| `CommitHistory` | commits and diffs of a project, the commit browser | `LogCommits`, `DiffStatLog` and its parsers, `indexCommits`, the commit handlers |
| `ProviderSettings` | embedding and LLM configurations | both services, their handlers and triggers |
| `Accounts` | users, sessions, platform roles, API keys, access | `admin.go`, `auth.go`, `apikey/service.go`, `middleware` |
| `ParserPool` | the parser engine | `ParseFilesBatched`, `runPipeline`, `Pool` |
| `ChunkPipeline` | chunks, embeddings, points | `splitRawChunks`, `splitOversizedChunks`, `Embed`, `processFiles` |
| `ImportTargets` | dependency rows over commits | `ResolveImportTargets`, `registerPath`, import extraction |
| `*Proofs` | the theorems: `RepoCacheProofs` also about `ProjectKeys`, `ContentProofs` about `ParserPool`, `ChunkPipeline`, `CommitHistory` and `ImportTargets`, `SnapshotIndexProofs` also about `IndexReaders`, the others about the module they name | - |
| `MC*` | instances for TLC | - |

### IndexJobs

`status`, `owner`, `stale` are the table; `task`, `retried`, `lease` are asynq;
`pc`, `cur`, `ret`, `cancelled` a handler goroutine; `lock` the advisory locks;
`up`, `starts`, `active`, `key`, `hb` worker processes, their registry and its key in
Redis; `todo`, `doomed` what a reaper has read. A request is `FindActive`,
`CreateJob`, `Enqueue` or `EnqueueFails` and `Compensate`, one action for each
statement or call. A handler is `Load`, `TryProjectLock`, `ClaimJob`, `Build`,
`Finish`, `ProjectUnlock`, and the wrapper's `ClearJob` and return. Each reads and
writes what one database or Redis call does, so that anything may happen between two.
`Faults` names the failures an instance has; the theorems hold for any set of them
unless they say otherwise.

Time: a running job may become stale once its worker has sent a heartbeat after
the claim (the interval is 10 s, the threshold minutes); a key that is no longer
refreshed may expire.

### SnapshotIndex

`row`, `isActive` are `index_snapshots`; `files`, `arts`, `deps` what belongs to a
file or a snapshot row, `live` the points in Qdrant. A build is `Begin`,
`ResolveBase` or `FallBack`, `CreateSnapshot`, `DeleteSnapshotArtifacts`, per file
`WriteFile` and `UpsertVectors` or `CopyFile` and `CopyVectors`, then
`ActivateSnapshotTx`; it may `Fail` at any statement, in the middle of a file too.
`ListOrphans` and `DeleteOrphan` are the startup reaper's pass. A content stands for
a file's text and all that is parsed out of it.

One build runs at a time. That is `IndexJobs!OneBuilder`, which is proved, as long
as no lock session is lost.

### ProjectMembers

`role` is the table, `active` the users that are active, `lock` PostgreSQL's row
locks; `req`, `pc`, `pending` and the counters a request's transaction. PostgreSQL is
modelled at READ COMMITTED: a statement sees what is committed when it starts;
`SELECT ... FOR UPDATE` locks the rows it found one by one in no known order, waits
for other holders and looks again at what it waited for; of transactions that wait
for each other one is aborted. `Deadlock` is `WithTx`'s retry, `Abort` any other
error. Membership routes take user sessions only, so API keys do not occur.
Platform roles are fixed.

### EventHub

One hub; of the other processes what it sees: changes of the table and events.
`member` is the table; `stream`, `pids`, `ch` the connections, `Client.ProjectIDs` and
`Client.Ch`; `link`, `queue`, `applied` the subscription; `refresh` the two callers of
`RefreshAllMemberships`; `call` the membership handlers after their commit. The
hub's mutex makes each method a step, and everything between two methods is open to
interleaving: between the commit and the delta, the delta and the frame, the
collection of users, each load, and the overwriting at the end of a refresh.
`written` is a history of the frames that reached a client.

### IndexReaders

`SnapshotIndex` with one request beside its builds. A request is `Ask`, `LookUp` of the
active snapshot, then one step for each statement the handler executes
(`Statements` lists them per handler, `Result` says what each selects), or for the graph
`GraphForward` and `GraphReverse` for each level, with the node limit. `rewritten`
remembers that a build has taken over the snapshot being read. Nodes found by one
query are visited in any order.

### ProjectKeys and RepoCache

`keys`, `projects`, `assigned` are the tables; `rowLock`, `deleting` PostgreSQL's locks
and the foreign keys' waits; `pc`, `arg`, `attempt` a request. A request that is one
statement is one action.

`RepoCache` adds the worker: `remote` the newest commit of each repository; `flock`,
`cache`, `clone`, `worktree`, `keyFile` the disk; `step`, `ctx` a job. `honoured` says
whether the volume honours flock: the code handles the race for the rename as if it
might not. A job loads URL and key, writes the key, takes the lock, re-uses or clones
and renames, fetches, adds a worktree, and cleans up on every path: also after a `WorktreeAdd` that failed with its directory on disk, when the
cleanup takes the lock again which the failed function has just released. A commit of 0 is a
half-written clone. `normalizeURL` is a constant function from URLs to repositories.

### CommitHistory

`commits`, `parentRows`, `diffRows`, `links` are the tables. A job lists commits
(`LogCommits`, the first-parent log of git), merges the three outputs of
`DiffStatLog`, and inserts row by row; it may stop at any INSERT
(`IndexingFails`), and then builds and activates its snapshot all the same. The output of
git is a sequence of tokens, and the three parsers are folds over it as in the
code. The browser's four endpoints are their statements. `whole` is a history variable:
whether every job since one that reached the root succeeded.

### ProviderSettings

`cfg` has a table for each kind, `sel` the projects' selections, `versions` the
embedding versions. Every transaction is its statements, with the row locks its UPDATEs and
the triggers of the schema take (`TriggerLock`), and with the reads the services make
before the transaction in `cur` and `seen`. Both services are the same actions with a
`kind`; where their code differs (the LLM service runs a PATCH outside `WithTx` and
has no versions) so do the actions. `cred` is the endpoint for which stored
credentials were entered.

### Accounts

Users, sessions, platform roles, memberships and API keys as tables; an admin's
request is the middleware's check, the read of the target, the `FOR UPDATE` count
row by row, the change, the second count and the commit. Key creation locks
the owner's row, counts, inserts. The use of a key is its identification and, in a
later statement, `CheckAPIKeyProjectAccess`.

### ParserPool, ChunkPipeline, ImportTargets

`ParserPool`: a goroutine per file, limited to the number of parsers; the channel of
parsers, the recheck after acquiring, the stages of `runPipeline`, deadlines, cancelled jobs and
`Shutdown` step by step. The kind of a file says which way it takes: an empty, oversized or unsupported one
ends before the parser, one whose language has no grammar (JSON, SCSS, GraphQL, XML) goes on to the
extractors without it (`NeedsParser`). `ChunkPipeline`: a content is a sequence of byte classes
(newline, ASCII, first and further bytes of a rune), a chunk a range of it, a vector the
text it was computed from; cutting, embedding in batches, upserting in batches. A parser's chunk comes with
any range of lines, since the summary of a class has that of the class and not of its own text.
`ImportTargets`: a branch whose files come, go and change; a path is a record of what
the resolver looks at, and an import's joined path may be empty; standard library imports are not resolved; full
builds resolve everything, incremental ones what changed.
The three share no state; `MCContent` explores each with the others at rest.

## 4. Runs

| Run | Shows | Instance |
|---|---|---|
| `jobs_contention` | `OneBuilder`: two goroutines of one project are never both between lock and unlock | two jobs, two goroutines; lost enqueue replies, failing database and Redis, timeouts |
| `jobs_liveness` | `SingleClaim`, `LifecycleSpec` (refinement of `JobLifecycle`), `RunningEnds`, `LockReleased` | one job, one worker with two starts and two goroutines, a checker, one retry; failing enqueues, stopping API, lost sessions, timeouts, crashes |
| `readers` | `ActiveIsWhole`, `ActiveSearchable` through failures, take-overs, full re-indexing and an orphan pass; `ReadsConsistent`, `GraphSound` of requests beside them | two commits that keep, change and add or delete a file, three builds, one request of each handler, a graph of three nodes at most |
| `snap_published` | `PublishedSpec` (refinement of `PublishedIndex`): readers see nothing, then whole commits | the same commits, two embedding versions, new targets only, a pass between builds |
| `members` | `OwnerRemains`, `OwnersByOwners`, `Answered` | two users, one a platform admin, two concurrent requests, one deadlock retry |
| `hub` | `WithinCapacity`, `OwnOnce`, `Converges` | a stream and a log stream for one place, two requests, buffer and queue of two |
| `providers` | `SettingsInv` (types, `SelectionShareable`, `OneChoice`, `CustomCredentials`), `DefaultServes`, `VersionRecorded`, `ResolveFinds`, `Answered` | one project, two endpoints and models, two requests at a time, three in all, one deadlock retry |
| `access` | `AccountsInv` (types, `KeysWithinLimit`), `AdminRemains`, `RemovalsLeaveAdmin`, `KeyAccess` | three users, two of them admins at first, one yet to register, two requests at a time, three in all, one fault, one key per owner |
| `keys` | `AssignmentInv` (types, `AssignmentHolds`), `KeysAnswered` | two users, keys and projects, two requests at a time, three in all |
| `repos` | `WorkspaceInv` (types, `CacheWhole`, `RightRepository`, `CommitFresh`), `NothingLeft`, `JobEnds` | two jobs of one project, two spellings of one repository and another one, a push, a fault, locks that work or do not |
| `history` | `HistoryInv` (types, `IndexedWhole`, `SnapshotLinked`), `DiffsFaithful`, `HistoryUnbroken`, `PageCounts` | five commits with a side branch, a merge and a forced push, every kind of change, a log limit of two, two jobs, one request |
| `content` | `PoolInv` (types, `ParserConserved`), `ResultsComplete`, `BatchesReturn`; `ChunksInv` (types, `ChunksTile`, `LinesExact`), `VectorsMatch`; `TargetsInv` (types, `TargetsResolved`) | two batches, of two files and of one, on two parsers; among the files an empty, an oversized and an unsupported one and one without a grammar; every content of at most five runes of one to three bytes with a limit of four; nine paths that compete, three commits |

Each property has a mutant: a plausible slip in one definition
that makes TLC find the property violated. The type invariants of `IndexJobs`,
`SnapshotIndex`, `ProjectMembers` and `EventHub` are proved as theorems of their own; the other
modules' are conjuncts of the invariants their runs check.

### Bounds

- `MaxRetry`, `MaxStarts`, `MaxBuilds`, `MaxPasses`, `MaxEvents`, `MaxQueue`,
  `MaxDeadlockRetries`, `ClientBufferSize`, `MaxConns`, `MaxRequests`, `MaxReads`,
  `MaxFaults`, `MaxPushes`, `MaxJobs`, `MaxCommits`, `MaxVersion` cap counters, queues and limits.
  None is weaker than the code's in kind: one retry already brings a redelivery
  beside the first goroutine, two starts a restart under the same worker id, three
  builds a failed attempt, its take-over and an incremental successor, a buffer of two a
  channel that is full.
- Two jobs suffice for `OneBuilder`, which is about pairs; one job has crashes, retries and
  the checker in `jobs_liveness`.
- Two users and two requests are the smallest instance with a deadlock; two
  commits that keep, change, add and delete a file contain every case of the diff.
- In `hub` two membership changes suffice for deltas that overtake each other or a
  refresh; `MaxConns = 1` with two connections makes the capacity race happen.
- In `providers`, `access` and `keys` two requests run at a time and a third may come
  before, between or after: enough for every race of two, for a state an earlier
  request has prepared, and for a key limit of one to be reached. A race of three is
  left to the proofs, which are for any number of requests. For `AdminRemains` it makes a
  difference: with three it is false (section 8), and what is proved for any number is
  `RemovalsLeaveAdmin`.
- In `readers` one request meets three builds: the snapshot may be replaced, re-used and
  replaced again under it. `MaxGraphNodes = 3` is reached in the middle of a level.
- In `history` a log limit of two cuts the history in the middle, two jobs leave and meet
  what the other left, and an offset and a limit are each beyond their caps once.
- In `content` five runes with a limit of four bytes give lines shorter, equal and longer than the
  limit, runes across it, and three chunks and more, so that the batches of two and three
  end within a file and between files.
- The safety properties are proved without these bounds, under the conditions section 6 names.

`SYMMETRY` is used in `jobs_contention` only, over goroutines, for invariants.
`CHECK_DEADLOCK FALSE` stands where bounded requests, starts or builds let the instance rest.

## 5. Fairness

| Specification | Assumed | Why the code justifies it |
|---|---|---|
| `IndexJobs!FairSpec` | weak fairness of each handler's steps | a goroutine that runs goes on; calls have timeouts |
| | of `Recover` | asynq's recoverer looks for expired leases periodically |
| | of `Heartbeat`, `Expire`, `Age` | the registry's ticker, Redis's TTL, time |
| | of `Exit` | a drained worker process ends |
| | of `Reap(c)` | the backoffice polls the job page every 3 s while a job is active (`backoffice/src/components/project-detail/jobs-content.tsx:177-184`). Without anybody looking a dead job ends at the next worker start only |
| `ProjectMembers!FairSpec` | strong fairness of a request's steps | PostgreSQL queues the waiters of a row lock, so one that is offered the row again and again gets it; nothing is assumed of new requests |
| `EventHub!FairSpec` | weak fairness of the ticker and of its last step, strong fairness of each load | `RunPeriodicRefresh` loops over a ticker; not every query fails for ever |
| `ProviderSettings!FairSpec` | strong fairness of a request's steps | as for `ProjectMembers` |
| `ProjectKeys!KeysFairSpec` | weak fairness of a request's steps | a wait ends when its holder does, and nobody takes the row again before the one who waits |
| `RepoCache!FairSpec` | the same, and strong fairness of a job's steps | `lockProject` polls the lock file; git commands end or fail |
| `ParserPool!PoolFairness` | weak fairness of goroutines, parses, the loop that starts them and `Shutdown` | goroutines are scheduled; a parse ends by itself or at its file's deadline; a file asks for a parser once |

Nothing is assumed of requests, deliveries, crashes, messages, failures, pushes or restarts.
`Converges` needs neither the subscription nor Redis: the periodic refresh alone
makes good what they lose.

## 6. Proofs

The constants' assumptions are the named `ASSUME`s of each module: types of the
constant functions, finiteness of users, requests, parsers, clients, files and packages, and null values that are not
members of the sets they stand beside. No bound is assumed to be small. `ChunkPipeline` also assumes
what it is given: contents whose runes have at most four bytes (`Encoded`), a limit of
at least one rune (`MaxInputAssumption`), and that a parser's chunk has a text (`FilesAssumption`); of the
lines it says it has, nothing. `CommitHistory` assumes what git gives: finitely
many commits, each with finitely many changed files, no commit that is its own ancestor, since its hash
covers its parents' (`AncestryAssumption`), and a patch limit in which a short patch and an empty line fit
(`MaxPatchBytes > 1`, in the code 5 MB). `ImportTargets` assumes what is so of any
list of path strings (`PathsAssumption`): the paths are distinct, a declaration `x.d.ts` has the stem `x.d` and the bare
stem `x`, so that no two declarations share one, and a directory has one `index.d.ts`.

Each inductive invariant is a conjunction of named parts beside the properties of its module
(`JobInv`, `FileInv`, `SearchInv`, `MembersInv`, `OwnInv`, `KeysIInv`, `RepoIInv`, `AccountsIInv`,
`LockedInv`, `PoolIInv`, `ChunkIInv`, `ProvidersIInv`, `ReadersIInv`, `GraphIInv`, `PageProgress`, `HistoryProgress`, `RowsResolved`), and TLC has checked it on the instance of the module's run
before it was proved.

| Theorem | Argument |
|---|---|
| `IndexJobsProofs!TypeCorrect` | inductive as it stands |
| `SingleClaimCorrect` | `SingleClaim` needs to know that a job nobody enqueued has no handler (`NoTaskNoHandler`), that there is no task before the INSERT (`NotYetCreated`), and that a compensating write meets a queued row (`NotYetEnqueued`): together `JobInv` |
| `OneBuilderCorrect`, without lost sessions | `LockHeld`: who is in the section holds the lock; a goroutine leaves the section before or with the lock, on crashes too |
| `LifecycleCorrect`, without lost enqueue replies | every step is a step of `JobLifecycle` or leaves `status` alone, from `JobInv`: a finishing handler's UPDATE is guarded by `running`, a compensating write meets `queued` |
| `SnapshotIndexProofs!TypeCorrect` | inductive as it stands: deleting a row deletes what belongs to it |
| `ActiveIsWholeCorrect` | `FileInv`: what is stored plus what is planned is the commit's tree (`PlanCovers`, `StoreProgress`), copies come from rows that equal the commit's content (`CopyPlan`), and the target is inactive while it is filled (`TargetInactive`) |
| `ActiveSearchableCorrect`, unless incremental indexing runs at an unchanged HEAD | `SearchInv`: the same for artifacts, dependencies and points, from a base that has them (`BaseServes`) |
| `PublishedCorrect`, for new targets without a pass beside a build | `FileInv` and `RowStays` (the row of the target is still there at activation): activation is one `Publish`, all else leaves the view alone |
| `ReadsOfOneCommit` | `ReadersIInv`: what a snapshot has of a file, whole or half built, is its commit's (`StoredOfCommit`); every query is monotone in the rows it reads (the lemma `ResultPart`), so a part of the rows gives a part of the answer |
| `ReadsConsistentCorrect`, unless incremental indexing runs at an unchanged HEAD | besides, a snapshot that was activated stays whole until `CreateSnapshot` takes it over, also when it has been replaced (`StoredWhole`), and the request knows whether that has happened (`NotRewritten`) |
| `GraphClosedCorrect` | `GraphProgress`: every edge joins nodes that were admitted, and a node is admitted only while there are fewer than the limit; no assumption on what a level's query returns, so that it covers incremental indexing at an unchanged HEAD and a snapshot that is taken over |
| `GraphSoundCorrect`, unless incremental indexing runs at an unchanged HEAD | `GraphDistances`: after a level the nodes are those within that distance of the root and the frontier those at exactly that distance, since the rows a level reads are the commit's until the snapshot is taken over. A level goes from one distance to the next (the lemma `NextLevel`). That the recursive `Ball` has the value its definition gives is shown by `IterationExists`, an induction over the naturals that is carried out on sets |
| `ProjectMembersProofs!TypeCorrect` | inductive as it stands |
| `OwnerRemainsCorrect` | `MembersInv`: a request that will take an owner away holds its target's row (`TargetHeld`), every owner it has counted (`CountedHeld`), and another owner's row (`OtherHeld`) until it commits; two such requests cannot hold each other's |
| `OwnersByOwnersCorrect` | an action property, from the same invariant: the check on the target's role still holds at the write because the row is locked |
| `EventHubProofs!TypeCorrect` | inductive as it stands, with the bound on each channel |
| `WithinCapacityCorrect` | `Register` looks again under the lock; cardinality of the registered clients |
| `OwnOnceCorrect` | `OwnInv`: requests in flight have different events (`CallsDistinct`), what has reached a client is no longer to be sent (`FramesDone`), and `handleMessage` goes past the delta with foreign events only (`HeadForeign`) |
| `RepoCacheProofs!KeysAssignmentHolds` | `KeysIInv`: keys are never deleted, so one that was checked is there at the insert (`KeyChecked`); an inserted assignment keeps its project from being deleted until its commit, and a deletion that cascades has the project's row (`ProjectPinned`) |
| `RepoAssignmentHolds` | the same invariant for the composition: a job changes no row of `ProjectKeys` |
| `PreparedWorkspace` | `RepoIInv`: a clone is whole and serves its job before it is renamed (`CloneInv`), and from the choice of a cache to the worktree the cache stays of the job's repository and, after the fetch, as new as the job (`CacheInv`), because nobody takes a commit or a URL away from a cache; the proof uses no lock, so that it covers volumes that ignore flock |
| `NothingLeftBehind` | `CloneInv` and the key's removal on every path: inductive with the rest of `RepoIInv` |
| `AccountsProofs!KeysStayWithinLimit` | `AccountsIInv`: who has counted holds the owner's row, and the count is below the limit until the insert (`CountInv`); cardinality of the set with one key more |
| `KeyAccessRight` | an action property: `CheckAPIKeyProjectAccess` reads the key again, and the membership of a personal key's creator with it |
| `RemovalsAreGuarded`, for any number of requests | `LockedInv`: whoever is locked for a removal, with both rows and not its own target, is an active admin until it ends, since another removal would have to hold one of the two rows to take this admin away. So only a removal that has locked nobody else can take the last admin |
| `ContentProofs!ParsersConserved` | `PoolIInv`: `InOnePlace` says what `ParserConserved` says without its counts, and `HeldWhileParsing` when a goroutine has a parser |
| `ParseResultsComplete` | `FileProgress` (a finished goroutine has left the right result for its file's kind in its own slot, and only files that need a parser have waited for one) and `ReturnedAtEnd` |
| `ChunksAreTheContent` | `SplitProgress`: the next chunk begins where the last one ended, at a rune, on the line that is counted; the lemmas say where a cut falls (within the limit, after a newline or before a rune) and how newlines add up over adjacent ranges. The lines are those of the text, counted from the start it was given; that a parser's text lies on its range is not assumed, and for summaries it is not so (section 8) |
| `PointsMatchChunks` | `VectorProgress`: vectors are a prefix of the chunks' texts, points a prefix of both, whatever the batch sizes |
| `PagesWithinTotals` | `PageProgress`: rows are only added, each table is finite, and the page that was read stays within what the count will find; the page and the count are two statements over predicates of which the first implies the second (the lemmas `CountedIs` and `CountedGrows`) |
| `HistoryIsStored` | `HistoryIInv`, which is `HistoryProgress` with the three properties: the list and the diffs of a job are what git gave for its head and base (`JobPlan`), and of each of the three loops everything before the current row is stored (`CommitsSoFar`, `ParentsSoFar`, `DiffsSoFar`); an entry exists for exactly the files git shows, from the lemmas of the next row |
| `DiffsAreFaithful` | what the parsers compute, for any output: a `FoldLeft` is shown to be the last state of a machine that reads one line after another (`FoldIsAfter`), by induction over the naturals carried out on sets; then what holds after each of the three outputs: the entries are the files that have been named (`Named`), with their own numbers (`Numbered`), then with their own patches (`Patched`), of which the collector's current file is the only one unfinished. A row that a later job stores again is the same row |
| `MainlineIsUnbroken` | `Mainline` and `Ancestors` have the values their definitions give (`RecursionOverParents`), by induction over the generations of `AncestryAssumption`; a log that ends before its limit has met the base or the root, and from the base on the mainline was stored before, as `whole` is kept only by jobs that succeeded |
| `TargetsAreResolved` | `LookupIs`: after the first n sorted paths every name has in each map the best candidate of the ranks that map stands for; one more path leaves an entry alone or is better than it (`KeyKept`, `KeyTaken`, `KeyStays`). `MatchRight`: so the first map that has a name holds the best candidate of all, `Expected`, which is stated without the maps. `RowsResolved` is kept because a copied row was resolved at the commit its file was last parsed at, and that file has not changed since |
| `ProviderSettingsProofs!ChoicesHold`, `OneDefaultServes`, `CredentialsStayWithEndpoint`, `VersionsRecorded`, `ResolveAlwaysFinds` | all five are conjuncts of `ProvidersIInv` or follow from it. A selection holds the configuration's row from the trigger's check to its commit (`SelectionHeld`), a change of the default or a PATCH holds the rows it will write (`RowsHeld`), and what was read before a transaction remains true of what it is used for (`StaleReads`: versions are never deleted, the credentials were entered for the endpoint). A step of one request leaves these facts of the others alone, as it writes no row they have locked |

Only model-checked are `AdminRemains`, which two requests keep and three do not, and the liveness properties (`RunningEnds`, `LockReleased`, both `Answered`, `KeysAnswered`,
`JobEnds`, `BatchesReturn`, `Converges`), since fairness and ENABLED are out of the prover's reach.

No module that is proved about uses a recursive operator; recursion is by folds and by recursive
functions, whose values are shown to exist by inductions over sets.

## 7. Hazards

`PROJECT.json` lists them at their lines with the properties that would catch them. Three have
none, because the code does not prevent them and no property against them holds: a job that stays queued after
its request stopped before the enqueue, or after every delivery of its task met the project lock; a live job
that the job page fails; a branch that has no active snapshot while its active commit is indexed again, or
after an orphan pass has deleted the snapshot of a running build. Section 8 describes them.

## 8. Behaviour to know about

Met while modelling. Where a property is limited because of it, this is said.

Jobs:

- Two simultaneous index requests both pass the dedup lookup
  (`api/handler/project.go:802`) and both insert a job, although
  `backend-api/CHANGELOG.md:267` says that repeated requests "return the existing active
  job instead of creating duplicates". `OneBuilder` says that they are built in turn.
- A delivery that meets the project lock (`worker/workflow/fullindex/handler.go:116`) uses up a retry of asynq;
  after the last one the task is archived, the job stays queued, no reaper looks at it and
  later requests are answered with it. `backend-worker/CHANGELOG.md:712` wants the lock
  taken first "so failure allows queue retry without consuming the job". The same happens
  when the API stops between INSERT and enqueue.
- `Run` starts the queue server before `SetStatus(idle)` (`worker/app/app.go:202`), which clears the
  registry: a job delivered in between is missing from every heartbeat and is failed by a job page while
  its handler works, against `api/jobhealth/checker.go:68`. Draining and duplicate
  deliveries have the same effect. `LifecycleSpec` says that such a job stays failed.
- An enqueue that stores the task and reports an error lets the unguarded
  `SetIndexingJobFailed` (`api/handler/project.go:856`) overwrite a running or
  completed job; `concept/tickets/backend-worker/03-job-lifecycle.md:86` wants guarded
  transitions. `LifecycleSpec` is therefore checked and proved without the fault `reply`.
- A lost database session releases the advisory lock while its handler goes on
  (`worker/repository/job.go:227`): two builders of one project, against
  `concept/tickets/backend-worker/13-events-safety.md:86`. `OneBuilder` is proved
  without the fault `conn`; `SingleClaim` holds with it.

Builds and readers:

- A full re-index of the active commit resets its row
  (`datastore/postgres/queries/indexing.sql:11`), so that the branch has no active
  snapshot until it ends, or for good if it fails; compare
  `worker/indexing/pipeline.go:62-63`. `PublishedSpec` is about new targets only.
- `ListOrphanedBuildingSnapshots` (`indexing.sql:222`) spares snapshots whose job has `index_snapshot_id`,
  which no query sets: a starting worker deletes the snapshot another one is building, and
  activating it then commits only the deactivation of its predecessor, against
  `worker/indexing/pipeline.go:62`. `ActiveIsWhole` holds, as no snapshot is then active.
- Incremental indexing at an unchanged HEAD (`worker/workflow/incremental/handler.go:513`) cleans the snapshot it is about to
  copy from and activates it without artifacts; compare
  `concept/tickets/backend-worker/11-incremental-index.md:39`. `ActiveSearchable` is
  checked and proved without this event.
- `DeleteSnapshotArtifacts` (`indexing.sql:131`) deletes file rows; dependency rows
  hang off the snapshot and are there twice after a retry, against
  `worker/workflow/fullindex/handler.go:233`. The model keeps dependencies as a set.
- Points of chunks that no longer exist stay in Qdrant, against
  `concept/02-qdrant-vector-db.md:99`. The model says that none is missing, not that
  none is left over.
- A request that reads a snapshot while a re-index takes it over may answer with a part of the
  commit; `OfWholeCommit` leaves that case out, `OfOneCommit` covers it.
- The dependency graph of a path that is not in the snapshot is that one node.

Workspaces:

- After a change of a project's `repo_url` to another repository every job fails on workers that have
  the old cache (`worker/workspace/workspace.go:244`); nothing removes it. The cache of a deleted project stays, too.
- A crash leaves the private key, a temporary clone or a registered worktree on disk;
  `NothingLeft` is about jobs that end by themselves. Failed removals are only logged.
- The project status "paused" is read by no code of the worker.

Commit history:

- After an incremental indexing that failed, the next starts at the new snapshot's commit, and the gap stays until a full
  index (`HistoryUnbroken` assumes success). A merge that puts the old mainline on the second parent leaves
  a gap, too. Diffs of merges come from a full index only.
- A diff inserted again keeps the parent it first had, which may be NULL; readers may see a
  commit before its parents and diffs.
- A full index whose commit indexing failed does not look up the commit to link its snapshot to.
- A path that starts with `COMMIT:` would be taken for a header by the parsers of `git log -z`;
  patches of binary files or above the limit are dropped; the last patch of a log ends in an
  extra newline.

Content:

- A newline that is the first byte after the last cut is not used to cut (`cut > 0`), so that a line of the limit or more is
  cut within it and the line numbers after it drift; `LinesExact` is about files without such lines. A limit below the length of a rune
  would not terminate; `MaxInputAssumption` excludes it.
- The summary of a class of more than 200 lines has the lines of the class (`worker/parser/extractors/chunks.go:180`, `:432`), but
  its text is shorter. When such a summary is over the limit, the splitter numbers its pieces by the lines of
  the summary, counted from the start of the class: they do not say where in the file the methods are. `LinesExact` speaks of
  the lines of the text.
- A provider's `max_tokens` below the splitter's limit truncates texts when they are embedded,
  possibly within a rune.
- Stems are compared without regard to language: a Python `lib` may resolve to `lib.ts`. A dependency copied
  forward may point to a deleted file, or miss a better match, until its importer changes or a full index runs.
- A file that times out while it waits for a parser is indexed without symbols; `ParseFilesBatched` never returns an error.

Accounts, members, keys and settings:

- With three requests at a time the last-admin guard fails: the `FOR UPDATE` count of two of them
  (`api/handler/admin.go:296`, `:563`) may find only rows the third is about to remove, and then it
  locks nothing; compare `documentation/03-core-features/platform-users-administration.md:77`. `AdminRemains` is checked with two; `RemovalsLeaveAdmin`
  says for any number that a removal which has locked another admin leaves one.
- The rows of that count are locked in no particular order: two such requests may deadlock, and are retried.
- A login that races a deactivation leaves a session that works again after re-activation;
  `DeleteUserSessions` runs outside the transaction and may fail. Keys of deactivated users stay usable.
- No deactivation of a user counts project owners (`api/handler/admin.go:294`), against
  `documentation/02-system-architecture/security-baseline-access-controls.md:111`, "A
  project must always have at least one active owner". `OwnerRemains` is about rows.
- A request acts with the role its middleware read: an owner demoted meanwhile still
  acts as one. `OwnersByOwners` speaks of the role a request was let in with.
- A refresh that loaded before a removal and writes after it gives the removed user
  the project's events again until the next refresh (60 s by default), although
  `api/handler/membership.go:255` has them stop. `Converges` says that it ends.
- A retired key can be assigned to a project, against
  `concept/tickets/backend-api/04-project-lifecycle.md:17`. Two first assignments at once end in
  an error 500 or a misleading 409 for one; a project deletion that deadlocks with a reassignment is not retried.
- A switch from a selection to a custom configuration in the middle of a resolution may be answered with the
  default. Replacing the default makes selections of it stale; they resolve to the new default. Concurrent
  replacements end in a unique violation (500) for one; the LLM service does not retry a PATCH after a deadlock.

## 9. What is not modelled

- The extractors' rules: what a symbol, an export, a reference, a JSX usage or a network call is. They are
  functions of a syntax tree, without state, and a model of them would be a second
  implementation. Every source file yields artifacts; imports are modelled.
- The HTTP and JSON of the embedding, vector and provider clients, and connectivity tests: a call succeeds or fails.
- Malformed heartbeats, messages, task payloads and requests, which change nothing, and jobs without a worker id.
- Formats of tokens, key generation, encryption and decryption, logging, configuration, wiring.
- asynq, Redis, PostgreSQL, git and Qdrant themselves; they are modelled from how the code
  uses them and marked external in the map.
- Endpoints that are one read (lists of projects, users, keys), the MCP server and the backoffice: no state that several actors share.
