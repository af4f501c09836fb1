----------------------------- MODULE RepoCache ------------------------------
(***************************************************************************)
(* The workspace manager of the worker over the projects and keys of       *)
(* ProjectKeys: a job loads its project's URL and key, fetches or clones   *)
(* the repository into the project's cache under the project's file lock,  *)
(* checks out a worktree of its own, and cleans up.                        *)
(*                                                                         *)
(* A job is prepared once, because it is claimed once (IndexJobs).  Jobs   *)
(* of one project meet here when the advisory lock of the database was     *)
(* lost with its session.  The file lock is honoured or not, depending on  *)
(* the volume: the rename that lost a race is handled as well.             *)
(***************************************************************************)
EXTENDS ProjectKeys

CONSTANTS
  Jobs,
  normalizeURL, \* per URL: the repository it means
  SSHUrls,      \* URLs with SSH transport
  MaxPushes,    \* bound: commits pushed to a repository
  MaxFaults     \* bound: commands that fail, cancelled jobs, crashes

ASSUME RepoCacheAssumption ==
  /\ SSHUrls \subseteq Urls /\ DOMAIN normalizeURL = Urls
  /\ MaxPushes \in Nat /\ MaxFaults \in Nat

\* No directory, no context.
ASSUME RepoNoneAssumption ==
  None \notin [url : Urls, commit : 0..(MaxPushes + 1)] \cup [proj : Projects, url : Urls]

VARIABLES
  remote,     \* per repository: the newest commit of the branch
  honoured,   \* whether the volume honours flock
  flock,      \* per project: jobs that hold the lock file
  cache,      \* per project: its repo directory, with URL and origin/branch
  step, ctx,  \* per job: where it is, and the execution context it loaded
  since,      \* per job: the newest commit when it started
  clone,      \* per job: its temporary clone directory
  worktree,   \* per job: its worktree, registered in the cache
  keyFile,    \* jobs whose private key is on disk
  faults

repoVars == <<remote, honoured, flock, cache, step, ctx, since, clone, worktree, keyFile, faults>>
allVars  == <<keyVars, repoVars>>

Repositories == {normalizeURL[url] : url \in Urls}
InProgress == {"key", "scan", "flock", "repo", "clone", "rename", "race", "fetch", "worktree",
               "head", "ready", "cleanup", "clean"}
Checkout == [url : Urls, commit : 0..(MaxPushes + 1)]
Context == [proj : Projects, url : Urls]

\* Every variable has its shape, and flock has one holder where it is honoured.
TypeOK ==
  /\ KeysTypeOK
  /\ remote \in [Repositories -> 1..(MaxPushes + 1)]
  /\ honoured \in BOOLEAN
  /\ flock \in [Projects -> SUBSET Jobs]
  /\ honoured => \A p \in Projects : Cardinality(flock[p]) <= 1
  /\ cache \in [Projects -> Checkout \cup {None}]
  /\ step \in [Jobs -> InProgress \cup {"queued", "done", "dead"}]
  /\ ctx \in [Jobs -> Context \cup {None}]
  /\ \A j \in Jobs : step[j] \in InProgress => ctx[j] \in Context
  /\ since \in [Jobs -> 0..(MaxPushes + 1)]
  /\ clone \in [Jobs -> Checkout \cup {None}]
  /\ worktree \in [Jobs -> Checkout \cup {None}]
  /\ keyFile \subseteq Jobs
  /\ faults \in 0..MaxFaults

Init ==
  /\ KeysInit
  /\ remote = [r \in Repositories |-> 1]
  /\ honoured \in BOOLEAN
  /\ flock = [p \in Projects |-> {}]
  /\ cache = [p \in Projects |-> None]
  /\ step = [j \in Jobs |-> "queued"]
  /\ ctx = [j \in Jobs |-> None]
  /\ since = [j \in Jobs |-> 0]
  /\ clone = [j \in Jobs |-> None]
  /\ worktree = [j \in Jobs |-> None]
  /\ keyFile = {}
  /\ faults = 0

-----------------------------------------------------------------------------
(* Helpers.                                                                *)

Proj(j) == ctx[j].proj
To(j, s) == step' = [step EXCEPT ![j] = s]
Fault == faults < MaxFaults /\ faults' = faults + 1
Unlocked(j) == [p \in Projects |-> flock[p] \ {j}]

\* Steps of a job leave the database and the repositories alone.
Local == UNCHANGED <<keyVars, remote, honoured>>

\* The error path that keeps the lock.
FailLocked(j) ==
  /\ To(j, "cleanup")
  /\ UNCHANGED <<flock, cache, ctx, since, keyFile>>
  /\ Local

\* An error under the lock: the lock is released first, since the cleanup takes
\* it again when it finds a worktree.
Fail(j) ==
  /\ To(j, "cleanup")
  /\ flock' = Unlocked(j)
  /\ UNCHANGED <<cache, ctx, since, keyFile>>
  /\ Local

\* A command fails, or the job's context is cancelled.
CommandFails(j, steps) == step[j] \in steps /\ Fault /\ Fail(j)

-----------------------------------------------------------------------------
(* The job's context and its SSH environment.                              *)

\* GetProjectSSHKeyForExecution: the assigned key must be active.
Usable(p) == projects[p] # None /\ assigned[p] # None /\ keys[assigned[p]].active

LoadExecutionContext(j, p) ==
  /\ step[j] = "queued"
  /\ Usable(p)
  /\ ctx' = [ctx EXCEPT ![j] = [proj |-> p, url |-> projects[p]]]
  /\ since' = [since EXCEPT ![j] = remote[normalizeURL[projects[p]]]]
  /\ To(j, IF projects[p] \in SSHUrls THEN "key" ELSE "flock")
  /\ UNCHANGED <<flock, cache, clone, worktree, keyFile, faults>>
  /\ Local

\* Setup writes the key ...
WriteKey(j) ==
  /\ step[j] = "key"
  /\ keyFile' = keyFile \cup {j}
  /\ To(j, "scan")
  /\ UNCHANGED <<flock, cache, ctx, since, clone, worktree, faults>>
  /\ Local

\* ... and asks the host for its keys; on an error the key is removed.
Keyscan(j) ==
  /\ step[j] = "scan"
  /\ \/ To(j, "flock") /\ UNCHANGED <<keyFile, faults>>
     \/ To(j, "cleanup") /\ Fault /\ keyFile' = keyFile \ {j}
  /\ UNCHANGED <<flock, cache, ctx, since, clone, worktree>>
  /\ Local

-----------------------------------------------------------------------------
(* The cache of the project's repository.                                  *)

Lockable(p) == honoured => flock[p] = {}

\* lockProject: tries until the lock file is free.
LockProject(j) ==
  /\ step[j] = "flock"
  /\ Lockable(Proj(j))
  /\ flock' = [flock EXCEPT ![Proj(j)] = @ \cup {j}]
  /\ To(j, "repo")
  /\ UNCHANGED <<cache, ctx, since, clone, worktree, keyFile, faults>>
  /\ Local

LockCancelled(j) == CommandFails(j, {"flock"}) /\ UNCHANGED <<clone, worktree>>

\* A cache used whatever it was cloned from.
ReuseUnverified(j, s) ==
  /\ step[j] = s /\ cache[Proj(j)] # None
  /\ To(j, "fetch")
  /\ UNCHANGED <<flock, cache, ctx, since, clone, worktree, keyFile, faults>>
  /\ Local

\* The cache is used if its remote URL means the same repository.
Reuse(j, s) ==
  /\ step[j] = s /\ cache[Proj(j)] # None
  /\ \/ /\ normalizeURL[cache[Proj(j)].url] = normalizeURL[ctx[j].url]
        /\ To(j, "fetch")
        /\ UNCHANGED <<flock, cache, ctx, since, clone, worktree, keyFile, faults>>
        /\ Local
     \/ /\ normalizeURL[cache[Proj(j)].url] # normalizeURL[ctx[j].url]
        /\ Fail(j)
        /\ UNCHANGED <<clone, worktree, faults>>

Fetch(j) ==
  LET p == Proj(j) IN
  /\ step[j] = "fetch"
  /\ cache' = [cache EXCEPT ![p].commit = remote[normalizeURL[cache[p].url]]]
  /\ To(j, "worktree")
  /\ UNCHANGED <<flock, ctx, since, clone, worktree, keyFile, faults>>
  /\ Local

\* Clone works in a directory of the job's own ...
StartClone(j) ==
  /\ step[j] = "repo" /\ cache[Proj(j)] = None
  /\ clone' = [clone EXCEPT ![j] = [url |-> ctx[j].url, commit |-> 0]]
  /\ To(j, "clone")
  /\ UNCHANGED <<flock, cache, ctx, since, worktree, keyFile, faults>>
  /\ Local

Clone(j) ==
  /\ step[j] = "clone"
  /\ clone' = [clone EXCEPT ![j] = [url    |-> ctx[j].url,
                                    commit |-> remote[normalizeURL[ctx[j].url]]]]
  /\ To(j, "rename")
  /\ UNCHANGED <<flock, cache, ctx, since, worktree, keyFile, faults>>
  /\ Local

\* ... which is removed on an error ...
CloneFails(j) ==
  /\ CommandFails(j, {"clone", "rename"})
  /\ clone' = [clone EXCEPT ![j] = None]
  /\ UNCHANGED worktree

\* ... and renamed at the end, unless another clone was there first.
Rename(j) ==
  LET p == Proj(j) IN
  /\ step[j] = "rename"
  /\ clone' = [clone EXCEPT ![j] = None]
  /\ \/ /\ cache[p] = None
        /\ cache' = [cache EXCEPT ![p] = clone[j]]
        /\ To(j, "worktree")
     \/ /\ cache[p] # None
        /\ UNCHANGED cache
        /\ To(j, "race")
  /\ UNCHANGED <<flock, ctx, since, worktree, keyFile, faults>>
  /\ Local

RepoFails(j) == CommandFails(j, {"repo", "race", "fetch"}) /\ UNCHANGED <<clone, worktree>>

-----------------------------------------------------------------------------
(* The worktree.                                                           *)

\* WorktreeAdd at origin/branch; the lock is released.
WorktreeAdd(j) ==
  /\ step[j] = "worktree"
  /\ worktree' = [worktree EXCEPT ![j] = cache[Proj(j)]]
  /\ flock' = Unlocked(j)
  /\ To(j, "head")
  /\ UNCHANGED <<cache, ctx, since, clone, keyFile, faults>>
  /\ Local

\* git fails or is killed, with the worktree's directory made or not: the lock
\* is released before the cleanup, which takes it again if the directory is there.
WorktreeAddFails(j) ==
  /\ CommandFails(j, {"worktree"})
  /\ \/ UNCHANGED worktree
     \/ worktree' = [worktree EXCEPT ![j] = cache[Proj(j)]]
  /\ UNCHANGED clone

\* HeadSHA, ListTrackedFiles and filterSourceFiles read the worktree.
Prepare(j) ==
  /\ step[j] = "head"
  /\ \/ To(j, "ready") /\ UNCHANGED faults
     \/ To(j, "cleanup") /\ Fault
  /\ UNCHANGED <<flock, cache, ctx, since, clone, worktree, keyFile>>
  /\ Local

\* The workflow is done with the worktree, with success or not.
Finish(j) ==
  /\ step[j] = "ready"
  /\ To(j, "cleanup")
  /\ UNCHANGED <<flock, cache, ctx, since, clone, worktree, keyFile, faults>>
  /\ Local

\* Without a worktree, cleanup removes the job's directory at once.
CleanupEarly(j) ==
  /\ step[j] = "cleanup" /\ worktree[j] = None
  /\ keyFile' = keyFile \ {j}
  /\ To(j, "done")
  /\ UNCHANGED <<flock, cache, ctx, since, clone, worktree, faults>>
  /\ Local

CleanupLock(j) ==
  /\ step[j] = "cleanup" /\ worktree[j] # None
  /\ Lockable(Proj(j))
  /\ flock' = [flock EXCEPT ![Proj(j)] = @ \cup {j}]
  /\ To(j, "clean")
  /\ UNCHANGED <<cache, ctx, since, clone, worktree, keyFile, faults>>
  /\ Local

\* WorktreeRemove, and the job's directory; when git fails only the temporary
\* directory goes, so that the registered worktree still has its directory.
WorktreeRemove(j) ==
  /\ step[j] = "clean"
  /\ \/ worktree' = [worktree EXCEPT ![j] = None] /\ UNCHANGED faults
     \/ Fault /\ UNCHANGED worktree
  /\ flock' = Unlocked(j)
  /\ keyFile' = keyFile \ {j}
  /\ To(j, "done")
  /\ UNCHANGED <<cache, ctx, since, clone>>
  /\ Local

\* The timeout that returns before the temporary directory is removed.
CleanupTimeoutEarly(j) ==
  /\ step[j] = "cleanup" /\ worktree[j] # None
  /\ honoured /\ flock[Proj(j)] # {}
  /\ To(j, "done")
  /\ UNCHANGED <<flock, cache, ctx, since, clone, worktree, keyFile, faults>>
  /\ Local

\* The lock was not to be had in 30 seconds: as if git had failed.
CleanupTimeout(j) ==
  /\ step[j] = "cleanup" /\ worktree[j] # None
  /\ honoured /\ flock[Proj(j)] # {}
  /\ keyFile' = keyFile \ {j}
  /\ To(j, "done")
  /\ UNCHANGED <<flock, cache, ctx, since, clone, worktree, faults>>
  /\ Local

-----------------------------------------------------------------------------
(* The environment.                                                        *)

\* Somebody pushes to the branch.
Push(r) ==
  /\ remote[r] <= MaxPushes
  /\ remote' = [remote EXCEPT ![r] = @ + 1]
  /\ UNCHANGED <<keyVars, honoured, flock, cache, step, ctx, since, clone, worktree, keyFile,
                 faults>>

\* The worker dies: its lock is gone, its files stay.
Crash(j) ==
  /\ step[j] \in InProgress
  /\ Fault
  /\ To(j, "dead")
  /\ flock' = Unlocked(j)
  /\ UNCHANGED <<cache, ctx, since, clone, worktree, keyFile>>
  /\ Local

JobStep(j) ==
  \/ WriteKey(j) \/ Keyscan(j) \/ LockProject(j)
  \/ Reuse(j, "repo") \/ Reuse(j, "race") \/ Fetch(j)
  \/ StartClone(j) \/ Clone(j) \/ Rename(j) \/ WorktreeAdd(j) \/ Prepare(j) \/ Finish(j)
  \/ CleanupEarly(j) \/ CleanupLock(j) \/ WorktreeRemove(j)

JobFails(j) ==
  \/ LockCancelled(j) \/ CloneFails(j) \/ RepoFails(j) \/ WorktreeAddFails(j)
  \/ CleanupTimeout(j) \/ Crash(j)

Next ==
  \/ KeysNext /\ UNCHANGED repoVars
  \/ \E j \in Jobs, p \in Projects : LoadExecutionContext(j, p)
  \/ \E j \in Jobs : JobStep(j) \/ JobFails(j)
  \/ \E r \in Repositories : Push(r)

Spec == Init /\ [][Next]_allVars

\* Requests and jobs take their next step.  A job that waits for the lock file
\* polls it and gets it if it is free again and again; no timeout is assumed.
FairSpec ==
  /\ Spec
  /\ \A t \in Requests : WF_allVars(KeysStep(t) /\ UNCHANGED repoVars)
  /\ \A j \in Jobs : SF_allVars(JobStep(j))

-----------------------------------------------------------------------------
(* Properties.                                                             *)

\* The cached repository is whole: a clone that failed, was killed or lost the
\* race for the rename never leaves a half-written repository behind.
CacheWhole == \A p \in Projects : cache[p] # None => cache[p].commit > 0

\* A prepared job reads the repository its project named when it was loaded,
\* although the cache may be of an earlier URL or of a rival's clone.
RightRepository ==
  \A j \in Jobs : step[j] = "ready" =>
    normalizeURL[worktree[j].url] = normalizeURL[ctx[j].url]

\* A prepared job reads a commit no older than the branch was when it started,
\* whoever cloned or fetched the cache and when.
CommitFresh == \A j \in Jobs : step[j] = "ready" => worktree[j].commit >= since[j]

\* A job that ended by itself has left neither its private key nor a temporary
\* clone on the disk, whichever of its commands failed.
NothingLeft ==
  \A j \in Jobs : step[j] = "done" => j \notin keyFile /\ clone[j] = None

\* Every job that starts ends, and no lock file stays held: nobody waits for
\* a lock whose holder waits for it, cleanup included.
JobEnds == \A j \in Jobs : step[j] \in InProgress ~> step[j] \in {"done", "dead"}

\* The types, a whole cache, and for every prepared job the right repository at a
\* commit that is fresh: what Prepare promises whoever else uses the cache.
WorkspaceInv == TypeOK /\ CacheWhole /\ RightRepository /\ CommitFresh

-----------------------------------------------------------------------------
(* The parts of the inductive invariant behind the proofs.                 *)

\* A checkout has something, and nothing newer than its repository.
Whole(c) == c.commit > 0 /\ c.commit <= remote[normalizeURL[c.url]]
CachesWhole == \A p \in Projects : cache[p] # None => Whole(cache[p])

\* What job j may use: its repository, at least as new as when it started.
Serves(j, c) == normalizeURL[c.url] = normalizeURL[ctx[j].url] /\ c.commit >= since[j]

\* No job has seen a commit that its repository does not have.
SinceKnown ==
  \A j \in Jobs : step[j] \in InProgress => since[j] <= remote[normalizeURL[ctx[j].url]]

\* A finished clone is whole and serves its job; only while cloning, or after a
\* crash, is there one.
CloneInv ==
  \A j \in Jobs :
    /\ step[j] = "rename" => clone[j] # None /\ Whole(clone[j]) /\ Serves(j, clone[j])
    /\ step[j] \notin {"clone", "rename", "dead"} => clone[j] = None

\* From the choice of the cache to the worktree, the cache serves the job, up to
\* its fetch, and so does the worktree that is made of it.
CacheInv ==
  \A j \in Jobs :
    /\ step[j] \in {"fetch", "worktree"} =>
         /\ cache[Proj(j)] # None
         /\ normalizeURL[cache[Proj(j)].url] = normalizeURL[ctx[j].url]
    /\ step[j] = "worktree" => cache[Proj(j)].commit >= since[j]
    /\ step[j] \in {"head", "ready"} => worktree[j] # None /\ Serves(j, worktree[j])

\* Where it is honoured, a file lock has one holder.
OneHolder == honoured => \A p \in Projects : \A i, j \in flock[p] : i = j

RepoIInv ==
  TypeOK /\ OneHolder /\ CachesWhole /\ SinceKnown /\ CloneInv /\ CacheInv /\ NothingLeft
=============================================================================
