---------------------------- MODULE ProjectKeys -----------------------------
(***************************************************************************)
(* Projects, the SSH keys their users keep in the library, and the         *)
(* assignment of one key to one project.  A key is named by its            *)
(* fingerprint, which is unique; an assignment that is no longer active is *)
(* history that nothing reads.                                             *)
(*                                                                         *)
(* PostgreSQL is modelled at READ COMMITTED (external): writes become      *)
(* visible at the commit; a statement that waits for a row goes on without *)
(* it when the transaction it waited for replaced the row; the partial     *)
(* unique index makes an insert wait for an uncommitted rival and fail     *)
(* after a committed one; a foreign key makes an insert wait for the       *)
(* deletion of the row it refers to.                                       *)
(***************************************************************************)
EXTENDS Naturals, FiniteSets, Relation

CONSTANTS
  Users, Keys, Projects, Urls,
  FirstKeys, FirstProjects, \* keys in the library and projects at first
  Requests,                 \* requests served at a time
  MaxRequests,              \* bound: requests in all
  MaxDeadlockRetries,       \* WithTx runs a transaction again after a deadlock
  None

ASSUME ProjectKeysAssumption ==
  /\ IsFiniteSet(Requests) /\ None \notin Requests \cup Keys
  /\ FirstKeys \subseteq Keys /\ FirstProjects \subseteq Projects
  /\ MaxRequests \in Nat /\ MaxDeadlockRetries \in Nat

\* NULL, the absent row, is no value of its own.
ASSUME KeysNoneAssumption ==
  None \notin Urls \cup [by : Users, active : BOOLEAN]

VARIABLES
  keys,       \* ssh_keys: creator and is_active
  projects,   \* projects: repo_url
  assigned,   \* project_ssh_key_assignments: the active row's key
  pc, arg,    \* per request: its step, and what it asks for
  rowLock,    \* per project: who has locked or changed its active assignment
  deleting,   \* per project: who is deleting its row
  attempt,    \* deadlocks its transaction has met
  served      \* requests accepted so far

keyVars == <<keys, projects, assigned, pc, arg, rowLock, deleting, attempt, served>>

Operations == {"create", "reassign", "generate", "remove", "delete"}
Waiting    == {"lockWait", "deactivateWait", "removeWait"}
Steps == {"idle", "verify", "lock", "deactivate", "insert", "commit", "remove", "delete",
          "cascade"} \cup Waiting
Asked == [op : Operations, by : Users, proj : Projects, key : Keys \cup {None},
          url : Urls \cup {None}]

\* Every variable has its shape and retries stay within their bound.
KeysTypeOK ==
  /\ keys \in [Keys -> [by : Users, active : BOOLEAN] \cup {None}]
  /\ projects \in [Projects -> Urls \cup {None}]
  /\ assigned \in [Projects -> Keys \cup {None}]
  /\ pc \in [Requests -> Steps]
  /\ arg \in [Requests -> Asked \cup {None}]
  /\ \A t \in Requests : pc[t] # "idle" => arg[t] \in Asked
  /\ rowLock \in [Projects -> Requests \cup {None}]
  /\ deleting \in [Projects -> Requests \cup {None}]
  /\ attempt \in [Requests -> 0..MaxDeadlockRetries]
  /\ served \in 0..MaxRequests

KeysInit ==
  /\ \E u \in Users, url \in Urls, k \in FirstKeys \cup {None} :
       /\ keys = [x \in Keys |-> IF x \in FirstKeys THEN [by |-> u, active |-> TRUE] ELSE None]
       /\ projects = [p \in Projects |-> IF p \in FirstProjects THEN url ELSE None]
       /\ assigned = [p \in Projects |-> IF p \in FirstProjects THEN k ELSE None]
  /\ pc = [t \in Requests |-> "idle"]
  /\ arg = [t \in Requests |-> None]
  /\ rowLock = [p \in Projects |-> None]
  /\ deleting = [p \in Projects |-> None]
  /\ attempt = [t \in Requests |-> 0]
  /\ served = 0

-----------------------------------------------------------------------------
(* The key library.                                                        *)

Accept == served < MaxRequests /\ served' = served + 1

\* Requests of one statement leave these alone.
Quiet == UNCHANGED <<pc, arg, rowLock, deleting, attempt>>

\* Requests under way with key k: a fingerprint is generated once.
Using(k) == {t \in Requests : pc[t] # "idle" /\ arg[t].key = k}

\* CreateSSHKey, generated or uploaded; a known fingerprint is a conflict.
HandleCreateKey(u, k) ==
  /\ Accept
  /\ keys[k] = None
  /\ Using(k) = {}
  /\ keys' = [keys EXCEPT ![k] = [by |-> u, active |-> TRUE]]
  /\ Quiet
  /\ UNCHANGED <<projects, assigned>>

\* CountActiveAssignmentsByKey, among what is committed.
AssignedTo(k) == {p \in Projects : assigned[p] = k}

\* GetSSHKey: by id and creator; is_active is not looked at.
Owned(u, k) == keys[k] # None /\ keys[k].by = u

\* RetireSSHKeyIfNoAssignments.
HandleRetire(u, k) ==
  /\ Accept
  /\ Owned(u, k) /\ AssignedTo(k) = {}
  /\ keys' = [keys EXCEPT ![k].active = FALSE]
  /\ Quiet
  /\ UNCHANGED <<projects, assigned>>

-----------------------------------------------------------------------------
(* Requests with a transaction.                                            *)

Go(t, step) == pc' = [pc EXCEPT ![t] = step]

Serve(t, op, u, p, k, url, step) ==
  /\ pc[t] = "idle"
  /\ Accept
  /\ Go(t, step)
  /\ arg' = [arg EXCEPT ![t] = [op |-> op, by |-> u, proj |-> p, key |-> k, url |-> url]]
  /\ UNCHANGED <<keys, projects, assigned, rowLock, deleting, attempt>>

\* Project p's active assignment as far as its waiters can tell: the owner of
\* its lock has ended, with the row replaced or with the row as it was.
Passed == [lockWait |-> "deactivate", deactivateWait |-> "insert", removeWait |-> "idle"]
EndTx(t, replaced) ==
  LET p == arg[t].proj IN
  /\ pc' = [x \in Requests |->
             CASE x = t -> "idle"
               [] x # t /\ replaced /\ pc[x] \in Waiting /\ arg[x].proj = p -> Passed[pc[x]]
               [] OTHER -> pc[x]]
  /\ rowLock' = [q \in Projects |-> IF rowLock[q] = t THEN None ELSE rowLock[q]]
  /\ deleting' = [q \in Projects |-> IF deleting[q] = t THEN None ELSE deleting[q]]
  /\ attempt' = [attempt EXCEPT ![t] = 0]
  /\ arg' = [x \in Requests |-> IF pc'[x] = "idle" THEN None ELSE arg[x]]
  /\ UNCHANGED served

\* The error path without the deferred Rollback: the locks stay.
RefuseWithoutRollback(t) ==
  /\ Go(t, "idle")
  /\ UNCHANGED <<keys, projects, assigned, arg, rowLock, deleting, attempt, served>>

\* Refused, failed or rolled back.
Refuse(t) == EndTx(t, FALSE) /\ UNCHANGED <<keys, projects, assigned>>

Continue(t, step) ==
  Go(t, step) /\ UNCHANGED <<keys, projects, assigned, arg, deleting, attempt, served>>

-----------------------------------------------------------------------------
(* Projects.                                                               *)

\* A project of a new name: GetSSHKey, CreateProject, CreateProjectMember and
\* AssignProjectSSHKey in one transaction.
HandleCreate(t, u, p, k, url) ==
  /\ projects[p] = None
  /\ {x \in Requests : pc[x] # "idle" /\ arg[x].proj = p} = {}
  /\ Serve(t, "create", u, p, k, url, "verify")

HandleUpdate(p, url) ==
  /\ Accept
  /\ projects[p] # None /\ deleting[p] = None
  /\ projects' = [projects EXCEPT ![p] = url]
  /\ Quiet
  /\ UNCHANGED <<keys, assigned>>

\* DeleteProject locks the row and then deletes what refers to it.
HandleDelete(t, u, p) ==
  projects[p] # None /\ Serve(t, "delete", u, p, None, None, "delete")

\* An insert that refers to project p holds a key-share lock on its row.
Referring(p) == {t \in Requests : pc[t] = "commit" /\ arg[t].proj = p}

DeleteProject(t) ==
  LET p == arg[t].proj IN
  /\ pc[t] = "delete"
  /\ \/ projects[p] = None /\ Refuse(t)
     \/ /\ projects[p] # None
        /\ deleting[p] = None /\ Referring(p) = {}
        /\ Go(t, "cascade")
        /\ deleting' = [deleting EXCEPT ![p] = t]
        /\ UNCHANGED <<keys, projects, assigned, arg, rowLock, attempt, served>>

DeleteCascade(t) ==
  LET p == arg[t].proj IN
  /\ pc[t] = "cascade"
  /\ rowLock[p] = None
  /\ projects' = [projects EXCEPT ![p] = None]
  /\ assigned' = [assigned EXCEPT ![p] = None]
  /\ EndTx(t, TRUE)
  /\ UNCHANGED keys

-----------------------------------------------------------------------------
(* The assignment of a key.                                                *)

setSSHKeyReassign(t, u, p, k) ==
  projects[p] # None /\ Serve(t, "reassign", u, p, k, None, "verify")

\* The key is generated before the transaction; its fingerprint is new.
setSSHKeyGenerate(t, u, p, k) ==
  /\ projects[p] # None /\ keys[k] = None
  /\ Using(k) = {}
  /\ Serve(t, "generate", u, p, k, None, "lock")

\* The key must exist and be the caller's.
GetSSHKey(t) ==
  /\ pc[t] = "verify"
  /\ \/ ~Owned(arg[t].by, arg[t].key) /\ Refuse(t)
     \/ /\ Owned(arg[t].by, arg[t].key)
        /\ Continue(t, IF arg[t].op = "create" THEN "insert" ELSE "lock")
        /\ UNCHANGED rowLock

\* A statement on p's active assignment: it finds none, takes the row, or
\* waits for the transaction that has it.
OnAssignment(t, wait, next) ==
  LET p == arg[t].proj IN
  \/ assigned[p] = None /\ Continue(t, next) /\ UNCHANGED rowLock
  \/ /\ assigned[p] # None /\ rowLock[p] \in {None, t}
     /\ rowLock' = [rowLock EXCEPT ![p] = t]
     /\ Continue(t, next)
  \/ /\ assigned[p] # None /\ rowLock[p] \notin {None, t}
     /\ pc[t] # wait
     /\ Continue(t, wait) /\ UNCHANGED rowLock

LockActiveProjectSSHKeyAssignment(t) ==
  pc[t] \in {"lock", "lockWait"} /\ OnAssignment(t, "lockWait", "deactivate")

DeactivateProjectSSHKeyAssignments(t) ==
  pc[t] \in {"deactivate", "deactivateWait"} /\ OnAssignment(t, "deactivateWait", "insert")

\* Transactions whose outcome decides whether t may insert: they have inserted
\* or taken back an active assignment of the project.
Rivals(t) ==
  LET p == arg[t].proj IN
  Referring(p) \cup
  {x \in Requests \ {t} : rowLock[p] = x /\ pc[x] \in {"insert", "commit"}}

\* The insert that does not look at the projects row.
AssignUnreferenced(t) ==
  LET p  == arg[t].proj
      ok == assigned[p] = None \/ rowLock[p] = t
  IN
  /\ pc[t] = "insert"
  /\ Rivals(t) = {}
  /\ \/ ~ok /\ Refuse(t)
     \/ ok /\ Continue(t, "commit") /\ UNCHANGED rowLock

\* The insert, and GetProjectSSHKeyWithDetails for the answer.  A project that
\* has an active assignment still, or is gone, makes it fail.
AssignProjectSSHKey(t) ==
  LET p  == arg[t].proj
      ok == /\ assigned[p] = None \/ rowLock[p] = t
            /\ arg[t].op = "create" \/ projects[p] # None
  IN
  /\ pc[t] = "insert"
  /\ deleting[p] = None /\ Rivals(t) = {}
  /\ \/ ~ok /\ Refuse(t)
     \/ ok /\ Continue(t, "commit") /\ UNCHANGED rowLock

Commit(t) ==
  LET a == arg[t] IN
  /\ pc[t] = "commit"
  /\ assigned' = [assigned EXCEPT ![a.proj] = a.key]
  /\ projects' = IF a.op = "create" THEN [projects EXCEPT ![a.proj] = a.url] ELSE projects
  /\ keys' = IF a.op = "generate" THEN [keys EXCEPT ![a.key] = [by |-> a.by, active |-> TRUE]]
             ELSE keys
  /\ EndTx(t, rowLock[a.proj] = t)

HandleRemoveSSHKey(t, u, p) ==
  projects[p] # None /\ Serve(t, "remove", u, p, None, None, "remove")

\* One statement outside a transaction.
RemoveAssignment(t) ==
  LET p == arg[t].proj IN
  /\ pc[t] \in {"remove", "removeWait"}
  /\ \/ /\ rowLock[p] = None
        /\ assigned' = [assigned EXCEPT ![p] = None]
        /\ EndTx(t, TRUE)
        /\ UNCHANGED <<keys, projects>>
     \/ /\ rowLock[p] # None /\ pc[t] = "remove"
        /\ Continue(t, "removeWait") /\ UNCHANGED rowLock

-----------------------------------------------------------------------------
(* Deadlocks and failures.                                                 *)

Waits(x, y) ==
  LET p == arg[x].proj IN
  /\ x # y
  /\ CASE pc[x] \in Waiting \cup {"cascade"} -> rowLock[p] = y
       [] pc[x] = "insert" -> deleting[p] = y \/ y \in Rivals(x)
       [] pc[x] = "delete" -> deleting[p] = y \/ y \in Referring(p)
       [] OTHER -> FALSE

Deadlocked ==
  LET waits == TransitiveClosure([p \in Requests \X Requests |-> Waits(p[1], p[2])], Requests)
  IN  {t \in Requests : waits[t, t]}

TxStart == [create |-> "verify", reassign |-> "verify", generate |-> "lock"]

\* PostgreSQL aborts one of the transactions; WithTx runs it again, so many
\* times, but a deletion and a removal are not run by WithTx.
KeysDeadlock(t) ==
  /\ pc[t] # "idle" /\ t \in Deadlocked
  /\ \/ ~(arg[t].op \in DOMAIN TxStart /\ attempt[t] < MaxDeadlockRetries) /\ Refuse(t)
     \/ /\ arg[t].op \in DOMAIN TxStart /\ attempt[t] < MaxDeadlockRetries
        /\ attempt' = [attempt EXCEPT ![t] = @ + 1]
        /\ Go(t, TxStart[arg[t].op])
        /\ rowLock' = [q \in Projects |-> IF rowLock[q] = t THEN None ELSE rowLock[q]]
        /\ UNCHANGED <<keys, projects, assigned, arg, deleting, served>>

\* A statement fails, or the client has gone and the context is cancelled.
KeysAbort(t) == pc[t] # "idle" /\ Refuse(t)

KeysStep(t) ==
  /\ pc[t] # "idle"
  /\ \/ GetSSHKey(t) \/ LockActiveProjectSSHKeyAssignment(t)
     \/ DeactivateProjectSSHKeyAssignments(t) \/ AssignProjectSSHKey(t) \/ Commit(t)
     \/ RemoveAssignment(t) \/ DeleteProject(t) \/ DeleteCascade(t) \/ KeysDeadlock(t)

KeysRequest ==
  \/ \E u \in Users, k \in Keys : HandleCreateKey(u, k) \/ HandleRetire(u, k)
  \/ \E p \in Projects, url \in Urls : HandleUpdate(p, url)
  \/ \E t \in Requests, u \in Users, p \in Projects :
       \/ HandleDelete(t, u, p) \/ HandleRemoveSSHKey(t, u, p)
       \/ \E k \in Keys : setSSHKeyReassign(t, u, p, k) \/ setSSHKeyGenerate(t, u, p, k)
       \/ \E k \in Keys, url \in Urls : HandleCreate(t, u, p, k, url)

KeysNext == KeysRequest \/ \E t \in Requests : KeysStep(t) \/ KeysAbort(t)

KeysSpec == KeysInit /\ [][KeysNext]_keyVars

\* A request that can take its next statement takes it.
KeysFairSpec == KeysSpec /\ \A t \in Requests : WF_keyVars(KeysStep(t))

-----------------------------------------------------------------------------
(* Properties.                                                             *)

\* What is assigned exists: whatever deletions, removals and assignments cross
\* each other, an assignment has its project and its key.
AssignmentHolds ==
  \A p \in Projects : assigned[p] # None => projects[p] # None /\ keys[assigned[p]] # None

\* Every request on a project and its key is answered: those that wait for
\* each other's rows go on, and a deletion that crosses an assignment ends.
KeysAnswered == \A t \in Requests : pc[t] # "idle" ~> pc[t] = "idle"

\* The types, and that nothing refers to a project or a key that is gone.
AssignmentInv == KeysTypeOK /\ AssignmentHolds

-----------------------------------------------------------------------------
(* The parts of the inductive invariant behind the proofs.                 *)

Assigning == {"lock", "lockWait", "deactivate", "deactivateWait", "insert", "commit"}

\* A request that assigns has a key, and a creation also a URL.
AskedKey ==
  \A t \in Requests : pc[t] # "idle" =>
    /\ arg[t].op \in DOMAIN TxStart => arg[t].key \in Keys
    /\ arg[t].op = "create" => arg[t].url \in Urls
    /\ pc[t] \in {"verify"} \cup Assigning => arg[t].op \in DOMAIN TxStart

\* Past its check the key is there, unless the request itself will insert it.
KeyChecked ==
  \A t \in Requests : pc[t] \in Assigning /\ arg[t].op # "generate" => keys[arg[t].key] # None

\* An assignment that has been inserted keeps its project from being deleted, and
\* the deletion that goes on has locked its project.
ProjectPinned ==
  /\ \A t \in Requests : pc[t] = "commit" =>
       /\ deleting[arg[t].proj] = None
       /\ arg[t].op # "create" => projects[arg[t].proj] # None
  /\ \A t \in Requests : pc[t] = "cascade" => deleting[arg[t].proj] = t

KeysIInv == KeysTypeOK /\ AskedKey /\ KeyChecked /\ ProjectPinned /\ AssignmentHolds
=============================================================================
