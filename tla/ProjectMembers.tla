--------------------------- MODULE ProjectMembers ---------------------------
(***************************************************************************)
(* The members of one project, changed by concurrent API requests: the     *)
(* role check of the middleware, the membership service, and the           *)
(* transactions it runs through WithTx.                                    *)
(*                                                                         *)
(* PostgreSQL is modelled at READ COMMITTED (external): each statement     *)
(* sees what is committed when it starts; SELECT ... FOR UPDATE locks the  *)
(* rows it found one after the other, in no known order, waits for other   *)
(* holders, looks again at a row it waited for, and skips a deleted one;   *)
(* locks last to the end of the transaction; of transactions that wait for *)
(* each other one is aborted.  The UPDATE or DELETE is the last statement  *)
(* of its transaction, on a row that is already locked, so that writing    *)
(* and committing are one step.                                            *)
(***************************************************************************)
EXTENDS Naturals, FiniteSets, Relation

CONSTANTS
  Users,
  PlatformAdmins,     \* users with the platform_admin role
  Creator,            \* the user who created the project
  Requests,           \* requests served at a time
  MaxDeadlockRetries, \* WithTx runs a transaction again after a deadlock
  NoTx, NoRequest

ASSUME UsersAssumption ==
  /\ IsFiniteSet(Users)
  /\ PlatformAdmins \subseteq Users
  /\ Creator \in Users
ASSUME RequestsAssumption ==
  /\ NoTx \notin Requests
  /\ MaxDeadlockRetries \in Nat

VARIABLES
  role,     \* the table project_members; "none" for no row
  active,   \* users.is_active
  pc, req,  \* per request: its step, and what it asks for
  attempt,  \* deadlocks its transaction has met
  lock,     \* per member row: the transaction that holds it
  pending,  \* rows the counting statement found and has not locked yet
  counted   \* rows it has locked and counted

txVars == <<pc, req, attempt, pending, counted>>
vars   == <<role, active, txVars, lock>>

Roles == {"owner", "admin", "member"}
Steps == {"idle", "insert", "lock", "count", "lockOwners", "write"}

\* A request as the service gets it, with the role the middleware resolved.
Asked == [op : {"add", "update", "remove"}, actor : Users, actorRole : Roles,
          target : Users, newRole : Roles]

\* Every variable has its shape, retries stay within their bound, and a request
\* is known while it is served.
TypeOK ==
  /\ role \in [Users -> Roles \cup {"none"}]
  /\ active \in SUBSET Users
  /\ pc \in [Requests -> Steps]
  /\ req \in [Requests -> Asked \cup {NoRequest}]
  /\ attempt \in [Requests -> 0..MaxDeadlockRetries]
  /\ lock \in [Users -> Requests \cup {NoTx}]
  /\ pending \in [Requests -> SUBSET Users]
  /\ counted \in [Requests -> SUBSET Users]
  /\ \A t \in Requests : pc[t] # "idle" => req[t] \in Asked

\* The project is created with its creator as owner.
Init ==
  /\ role = [u \in Users |-> IF u = Creator THEN "owner" ELSE "none"]
  /\ active = Users
  /\ pc = [t \in Requests |-> "idle"]
  /\ req = [t \in Requests |-> NoRequest]
  /\ attempt = [t \in Requests |-> 0]
  /\ lock = [u \in Users |-> NoTx]
  /\ pending = [t \in Requests |-> {}]
  /\ counted = [t \in Requests |-> {}]

-----------------------------------------------------------------------------
(* The middleware and the checks before the transaction.                   *)

RoleRank == [owner |-> 3, admin |-> 2, member |-> 1, none |-> 0]
RoleSufficient(r, minRole) == RoleRank[r] >= RoleRank[minRole]

\* RequireProjectRole: a platform admin passes as an owner, and by the member's
\* role, like everybody else, when the lookup of platform roles fails.
ResolvedRoles(a) ==
  ({role[a]} \ {"none"}) \cup (IF a \in PlatformAdmins THEN {"owner"} ELSE {})

\* The request of actor a is let in, with the role it has now.
Serve(t, op, a, ra, u, r, step) ==
  /\ pc[t] = "idle"
  /\ a \in active
  /\ ra \in ResolvedRoles(a)
  /\ pc' = [pc EXCEPT ![t] = step]
  /\ req' = [req EXCEPT ![t] = [op |-> op, actor |-> a, actorRole |-> ra,
                                target |-> u, newRole |-> r]]
  /\ UNCHANGED <<role, active, attempt, pending, counted, lock>>

\* HandleUpdate and the checks of UpdateRole.
RequestUpdate(t, a, ra, u, r) ==
  /\ RoleSufficient(ra, "admin")
  /\ a # u
  /\ ~(ra = "admin" /\ r = "owner")
  /\ Serve(t, "update", a, ra, u, r, "lock")

\* HandleRemove and the checks of Remove: everybody may leave.
RequestRemove(t, a, ra, u) ==
  /\ a = u \/ RoleSufficient(ra, "admin")
  /\ Serve(t, "remove", a, ra, u, "member", "lock")

\* HandleAdd and the checks of Add.
RequestAdd(t, a, ra, u, r) ==
  /\ RoleSufficient(ra, "admin")
  /\ ~(ra = "admin" /\ r = "owner")
  /\ u \in active
  /\ Serve(t, "add", a, ra, u, r, "insert")

Request(t) ==
  \E a \in Users, ra \in Roles, u \in Users :
    \/ \E r \in Roles : RequestUpdate(t, a, ra, u, r) \/ RequestAdd(t, a, ra, u, r)
    \/ RequestRemove(t, a, ra, u)

-----------------------------------------------------------------------------
(* The transactions.                                                       *)

\* The transaction ends, whatever its outcome, and the request is answered.
End(t) ==
  /\ pc' = [pc EXCEPT ![t] = "idle"]
  /\ req' = [req EXCEPT ![t] = NoRequest]
  /\ attempt' = [attempt EXCEPT ![t] = 0]
  /\ counted' = [counted EXCEPT ![t] = {}]

Unlocked(t) == [u \in Users |-> IF lock[u] = t THEN NoTx ELSE lock[u]]

\* Rolled back: nothing is changed but the locks.
Rollback(t) ==
  /\ End(t)
  /\ pending' = [pending EXCEPT ![t] = {}]
  /\ lock' = Unlocked(t)
  /\ UNCHANGED <<role, active>>

\* CreateProjectMember: the unique constraint refuses a second row.
Insert(t) ==
  /\ pc[t] = "insert"
  /\ End(t)
  /\ \/ /\ role[req[t].target] = "none"
        /\ role' = [role EXCEPT ![req[t].target] = req[t].newRole]
     \/ /\ role[req[t].target] # "none"
        /\ UNCHANGED role
  /\ UNCHANGED <<active, pending, lock>>

\* The check on the locked row made by UpdateRole and forgotten in Remove.
ForbiddenInUpdate(t) ==
  /\ req[t].op = "update"
  /\ req[t].actorRole = "admin"
  /\ role[req[t].target] = "owner"

\* An admin may not touch an owner, except an owner who leaves.
Forbidden(t) ==
  /\ req[t].actorRole = "admin"
  /\ role[req[t].target] = "owner"
  /\ ~(req[t].op = "remove" /\ req[t].actor = req[t].target)

NoChange(t) == req[t].op = "update" /\ role[req[t].target] = req[t].newRole

\* The request would make the target an owner no longer.
LosesOwner(t) ==
  /\ role[req[t].target] = "owner"
  /\ req[t].op = "update" => req[t].newRole # "owner"

\* GetProjectMemberForUpdate and the checks on the row it returns.
LockTarget(t) ==
  LET u == req[t].target IN
  /\ pc[t] = "lock"
  /\ lock[u] = NoTx
  /\ \/ /\ role[u] = "none" \/ Forbidden(t) \/ NoChange(t)
        /\ Rollback(t)
     \/ /\ role[u] # "none" /\ ~Forbidden(t) /\ ~NoChange(t)
        /\ lock' = [lock EXCEPT ![u] = t]
        /\ pc' = [pc EXCEPT ![t] = IF LosesOwner(t) THEN "count" ELSE "write"]
        /\ UNCHANGED <<role, active, req, attempt, pending, counted>>

\* CountProjectOwnersForUpdate starts: the rows it finds.
CountOwners(t) ==
  /\ pc[t] = "count"
  /\ pc' = [pc EXCEPT ![t] = "lockOwners"]
  /\ pending' = [pending EXCEPT ![t] = {u \in active : role[u] = "owner"}]
  /\ UNCHANGED <<role, active, req, attempt, counted, lock>>

\* LockOwner of the query without FOR UPDATE.
LockOwnerUnlocked(t, u) ==
  /\ pc[t] = "lockOwners"
  /\ u \in pending[t]
  /\ pending' = [pending EXCEPT ![t] = @ \ {u}]
  /\ counted' = [counted EXCEPT ![t] = IF role[u] = "owner" THEN @ \cup {u} ELSE @]
  /\ UNCHANGED <<role, active, pc, req, attempt, lock>>

\* It locks one of them, and counts it if it still is an owner's.
LockOwner(t, u) ==
  /\ pc[t] = "lockOwners"
  /\ u \in pending[t]
  /\ lock[u] \in {NoTx, t}
  /\ lock' = [lock EXCEPT ![u] = t]
  /\ pending' = [pending EXCEPT ![t] = @ \ {u}]
  /\ counted' = [counted EXCEPT ![t] = IF role[u] = "owner" THEN @ \cup {u} ELSE @]
  /\ UNCHANGED <<role, active, pc, req, attempt>>

\* The last owner is neither demoted nor removed.
CheckCount(t) ==
  /\ pc[t] = "lockOwners"
  /\ pending[t] = {}
  /\ \/ Cardinality(counted[t]) <= 1 /\ Rollback(t)
     \/ /\ Cardinality(counted[t]) > 1
        /\ pc' = [pc EXCEPT ![t] = "write"]
        /\ UNCHANGED <<role, active, req, attempt, pending, counted, lock>>

\* UpdateProjectMemberRole or DeleteProjectMember, and the commit.  Whoever
\* waits for a deleted row will skip it.
Write(t) ==
  LET u == req[t].target IN
  /\ pc[t] = "write"
  /\ End(t)
  /\ lock' = Unlocked(t)
  /\ \/ /\ req[t].op = "update"
        /\ role' = [role EXCEPT ![u] = req[t].newRole]
        /\ UNCHANGED pending
     \/ /\ req[t].op = "remove"
        /\ role' = [role EXCEPT ![u] = "none"]
        /\ pending' = [x \in Requests |-> pending[x] \ {u}]
  /\ UNCHANGED active

Waits(x, y) == pc[x] = "lockOwners" /\ \E u \in pending[x] : lock[u] = y /\ y # x

InCycle(t) ==
  TransitiveClosure([p \in Requests \X Requests |-> Waits(p[1], p[2])], Requests)[t, t]

\* The retry without the deferred Rollback: the locks stay with the session.
DeadlockNoRollback(t) ==
  /\ pc[t] = "lockOwners" /\ InCycle(t)
  /\ \/ /\ attempt[t] < MaxDeadlockRetries
        /\ attempt' = [attempt EXCEPT ![t] = @ + 1]
        /\ pc' = [pc EXCEPT ![t] = "lock"]
        /\ pending' = [pending EXCEPT ![t] = {}]
        /\ counted' = [counted EXCEPT ![t] = {}]
        /\ UNCHANGED <<role, active, req, lock>>
     \/ attempt[t] = MaxDeadlockRetries /\ Rollback(t)

\* PostgreSQL aborts the transaction and WithTx runs it again, so many times.
Deadlock(t) ==
  /\ pc[t] = "lockOwners" /\ InCycle(t)
  /\ \/ /\ attempt[t] < MaxDeadlockRetries
        /\ attempt' = [attempt EXCEPT ![t] = @ + 1]
        /\ pc' = [pc EXCEPT ![t] = "lock"]
        /\ pending' = [pending EXCEPT ![t] = {}]
        /\ counted' = [counted EXCEPT ![t] = {}]
        /\ lock' = Unlocked(t)
        /\ UNCHANGED <<role, active, req>>
     \/ attempt[t] = MaxDeadlockRetries /\ Rollback(t)

\* A statement fails, or the client has gone and the context is cancelled.
Abort(t) == pc[t] # "idle" /\ Rollback(t)

Step(t) == \/ Insert(t) \/ LockTarget(t) \/ CountOwners(t)
           \/ \E u \in Users : LockOwner(t, u)
           \/ CheckCount(t) \/ Write(t) \/ Deadlock(t)

-----------------------------------------------------------------------------
(* Users are activated and deactivated by another platform admin.          *)

Deactivate(u) ==
  /\ u \in active
  /\ (PlatformAdmins \cap active) \ {u} # {}
  /\ active' = active \ {u}
  /\ UNCHANGED <<role, txVars, lock>>

Activate(u) ==
  /\ u \notin active
  /\ PlatformAdmins \cap active # {}
  /\ active' = active \cup {u}
  /\ UNCHANGED <<role, txVars, lock>>

Next ==
  \/ \E t \in Requests : Request(t) \/ Step(t) \/ Abort(t)
  \/ \E u \in Users : Deactivate(u) \/ Activate(u)

Spec == Init /\ [][Next]_vars

\* A request that is served takes its next step.  Strong fairness, because a row
\* lock that others take and release in turn is granted in the order of the
\* waiting transactions.
FairSpec == Spec /\ \A t \in Requests : SF_vars(Step(t))

-----------------------------------------------------------------------------
(* Properties.                                                             *)

\* The ownership invariant: whatever requests demote or remove each other's
\* actors at the same time, the project has an owner.
OwnerRemains == \E u \in Users : role[u] = "owner"

\* What the row lock is for (UpdateRole, Remove): an owner is demoted or removed
\* only by a request let in as an owner's, or leaves; no promotion slips in
\* between the check on the target's role and the write.
OwnersByOwners ==
  [][\A u \in Users : role[u] = "owner" /\ role'[u] # "owner" =>
       \E t \in Requests :
         /\ pc[t] = "write" /\ pc'[t] = "idle" /\ req[t].target = u
         /\ req[t].actorRole = "owner" \/ req[t].actor = u]_vars

\* Every request is answered: a deadlock between two requests that demote each
\* other is broken, its victim gives its locks back, and retries end.
Answered == \A t \in Requests : pc[t] # "idle" ~> pc[t] = "idle"
=============================================================================
