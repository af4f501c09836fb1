------------------------------ MODULE Accounts ------------------------------
(***************************************************************************)
(* Who may do what: users, their sessions, the platform_admin role and its *)
(* last-admin guard, API keys, and the middleware that turns a token into  *)
(* an identity and an identity into access to a project.                   *)
(*                                                                         *)
(* PostgreSQL is modelled at READ COMMITTED (external), as in              *)
(* ProjectMembers.  Two of its details matter here.  SELECT ... FOR UPDATE *)
(* locks rows found when it starts: a row that came later is not locked    *)
(* and one that went away meanwhile is skipped.  A row inserted for a user *)
(* takes a key-share lock on the users row, which waits for FOR UPDATE but *)
(* not for an UPDATE of is_active.                                         *)
(***************************************************************************)
EXTENDS Naturals, Sequences, FiniteSets, Relation

CONSTANTS
  Users,
  Newcomers,          \* users not registered at first
  FirstAdmins,        \* platform admins at first
  SeedAdmins,         \* PLATFORM_ADMIN_USERNAMES of processes that start
  Operations,         \* requests the clients make
  Asked,              \* whom which admin asks to change
  Requests,           \* requests served at a time
  MaxRequests,        \* bound: requests in all
  MaxFaults,          \* bound: expired sessions and keys, failed or cancelled requests
  MaxProjectKeys, MaxPersonalKeys,
  MaxDeadlockRetries, \* WithTx runs a transaction again after a deadlock
  Project, None

ASSUME AccountsAssumption ==
  /\ IsFiniteSet(Users) /\ IsFiniteSet(Requests)
  /\ Newcomers \subseteq Users
  /\ SeedAdmins \cup FirstAdmins \subseteq Users \ Newcomers
  /\ None \notin Requests
  /\ MaxRequests \in Nat /\ MaxFaults \in Nat /\ MaxDeadlockRetries \in Nat
  /\ MaxProjectKeys \in Nat /\ MaxPersonalKeys \in Nat

VARIABLES
  registered, active, \* users, and those with is_active
  admins,             \* user_platform_roles
  sessions,           \* user and token of each unexpired session
  member,             \* project_members of the project
  keys,               \* api_keys by id; rows are never deleted
  pc, arg,            \* per request: its step, and what it asks for
  want,               \* rows its statement has yet to lock
  attempt,            \* deadlocks its transaction has met
  lock,               \* per row: the transaction that holds it
  granted,            \* the role on the project an API key was let in with
  served, faults      \* requests accepted and faults so far

tables == <<registered, active, admins, sessions, member, keys>>
vars   == <<tables, pc, arg, want, attempt, lock, granted, served, faults>>

Roles    == {"none", "member", "admin", "owner"}
KeyRoles == {"none", "read", "write"}
Key == [type : {"project", "personal"}, by : Users, role : {"read", "write"},
        active : BOOLEAN, expired : BOOLEAN]
Rows  == ({"role", "user"} \X Users) \cup {Project}
Steps == {"idle", "admin", "read", "find", "lock", "count", "commit", "sessions", "update",
          "grant", "newSession", "lockOwner", "countKeys", "insertKey", "access"}
Arg == [op : Operations, by : Users, of : Users \cup Nat, role : Roles \cup KeyRoles]

\* Every variable has its shape and retries stay within their bound.
TypeOK ==
  /\ registered \subseteq Users /\ active \subseteq registered /\ admins \subseteq registered
  /\ sessions \subseteq registered \X (0..MaxRequests)
  /\ member \in [Users -> Roles]
  /\ keys \in Seq(Key)
  /\ pc \in [Requests -> Steps]
  /\ arg \in [Requests -> Arg \cup {None}]
  /\ \A t \in Requests : pc[t] # "idle" => arg[t] \in Arg
  /\ want \in [Requests -> SUBSET Rows]
  /\ attempt \in [Requests -> 0..MaxDeadlockRetries]
  /\ lock \in [Rows -> Requests \cup {None}]
  /\ granted \in [Requests -> KeyRoles]
  /\ served \in 0..MaxRequests /\ faults \in 0..MaxFaults

\* A platform whose first users have registered and logged in, and whose first
\* admins own the project.
Init ==
  /\ registered = Users \ Newcomers
  /\ active = registered
  /\ admins = FirstAdmins
  /\ sessions = registered \X {0}
  /\ member = [u \in Users |-> IF u \in FirstAdmins THEN "owner" ELSE "none"]
  /\ keys = <<>>
  /\ pc = [t \in Requests |-> "idle"]
  /\ arg = [t \in Requests |-> None]
  /\ want = [t \in Requests |-> {}]
  /\ attempt = [t \in Requests |-> 0]
  /\ lock = [x \in Rows |-> None]
  /\ granted = [t \in Requests |-> "none"]
  /\ served = 0 /\ faults = 0

-----------------------------------------------------------------------------
(* The queries.                                                            *)

\* CountActivePlatformAdmins, and what its FOR UPDATE variant finds.
ActiveAdmins == admins \cap active

\* GetSessionByTokenHash: a session of an active user, not expired.
Identified(u) == u \in active /\ \E s \in sessions : s[1] = u

\* GetAPIKeyByHash: the creator of the key is not looked at.
LiveKeys == {k \in DOMAIN keys : keys[k].active /\ ~keys[k].expired}

\* CountProjectKeys and CountPersonalKeys.
KeysLike(type, u) ==
  {k \in LiveKeys : keys[k].type = type /\ (type = "personal" => keys[k].by = u)}
KeyLimit(type) == IF type = "project" THEN MaxProjectKeys ELSE MaxPersonalKeys

KeyRoleRank == [none |-> 0, read |-> 1, write |-> 2]
MappedRole  == [none |-> "none", member |-> "read", admin |-> "write", owner |-> "write"]

\* A view without the join on project_members.
OwnRole(k) == IF k \in LiveKeys THEN keys[k].role ELSE "none"

\* CheckAPIKeyProjectAccess on the view api_key_project_access: a personal key
\* gives the lower of its role and its creator's.
EffectiveRole(k) ==
  LET key == keys[k]
      own == MappedRole[member[key.by]]
  IN  CASE k \notin LiveKeys -> "none"
        [] k \in LiveKeys /\ key.type = "project" -> key.role
        [] OTHER -> IF KeyRoleRank[own] < KeyRoleRank[key.role] THEN own ELSE key.role

-----------------------------------------------------------------------------
(* Requests and their transactions.                                        *)

Go(t, step) == pc' = [pc EXCEPT ![t] = step]

\* IdentityResolver and RequireUser have let the request of user u in.
Serve(t, op, u, x, r, step) ==
  /\ pc[t] = "idle"
  /\ op \in Operations
  /\ served < MaxRequests
  /\ served' = served + 1
  /\ Go(t, step)
  /\ arg' = [arg EXCEPT ![t] = [op |-> op, by |-> u, of |-> x, role |-> r]]
  /\ granted' = [granted EXCEPT ![t] = "none"]
  /\ UNCHANGED <<tables, want, attempt, lock, faults>>

\* A request of one statement.
Once(op) ==
  /\ op \in Operations
  /\ served < MaxRequests
  /\ served' = served + 1
  /\ UNCHANGED <<pc, arg, want, attempt, lock, granted, faults>>

Unlocked(t) == [x \in Rows |-> IF lock[x] = t THEN None ELSE lock[x]]

\* The transaction ends, whatever its outcome.
EndTx(t) ==
  /\ want' = [want EXCEPT ![t] = {}]
  /\ attempt' = [attempt EXCEPT ![t] = 0]
  /\ lock' = Unlocked(t)

\* The request is answered.
Answer(t) ==
  /\ EndTx(t)
  /\ Go(t, "idle")
  /\ arg' = [arg EXCEPT ![t] = None]
  /\ UNCHANGED served
End(t) == Answer(t) /\ UNCHANGED faults

\* Refused, not found, or rolled back.
Refuse(t) == End(t) /\ UNCHANGED <<tables, granted>>

Fault == faults < MaxFaults /\ faults' = faults + 1

Continue(t, step) == Go(t, step) /\ UNCHANGED <<tables, arg, attempt, granted, served, faults>>

-----------------------------------------------------------------------------
(* Registration and sessions.                                              *)

HandleRegister(u) ==
  /\ Once("register")
  /\ u \notin registered
  /\ registered' = registered \cup {u}
  /\ active' = active \cup {u}
  /\ UNCHANGED <<admins, sessions, member, keys>>

\* HandleLogin finds an active user ...
HandleLogin(t, u) == u \in active /\ Serve(t, "login", u, served, "none", "newSession")

\* The users row is locked FOR UPDATE, which an insert that refers to it waits for.
KeyShareWaits(t, u) ==
  LET y == lock[<<"user", u>>] IN
  /\ y \notin {None, t}
  /\ pc[y] \in {"count", "commit"} /\ arg[y].of = u => lock[<<"role", u>>] = y

\* ... and CreateSession inserts, even if the user was deactivated in between.
CreateSession(t) ==
  /\ pc[t] = "newSession"
  /\ ~KeyShareWaits(t, arg[t].by)
  /\ sessions' = sessions \cup {<<arg[t].by, arg[t].of>>}
  /\ End(t)
  /\ UNCHANGED <<registered, active, admins, member, keys, granted>>

HandleLogout(s) ==
  /\ Once("logout")
  /\ s[1] \in active
  /\ sessions' = sessions \ {s}
  /\ UNCHANGED <<registered, active, admins, member, keys>>

\* An expired session identifies nobody, as if it were deleted.
ExpireSession(s) ==
  /\ Fault
  /\ sessions' = sessions \ {s}
  /\ UNCHANGED <<registered, active, admins, member, keys, pc, arg, want, attempt, lock,
                 granted, served>>

-----------------------------------------------------------------------------
(* Platform administration.                                                *)

\* The self-checks of HandleDeactivateUser and HandleRevokePlatformRole.
AdminRequest(t, u, x) ==
  /\ <<u, x>> \in Asked
  /\ Identified(u)
  /\ \/ u # x /\ Serve(t, "deactivate", u, x, "none", "admin")
     \/ Serve(t, "activate", u, x, "none", "admin")
     \/ Serve(t, "grant", u, x, "none", "admin")
     \/ u # x /\ Serve(t, "revoke", u, x, "none", "admin")

RequirePlatformAdmin(t) ==
  /\ pc[t] = "admin"
  /\ \/ arg[t].by \notin admins /\ Refuse(t)
     \/ /\ arg[t].by \in admins
        /\ Continue(t, IF arg[t].op = "revoke" THEN "find" ELSE "read")
        /\ UNCHANGED <<want, lock>>

NextOf == [deactivate |-> "find", activate |-> "update", grant |-> "grant"]

\* AdminGetUserByID and the checks on the row it returns.
AdminGetUserByID(t) ==
  LET ok == IF arg[t].op = "activate" THEN arg[t].of \in registered \ active
            ELSE arg[t].of \in active
  IN
  /\ pc[t] = "read"
  /\ \/ ~ok /\ Refuse(t)
     \/ ok /\ Continue(t, NextOf[arg[t].op]) /\ UNCHANGED <<want, lock>>

\* The count that takes no locks.
FindNone(t) ==
  /\ pc[t] = "find"
  /\ Continue(t, "lock")
  /\ UNCHANGED <<want, lock>>

\* CountActivePlatformAdminsForUpdate starts: the rows it finds.
CountActivePlatformAdminsForUpdate(t) ==
  /\ pc[t] = "find"
  /\ want' = [want EXCEPT ![t] = {"role"} \X ActiveAdmins]
  /\ Continue(t, "lock")
  /\ UNCHANGED lock

\* The same without waiting for a row that another transaction holds.
LockAdminAtOnce(t, x) ==
  LET u == x[2] IN
  /\ pc[t] = "lock"
  /\ x \in want[t]
  /\ x[1] = "role" => want[t] \cap ({"user"} \X Users) = {}
  /\ \/ u \notin ActiveAdmins /\ want' = [want EXCEPT ![t] = @ \ {x}] /\ UNCHANGED lock
     \/ /\ u \in ActiveAdmins
        /\ lock' = [lock EXCEPT ![x] = t]
        /\ want' = [want EXCEPT ![t] = (@ \ {x}) \cup
                                       (IF x[1] = "role" THEN {<<"user", u>>} ELSE {})]
  /\ UNCHANGED <<tables, pc, arg, attempt, granted, served, faults>>

\* A found row that has changed meanwhile is skipped, otherwise the role's row
\* and then the user's are locked.
LockAdmin(t, x) ==
  LET u == x[2] IN
  /\ pc[t] = "lock"
  /\ x \in want[t]
  /\ x[1] = "role" => want[t] \cap ({"user"} \X Users) = {}
  /\ lock[x] \in {None, t}
  /\ \/ u \notin ActiveAdmins /\ want' = [want EXCEPT ![t] = @ \ {x}] /\ UNCHANGED lock
     \/ /\ u \in ActiveAdmins
        /\ lock' = [lock EXCEPT ![x] = t]
        /\ want' = [want EXCEPT ![t] = (@ \ {x}) \cup
                                       (IF x[1] = "role" THEN {<<"user", u>>} ELSE {})]
  /\ UNCHANGED <<tables, pc, arg, attempt, granted, served, faults>>

\* DeactivateUser or RevokePlatformRole, seen by nobody else before the commit.
ChangeTarget(t) ==
  LET x == <<IF arg[t].op = "revoke" THEN "role" ELSE "user", arg[t].of>> IN
  /\ pc[t] = "lock" /\ want[t] = {}
  /\ lock[x] \in {None, t}
  /\ \/ arg[t].op = "revoke" /\ arg[t].of \notin admins /\ Refuse(t)
     \/ /\ arg[t].op = "revoke" => arg[t].of \in admins
        /\ lock' = [lock EXCEPT ![x] = t]
        /\ Continue(t, "count")
        /\ UNCHANGED want

\* CountActivePlatformAdmins with the transaction's own change.
CheckRemaining(t) ==
  /\ pc[t] = "count"
  /\ \/ ActiveAdmins \ {arg[t].of} = {} /\ Refuse(t)
     \/ ActiveAdmins \ {arg[t].of} # {} /\ Continue(t, "commit") /\ UNCHANGED <<want, lock>>

CommitRevoke(t) ==
  /\ pc[t] = "commit" /\ arg[t].op = "revoke"
  /\ admins' = admins \ {arg[t].of}
  /\ End(t)
  /\ UNCHANGED <<registered, active, sessions, member, keys, granted>>

CommitDeactivate(t) ==
  /\ pc[t] = "commit" /\ arg[t].op = "deactivate"
  /\ active' = active \ {arg[t].of}
  /\ EndTx(t)
  /\ Go(t, "sessions")
  /\ UNCHANGED <<registered, admins, sessions, member, keys, arg, granted, served, faults>>

\* After the commit; a failure is only logged.
DeleteUserSessions(t) ==
  /\ pc[t] = "sessions"
  /\ \/ sessions' = {s \in sessions : s[1] # arg[t].of} /\ UNCHANGED faults
     \/ Fault /\ UNCHANGED sessions
  /\ Answer(t)
  /\ UNCHANGED <<registered, active, admins, member, keys, granted>>

HandleActivateUser(t) ==
  /\ pc[t] = "update"
  /\ lock[<<"user", arg[t].of>>] = None
  /\ active' = active \cup {arg[t].of}
  /\ End(t)
  /\ UNCHANGED <<registered, admins, sessions, member, keys, granted>>

\* A transaction has deleted u's role and not ended: the unique index waits.
BeingRevoked(u) ==
  \E y \in Requests : pc[y] \in {"count", "commit"} /\ arg[y].op = "revoke" /\ arg[y].of = u

\* GrantPlatformRole: ON CONFLICT DO NOTHING, and only to an active user.
GrantPlatformRole(t) ==
  LET u == arg[t].of IN
  /\ pc[t] = "grant"
  /\ ~BeingRevoked(u)
  /\ \/ u \notin active \ admins /\ UNCHANGED admins
     \/ /\ u \in active \ admins
        /\ ~KeyShareWaits(t, u) /\ ~KeyShareWaits(t, arg[t].by)
        /\ admins' = admins \cup {u}
  /\ End(t)
  /\ UNCHANGED <<registered, active, sessions, member, keys, granted>>

\* UpsertPlatformRoleByUsername when an API process starts.
UpsertPlatformRole(u) ==
  /\ u \in SeedAdmins \cap active /\ u \notin admins
  /\ ~BeingRevoked(u) /\ ~KeyShareWaits(None, u)
  /\ admins' = admins \cup {u}
  /\ UNCHANGED <<registered, active, sessions, member, keys, pc, arg, want, attempt, lock,
                 granted, served, faults>>

-----------------------------------------------------------------------------
(* API keys.                                                               *)

\* RequireProjectRole for a user: the platform admin passes as an owner.
ProjectAdmin(u) == u \in admins \/ member[u] \in {"admin", "owner"}

HandleCreateProjectKey(t, u, r) ==
  Identified(u) /\ ProjectAdmin(u) /\ Serve(t, "projectKey", u, u, r, "lockOwner")
HandleCreatePersonalKey(t, u, r) ==
  Identified(u) /\ Serve(t, "personalKey", u, u, r, "lockOwner")

KeyType(t)  == IF arg[t].op = "projectKey" THEN "project" ELSE "personal"
OwnerRow(t) == IF arg[t].op = "projectKey" THEN Project ELSE <<"user", arg[t].by>>

\* The owner's row read without FOR UPDATE.
LockOwnerRowUnlocked(t) ==
  /\ pc[t] = "lockOwner"
  /\ Continue(t, "countKeys")
  /\ UNCHANGED <<want, lock>>

\* LockProjectRow or LockUserRow.
LockOwnerRow(t) ==
  /\ pc[t] = "lockOwner"
  /\ lock[OwnerRow(t)] = None
  /\ lock' = [lock EXCEPT ![OwnerRow(t)] = t]
  /\ Continue(t, "countKeys")
  /\ UNCHANGED want

CountKeys(t) ==
  LET n == Cardinality(KeysLike(KeyType(t), arg[t].by)) IN
  /\ pc[t] = "countKeys"
  /\ \/ n >= KeyLimit(KeyType(t)) /\ Refuse(t)
     \/ n < KeyLimit(KeyType(t)) /\ Continue(t, "insertKey") /\ UNCHANGED <<want, lock>>

\* CreateAPIKey and the commit.
CreateAPIKey(t) ==
  /\ pc[t] = "insertKey"
  /\ ~KeyShareWaits(t, arg[t].by)
  /\ keys' = Append(keys, [type |-> KeyType(t), by |-> arg[t].by, role |-> arg[t].role,
                           active |-> TRUE, expired |-> FALSE])
  /\ End(t)
  /\ UNCHANGED <<registered, active, admins, sessions, member, granted>>

\* DeleteProjectKey and DeletePersonalKey: SoftDeleteAPIKey checks is_active again.
DeleteKey(k) ==
  /\ Once("deleteKey")
  /\ \E u \in Users :
       /\ Identified(u)
       /\ IF keys[k].type = "project" THEN ProjectAdmin(u) ELSE u = keys[k].by
  /\ keys' = [keys EXCEPT ![k].active = FALSE]
  /\ UNCHANGED <<registered, active, admins, sessions, member>>

ExpireKey(k) ==
  /\ k \in LiveKeys
  /\ Fault
  /\ keys' = [keys EXCEPT ![k].expired = TRUE]
  /\ UNCHANGED <<registered, active, admins, sessions, member, pc, arg, want, attempt, lock,
                 granted, served>>

\* MembershipRoleToKeyRole: owner-level routes are closed to keys.
MembershipRoleToKeyRole == [member |-> "read", admin |-> "write"]

\* IdentityResolver finds the key; the route asks for a role.
IdentifyKey(t, k, minRole) ==
  k \in LiveKeys /\ Serve(t, "useKey", keys[k].by, k, MembershipRoleToKeyRole[minRole], "access")

\* RequireProjectRole looks the key up again, with the membership of now.
CheckAPIKeyProjectAccess(t) ==
  LET r == EffectiveRole(arg[t].of) IN
  /\ pc[t] = "access"
  /\ \/ KeyRoleRank[r] < KeyRoleRank[arg[t].role] /\ Refuse(t)
     \/ /\ KeyRoleRank[r] >= KeyRoleRank[arg[t].role]
        /\ granted' = [granted EXCEPT ![t] = r]
        /\ End(t)
        /\ UNCHANGED tables

\* The membership service changes, adds or removes a member.
MemberChanges(u, r) ==
  /\ Once("member")
  /\ u \in registered /\ member[u] # r
  /\ member' = [member EXCEPT ![u] = r]
  /\ UNCHANGED <<registered, active, admins, sessions, keys>>

-----------------------------------------------------------------------------
(* Deadlocks and failures.                                                 *)

\* The rows an admin's transaction has to lock before its next step.  A key's
\* creator waits for no lock that somebody who waits for it could hold.
Wanted(t) ==
  CASE pc[t] # "lock" -> {}
    [] pc[t] = "lock" /\ want[t] # {} -> want[t]
    [] OTHER -> {<<IF arg[t].op = "revoke" THEN "role" ELSE "user", arg[t].of>>}

Waits(x, y) == x # y /\ \E r \in Wanted(x) : lock[r] = y

Deadlocked ==
  LET waits == TransitiveClosure([p \in Requests \X Requests |-> Waits(p[1], p[2])], Requests)
  IN  {t \in Requests : waits[t, t]}

\* PostgreSQL aborts the transaction and WithTx runs it again, so many times.
Deadlock(t) ==
  /\ pc[t] = "lock" /\ t \in Deadlocked
  /\ \/ attempt[t] = MaxDeadlockRetries /\ Refuse(t)
     \/ /\ attempt[t] < MaxDeadlockRetries
        /\ attempt' = [attempt EXCEPT ![t] = @ + 1]
        /\ Go(t, "find")
        /\ want' = [want EXCEPT ![t] = {}]
        /\ lock' = Unlocked(t)
        /\ UNCHANGED <<tables, arg, granted, served, faults>>

\* A statement fails, or the client has gone and the context is cancelled.
Abort(t) == pc[t] # "idle" /\ Fault /\ Answer(t) /\ UNCHANGED <<tables, granted>>

\* The next statement of a request.
Step(t) ==
  /\ pc[t] # "idle"
  /\ \/ RequirePlatformAdmin(t) \/ AdminGetUserByID(t)
     \/ CountActivePlatformAdminsForUpdate(t)
     \/ \E x \in want[t] : LockAdmin(t, x)
     \/ ChangeTarget(t) \/ CheckRemaining(t) \/ CommitRevoke(t) \/ CommitDeactivate(t)
     \/ DeleteUserSessions(t) \/ HandleActivateUser(t) \/ GrantPlatformRole(t)
     \/ CreateSession(t) \/ LockOwnerRow(t) \/ CountKeys(t) \/ CreateAPIKey(t)
     \/ CheckAPIKeyProjectAccess(t) \/ Deadlock(t)

Request(t) ==
  \/ \E u \in registered :
       \/ HandleLogin(t, u)
       \/ \E x \in registered : AdminRequest(t, u, x)
       \/ \E r \in {"read", "write"} : HandleCreateProjectKey(t, u, r)
                                       \/ HandleCreatePersonalKey(t, u, r)
  \/ \E k \in DOMAIN keys, minRole \in {"member", "admin"} : IdentifyKey(t, k, minRole)

Next ==
  \/ \E t \in Requests : Request(t) \/ Step(t) \/ Abort(t)
  \/ \E u \in Users : HandleRegister(u) \/ UpsertPlatformRole(u)
  \/ \E u \in Users, r \in Roles : MemberChanges(u, r)
  \/ \E s \in sessions : HandleLogout(s) \/ ExpireSession(s)
  \/ \E k \in DOMAIN keys : DeleteKey(k) \/ ExpireKey(k)

Spec == Init /\ [][Next]_vars

-----------------------------------------------------------------------------
(* Properties.                                                             *)

\* The last-admin guard: however two admins revoke and deactivate each other at
\* the same time, an active platform admin remains.  With three requests at a
\* time it fails: the FOR UPDATE count of two of them may find only rows that
\* the third is about to remove, and then they lock nothing.
AdminRemains == ActiveAdmins # {}

\* What FOR UPDATE gives, however many requests run: a removal whose count has
\* locked some admin besides the one it removes leaves an active platform admin,
\* whatever was granted, revoked and deactivated since the rows were locked.  So
\* only a removal that has locked nobody else can take the last admin.
Holds(t, u) == lock[<<"role", u>>] = t /\ lock[<<"user", u>>] = t
LockedAdminStays ==
  \A t \in Requests :
    /\ pc[t] = "commit" /\ pc'[t] # "commit"
    /\ \E u \in Users \ {arg[t].of} : Holds(t, u)
    => ActiveAdmins' # {}
RemovalsLeaveAdmin == [][LockedAdminStays]_vars

\* Simultaneous creations never exceed maxProjectKeys or maxPersonalKeys: what
\* the locks on the projects and users rows are for.
KeysWithinLimit ==
  /\ Cardinality(KeysLike("project", None)) <= MaxProjectKeys
  /\ \A u \in Users : Cardinality(KeysLike("personal", u)) <= MaxPersonalKeys

\* A key that is let in is live, gives no more than its own role, and a personal
\* key no more than its creator's membership, although the key was identified
\* by an earlier statement and may have been deleted or overtaken since.
LetIn(t) ==
  LET k == arg[t].of IN
  /\ keys[k].active /\ ~keys[k].expired
  /\ KeyRoleRank[granted'[t]] <= KeyRoleRank[keys[k].role]
  /\ keys[k].type = "personal" =>
       KeyRoleRank[granted'[t]] <= KeyRoleRank[MappedRole[member[keys[k].by]]]
AccessRight == \A t \in Requests : pc[t] = "access" /\ granted'[t] # "none" => LetIn(t)
KeyAccess == [][AccessRight]_vars

\* The types, and that concurrent creations respect the limits of the keys.
AccountsInv == TypeOK /\ KeysWithinLimit

-----------------------------------------------------------------------------
(* The parts of the inductive invariants behind the proofs.                *)

\* A transaction under the last-admin guard, and one that creates a key.
Guarded  == {"find", "lock", "count", "commit"}
Creating == {"lockOwner", "countKeys", "insertKey"}

\* What a request asks for fits the step it is at.
AskedInv ==
  \A t \in Requests :
    /\ pc[t] = "admin" => arg[t].op \in {"deactivate", "activate", "grant", "revoke"}
    /\ pc[t] = "read" => arg[t].op \in {"deactivate", "activate", "grant"}
    /\ pc[t] \in Guarded => arg[t].op \in {"deactivate", "revoke"}
    /\ pc[t] \in {"admin", "read", "update", "grant", "sessions"} \cup Guarded =>
         arg[t].of \in registered
    /\ pc[t] = "newSession" => arg[t].by \in registered /\ arg[t].of \in 0..MaxRequests
    /\ pc[t] \in Creating => /\ arg[t].op \in {"projectKey", "personalKey"}
                             /\ arg[t].role \in {"read", "write"}
    /\ pc[t] = "access" => arg[t].of \in DOMAIN keys /\ granted[t] = "none"

\* Who counts keys holds the row of their owner, and after the count the limit is
\* not reached until the insert.
CountInv ==
  \A t \in Requests :
    /\ pc[t] \in {"countKeys", "insertKey"} => lock[OwnerRow(t)] = t
    /\ pc[t] = "insertKey" =>
         Cardinality(KeysLike(KeyType(t), arg[t].by)) < KeyLimit(KeyType(t))

AccountsIInv == TypeOK /\ AskedInv /\ CountInv /\ KeysWithinLimit

\* The row a transaction changes.
TargetRow(t) == <<IF arg[t].op = "revoke" THEN "role" ELSE "user", arg[t].of>>

\* Only a guarded transaction and one that creates a key hold rows; past its lock
\* statement a removal holds the row it changes; and whoever else is locked for it
\* is an active admin still.
LockedInv ==
  \A t \in Requests :
    /\ (\E x \in Rows : lock[x] = t) =>
         pc[t] \in {"lock", "count", "commit", "countKeys", "insertKey"}
    /\ pc[t] \in {"count", "commit"} => want[t] = {} /\ lock[TargetRow(t)] = t
    /\ pc[t] \in {"lock", "count", "commit"} =>
         \A u \in Users \ {arg[t].of} : Holds(t, u) => u \in ActiveAdmins
=============================================================================
