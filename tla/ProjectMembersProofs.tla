------------------------ MODULE ProjectMembersProofs ------------------------
(***************************************************************************)
(* Proofs about ProjectMembers, for any users, any number of requests and  *)
(* any bound on the retries.                                               *)
(***************************************************************************)
EXTENDS ProjectMembers, TLAPS, FiniteSetTheorems

-----------------------------------------------------------------------------
(* Types.                                                                  *)

\* Init establishes the type invariant.
LEMMA TypeInit == Init => TypeOK
BY UsersAssumption, RequestsAssumption DEF Init, TypeOK, Roles, Steps

\* Ending a transaction keeps the types of what it resets.
LEMMA EndType ==
  ASSUME TypeOK, NEW t \in Requests, End(t)
  PROVE  /\ pc' \in [Requests -> Steps]
         /\ req' \in [Requests -> Asked \cup {NoRequest}]
         /\ attempt' \in [Requests -> 0..MaxDeadlockRetries]
         /\ counted' \in [Requests -> SUBSET Users]
         /\ pc'[t] = "idle"
         /\ \A x \in Requests \ {t} : pc'[x] = pc[x] /\ req'[x] = req[x]
BY RequestsAssumption DEF TypeOK, End, Steps

\* A rollback keeps the types.
LEMMA RollbackType == ASSUME TypeOK, NEW t \in Requests, Rollback(t) PROVE TypeOK'
<1>1. lock' \in [Users -> Requests \cup {NoTx}]
  BY DEF Rollback, Unlocked, TypeOK
<1>2. pending' \in [Requests -> SUBSET Users]
  BY DEF Rollback, TypeOK
<1> QED BY <1>1, <1>2, EndType DEF Rollback, TypeOK

\* Every step keeps the type invariant.
LEMMA TypeStep == TypeOK /\ [Next]_vars => TypeOK'
<1> SUFFICES ASSUME TypeOK, [Next]_vars PROVE TypeOK'
  OBVIOUS
<1>1. ASSUME NEW t \in Requests, NEW a \in Users, NEW ra \in Roles, NEW u \in Users, NEW r \in Roles,
             NEW op \in {"add", "update", "remove"}, NEW step \in Steps \ {"idle"},
             Serve(t, op, a, ra, u, r, step)
      PROVE  TypeOK'
  <2>1. req'[t] \in Asked
    BY <1>1 DEF Serve, Asked, TypeOK
  <2>2. pc' \in [Requests -> Steps] /\ req' \in [Requests -> Asked \cup {NoRequest}]
    BY <1>1, <2>1 DEF Serve, TypeOK
  <2>3. \A x \in Requests : pc'[x] # "idle" => req'[x] \in Asked
    BY <1>1, <2>1 DEF Serve, TypeOK
  <2> QED BY <1>1, <2>2, <2>3 DEF Serve, TypeOK
<1>2. ASSUME NEW t \in Requests, Request(t) PROVE TypeOK'
  <2>1. PICK a \in Users, ra \in Roles, u \in Users :
          \/ \E r \in Roles : RequestUpdate(t, a, ra, u, r) \/ RequestAdd(t, a, ra, u, r)
          \/ RequestRemove(t, a, ra, u)
    BY <1>2 DEF Request
  <2>2. CASE RequestRemove(t, a, ra, u)
    BY <2>2, <1>1 DEF RequestRemove, Roles, Steps
  <2>3. ASSUME NEW r \in Roles, RequestUpdate(t, a, ra, u, r) PROVE TypeOK'
    BY <2>3, <1>1 DEF RequestUpdate, Steps
  <2>4. ASSUME NEW r \in Roles, RequestAdd(t, a, ra, u, r) PROVE TypeOK'
    BY <2>4, <1>1 DEF RequestAdd, Steps
  <2> QED BY <2>1, <2>2, <2>3, <2>4
<1>3. ASSUME NEW t \in Requests, Step(t) PROVE TypeOK'
  <2>1. CASE Insert(t)
    <3>1. req[t].target \in Users /\ req[t].newRole \in Roles
      BY <2>1 DEF Insert, TypeOK, Asked
    <3>2. role' \in [Users -> Roles \cup {"none"}]
      BY <2>1, <3>1 DEF Insert, TypeOK
    <3> QED BY <2>1, <3>2, EndType DEF Insert, TypeOK
  <2>2. CASE LockTarget(t)
    <3>1. CASE Rollback(t) BY <3>1, RollbackType
    <3>2. CASE ~Rollback(t)
      <4>1. pc' \in [Requests -> Steps] /\ lock' \in [Users -> Requests \cup {NoTx}]
        BY <2>2, <3>2 DEF LockTarget, TypeOK, Steps
      <4>2. \A x \in Requests : pc'[x] # "idle" => pc[x] # "idle" /\ req'[x] = req[x]
        BY <2>2, <3>2 DEF LockTarget, TypeOK
      <4> QED BY <2>2, <3>2, <4>1, <4>2 DEF LockTarget, TypeOK
    <3> QED BY <3>1, <3>2
  <2>3. CASE CountOwners(t)
    BY <2>3 DEF CountOwners, TypeOK, Steps
  <2>4. ASSUME NEW u \in Users, LockOwner(t, u) PROVE TypeOK'
    BY <2>4 DEF LockOwner, TypeOK
  <2>5. CASE CheckCount(t)
    <3>1. CASE Rollback(t) BY <3>1, RollbackType
    <3>2. CASE ~Rollback(t)
      BY <2>5, <3>2 DEF CheckCount, TypeOK, Steps
    <3> QED BY <3>1, <3>2
  <2>6. CASE Write(t)
    <3>1. req[t].target \in Users /\ req[t].newRole \in Roles
      BY <2>6 DEF Write, TypeOK, Asked
    <3>2. role' \in [Users -> Roles \cup {"none"}] /\ pending' \in [Requests -> SUBSET Users]
      BY <2>6, <3>1 DEF Write, TypeOK
    <3>3. lock' \in [Users -> Requests \cup {NoTx}]
      BY <2>6 DEF Write, Unlocked, TypeOK
    <3> QED BY <2>6, <3>2, <3>3, EndType DEF Write, TypeOK
  <2>7. CASE Deadlock(t)
    <3>1. CASE Rollback(t) BY <3>1, RollbackType
    <3>2. CASE ~Rollback(t)
      <4>1. attempt' \in [Requests -> 0..MaxDeadlockRetries]
        BY <2>7, <3>2, RequestsAssumption DEF Deadlock, TypeOK
      <4>2. /\ pc' \in [Requests -> Steps]
            /\ pending' \in [Requests -> SUBSET Users]
            /\ counted' \in [Requests -> SUBSET Users]
            /\ lock' \in [Users -> Requests \cup {NoTx}]
        BY <2>7, <3>2 DEF Deadlock, Unlocked, TypeOK, Steps
      <4>3. pc[t] # "idle"
        BY <2>7 DEF Deadlock
      <4> QED BY <2>7, <3>2, <4>1, <4>2, <4>3 DEF Deadlock, TypeOK
    <3> QED BY <3>1, <3>2
  <2> QED BY <1>3, <2>1, <2>2, <2>3, <2>4, <2>5, <2>6, <2>7 DEF Step
<1>4. ASSUME NEW t \in Requests, Abort(t) PROVE TypeOK'
  BY <1>4, RollbackType DEF Abort
<1>5. ASSUME NEW u \in Users, Deactivate(u) \/ Activate(u) PROVE TypeOK'
  BY <1>5 DEF Deactivate, Activate, TypeOK, txVars
<1>6. CASE UNCHANGED vars
  BY <1>6 DEF TypeOK, vars, txVars
<1> QED BY <1>2, <1>3, <1>4, <1>5, <1>6 DEF Next

\* TypeOK holds for any number of users and requests.
THEOREM TypeCorrect == Spec => []TypeOK
<1>1. Init => TypeOK                     BY TypeInit
<1>2. TypeOK /\ [Next]_vars => TypeOK'   BY TypeStep
<1> QED BY <1>1, <1>2, PTL DEF Spec

-----------------------------------------------------------------------------
(* What the row locks protect.                                             *)

\* A row that is locked, or waits to be locked by a count, exists.
RowsExist ==
  /\ \A u \in Users : lock[u] # NoTx => role[u] # "none"
  /\ \A t \in Requests : \A u \in pending[t] : role[u] # "none"

\* A transaction that has passed the checks on its target holds the row, and
\* the checks still hold; it counts only where an owner is lost.
TargetHeld ==
  \A t \in Requests : pc[t] \in {"count", "lockOwners", "write"} =>
    /\ lock[req[t].target] = t
    /\ ~Forbidden(t)
    /\ pc[t] # "write" => role[req[t].target] = "owner"

\* The owners it has counted are locked by it, and owners still.
CountedHeld ==
  \A t \in Requests : \A u \in counted[t] : lock[u] = t /\ role[u] = "owner"

\* Where it takes an owner away it holds another one.
OtherHeld ==
  \A t \in Requests : pc[t] = "write" /\ LosesOwner(t) =>
    \E v \in Users : v # req[t].target /\ lock[v] = t /\ role[v] = "owner"

\* Members touch nobody but themselves.
MembersLeave ==
  \A t \in Requests : pc[t] # "idle" /\ req[t].actorRole = "member" =>
    req[t].actor = req[t].target

\* The inductive invariant.
MembersInv == /\ TypeOK /\ RowsExist /\ TargetHeld /\ CountedHeld /\ OtherHeld
              /\ MembersLeave /\ OwnerRemains

\* A count above one finds somebody else.
LEMMA AnotherOne ==
  ASSUME NEW S, IsFiniteSet(S), Cardinality(S) > 1, NEW x
  PROVE  \E v \in S : v # x
<1> SUFFICES ASSUME S \subseteq {x} PROVE FALSE
  OBVIOUS
<1>1. IsFiniteSet({x}) /\ Cardinality({x}) = 1
  BY FS_Singleton
<1>2. Cardinality(S) <= 1
  BY <1>1, FS_Subset
<1>3. Cardinality(S) \in Nat
  BY FS_CardinalityType
<1> QED BY <1>2, <1>3

\* Admin rights are an admin's or an owner's.
LEMMA AdminRank ==
  ASSUME NEW r \in Roles, RoleSufficient(r, "admin") PROVE r # "member"
BY DEF Roles, RoleSufficient, RoleRank

\* A rollback keeps the invariant: it changes no row, and no lock but its own.
LEMMA RollbackInv == ASSUME MembersInv, NEW t \in Requests, Rollback(t) PROVE MembersInv'
<1> USE RequestsAssumption
<1>1. TypeOK'
  BY RollbackType DEF MembersInv
<1>2. /\ role' = role
      /\ pc'[t] = "idle" /\ counted'[t] = {} /\ pending'[t] = {}
      /\ \A x \in Requests \ {t} : /\ pc'[x] = pc[x] /\ req'[x] = req[x]
                                   /\ counted'[x] = counted[x] /\ pending'[x] = pending[x]
      /\ \A u \in Users : lock[u] # t => lock'[u] = lock[u]
      /\ \A u \in Users : lock[u] = t => lock'[u] = NoTx
  BY DEF Rollback, End, Unlocked, MembersInv, TypeOK
<1>3. RowsExist'
  BY <1>2 DEF MembersInv, RowsExist
<1>4. \A x \in Requests \ {t} : pc[x] # "idle" => req[x].target \in Users
  BY DEF MembersInv, TypeOK, Asked
<1>5. TargetHeld'
  BY <1>2, <1>4 DEF MembersInv, TargetHeld, Forbidden
<1>6. CountedHeld'
  BY <1>2 DEF MembersInv, CountedHeld, TypeOK
<1>7. OtherHeld'
  <2> SUFFICES ASSUME NEW x \in Requests, pc'[x] = "write", LosesOwner(x)'
               PROVE  \E v \in Users : v # req'[x].target /\ lock'[v] = x /\ role'[v] = "owner"
    BY DEF OtherHeld
  <2>1. x # t /\ pc[x] = "write" /\ LosesOwner(x)
    BY <1>2 DEF LosesOwner
  <2> QED BY <1>2, <2>1 DEF MembersInv, OtherHeld
<1>8. MembersLeave'
  BY <1>2 DEF MembersInv, MembersLeave
<1>9. OwnerRemains'
  BY <1>2 DEF MembersInv, OwnerRemains
<1> QED BY <1>1, <1>3, <1>5, <1>6, <1>7, <1>8, <1>9 DEF MembersInv

\* A request that is let in keeps the invariant.
LEMMA ServeInv ==
  ASSUME MembersInv, TypeOK',
         NEW t \in Requests, NEW a \in Users, NEW ra \in Roles, NEW u \in Users, NEW r \in Roles,
         NEW op \in {"add", "update", "remove"}, NEW step \in {"lock", "insert"},
         a = u \/ RoleSufficient(ra, "admin"),
         Serve(t, op, a, ra, u, r, step)
  PROVE  MembersInv'
<1>1. /\ UNCHANGED <<role, counted, pending, lock>>
      /\ pc[t] = "idle" /\ pc'[t] \in {"lock", "insert"}
      /\ req'[t].actor = a /\ req'[t].target = u /\ req'[t].actorRole = ra
      /\ \A x \in Requests \ {t} : pc'[x] = pc[x] /\ req'[x] = req[x]
  BY DEF Serve, MembersInv, TypeOK
<1>2. RowsExist' /\ CountedHeld' /\ OwnerRemains'
  BY <1>1 DEF MembersInv, RowsExist, CountedHeld, OwnerRemains
<1>3. TargetHeld'
  BY <1>1 DEF MembersInv, TargetHeld, Forbidden
<1>4. OtherHeld'
  <2> SUFFICES ASSUME NEW x \in Requests, pc'[x] = "write", LosesOwner(x)'
               PROVE  \E v \in Users : v # req'[x].target /\ lock'[v] = x /\ role'[v] = "owner"
    BY DEF OtherHeld
  <2>1. x # t /\ pc[x] = "write" /\ LosesOwner(x)
    BY <1>1 DEF LosesOwner
  <2> QED BY <1>1, <2>1 DEF MembersInv, OtherHeld
<1>5. MembersLeave'
  <2>1. ra = "member" => a = u
    BY AdminRank
  <2> QED BY <1>1, <2>1 DEF MembersInv, MembersLeave
<1> QED BY <1>2, <1>3, <1>4, <1>5 DEF MembersInv

\* A new member's row keeps it: a row that is inserted was no one's to lock.
LEMMA InsertInv == ASSUME MembersInv, TypeOK', NEW t \in Requests, Insert(t) PROVE MembersInv'
<1> USE RequestsAssumption
<1>1. req[t].target \in Users /\ req[t].newRole \in Roles
  BY DEF Insert, MembersInv, TypeOK, Asked
<1>2. /\ pending' = pending /\ lock' = lock
      /\ pc'[t] = "idle" /\ counted'[t] = {}
      /\ \A x \in Requests \ {t} : pc'[x] = pc[x] /\ req'[x] = req[x] /\ counted'[x] = counted[x]
      /\ \A u \in Users : role[u] # "none" => role'[u] = role[u]
  BY <1>1 DEF Insert, End, MembersInv, TypeOK
<1>3. RowsExist' /\ OwnerRemains'
  BY <1>2 DEF MembersInv, RowsExist, OwnerRemains, TypeOK
<1>4. CountedHeld'
  BY <1>2 DEF MembersInv, CountedHeld, TypeOK
<1>5. \A x \in Requests \ {t} : pc[x] \in {"count", "lockOwners", "write"} =>
        req[x].target \in Users /\ role'[req[x].target] = role[req[x].target]
  <2> SUFFICES ASSUME NEW x \in Requests \ {t}, pc[x] \in {"count", "lockOwners", "write"}
               PROVE  req[x].target \in Users /\ role'[req[x].target] = role[req[x].target]
    OBVIOUS
  <2>1. req[x].target \in Users
    BY DEF MembersInv, TypeOK, Asked
  <2>2. lock[req[x].target] = x
    BY DEF MembersInv, TargetHeld
  <2> QED BY <1>2, <2>1, <2>2 DEF MembersInv, RowsExist
<1>6. TargetHeld'
  BY <1>2, <1>5 DEF MembersInv, TargetHeld, Forbidden
<1>7. OtherHeld'
  <2> SUFFICES ASSUME NEW x \in Requests, pc'[x] = "write", LosesOwner(x)'
               PROVE  \E v \in Users : v # req'[x].target /\ lock'[v] = x /\ role'[v] = "owner"
    BY DEF OtherHeld
  <2>1. x # t /\ pc[x] = "write" /\ LosesOwner(x)
    BY <1>2, <1>5 DEF LosesOwner
  <2> QED BY <1>2, <2>1 DEF MembersInv, OtherHeld
<1>8. MembersLeave'
  BY <1>2 DEF MembersInv, MembersLeave
<1> QED BY <1>3, <1>4, <1>6, <1>7, <1>8 DEF MembersInv

\* Locking the target keeps it: the checks are made on the row that is locked.
LEMMA LockTargetInv ==
  ASSUME MembersInv, TypeOK', NEW t \in Requests, LockTarget(t) PROVE MembersInv'
<1> USE RequestsAssumption
<1>1. CASE Rollback(t) BY <1>1, RollbackInv
<1>2. CASE ~Rollback(t)
  <2> DEFINE u == req[t].target
  <2>1. u \in Users
    BY DEF LockTarget, MembersInv, TypeOK, Asked
  <2>2. /\ UNCHANGED <<role, req, pending, counted>>
        /\ pc[t] = "lock" /\ role[u] # "none" /\ ~Forbidden(t) /\ lock[u] = NoTx
        /\ pc'[t] = IF LosesOwner(t) THEN "count" ELSE "write"
        /\ lock' = [lock EXCEPT ![u] = t]
        /\ \A x \in Requests \ {t} : pc'[x] = pc[x]
    BY <1>2 DEF LockTarget, MembersInv, TypeOK
  <2>3. lock'[u] = t /\ \A v \in Users : v # u => lock'[v] = lock[v]
    BY <2>1, <2>2 DEF MembersInv, TypeOK
  <2>4. \A v \in Users : lock[v] \in Requests => lock'[v] = lock[v]
    BY <2>2, <2>3
  <2>5. RowsExist' /\ OwnerRemains'
    BY <2>1, <2>2, <2>3 DEF MembersInv, RowsExist, OwnerRemains
  <2>6. CountedHeld'
    BY <2>2, <2>4 DEF MembersInv, CountedHeld, TypeOK
  <2>7. TargetHeld'
    <3> SUFFICES ASSUME NEW x \in Requests, pc'[x] \in {"count", "lockOwners", "write"}
                 PROVE  /\ lock'[req'[x].target] = x
                        /\ ~Forbidden(x)'
                        /\ pc'[x] # "write" => role'[req'[x].target] = "owner"
      BY DEF TargetHeld
    <3>1. CASE x = t
      BY <3>1, <2>2, <2>3 DEF Forbidden, LosesOwner
    <3>2. CASE x # t
      <4>1. req[x].target \in Users
        BY <3>2, <2>2 DEF MembersInv, TypeOK, Asked
      <4> QED BY <3>2, <2>2, <2>4, <4>1 DEF MembersInv, TargetHeld, Forbidden
    <3> QED BY <3>1, <3>2
  <2>8. OtherHeld'
    <3> SUFFICES ASSUME NEW x \in Requests, pc'[x] = "write", LosesOwner(x)'
                 PROVE  \E v \in Users : v # req'[x].target /\ lock'[v] = x /\ role'[v] = "owner"
      BY DEF OtherHeld
    <3>1. x # t /\ pc[x] = "write" /\ LosesOwner(x)
      BY <2>2 DEF LosesOwner
    <3> QED BY <2>2, <2>4, <3>1 DEF MembersInv, OtherHeld
  <2>9. MembersLeave'
    BY <2>2 DEF MembersInv, MembersLeave
  <2> QED BY <2>5, <2>6, <2>7, <2>8, <2>9 DEF MembersInv
<1> QED BY <1>1, <1>2

\* Starting the count keeps it.
LEMMA CountOwnersInv ==
  ASSUME MembersInv, TypeOK', NEW t \in Requests, CountOwners(t) PROVE MembersInv'
<1>1. /\ UNCHANGED <<role, req, counted, lock>>
      /\ pc[t] = "count" /\ pc'[t] = "lockOwners"
      /\ \A u \in pending'[t] : role[u] = "owner"
      /\ \A x \in Requests \ {t} : pc'[x] = pc[x] /\ pending'[x] = pending[x]
  BY DEF CountOwners, MembersInv, TypeOK
<1>2. RowsExist' /\ OwnerRemains' /\ CountedHeld' /\ MembersLeave'
  BY <1>1 DEF MembersInv, RowsExist, OwnerRemains, CountedHeld, MembersLeave
<1>3. TargetHeld'
  BY <1>1 DEF MembersInv, TargetHeld, Forbidden
<1>4. OtherHeld'
  BY <1>1 DEF MembersInv, OtherHeld, LosesOwner
<1> QED BY <1>2, <1>3, <1>4 DEF MembersInv

\* Locking a counted owner keeps it.
LEMMA LockOwnerInv ==
  ASSUME MembersInv, TypeOK', NEW t \in Requests, NEW u \in Users, LockOwner(t, u)
  PROVE  MembersInv'
<1> USE RequestsAssumption
<1>1. /\ UNCHANGED <<role, pc, req>>
      /\ u \in pending[t] /\ pending'[t] \subseteq pending[t]
      /\ counted'[t] \subseteq counted[t] \cup {u}
      /\ u \in counted'[t] /\ u \notin counted[t] => role[u] = "owner"
      /\ \A x \in Requests \ {t} : pending'[x] = pending[x] /\ counted'[x] = counted[x]
      /\ lock'[u] = t /\ \A v \in Users : v # u => lock'[v] = lock[v]
      /\ \A v \in Users : lock[v] \in Requests => lock'[v] = lock[v]
  BY DEF LockOwner, MembersInv, TypeOK
<1>2. RowsExist'
  BY <1>1 DEF MembersInv, RowsExist
<1>3. CountedHeld'
  <2> SUFFICES ASSUME NEW x \in Requests, NEW v \in counted'[x]
               PROVE  lock'[v] = x /\ role'[v] = "owner"
    BY DEF CountedHeld
  <2>1. CASE v \in counted[x]
    BY <2>1, <1>1 DEF MembersInv, CountedHeld, TypeOK
  <2>2. CASE v \notin counted[x]
    BY <2>2, <1>1
  <2> QED BY <2>1, <2>2
<1>4. TargetHeld'
  <2> SUFFICES ASSUME NEW x \in Requests, pc[x] \in {"count", "lockOwners", "write"}
               PROVE  lock'[req[x].target] = x
    BY <1>1 DEF MembersInv, TargetHeld, Forbidden
  <2>1. req[x].target \in Users
    BY DEF MembersInv, TypeOK, Asked
  <2> QED BY <1>1, <2>1 DEF MembersInv, TargetHeld
<1>5. OtherHeld'
  BY <1>1 DEF MembersInv, OtherHeld, LosesOwner
<1>6. MembersLeave' /\ OwnerRemains'
  BY <1>1 DEF MembersInv, MembersLeave, OwnerRemains
<1> QED BY <1>2, <1>3, <1>4, <1>5, <1>6 DEF MembersInv

\* The count's verdict keeps it: above one, another owner is locked.
LEMMA CheckCountInv ==
  ASSUME MembersInv, TypeOK', NEW t \in Requests, CheckCount(t) PROVE MembersInv'
<1>1. CASE Rollback(t) BY <1>1, RollbackInv
<1>2. CASE ~Rollback(t)
  <2>1. /\ UNCHANGED <<role, req, pending, counted, lock>>
        /\ Cardinality(counted[t]) > 1
        /\ pc[t] = "lockOwners" /\ pc'[t] = "write"
        /\ \A x \in Requests \ {t} : pc'[x] = pc[x]
    BY <1>2 DEF CheckCount, MembersInv, TypeOK
  <2>2. counted[t] \subseteq Users /\ IsFiniteSet(counted[t])
    BY UsersAssumption, FS_Subset DEF MembersInv, TypeOK
  <2>3. \E v \in counted[t] : v # req[t].target
    BY <2>1, <2>2, AnotherOne
  <2>4. \E v \in Users : v # req[t].target /\ lock[v] = t /\ role[v] = "owner"
    BY <2>2, <2>3 DEF MembersInv, CountedHeld
  <2>5. OtherHeld'
    BY <2>1, <2>4 DEF MembersInv, OtherHeld, LosesOwner
  <2>6. TargetHeld'
    BY <2>1 DEF MembersInv, TargetHeld, Forbidden
  <2>7. RowsExist' /\ CountedHeld' /\ MembersLeave' /\ OwnerRemains'
    BY <2>1 DEF MembersInv, RowsExist, CountedHeld, MembersLeave, OwnerRemains
  <2> QED BY <2>5, <2>6, <2>7 DEF MembersInv
<1> QED BY <1>1, <1>2

\* The write keeps it: it changes one row, which no other transaction holds.
LEMMA WriteInv == ASSUME MembersInv, TypeOK', NEW t \in Requests, Write(t) PROVE MembersInv'
<1> USE RequestsAssumption
<1> DEFINE u == req[t].target
<1>1. u \in Users /\ lock[u] = t
  BY DEF Write, MembersInv, TypeOK, Asked, TargetHeld
<1>2. /\ pc[t] = "write" /\ pc'[t] = "idle" /\ counted'[t] = {}
      /\ \A x \in Requests \ {t} : pc'[x] = pc[x] /\ req'[x] = req[x] /\ counted'[x] = counted[x]
      /\ \A v \in Users : v # u => role'[v] = role[v]
      /\ \A v \in Users : lock[v] # t => lock'[v] = lock[v]
      /\ \A v \in Users : lock[v] = t => lock'[v] = NoTx
  BY DEF Write, End, Unlocked, MembersInv, TypeOK
<1>3. \A x \in Requests : /\ pending'[x] \subseteq pending[x]
                          /\ u \in pending'[x] => role'[u] # "none"
  <2>1. CASE req[t].op = "update"
    <3>1. req[t].newRole \in Roles
      BY <1>2 DEF MembersInv, TypeOK, Asked
    <3> QED BY <2>1, <3>1, <1>1 DEF Write, MembersInv, TypeOK, Roles
  <2>2. CASE req[t].op = "remove"
    BY <2>2 DEF Write, MembersInv, TypeOK
  <2> QED BY <2>1, <2>2 DEF Write
<1>4. \A v \in Users : \A x \in Requests \ {t} :
        lock[v] = x => lock'[v] = x /\ role'[v] = role[v]
  BY <1>1, <1>2
<1>5. RowsExist'
  BY <1>1, <1>2, <1>3 DEF MembersInv, RowsExist, TypeOK
<1>6. CountedHeld'
  BY <1>2, <1>4 DEF MembersInv, CountedHeld, TypeOK
<1>7. \A x \in Requests \ {t} : pc[x] \in {"count", "lockOwners", "write"} =>
        /\ lock'[req[x].target] = x
        /\ role'[req[x].target] = role[req[x].target]
  <2> SUFFICES ASSUME NEW x \in Requests \ {t}, pc[x] \in {"count", "lockOwners", "write"}
               PROVE  lock'[req[x].target] = x /\ role'[req[x].target] = role[req[x].target]
    OBVIOUS
  <2>1. req[x].target \in Users
    BY DEF MembersInv, TypeOK, Asked
  <2> QED BY <1>4, <2>1 DEF MembersInv, TargetHeld
<1>8. TargetHeld'
  BY <1>2, <1>7 DEF MembersInv, TargetHeld, Forbidden
<1>9. OtherHeld'
  <2> SUFFICES ASSUME NEW x \in Requests, pc'[x] = "write", LosesOwner(x)'
               PROVE  \E v \in Users : v # req'[x].target /\ lock'[v] = x /\ role'[v] = "owner"
    BY DEF OtherHeld
  <2>1. x # t /\ pc[x] = "write" /\ LosesOwner(x)
    BY <1>2, <1>7 DEF LosesOwner
  <2> QED BY <1>2, <1>4, <2>1 DEF MembersInv, OtherHeld
<1>10. MembersLeave'
  BY <1>2 DEF MembersInv, MembersLeave
<1>11. OwnerRemains'
  <2>1. CASE LosesOwner(t)
    BY <2>1, <1>2 DEF MembersInv, OtherHeld, OwnerRemains
  <2>2. CASE role[u] # "owner"
    BY <2>2, <1>2 DEF MembersInv, OwnerRemains
  <2>3. CASE req[t].op = "update" /\ req[t].newRole = "owner"
    BY <2>3, <1>1 DEF Write, MembersInv, TypeOK, OwnerRemains
  <2> QED BY <2>1, <2>2, <2>3 DEF LosesOwner
<1> QED BY <1>5, <1>6, <1>8, <1>9, <1>10, <1>11 DEF MembersInv

\* The victim of a deadlock that tries again has given its locks back.
LEMMA DeadlockInv ==
  ASSUME MembersInv, TypeOK', NEW t \in Requests, Deadlock(t) PROVE MembersInv'
<1> USE RequestsAssumption
<1>1. CASE Rollback(t) BY <1>1, RollbackInv
<1>2. CASE ~Rollback(t)
  <2>1. /\ UNCHANGED <<role, req>>
        /\ pc[t] # "idle" /\ pc'[t] = "lock" /\ counted'[t] = {} /\ pending'[t] = {}
        /\ \A x \in Requests \ {t} : /\ pc'[x] = pc[x]
                                     /\ counted'[x] = counted[x] /\ pending'[x] = pending[x]
        /\ \A u \in Users : lock[u] # t => lock'[u] = lock[u]
        /\ \A u \in Users : lock[u] = t => lock'[u] = NoTx
    BY <1>2 DEF Deadlock, Unlocked, MembersInv, TypeOK
  <2>2. RowsExist'
    BY <2>1 DEF MembersInv, RowsExist
  <2>3. \A x \in Requests \ {t} : pc[x] # "idle" => req[x].target \in Users
    BY DEF MembersInv, TypeOK, Asked
  <2>4. TargetHeld'
    BY <2>1, <2>3 DEF MembersInv, TargetHeld, Forbidden
  <2>5. CountedHeld'
    BY <2>1 DEF MembersInv, CountedHeld, TypeOK
  <2>6. OtherHeld'
    BY <2>1 DEF MembersInv, OtherHeld, LosesOwner
  <2>7. MembersLeave' /\ OwnerRemains'
    BY <2>1 DEF MembersInv, MembersLeave, OwnerRemains
  <2> QED BY <2>2, <2>4, <2>5, <2>6, <2>7 DEF MembersInv
<1> QED BY <1>1, <1>2

\* The invariant holds at first.
LEMMA MembersInit == Init => MembersInv
BY TypeInit, UsersAssumption
   DEF Init, MembersInv, RowsExist, TargetHeld, CountedHeld, OtherHeld, MembersLeave, OwnerRemains

\* Every step keeps the invariant.
LEMMA MembersStep == MembersInv /\ [Next]_vars => MembersInv'
<1> SUFFICES ASSUME MembersInv, [Next]_vars PROVE MembersInv'
  OBVIOUS
<1>0. TypeOK'
  BY TypeStep DEF MembersInv
<1>1. ASSUME NEW t \in Requests, Request(t) PROVE MembersInv'
  <2>1. PICK a \in Users, ra \in Roles, u \in Users :
          \/ \E r \in Roles : RequestUpdate(t, a, ra, u, r) \/ RequestAdd(t, a, ra, u, r)
          \/ RequestRemove(t, a, ra, u)
    BY <1>1 DEF Request
  <2>2. CASE RequestRemove(t, a, ra, u)
    BY <2>2, <1>0, ServeInv DEF RequestRemove, Roles
  <2>3. ASSUME NEW r \in Roles, RequestUpdate(t, a, ra, u, r) PROVE MembersInv'
    BY <2>3, <1>0, ServeInv DEF RequestUpdate
  <2>4. ASSUME NEW r \in Roles, RequestAdd(t, a, ra, u, r) PROVE MembersInv'
    BY <2>4, <1>0, ServeInv DEF RequestAdd
  <2> QED BY <2>1, <2>2, <2>3, <2>4
<1>2. ASSUME NEW t \in Requests, Step(t) PROVE MembersInv'
  BY <1>0, <1>2, InsertInv, LockTargetInv, CountOwnersInv, LockOwnerInv, CheckCountInv,
     WriteInv, DeadlockInv DEF Step
<1>3. ASSUME NEW t \in Requests, Abort(t) PROVE MembersInv'
  BY <1>3, RollbackInv DEF Abort
<1>4. ASSUME UNCHANGED <<role, txVars, lock>> PROVE MembersInv'
  BY <1>0, <1>4 DEF txVars, MembersInv, RowsExist, TargetHeld, CountedHeld, OtherHeld,
     MembersLeave, OwnerRemains, Forbidden, LosesOwner
<1>5. ASSUME NEW u \in Users, Deactivate(u) \/ Activate(u) PROVE MembersInv'
  BY <1>4, <1>5 DEF Deactivate, Activate
<1>6. CASE UNCHANGED vars
  BY <1>4, <1>6 DEF vars
<1> QED BY <1>1, <1>2, <1>3, <1>5, <1>6 DEF Next

\* OwnerRemains: however many requests demote and remove each other's actors at
\* once, the last owner's row stays.
THEOREM OwnerRemainsCorrect == Spec => []OwnerRemains
<1>1. Init => MembersInv                         BY MembersInit
<1>2. MembersInv /\ [Next]_vars => MembersInv'   BY MembersStep
<1>3. MembersInv => OwnerRemains                 BY DEF MembersInv
<1> QED BY <1>1, <1>2, <1>3, PTL DEF Spec

\* Only a write takes an owner away, and it has passed the check on the row.
LEMMA OwnerLost ==
  ASSUME MembersInv, [Next]_vars, NEW u \in Users, role[u] = "owner", role'[u] # "owner"
  PROVE  \E t \in Requests :
           /\ pc[t] = "write" /\ pc'[t] = "idle" /\ req[t].target = u
           /\ req[t].actorRole = "owner" \/ req[t].actor = u
<1>1. role' # role
  OBVIOUS
<1>2. PICK t \in Requests : Insert(t) \/ Write(t)
  BY <1>1 DEF Next, vars, txVars, Request, RequestUpdate, RequestAdd, RequestRemove, Serve, Abort, Rollback,
     Step, LockTarget, CountOwners, LockOwner, CheckCount, Deadlock, Deactivate, Activate
<1>3. ~Insert(t)
  BY DEF Insert, MembersInv, TypeOK
<1>4. Write(t)
  BY <1>2, <1>3
<1>5. pc[t] = "write" /\ pc'[t] = "idle" /\ req[t].target = u /\ req[t].actorRole \in Roles
  BY <1>4 DEF Write, End, MembersInv, TypeOK, Asked
<1>6. ~Forbidden(t)
  BY <1>5 DEF MembersInv, TargetHeld
<1>7. req[t].actorRole = "admin" => req[t].actor = u
  BY <1>5, <1>6 DEF Forbidden
<1>8. req[t].actorRole = "member" => req[t].actor = u
  BY <1>5 DEF MembersInv, MembersLeave
<1> QED BY <1>5, <1>7, <1>8 DEF Roles

\* OwnersByOwners: no interleaving lets an admin's or a member's request take
\* another user's ownership away.
THEOREM OwnersByOwnersCorrect == Spec => OwnersByOwners
<1>1. Init => MembersInv                         BY MembersInit
<1>2. MembersInv /\ [Next]_vars => MembersInv'   BY MembersStep
<1>3. MembersInv /\ [Next]_vars =>
        [\A u \in Users : role[u] = "owner" /\ role'[u] # "owner" =>
           \E t \in Requests :
             /\ pc[t] = "write" /\ pc'[t] = "idle" /\ req[t].target = u
             /\ req[t].actorRole = "owner" \/ req[t].actor = u]_vars
  BY OwnerLost
<1> QED BY <1>1, <1>2, <1>3, PTL DEF Spec, OwnersByOwners
=============================================================================
