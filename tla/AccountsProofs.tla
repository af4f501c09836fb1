---------------------------- MODULE AccountsProofs ----------------------------
(***************************************************************************)
(* Proofs about Accounts: the types and the limits of the API keys, what a *)
(* key is let in with, and the last-admin guard.                           *)
(***************************************************************************)
EXTENDS Accounts, TLAPS, FiniteSetTheorems, SequenceTheorems

-----------------------------------------------------------------------------
(* The keys that a limit counts.                                           *)

\* There are finitely many keys of a kind.
LEMMA KeysLikeFinite ==
  ASSUME keys \in Seq(Key), NEW type, NEW u
  PROVE  IsFiniteSet(KeysLike(type, u)) /\ Cardinality(KeysLike(type, u)) \in Nat
<1>1. DOMAIN keys = 1..Len(keys) /\ Len(keys) \in Nat
  BY LenProperties
<1>2. IsFiniteSet(1..Len(keys))
  BY <1>1, FS_Interval
<1>3. KeysLike(type, u) \subseteq 1..Len(keys)
  BY <1>1 DEF KeysLike, LiveKeys
<1> QED BY <1>2, <1>3, FS_Subset, FS_CardinalityType

\* Whoever removes keys, or lets them expire, makes no limit tighter.
LEMMA FewerKeys ==
  ASSUME keys \in Seq(Key), keys' \in Seq(Key), NEW type, NEW u,
         KeysLike(type, u)' \subseteq KeysLike(type, u)
  PROVE  Cardinality(KeysLike(type, u)') <= Cardinality(KeysLike(type, u))
BY KeysLikeFinite, FS_Subset

\* A new key is one more for its own kind and none for another.
LEMMA NewKey ==
  ASSUME keys \in Seq(Key), NEW key \in Key, key.active, ~key.expired, keys' = Append(keys, key),
         NEW type, NEW u
  PROVE  LET like == key.type = type /\ (type = "personal" => key.by = u) IN
         /\ keys' \in Seq(Key) /\ DOMAIN keys \subseteq DOMAIN keys'
         /\ like => Cardinality(KeysLike(type, u)') = Cardinality(KeysLike(type, u)) + 1
         /\ ~like => KeysLike(type, u)' = KeysLike(type, u)
<1> DEFINE like == key.type = type /\ (type = "personal" => key.by = u)
           n == Len(keys) + 1
<1>1. /\ keys' \in Seq(Key) /\ Len(keys) \in Nat
      /\ DOMAIN keys = 1..Len(keys) /\ DOMAIN keys' = 1..n
      /\ \A k \in 1..Len(keys) : keys'[k] = keys[k]
      /\ keys'[n] = key
  BY LenProperties, AppendProperties
<1>2. LiveKeys' = LiveKeys \cup {n} /\ n \notin LiveKeys
  BY <1>1 DEF LiveKeys
<1>3. CASE like
  <2>1. KeysLike(type, u)' = KeysLike(type, u) \cup {n} /\ n \notin KeysLike(type, u)
    BY <1>1, <1>2, <1>3 DEF KeysLike, LiveKeys
  <2>2. IsFiniteSet(KeysLike(type, u))
    BY KeysLikeFinite
  <2>3. Cardinality(KeysLike(type, u) \cup {n}) = Cardinality(KeysLike(type, u)) + 1
    BY <2>1, <2>2, FS_AddElement
  <2> QED BY <1>1, <1>3, <2>1, <2>3
<1>4. CASE ~like
  BY <1>1, <1>2, <1>4 DEF KeysLike, LiveKeys
<1> QED BY <1>1, <1>3, <1>4

-----------------------------------------------------------------------------
(* What any step has to keep.                                              *)

TablesOK ==
  /\ registered \subseteq Users /\ active \subseteq registered /\ admins \subseteq registered
  /\ sessions \subseteq registered \X (0..MaxRequests)
  /\ member \in [Users -> Roles]
  /\ keys \in Seq(Key)

LEMMA TablesTyped == AccountsIInv => TablesOK
BY DEF AccountsIInv, TypeOK, TablesOK

\* Fewer keys keep the limits, and whoever has counted still finds room.
LEMMA FewerKeysKeep ==
  ASSUME AccountsIInv, keys' \in Seq(Key),
         \A type, u : KeysLike(type, u)' \subseteq KeysLike(type, u)
  PROVE  /\ KeysWithinLimit'
         /\ \A x \in Requests : pc[x] = "insertKey" /\ arg'[x] = arg[x] =>
              Cardinality(KeysLike(KeyType(x), arg[x].by))' < KeyLimit(KeyType(x))'
<1>1. keys \in Seq(Key)
  BY DEF AccountsIInv, TypeOK
<1>2. ASSUME NEW type, NEW u
      PROVE  /\ Cardinality(KeysLike(type, u)') <= Cardinality(KeysLike(type, u))
             /\ Cardinality(KeysLike(type, u)) \in Nat /\ Cardinality(KeysLike(type, u)') \in Nat
  <2>1. KeysLike(type, u)' \subseteq KeysLike(type, u)
    OBVIOUS
  <2>2. IsFiniteSet(KeysLike(type, u)) /\ Cardinality(KeysLike(type, u)) \in Nat
    BY <1>1, KeysLikeFinite
  <2> QED BY <2>1, <2>2, FS_Subset, FS_CardinalityType
<1>3. KeysWithinLimit'
  BY <1>2, AccountsAssumption DEF AccountsIInv, KeysWithinLimit
<1>4. ASSUME NEW x \in Requests, pc[x] = "insertKey", arg'[x] = arg[x]
      PROVE  Cardinality(KeysLike(KeyType(x), arg[x].by))' < KeyLimit(KeyType(x))'
  <2>1. PICK type, u : type = KeyType(x) /\ u = arg[x].by
    OBVIOUS
  <2>2. Cardinality(KeysLike(type, u)) < KeyLimit(type)
    BY <1>4, <2>1 DEF AccountsIInv, CountInv
  <2>3. KeyType(x)' = type /\ arg'[x].by = u /\ KeyLimit(type) \in Nat
    BY <1>4, <2>1, AccountsAssumption DEF KeyLimit, KeyType
  <2>4. KeysLike(KeyType(x), arg[x].by)' = KeysLike(type, u)' /\ KeyLimit(KeyType(x))' = KeyLimit(type)
    BY <2>3 DEF KeysLike, LiveKeys, KeyLimit
  <2>5. Cardinality(KeysLike(type, u)') < KeyLimit(type)
    BY <1>2, <2>2, <2>3
  <2> QED BY <2>4, <2>5
<1> QED BY <1>3, <1>4

\* A step outside the requests under way.
LEMMA QuietKeeps ==
  ASSUME AccountsIInv, UNCHANGED <<pc, arg, want, attempt, lock, granted>>, TablesOK',
         registered \subseteq registered', DOMAIN keys \subseteq DOMAIN keys',
         \A type, u : KeysLike(type, u)' \subseteq KeysLike(type, u),
         served' \in 0..MaxRequests, faults' \in 0..MaxFaults
  PROVE  AccountsIInv'
<1>1. TypeOK'
  BY DEF AccountsIInv, TypeOK, TablesOK
<1>2. AskedInv'
  BY DEF AccountsIInv, AskedInv
<1>3. /\ KeysWithinLimit'
      /\ \A x \in Requests : pc[x] = "insertKey" =>
           Cardinality(KeysLike(KeyType(x), arg[x].by))' < KeyLimit(KeyType(x))'
  BY FewerKeysKeep DEF TablesOK
<1>4. CountInv'
  BY <1>3 DEF AccountsIInv, CountInv, OwnerRow, KeyType
<1> QED BY <1>1, <1>2, <1>3, <1>4 DEF AccountsIInv

\* The end of t's transaction frees t's rows only.
LEMMA EndTxFacts ==
  ASSUME TypeOK, NEW t \in Requests, EndTx(t)
  PROVE  /\ want' \in [Requests -> SUBSET Rows] /\ want'[t] = {}
         /\ attempt' \in [Requests -> 0..MaxDeadlockRetries]
         /\ lock' \in [Rows -> Requests \cup {None}]
         /\ \A r \in Rows : lock'[r] = IF lock[r] = t THEN None ELSE lock[r]
         /\ \A x \in Requests \ {t} : want'[x] = want[x]
BY AccountsAssumption DEF TypeOK, EndTx, Unlocked

\* A request at the row of its owner.
LEMMA OwnerRowTyped ==
  ASSUME TypeOK, NEW t \in Requests, pc[t] # "idle"
  PROVE  OwnerRow(t) \in Rows
BY DEF TypeOK, OwnerRow, Rows, Arg

\* An answered request leaves the others as they are.
LEMMA AnswerKeeps ==
  ASSUME AccountsIInv, NEW t \in Requests, Answer(t), TablesOK',
         registered \subseteq registered', DOMAIN keys \subseteq DOMAIN keys',
         granted' \in [Requests -> KeyRoles], \A x \in Requests \ {t} : granted'[x] = granted[x],
         faults' \in 0..MaxFaults, KeysWithinLimit',
         \A x \in Requests \ {t} : pc[x] = "insertKey" /\ arg'[x] = arg[x] =>
            Cardinality(KeysLike(KeyType(x), arg[x].by))' < KeyLimit(KeyType(x))'
  PROVE  AccountsIInv'
<1>1. /\ pc' \in [Requests -> Steps] /\ pc'[t] = "idle"
      /\ \A x \in Requests \ {t} : pc'[x] = pc[x]
  BY DEF AccountsIInv, TypeOK, Answer, Go, Steps
<1>2. /\ arg' \in [Requests -> Arg \cup {None}]
      /\ \A x \in Requests \ {t} : arg'[x] = arg[x]
  BY DEF AccountsIInv, TypeOK, Answer
<1>3. /\ want' \in [Requests -> SUBSET Rows]
      /\ attempt' \in [Requests -> 0..MaxDeadlockRetries]
      /\ lock' \in [Rows -> Requests \cup {None}]
      /\ \A r \in Rows : lock'[r] = IF lock[r] = t THEN None ELSE lock[r]
  BY EndTxFacts DEF AccountsIInv, Answer
<1>4. TypeOK'
  BY <1>1, <1>2, <1>3 DEF AccountsIInv, TypeOK, TablesOK, Answer
<1>5. AskedInv'
  BY <1>1, <1>2, Zenon DEF AccountsIInv, AskedInv, Guarded, Creating
<1>6. CountInv'
  <2>1. ASSUME NEW x \in Requests \ {t}, pc[x] \in {"countKeys", "insertKey"}
        PROVE  lock'[OwnerRow(x)'] = x
    <3>1. OwnerRow(x) \in Rows /\ lock[OwnerRow(x)] = x
      BY <2>1, OwnerRowTyped DEF AccountsIInv, CountInv
    <3>2. OwnerRow(x)' = OwnerRow(x)
      BY <1>2 DEF OwnerRow
    <3> QED BY <1>3, <3>1, <3>2
  <2> QED BY <1>1, <1>2, <2>1 DEF CountInv
<1> QED BY <1>4, <1>5, <1>6 DEF AccountsIInv

\* A request that goes on keeps the invariant if it may be where it goes and takes
\* no row from another.
LEMMA ContinueKeeps ==
  ASSUME AccountsIInv, NEW t \in Requests, NEW s \in Steps \ {"idle", "newSession", "access"},
         pc[t] # "idle", pc' = [pc EXCEPT ![t] = s],
         UNCHANGED <<tables, arg, granted, served, faults>>,
         attempt' \in [Requests -> 0..MaxDeadlockRetries],
         want' \in [Requests -> SUBSET Rows],
         lock' \in [Rows -> Requests \cup {None}],
         \A r \in Rows, x \in Requests \ {t} : lock[r] = x => lock'[r] = x,
         s = "admin" => arg[t].op \in {"deactivate", "activate", "grant", "revoke"},
         s = "read" => arg[t].op \in {"deactivate", "activate", "grant"},
         s \in Guarded => arg[t].op \in {"deactivate", "revoke"},
         s \in {"admin", "read", "update", "grant", "sessions"} \cup Guarded =>
            arg[t].of \in registered,
         s \in Creating => /\ arg[t].op \in {"projectKey", "personalKey"}
                           /\ arg[t].role \in {"read", "write"},
         s \in {"countKeys", "insertKey"} => lock'[OwnerRow(t)] = t,
         s = "insertKey" =>
            Cardinality(KeysLike(KeyType(t), arg[t].by)) < KeyLimit(KeyType(t))
  PROVE  AccountsIInv'
<1>1. /\ pc' \in [Requests -> Steps] /\ pc'[t] = s
      /\ \A x \in Requests \ {t} : pc'[x] = pc[x]
  BY DEF AccountsIInv, TypeOK
<1>2. TypeOK'
  BY <1>1 DEF AccountsIInv, TypeOK, tables
<1>3. AskedInv'
  <2>1. UNCHANGED <<arg, registered, keys, granted>>
    BY DEF tables
  <2> QED BY <1>1, <2>1 DEF AccountsIInv, AskedInv
<1>4. KeysWithinLimit'
  BY DEF AccountsIInv, KeysWithinLimit, KeysLike, LiveKeys, tables
<1>5. CountInv'
  <2>1. \A x \in Requests :
          /\ OwnerRow(x)' = OwnerRow(x) /\ KeyType(x)' = KeyType(x)
          /\ KeysLike(KeyType(x), arg[x].by)' = KeysLike(KeyType(x), arg[x].by)
    BY DEF OwnerRow, KeyType, KeysLike, LiveKeys, tables
  <2>2. \A x \in Requests \ {t} : pc[x] \in {"countKeys", "insertKey"} => lock'[OwnerRow(x)] = x
    BY OwnerRowTyped DEF AccountsIInv, CountInv
  <2> QED BY <1>1, <2>1, <2>2 DEF AccountsIInv, CountInv, KeyLimit
<1> QED BY <1>2, <1>3, <1>4, <1>5 DEF AccountsIInv

\* An accepted request holds no row yet.
LEMMA ServeKeeps ==
  ASSUME AccountsIInv, NEW t \in Requests, NEW op, NEW u \in Users, NEW y \in Users \cup Nat,
         NEW r \in Roles \cup KeyRoles, NEW s \in {"admin", "newSession", "lockOwner", "access"},
         Serve(t, op, u, y, r, s),
         s = "admin" => op \in {"deactivate", "activate", "grant", "revoke"} /\ y \in registered,
         s = "newSession" => u \in registered /\ y \in 0..MaxRequests,
         s = "lockOwner" => op \in {"projectKey", "personalKey"} /\ r \in {"read", "write"},
         s = "access" => y \in DOMAIN keys
  PROVE  AccountsIInv'
<1>1. /\ pc' \in [Requests -> Steps] /\ pc'[t] = s /\ pc[t] = "idle"
      /\ \A x \in Requests \ {t} : pc'[x] = pc[x]
  BY DEF AccountsIInv, TypeOK, Serve, Go, Steps
<1>2. /\ arg' \in [Requests -> Arg \cup {None}] /\ arg'[t] \in Arg
      /\ arg'[t] = [op |-> op, by |-> u, of |-> y, role |-> r]
      /\ \A x \in Requests \ {t} : arg'[x] = arg[x]
  <2>1. [op |-> op, by |-> u, of |-> y, role |-> r] \in Arg
    BY DEF Serve, Arg
  <2> QED BY <2>1 DEF AccountsIInv, TypeOK, Serve
<1>3. /\ granted' \in [Requests -> KeyRoles] /\ granted'[t] = "none"
      /\ \A x \in Requests \ {t} : granted'[x] = granted[x]
      /\ served' \in 0..MaxRequests
  BY AccountsAssumption DEF AccountsIInv, TypeOK, Serve, KeyRoles
<1>4. UNCHANGED <<registered, active, admins, sessions, member, keys, want, attempt, lock, faults>>
  BY DEF Serve, tables
<1>5. TypeOK'
  BY <1>1, <1>2, <1>3, <1>4 DEF AccountsIInv, TypeOK
<1>6. AskedInv'
  <2>1. arg'[t].op = op /\ arg'[t].by = u /\ arg'[t].of = y /\ arg'[t].role = r
    BY <1>2
  <2> QED BY <1>1, <1>2, <1>3, <1>4, <2>1 DEF AccountsIInv, AskedInv, Guarded, Creating
<1>7. KeysWithinLimit'
  BY <1>4 DEF AccountsIInv, KeysWithinLimit, KeysLike, LiveKeys
<1>8. CountInv'
  <2>1. \A x \in Requests \ {t} :
          /\ OwnerRow(x)' = OwnerRow(x) /\ KeyType(x)' = KeyType(x)
          /\ KeysLike(KeyType(x), arg[x].by)' = KeysLike(KeyType(x), arg[x].by)
    BY <1>2, <1>4 DEF OwnerRow, KeyType, KeysLike, LiveKeys
  <2> QED BY <1>1, <1>4, <2>1 DEF AccountsIInv, CountInv, KeyLimit
<1> QED BY <1>5, <1>6, <1>7, <1>8 DEF AccountsIInv

-----------------------------------------------------------------------------
(* The steps of a request.                                                 *)

\* A request that ends with the keys as they are.
LEMMA EndKeeps ==
  ASSUME AccountsIInv, NEW t \in Requests, Answer(t), TablesOK', UNCHANGED <<registered, keys>>,
         granted' \in [Requests -> KeyRoles], \A x \in Requests \ {t} : granted'[x] = granted[x],
         faults' \in 0..MaxFaults
  PROVE  AccountsIInv'
<1>1. \A type, u : KeysLike(type, u)' \subseteq KeysLike(type, u)
  BY DEF KeysLike, LiveKeys
<1>2. /\ KeysWithinLimit'
      /\ \A x \in Requests : pc[x] = "insertKey" /\ arg'[x] = arg[x] =>
           Cardinality(KeysLike(KeyType(x), arg[x].by))' < KeyLimit(KeyType(x))'
  BY <1>1, FewerKeysKeep DEF TablesOK
<1> QED BY <1>2, AnswerKeeps

\* Refused, or failed.
LEMMA RefuseKeeps ==
  ASSUME AccountsIInv, NEW t \in Requests, Answer(t), UNCHANGED <<tables, granted>>,
         faults' \in 0..MaxFaults
  PROVE  AccountsIInv'
<1>1. UNCHANGED <<registered, active, admins, sessions, member, keys, granted>>
  BY DEF tables
<1>2. TablesOK' /\ granted' \in [Requests -> KeyRoles]
  BY <1>1 DEF AccountsIInv, TypeOK, TablesOK
<1> QED BY <1>1, <1>2, EndKeeps

\* The faults, in the shape the lemmas ask for.
LEMMA FaultsTyped ==
  ASSUME AccountsIInv
  PROVE  faults \in 0..MaxFaults /\ (Fault => faults' \in 0..MaxFaults)
BY AccountsAssumption DEF AccountsIInv, TypeOK, Fault

LEMMA RefusedKeeps == ASSUME AccountsIInv, NEW t \in Requests, Refuse(t) PROVE AccountsIInv'
BY RefuseKeeps, FaultsTyped DEF Refuse, End

\* The rows and the retries of a request that goes on without a lock.
LEMMA Typed ==
  ASSUME AccountsIInv
  PROVE  /\ attempt \in [Requests -> 0..MaxDeadlockRetries]
         /\ want \in [Requests -> SUBSET Rows]
         /\ lock \in [Rows -> Requests \cup {None}]
         /\ \A t \in Requests : pc[t] # "idle" => arg[t] \in Arg
BY DEF AccountsIInv, TypeOK

LEMMA AdminSteps ==
  ASSUME AccountsIInv, NEW t \in Requests, RequirePlatformAdmin(t) \/ AdminGetUserByID(t)
  PROVE  AccountsIInv'
<1>1. CASE Refuse(t)
  BY <1>1, RefusedKeeps
<1>2. CASE RequirePlatformAdmin(t) /\ ~Refuse(t)
  <2> DEFINE s == IF arg[t].op = "revoke" THEN "find" ELSE "read"
  <2>1. /\ pc[t] = "admin" /\ pc' = [pc EXCEPT ![t] = s]
        /\ UNCHANGED <<tables, arg, granted, served, faults, want, lock, attempt>>
    BY <1>2 DEF RequirePlatformAdmin, Continue, Go
  <2>2. /\ arg[t].op \in {"deactivate", "activate", "grant", "revoke"}
        /\ arg[t].of \in registered
    BY <2>1 DEF AccountsIInv, AskedInv
  <2>3. s \in Steps \ {"idle", "newSession", "access"} /\ s \notin Creating \cup {"admin"}
    BY DEF Steps, Creating
  <2>4. /\ s = "read" => arg[t].op \in {"deactivate", "activate", "grant"}
        /\ s \in Guarded => arg[t].op \in {"deactivate", "revoke"}
    BY <2>2 DEF Guarded
  <2> QED BY <2>1, <2>2, <2>3, <2>4, Typed, ContinueKeeps DEF Creating
<1>3. CASE AdminGetUserByID(t) /\ ~Refuse(t)
  <2> DEFINE s == NextOf[arg[t].op]
  <2>1. /\ pc[t] = "read" /\ pc' = [pc EXCEPT ![t] = s]
        /\ UNCHANGED <<tables, arg, granted, served, faults, want, lock, attempt>>
    BY <1>3 DEF AdminGetUserByID, Continue, Go
  <2>2. arg[t].op \in {"deactivate", "activate", "grant"} /\ arg[t].of \in registered
    BY <2>1 DEF AccountsIInv, AskedInv
  <2>3. /\ s \in {"find", "update", "grant"}
        /\ s = "find" => arg[t].op = "deactivate"
    BY <2>2 DEF NextOf
  <2> HIDE DEF s
  <2>4. s \in Steps \ {"idle", "newSession", "access"} /\ s \notin Creating \cup {"admin", "read"}
    BY <2>3 DEF Steps, Creating
  <2>5. s \in Guarded => arg[t].op \in {"deactivate", "revoke"}
    BY <2>3 DEF Guarded
  <2> QED BY <2>1, <2>2, <2>4, <2>5, Typed, ContinueKeeps DEF Creating
<1> QED BY <1>1, <1>2, <1>3

\* The target of a guarded request, and its rows.
LEMMA TargetTyped ==
  ASSUME AccountsIInv, NEW t \in Requests, pc[t] \in Guarded
  PROVE  /\ arg[t].op \in {"deactivate", "revoke"} /\ arg[t].of \in registered
         /\ arg[t].of \in Users /\ TargetRow(t) \in Rows
<1>1. arg[t].op \in {"deactivate", "revoke"} /\ arg[t].of \in registered
  BY DEF AccountsIInv, AskedInv
<1>2. arg[t].of \in Users
  BY <1>1 DEF AccountsIInv, TypeOK
<1> QED BY <1>1, <1>2 DEF TargetRow, Rows

\* The guarded requests that go on, to step s, with what they found and locked.
LEMMA GuardedKeeps ==
  ASSUME AccountsIInv, NEW t \in Requests, NEW s \in Guarded, pc[t] \in Guarded,
         pc' = [pc EXCEPT ![t] = s], UNCHANGED <<tables, arg, granted, served, faults>>,
         attempt' \in [Requests -> 0..MaxDeadlockRetries],
         want' \in [Requests -> SUBSET Rows],
         lock' \in [Rows -> Requests \cup {None}],
         \A r \in Rows, x \in Requests \ {t} : lock[r] = x => lock'[r] = x
  PROVE  AccountsIInv'
<1>1. /\ s \in Steps \ {"idle", "newSession", "access"}
      /\ s \notin Creating \cup {"admin", "read", "countKeys", "insertKey"}
      /\ pc[t] # "idle"
  BY DEF Guarded, Steps, Creating
<1> QED BY <1>1, TargetTyped, ContinueKeeps

LEMMA GuardedSteps ==
  ASSUME AccountsIInv, NEW t \in Requests,
         \/ CountActivePlatformAdminsForUpdate(t) \/ \E x \in want[t] : LockAdmin(t, x)
         \/ ChangeTarget(t) \/ CheckRemaining(t) \/ Deadlock(t)
  PROVE  AccountsIInv'
<1> USE AccountsAssumption
<1>1. CASE Refuse(t)
  BY <1>1, RefusedKeeps
<1>2. CASE CountActivePlatformAdminsForUpdate(t)
  <2>1. /\ pc[t] = "find" /\ pc' = [pc EXCEPT ![t] = "lock"]
        /\ UNCHANGED <<tables, arg, granted, served, faults, lock, attempt>>
        /\ want' = [want EXCEPT ![t] = {"role"} \X ActiveAdmins]
    BY <1>2 DEF CountActivePlatformAdminsForUpdate, Continue, Go
  <2>2. {"role"} \X ActiveAdmins \subseteq Rows
    BY DEF ActiveAdmins, Rows, AccountsIInv, TypeOK
  <2>3. want' \in [Requests -> SUBSET Rows]
    BY <2>1, <2>2, Typed
  <2> QED BY <2>1, <2>3, Typed, GuardedKeeps DEF Guarded
<1>3. ASSUME NEW x \in want[t], LockAdmin(t, x) PROVE AccountsIInv'
  <2>1. /\ pc[t] = "lock" /\ pc' = [pc EXCEPT ![t] = "lock"]
        /\ UNCHANGED <<tables, arg, granted, served, faults, attempt>>
        /\ lock[x] \in {None, t}
        /\ lock' = lock \/ lock' = [lock EXCEPT ![x] = t]
    BY <1>3 DEF LockAdmin, AccountsIInv, TypeOK
  <2>2. x \in Rows
    BY DEF AccountsIInv, TypeOK
  <2>3. want' \in [Requests -> SUBSET Rows]
    <3>1. CASE want' = [want EXCEPT ![t] = @ \ {x}]
      BY <3>1, Typed
    <3>2. CASE x[2] \in ActiveAdmins
      <4>1. <<"user", x[2]>> \in Rows
        BY <3>2 DEF ActiveAdmins, Rows, AccountsIInv, TypeOK
      <4> QED BY <1>3, <3>1, <3>2, <4>1, Typed DEF LockAdmin
    <3> QED BY <1>3, <3>1, <3>2 DEF LockAdmin
  <2>4. /\ lock' \in [Rows -> Requests \cup {None}]
        /\ \A r \in Rows, y \in Requests \ {t} : lock[r] = y => lock'[r] = y
    BY <2>1, <2>2, Typed
  <2> QED BY <2>1, <2>3, <2>4, Typed, GuardedKeeps DEF Guarded
<1>4. CASE ChangeTarget(t) /\ ~Refuse(t)
  <2>1. /\ pc[t] = "lock" /\ pc' = [pc EXCEPT ![t] = "count"]
        /\ UNCHANGED <<tables, arg, granted, served, faults, attempt, want>>
        /\ lock[TargetRow(t)] \in {None, t} /\ lock' = [lock EXCEPT ![TargetRow(t)] = t]
    BY <1>4 DEF ChangeTarget, Continue, Go, TargetRow
  <2>2. /\ lock' \in [Rows -> Requests \cup {None}]
        /\ \A r \in Rows, y \in Requests \ {t} : lock[r] = y => lock'[r] = y
    BY <2>1, Typed, TargetTyped DEF Guarded
  <2> QED BY <2>1, <2>2, Typed, GuardedKeeps DEF Guarded
<1>5. CASE CheckRemaining(t) /\ ~Refuse(t)
  <2>1. /\ pc[t] = "count" /\ pc' = [pc EXCEPT ![t] = "commit"]
        /\ UNCHANGED <<tables, arg, granted, served, faults, attempt, want, lock>>
    BY <1>5 DEF CheckRemaining, Continue, Go
  <2> QED BY <2>1, Typed, GuardedKeeps DEF Guarded
<1>6. CASE Deadlock(t) /\ ~Refuse(t)
  <2>1. /\ pc[t] = "lock" /\ pc' = [pc EXCEPT ![t] = "find"] /\ attempt[t] < MaxDeadlockRetries
        /\ UNCHANGED <<tables, arg, granted, served, faults>>
        /\ attempt' = [attempt EXCEPT ![t] = @ + 1]
        /\ want' = [want EXCEPT ![t] = {}] /\ lock' = Unlocked(t)
    BY <1>6 DEF Deadlock, Go
  <2>2. attempt' \in [Requests -> 0..MaxDeadlockRetries]
    BY <2>1, Typed
  <2>3. /\ want' \in [Requests -> SUBSET Rows]
        /\ lock' \in [Rows -> Requests \cup {None}]
        /\ \A r \in Rows, y \in Requests \ {t} : lock[r] = y => lock'[r] = y
    BY <2>1, Typed DEF Unlocked
  <2> QED BY <2>1, <2>2, <2>3, GuardedKeeps DEF Guarded
<1> QED BY <1>1, <1>2, <1>3, <1>4, <1>5, <1>6

\* The commits, and the statements after them.
LEMMA CommitSteps ==
  ASSUME AccountsIInv, NEW t \in Requests,
         \/ CommitRevoke(t) \/ DeleteUserSessions(t) \/ HandleActivateUser(t)
         \/ GrantPlatformRole(t) \/ CreateSession(t) \/ CheckAPIKeyProjectAccess(t)
  PROVE  AccountsIInv'
<1> USE FaultsTyped, TablesTyped
<1>0. granted \in [Requests -> KeyRoles]
  BY DEF AccountsIInv, TypeOK
<1>1. CASE CommitRevoke(t)
  <2>1. TablesOK'
    BY <1>1 DEF CommitRevoke, TablesOK
  <2> QED BY <1>0, <1>1, <2>1, EndKeeps DEF CommitRevoke, End
<1>2. CASE DeleteUserSessions(t)
  <2>1. TablesOK'
    BY <1>2 DEF DeleteUserSessions, TablesOK
  <2> QED BY <1>0, <1>2, <2>1, EndKeeps DEF DeleteUserSessions
<1>3. CASE HandleActivateUser(t)
  <2>1. arg[t].of \in registered
    BY <1>3 DEF HandleActivateUser, AccountsIInv, AskedInv
  <2>2. TablesOK'
    BY <1>3, <2>1 DEF HandleActivateUser, TablesOK
  <2> QED BY <1>0, <1>3, <2>2, EndKeeps DEF HandleActivateUser, End
<1>4. CASE GrantPlatformRole(t)
  <2>1. TablesOK'
    BY <1>4 DEF GrantPlatformRole, TablesOK
  <2> QED BY <1>0, <1>4, <2>1, EndKeeps DEF GrantPlatformRole, End
<1>5. CASE CreateSession(t)
  <2>1. arg[t].by \in registered /\ arg[t].of \in 0..MaxRequests
    BY <1>5 DEF CreateSession, AccountsIInv, AskedInv
  <2>2. TablesOK'
    BY <1>5, <2>1 DEF CreateSession, TablesOK
  <2> QED BY <1>0, <1>5, <2>2, EndKeeps DEF CreateSession, End
<1>6. CASE CheckAPIKeyProjectAccess(t)
  <2>1. CASE Refuse(t)
    BY <2>1, RefusedKeeps
  <2>2. CASE ~Refuse(t)
    <3> DEFINE r == EffectiveRole(arg[t].of)
    <3>1. /\ granted' = [granted EXCEPT ![t] = r] /\ End(t) /\ UNCHANGED tables /\ pc[t] = "access"
      BY <1>6, <2>2 DEF CheckAPIKeyProjectAccess
    <3>2. arg[t].of \in DOMAIN keys /\ keys[arg[t].of] \in Key
      BY <3>1, LenProperties DEF AccountsIInv, AskedInv, TypeOK
    <3>3. MappedRole[member[keys[arg[t].of].by]] \in KeyRoles
      BY <3>2 DEF AccountsIInv, TypeOK, MappedRole, Roles, KeyRoles, Key
    <3>4. r \in KeyRoles
      BY <3>2, <3>3 DEF EffectiveRole, KeyRoles, Key
    <3>5. granted' \in [Requests -> KeyRoles] /\ \A x \in Requests \ {t} : granted'[x] = granted[x]
      BY <1>0, <3>1, <3>4
    <3>6. TablesOK' /\ UNCHANGED <<registered, keys>>
      BY <3>1 DEF tables, TablesOK
    <3> QED BY <3>1, <3>5, <3>6, EndKeeps DEF End
  <2> QED BY <2>1, <2>2
<1> QED BY <1>1, <1>2, <1>3, <1>4, <1>5, <1>6

\* A deactivation that commits goes on to delete the sessions.
LEMMA DeactivateStep ==
  ASSUME AccountsIInv, NEW t \in Requests, CommitDeactivate(t)
  PROVE  AccountsIInv'
<1>1. /\ pc[t] = "commit" /\ pc' \in [Requests -> Steps] /\ pc'[t] = "sessions"
      /\ \A x \in Requests \ {t} : pc'[x] = pc[x]
  BY DEF AccountsIInv, TypeOK, CommitDeactivate, Go, Steps
<1>2. /\ want' \in [Requests -> SUBSET Rows]
      /\ attempt' \in [Requests -> 0..MaxDeadlockRetries]
      /\ lock' \in [Rows -> Requests \cup {None}]
      /\ \A r \in Rows : lock'[r] = IF lock[r] = t THEN None ELSE lock[r]
  BY EndTxFacts DEF AccountsIInv, CommitDeactivate
<1>3. /\ active' \subseteq active
      /\ UNCHANGED <<registered, admins, sessions, member, keys, arg, granted, served, faults>>
  BY DEF CommitDeactivate
<1>4. TypeOK'
  BY <1>1, <1>2, <1>3 DEF AccountsIInv, TypeOK
<1>5. AskedInv'
  <2>1. arg[t].of \in registered
    BY <1>1, TargetTyped DEF Guarded
  <2> QED BY <1>1, <1>3, <2>1 DEF AccountsIInv, AskedInv, Guarded, Creating
<1>6. KeysWithinLimit'
  BY <1>3 DEF AccountsIInv, KeysWithinLimit, KeysLike, LiveKeys
<1>7. CountInv'
  <2>1. \A x \in Requests \ {t} :
          /\ OwnerRow(x)' = OwnerRow(x) /\ KeyType(x)' = KeyType(x)
          /\ KeysLike(KeyType(x), arg[x].by)' = KeysLike(KeyType(x), arg[x].by)
    BY <1>3 DEF OwnerRow, KeyType, KeysLike, LiveKeys
  <2>2. \A x \in Requests \ {t} : pc[x] \in {"countKeys", "insertKey"} => lock'[OwnerRow(x)] = x
    BY <1>2, OwnerRowTyped DEF AccountsIInv, CountInv
  <2> QED BY <1>1, <2>1, <2>2 DEF AccountsIInv, CountInv, KeyLimit
<1> QED BY <1>4, <1>5, <1>6, <1>7 DEF AccountsIInv

\* The steps of a request that creates a key, up to its insert.
LEMMA CreatingSteps ==
  ASSUME AccountsIInv, NEW t \in Requests, LockOwnerRow(t) \/ CountKeys(t)
  PROVE  AccountsIInv'
<1>1. CASE Refuse(t)
  BY <1>1, RefusedKeeps
<1>2. CASE LockOwnerRow(t)
  <2>1. /\ pc[t] = "lockOwner" /\ pc' = [pc EXCEPT ![t] = "countKeys"]
        /\ UNCHANGED <<tables, arg, granted, served, faults, attempt, want>>
        /\ lock[OwnerRow(t)] = None /\ lock' = [lock EXCEPT ![OwnerRow(t)] = t]
    BY <1>2 DEF LockOwnerRow, Continue, Go
  <2>2. OwnerRow(t) \in Rows
    BY <2>1, OwnerRowTyped DEF AccountsIInv
  <2>3. /\ lock' \in [Rows -> Requests \cup {None}] /\ lock'[OwnerRow(t)] = t
        /\ \A r \in Rows, y \in Requests \ {t} : lock[r] = y => lock'[r] = y
    BY <2>1, <2>2, Typed, AccountsAssumption
  <2>4. arg[t].op \in {"projectKey", "personalKey"} /\ arg[t].role \in {"read", "write"}
    BY <2>1 DEF AccountsIInv, AskedInv, Creating
  <2> QED BY <2>1, <2>3, <2>4, Typed, ContinueKeeps DEF Steps, Guarded
<1>3. CASE CountKeys(t) /\ ~Refuse(t)
  <2>1. /\ pc[t] = "countKeys" /\ pc' = [pc EXCEPT ![t] = "insertKey"]
        /\ UNCHANGED <<tables, arg, granted, served, faults, attempt, want, lock>>
        /\ Cardinality(KeysLike(KeyType(t), arg[t].by)) < KeyLimit(KeyType(t))
    BY <1>3 DEF CountKeys, Continue, Go
  <2>2. /\ arg[t].op \in {"projectKey", "personalKey"} /\ arg[t].role \in {"read", "write"}
        /\ lock[OwnerRow(t)] = t
    BY <2>1 DEF AccountsIInv, AskedInv, CountInv, Creating
  <2> QED BY <2>1, <2>2, Typed, ContinueKeeps DEF Steps, Guarded
<1> QED BY <1>1, <1>2, <1>3

\* The insert: the owner's row keeps everybody else from counting the same keys.
LEMMA CreateAPIKeyStep ==
  ASSUME AccountsIInv, NEW t \in Requests, CreateAPIKey(t)
  PROVE  AccountsIInv'
<1>1. PICK type, u, key :
        /\ type = KeyType(t) /\ u = arg[t].by
        /\ key = [type |-> type, by |-> u, role |-> arg[t].role, active |-> TRUE, expired |-> FALSE]
  OBVIOUS
<1>2. /\ pc[t] = "insertKey" /\ keys' = Append(keys, key) /\ Answer(t) /\ UNCHANGED faults
      /\ UNCHANGED <<registered, active, admins, sessions, member, granted>>
  BY <1>1 DEF CreateAPIKey, End
<1>3. /\ u \in Users /\ type \in {"project", "personal"} /\ arg[t].role \in {"read", "write"}
      /\ lock[OwnerRow(t)] = t /\ Cardinality(KeysLike(type, u)) < KeyLimit(type)
      /\ arg[t].op \in {"projectKey", "personalKey"}
  BY <1>1, <1>2 DEF AccountsIInv, TypeOK, AskedInv, CountInv, KeyType, Creating, Arg
<1>4. key \in Key /\ key.active /\ ~key.expired /\ key.type = type /\ key.by = u
  BY <1>1, <1>3 DEF Key
<1>5. keys \in Seq(Key)
  BY DEF AccountsIInv, TypeOK
<1>6. ASSUME NEW ty, NEW v
      PROVE  /\ keys' \in Seq(Key) /\ DOMAIN keys \subseteq DOMAIN keys'
             /\ Cardinality(KeysLike(ty, v)) \in Nat /\ Cardinality(KeysLike(ty, v)') \in Nat
             /\ Cardinality(KeysLike(ty, v)') <= Cardinality(KeysLike(ty, v)) + 1
             /\ ~(type = ty /\ (ty = "personal" => u = v)) =>
                  Cardinality(KeysLike(ty, v)') = Cardinality(KeysLike(ty, v))
  BY <1>2, <1>4, <1>5, NewKey, KeysLikeFinite
<1>7. TablesOK'
  BY <1>2, <1>6, TablesTyped DEF TablesOK
<1>8. KeysWithinLimit'
  <2>1. /\ KeysLike("project", None) = KeysLike("project", u)
        /\ KeysLike("project", None)' = KeysLike("project", u)'
    BY DEF KeysLike
  <2>2. Cardinality(KeysLike("project", None)') <= MaxProjectKeys
    <3>1. /\ Cardinality(KeysLike("project", u)) \in Nat
          /\ Cardinality(KeysLike("project", u)') <= Cardinality(KeysLike("project", u)) + 1
          /\ type # "project" =>
               Cardinality(KeysLike("project", u)') = Cardinality(KeysLike("project", u))
      BY <1>6
    <3>2. Cardinality(KeysLike("project", u)) <= MaxProjectKeys
      BY <2>1 DEF AccountsIInv, KeysWithinLimit
    <3>3. type = "project" => Cardinality(KeysLike("project", u)) < MaxProjectKeys
      BY <1>3 DEF KeyLimit
    <3>4. Cardinality(KeysLike("project", u)') \in Nat
      BY <1>6
    <3> QED BY <2>1, <3>1, <3>2, <3>3, <3>4, AccountsAssumption
  <2>3. ASSUME NEW v \in Users PROVE Cardinality(KeysLike("personal", v)') <= MaxPersonalKeys
    <3>1. /\ Cardinality(KeysLike("personal", v)) \in Nat
          /\ Cardinality(KeysLike("personal", v)') <= Cardinality(KeysLike("personal", v)) + 1
          /\ ~(type = "personal" /\ u = v) =>
               Cardinality(KeysLike("personal", v)') = Cardinality(KeysLike("personal", v))
      BY <1>6
    <3>2. Cardinality(KeysLike("personal", v)) <= MaxPersonalKeys
      BY DEF AccountsIInv, KeysWithinLimit
    <3>3. type = "personal" /\ u = v => Cardinality(KeysLike("personal", v)) < MaxPersonalKeys
      BY <1>3 DEF KeyLimit
    <3>4. Cardinality(KeysLike("personal", v)') \in Nat
      BY <1>6
    <3> QED BY <3>1, <3>2, <3>3, <3>4, AccountsAssumption
  <2> QED BY <2>2, <2>3 DEF KeysWithinLimit
<1>9. ASSUME NEW x \in Requests \ {t}, pc[x] = "insertKey", arg'[x] = arg[x]
      PROVE  Cardinality(KeysLike(KeyType(x), arg[x].by))' < KeyLimit(KeyType(x))'
  <2>1. PICK ty, v : ty = KeyType(x) /\ v = arg[x].by
    OBVIOUS
  <2>2. /\ Cardinality(KeysLike(ty, v)) < KeyLimit(ty) /\ lock[OwnerRow(x)] = x
        /\ arg[x].op \in {"projectKey", "personalKey"}
    BY <1>9, <2>1 DEF AccountsIInv, AskedInv, CountInv, Creating
  <2>3. ~(type = ty /\ (ty = "personal" => u = v))
    <3>1. OwnerRow(x) # OwnerRow(t)
      BY <1>3, <2>2
    <3> QED BY <1>1, <1>3, <2>1, <2>2, <3>1 DEF OwnerRow, KeyType
  <2>4. Cardinality(KeysLike(ty, v)') < KeyLimit(ty)
    BY <1>6, <2>2, <2>3
  <2>5. KeyType(x)' = ty /\ arg'[x].by = v
    BY <1>9, <2>1 DEF KeyType
  <2>6. KeysLike(KeyType(x), arg[x].by)' = KeysLike(ty, v)' /\ KeyLimit(KeyType(x))' = KeyLimit(ty)
    BY <2>5 DEF KeysLike, LiveKeys, KeyLimit
  <2> QED BY <2>4, <2>6
<1>10. granted' \in [Requests -> KeyRoles] /\ faults' \in 0..MaxFaults
  BY <1>2 DEF AccountsIInv, TypeOK
<1> QED BY <1>2, <1>6, <1>7, <1>8, <1>9, <1>10, AnswerKeeps

-----------------------------------------------------------------------------
(* Requests, and the steps outside them.                                   *)

\* A key of the sequence.
LEMMA KeyTyped ==
  ASSUME AccountsIInv, NEW k \in DOMAIN keys
  PROVE  keys[k] \in Key /\ k \in Nat /\ k \in 1..Len(keys) /\ DOMAIN keys = 1..Len(keys)
BY LenProperties DEF AccountsIInv, TypeOK

LEMMA RequestStep == ASSUME AccountsIInv, NEW t \in Requests, Request(t) PROVE AccountsIInv'
<1>0. registered \subseteq Users /\ active \subseteq registered /\ served \in 0..MaxRequests
  BY DEF AccountsIInv, TypeOK
<1>1. ASSUME NEW u \in registered, HandleLogin(t, u) PROVE AccountsIInv'
  <2>1. /\ Serve(t, "login", u, served, "none", "newSession")
        /\ served \in Users \cup Nat /\ "none" \in Roles \cup KeyRoles
    BY <1>0, <1>1 DEF HandleLogin, Roles
  <2> QED BY <1>0, <2>1, ServeKeeps
<1>2. ASSUME NEW u \in registered, NEW y \in registered, AdminRequest(t, u, y) PROVE AccountsIInv'
  <2>1. PICK op \in {"deactivate", "activate", "grant", "revoke"} :
          Serve(t, op, u, y, "none", "admin")
    BY <1>2 DEF AdminRequest
  <2>2. u \in Users /\ y \in Users \cup Nat /\ "none" \in Roles \cup KeyRoles
    BY <1>0 DEF Roles
  <2> QED BY <2>1, <2>2, ServeKeeps
<1>3. ASSUME NEW u \in registered, NEW r \in {"read", "write"},
             HandleCreateProjectKey(t, u, r) \/ HandleCreatePersonalKey(t, u, r)
      PROVE  AccountsIInv'
  <2>1. PICK op \in {"projectKey", "personalKey"} : Serve(t, op, u, u, r, "lockOwner")
    BY <1>3 DEF HandleCreateProjectKey, HandleCreatePersonalKey
  <2>2. u \in Users /\ u \in Users \cup Nat /\ r \in Roles \cup KeyRoles
    BY <1>0 DEF KeyRoles
  <2> QED BY <2>1, <2>2, ServeKeeps
<1>4. ASSUME NEW k \in DOMAIN keys, NEW minRole \in {"member", "admin"}, IdentifyKey(t, k, minRole)
      PROVE  AccountsIInv'
  <2>1. Serve(t, "useKey", keys[k].by, k, MembershipRoleToKeyRole[minRole], "access")
    BY <1>4 DEF IdentifyKey
  <2>2. /\ keys[k].by \in Users /\ k \in Users \cup Nat
        /\ MembershipRoleToKeyRole[minRole] \in Roles \cup KeyRoles
    BY KeyTyped DEF Key, MembershipRoleToKeyRole, KeyRoles
  <2> QED BY <2>1, <2>2, ServeKeeps
<1> QED BY <1>1, <1>2, <1>3, <1>4 DEF Request

\* A key that is deleted or expires.
LEMMA KeyChanged ==
  ASSUME AccountsIInv, NEW k \in DOMAIN keys, NEW key \in Key, keys' = [keys EXCEPT ![k] = key],
         ~(key.active /\ ~key.expired)
  PROVE  /\ keys' \in Seq(Key) /\ DOMAIN keys \subseteq DOMAIN keys'
         /\ \A type, u : KeysLike(type, u)' \subseteq KeysLike(type, u)
<1>1. keys \in Seq(Key) /\ k \in 1..Len(keys) /\ DOMAIN keys = 1..Len(keys)
  BY KeyTyped DEF AccountsIInv, TypeOK
<1>2. keys' \in Seq(Key) /\ DOMAIN keys = DOMAIN keys'
  BY <1>1, ExceptSeq
<1>3. \A x \in DOMAIN keys : keys'[x] = IF x = k THEN key ELSE keys[x]
  BY <1>1
<1>4. LiveKeys' \subseteq LiveKeys \ {k}
  BY <1>2, <1>3 DEF LiveKeys
<1>5. \A type, u : KeysLike(type, u)' \subseteq KeysLike(type, u)
  BY <1>3, <1>4 DEF KeysLike, LiveKeys
<1> QED BY <1>2, <1>5

LEMMA QuietSteps ==
  ASSUME AccountsIInv,
         \/ \E u \in Users : HandleRegister(u) \/ UpsertPlatformRole(u)
         \/ \E u \in Users, r \in Roles : MemberChanges(u, r)
         \/ \E x \in sessions : HandleLogout(x) \/ ExpireSession(x)
  PROVE  AccountsIInv'
<1> USE TablesTyped
<1>1. UNCHANGED keys /\ UNCHANGED <<pc, arg, want, attempt, lock, granted>>
  BY DEF HandleRegister, UpsertPlatformRole, MemberChanges, HandleLogout, ExpireSession, Once
<1>2. served' \in 0..MaxRequests /\ faults' \in 0..MaxFaults
  BY AccountsAssumption DEF HandleRegister, UpsertPlatformRole, MemberChanges, HandleLogout,
     ExpireSession, Once, Fault, AccountsIInv, TypeOK
<1>3. TablesOK' /\ registered \subseteq registered'
  BY DEF HandleRegister, UpsertPlatformRole, MemberChanges, HandleLogout, ExpireSession, TablesOK
<1>4. \A type, u : KeysLike(type, u)' \subseteq KeysLike(type, u)
  BY <1>1 DEF KeysLike, LiveKeys
<1> QED BY <1>1, <1>2, <1>3, <1>4, QuietKeeps

LEMMA KeySteps ==
  ASSUME AccountsIInv, NEW k \in DOMAIN keys, DeleteKey(k) \/ ExpireKey(k)
  PROVE  AccountsIInv'
<1>1. /\ UNCHANGED <<registered, active, admins, sessions, member>>
      /\ UNCHANGED <<pc, arg, want, attempt, lock, granted>>
      /\ served' \in 0..MaxRequests /\ faults' \in 0..MaxFaults
  BY AccountsAssumption DEF DeleteKey, ExpireKey, Once, Fault, AccountsIInv, TypeOK
<1>2. PICK key \in Key : keys' = [keys EXCEPT ![k] = key] /\ ~(key.active /\ ~key.expired)
  <2>1. CASE DeleteKey(k)
    <3>1. /\ [keys[k] EXCEPT !.active = FALSE] \in Key
          /\ [keys[k] EXCEPT !.active = FALSE].active = FALSE
      BY KeyTyped DEF Key
    <3> QED BY <2>1, <3>1 DEF DeleteKey
  <2>2. CASE ExpireKey(k)
    <3>1. /\ [keys[k] EXCEPT !.expired = TRUE] \in Key
          /\ [keys[k] EXCEPT !.expired = TRUE].expired = TRUE
      BY KeyTyped DEF Key
    <3> QED BY <2>2, <3>1 DEF ExpireKey
  <2> QED BY <2>1, <2>2
<1>3. /\ keys' \in Seq(Key) /\ DOMAIN keys \subseteq DOMAIN keys'
      /\ \A type, u : KeysLike(type, u)' \subseteq KeysLike(type, u)
  BY <1>2, KeyChanged
<1>4. TablesOK'
  BY <1>1, <1>3, TablesTyped DEF TablesOK
<1> QED BY <1>1, <1>3, <1>4, QuietKeeps

-----------------------------------------------------------------------------
(* The invariant.                                                          *)

LEMMA AccountsInit == Init => AccountsIInv
<1> SUFFICES ASSUME Init PROVE AccountsIInv
  OBVIOUS
<1>1. TypeOK
  <2>1. <<>> \in Seq(Key)
    OBVIOUS
  <2> QED BY <2>1, AccountsAssumption DEF Init, TypeOK, Roles, KeyRoles, Steps
<1>2. AskedInv /\ CountInv
  BY DEF Init, AskedInv, CountInv, Guarded, Creating
<1>3. KeysWithinLimit
  <2>1. \A type, u : KeysLike(type, u) = {}
    BY DEF Init, KeysLike, LiveKeys
  <2> QED BY <2>1, FS_EmptySet, AccountsAssumption DEF KeysWithinLimit
<1> QED BY <1>1, <1>2, <1>3 DEF AccountsIInv

LEMMA AccountsNext == AccountsIInv /\ [Next]_vars => AccountsIInv'
<1> SUFFICES ASSUME AccountsIInv, [Next]_vars PROVE AccountsIInv'
  OBVIOUS
<1>1. ASSUME NEW t \in Requests, Step(t) PROVE AccountsIInv'
  BY <1>1, AdminSteps, GuardedSteps, CommitSteps, DeactivateStep, CreatingSteps, CreateAPIKeyStep
     DEF Step
<1>2. ASSUME NEW t \in Requests, Abort(t) PROVE AccountsIInv'
  BY <1>2, RefuseKeeps, FaultsTyped DEF Abort
<1>3. CASE UNCHANGED vars
  <2>1. /\ UNCHANGED <<registered, active, admins, sessions, member, keys, served, faults>>
        /\ UNCHANGED <<pc, arg, want, attempt, lock, granted>>
    BY <1>3 DEF vars, tables
  <2>2. TablesOK' /\ served' \in 0..MaxRequests /\ faults' \in 0..MaxFaults
    BY <2>1 DEF AccountsIInv, TypeOK, TablesOK
  <2>3. \A type, u : KeysLike(type, u)' \subseteq KeysLike(type, u)
    BY <2>1 DEF KeysLike, LiveKeys
  <2> QED BY <2>1, <2>2, <2>3, QuietKeeps
<1> QED BY <1>1, <1>2, <1>3, RequestStep, QuietSteps, KeySteps DEF Next

\* The rows that CreateProjectKey and CreatePersonalKey lock before they count are
\* what keeps simultaneous creations within the limits, for any limits and users.
THEOREM KeysStayWithinLimit == Spec => []AccountsInv
<1>1. AccountsIInv => AccountsInv
  BY DEF AccountsIInv, AccountsInv
<1> QED BY <1>1, AccountsInit, AccountsNext, PTL DEF Spec

-----------------------------------------------------------------------------
(* What a key is let in with.                                              *)

\* Only the check of RequireProjectRole gives a key at it a role.
LEMMA GrantedByCheck ==
  ASSUME AccountsIInv, [Next]_vars, NEW t \in Requests, pc[t] = "access", granted'[t] # "none"
  PROVE  CheckAPIKeyProjectAccess(t) /\ granted'[t] = EffectiveRole(arg[t].of)
<1>1. granted[t] = "none" /\ granted \in [Requests -> KeyRoles]
  BY DEF AccountsIInv, TypeOK, AskedInv
<1>2. ASSUME NEW x \in Requests, CheckAPIKeyProjectAccess(x)
      PROVE  CheckAPIKeyProjectAccess(t) /\ granted'[t] = EffectiveRole(arg[t].of)
  <2>1. \/ granted' = granted
        \/ granted' = [granted EXCEPT ![x] = EffectiveRole(arg[x].of)]
    BY <1>2 DEF CheckAPIKeyProjectAccess, Refuse
  <2> QED BY <1>1, <1>2, <2>1
<1>3. ASSUME NEW x \in Requests, Request(x) PROVE FALSE
  <2>1. pc[x] = "idle" /\ granted' = [granted EXCEPT ![x] = "none"]
    BY <1>3 DEF Request, HandleLogin, AdminRequest, HandleCreateProjectKey, HandleCreatePersonalKey,
                IdentifyKey, Serve
  <2> QED BY <1>1, <2>1
<1>4. ASSUME NEW x \in Requests, Step(x), ~CheckAPIKeyProjectAccess(x) PROVE FALSE
  <2>1. UNCHANGED granted
    BY <1>4 DEF Step, RequirePlatformAdmin, AdminGetUserByID, CountActivePlatformAdminsForUpdate,
         LockAdmin, ChangeTarget, CheckRemaining, CommitRevoke, CommitDeactivate, DeleteUserSessions,
         HandleActivateUser, GrantPlatformRole, CreateSession, LockOwnerRow, CountKeys, CreateAPIKey,
         Deadlock, Refuse, Continue
  <2> QED BY <1>1, <2>1
<1>5. ASSUME UNCHANGED granted PROVE FALSE
  BY <1>1, <1>5
<1>6. \/ \E x \in Requests : Request(x) \/ Step(x)
      \/ UNCHANGED granted
  <2>1. ASSUME NEW x \in Requests, Abort(x) PROVE UNCHANGED granted
    BY <2>1 DEF Abort
  <2>2. ASSUME NEW u \in Users, HandleRegister(u) \/ UpsertPlatformRole(u) PROVE UNCHANGED granted
    BY <2>2 DEF HandleRegister, UpsertPlatformRole, Once
  <2>3. ASSUME NEW u \in Users, NEW r \in Roles, MemberChanges(u, r) PROVE UNCHANGED granted
    BY <2>3 DEF MemberChanges, Once
  <2>4. ASSUME NEW x \in sessions, HandleLogout(x) \/ ExpireSession(x) PROVE UNCHANGED granted
    BY <2>4 DEF HandleLogout, ExpireSession, Once
  <2>5. ASSUME NEW k \in DOMAIN keys, DeleteKey(k) \/ ExpireKey(k) PROVE UNCHANGED granted
    BY <2>5 DEF DeleteKey, ExpireKey, Once
  <2>6. UNCHANGED vars => UNCHANGED granted
    BY DEF vars
  <2> QED BY <2>1, <2>2, <2>3, <2>4, <2>5, <2>6 DEF Next
<1> QED BY <1>2, <1>3, <1>4, <1>5, <1>6

\* The role an API key gives is never more than its own nor, for a personal key, its
\* creator's on the project.
LEMMA EffectiveRoleBound ==
  ASSUME AccountsIInv, NEW k \in DOMAIN keys, EffectiveRole(k) # "none"
  PROVE  /\ keys[k].active /\ ~keys[k].expired
         /\ KeyRoleRank[EffectiveRole(k)] <= KeyRoleRank[keys[k].role]
         /\ keys[k].type = "personal" =>
              KeyRoleRank[EffectiveRole(k)] <= KeyRoleRank[MappedRole[member[keys[k].by]]]
<1>1. k \in LiveKeys /\ keys[k] \in Key
  BY KeyTyped DEF EffectiveRole
<1>2. MappedRole[member[keys[k].by]] \in KeyRoles /\ keys[k].role \in KeyRoles
  BY <1>1 DEF AccountsIInv, TypeOK, MappedRole, Roles, KeyRoles, Key
<1>3. \A r \in KeyRoles : KeyRoleRank[r] \in Nat
  BY DEF KeyRoles, KeyRoleRank
<1>4. keys[k].type \in {"project", "personal"}
  BY <1>1 DEF Key
<1>5. keys[k].active /\ ~keys[k].expired
  BY <1>1 DEF LiveKeys
<1>6. CASE keys[k].type = "project"
  BY <1>1, <1>2, <1>3, <1>5, <1>6 DEF EffectiveRole
<1>7. CASE keys[k].type = "personal"
  BY <1>1, <1>2, <1>3, <1>5, <1>7 DEF EffectiveRole
<1> QED BY <1>4, <1>6, <1>7

\* RequireProjectRole lets a key in that is live then, with no more than its own role
\* and its creator's membership then, whatever happened since IdentityResolver.
THEOREM KeyAccessRight == Spec => KeyAccess
<1>1. AccountsIInv /\ [Next]_vars => [AccessRight]_vars
  <2> SUFFICES ASSUME AccountsIInv, [Next]_vars, NEW t \in Requests, pc[t] = "access",
                      granted'[t] # "none"
               PROVE  LetIn(t)
    BY DEF AccessRight
  <2>1. granted'[t] = EffectiveRole(arg[t].of) /\ arg[t].of \in DOMAIN keys
    BY GrantedByCheck DEF AccountsIInv, AskedInv
  <2> QED BY <2>1, EffectiveRoleBound DEF LetIn
<1> QED BY <1>1, AccountsInit, AccountsNext, PTL DEF Spec, KeyAccess

-----------------------------------------------------------------------------
(* The last-admin guard, for any number of requests.                       *)

\* A step of request t, which takes no admin away but the one t holds the row of.
LEMMA LockedKept ==
  ASSUME AccountsIInv, LockedInv, NEW t \in Requests,
         \A x \in Requests \ {t} : pc'[x] = pc[x] /\ arg'[x] = arg[x] /\ want'[x] = want[x],
         \A r \in Rows, x \in Requests \ {t} : lock'[r] = x <=> lock[r] = x,
         \A u \in ActiveAdmins :
           \/ u \in ActiveAdmins'
           \/ lock[<<"role", u>>] = t \/ lock[<<"user", u>>] = t,
         (\E r \in Rows : lock'[r] = t) =>
           pc'[t] \in {"lock", "count", "commit", "countKeys", "insertKey"},
         pc'[t] \in {"count", "commit"} => want'[t] = {} /\ lock'[TargetRow(t)'] = t,
         pc'[t] \in {"lock", "count", "commit"} =>
           \A u \in Users \ {arg'[t].of} : Holds(t, u)' => u \in ActiveAdmins'
  PROVE  LockedInv'
<1> SUFFICES ASSUME NEW x \in Requests \ {t}
             PROVE  /\ (\E r \in Rows : lock'[r] = x) =>
                         pc'[x] \in {"lock", "count", "commit", "countKeys", "insertKey"}
                    /\ pc'[x] \in {"count", "commit"} =>
                         want'[x] = {} /\ lock'[TargetRow(x)'] = x
                    /\ pc'[x] \in {"lock", "count", "commit"} =>
                         \A u \in Users \ {arg'[x].of} : Holds(x, u)' => u \in ActiveAdmins'
  BY DEF LockedInv
<1>1. (\E r \in Rows : lock'[r] = x) =>
        pc'[x] \in {"lock", "count", "commit", "countKeys", "insertKey"}
  BY DEF LockedInv
<1>2. ASSUME pc'[x] \in {"count", "commit"} PROVE want'[x] = {} /\ lock'[TargetRow(x)'] = x
  <2>1. TargetRow(x) \in Rows /\ want[x] = {} /\ lock[TargetRow(x)] = x
    BY <1>2, TargetTyped DEF LockedInv, Guarded
  <2>2. TargetRow(x)' = TargetRow(x)
    BY DEF TargetRow
  <2> QED BY <2>1, <2>2
<1>3. ASSUME pc'[x] \in {"lock", "count", "commit"}, NEW u \in Users \ {arg'[x].of}, Holds(x, u)'
      PROVE  u \in ActiveAdmins'
  <2>1. <<"role", u>> \in Rows /\ <<"user", u>> \in Rows
    BY DEF Rows
  <2>2. lock[<<"role", u>>] = x /\ lock[<<"user", u>>] = x
    BY <1>3, <2>1 DEF Holds
  <2>3. u \in ActiveAdmins
    BY <1>3, <2>2 DEF LockedInv, Holds
  <2> QED BY <2>2, <2>3
<1> QED BY <1>1, <1>2, <1>3

\* A request that holds no rows any more.
LEMMA LockedFreed ==
  ASSUME AccountsIInv, LockedInv, NEW t \in Requests, EndTx(t), pc'[t] \notin {"count", "commit"},
         \A x \in Requests \ {t} : pc'[x] = pc[x] /\ arg'[x] = arg[x],
         \A u \in ActiveAdmins :
           \/ u \in ActiveAdmins'
           \/ lock[<<"role", u>>] = t \/ lock[<<"user", u>>] = t
  PROVE  LockedInv'
<1>1. /\ \A x \in Requests \ {t} : want'[x] = want[x]
      /\ \A r \in Rows : lock'[r] = IF lock[r] = t THEN None ELSE lock[r]
  BY EndTxFacts DEF AccountsIInv
<1>2. /\ \A r \in Rows, x \in Requests \ {t} : lock'[r] = x <=> lock[r] = x
      /\ \A r \in Rows : lock'[r] # t
  BY <1>1, AccountsAssumption
<1>3. \A u \in Users : ~Holds(t, u)'
  BY <1>2 DEF Holds, Rows
<1> QED BY <1>1, <1>2, <1>3, LockedKept

LEMMA AnswerFrees ==
  ASSUME AccountsIInv, LockedInv, NEW t \in Requests, Answer(t),
         active \subseteq active', admins \subseteq admins'
  PROVE  LockedInv'
<1>1. pc'[t] = "idle" /\ \A x \in Requests \ {t} : pc'[x] = pc[x] /\ arg'[x] = arg[x]
  BY DEF Answer, Go, AccountsIInv, TypeOK
<1>2. ActiveAdmins \subseteq ActiveAdmins'
  BY DEF ActiveAdmins
<1> QED BY <1>1, <1>2, LockedFreed DEF Answer

\* A step outside the requests, or one that only accepts a request.
LEMMA LockedQuiet ==
  ASSUME AccountsIInv, LockedInv, UNCHANGED <<want, lock>>,
         active \subseteq active', admins \subseteq admins',
         \A x \in Requests :
           \/ pc'[x] = pc[x] /\ arg'[x] = arg[x]
           \/ /\ pc[x] \notin {"lock", "count", "commit", "countKeys", "insertKey"}
              /\ pc'[x] \notin {"count", "commit"}
  PROVE  LockedInv'
<1> SUFFICES ASSUME NEW x \in Requests
             PROVE  /\ (\E r \in Rows : lock'[r] = x) =>
                         pc'[x] \in {"lock", "count", "commit", "countKeys", "insertKey"}
                    /\ pc'[x] \in {"count", "commit"} =>
                         want'[x] = {} /\ lock'[TargetRow(x)'] = x
                    /\ pc'[x] \in {"lock", "count", "commit"} =>
                         \A u \in Users \ {arg'[x].of} : Holds(x, u)' => u \in ActiveAdmins'
  BY DEF LockedInv
<1>1. CASE pc'[x] = pc[x] /\ arg'[x] = arg[x]
  <2>1. TargetRow(x)' = TargetRow(x) /\ ActiveAdmins \subseteq ActiveAdmins'
    BY <1>1 DEF TargetRow, ActiveAdmins
  <2>2. \A u \in Users : Holds(x, u)' <=> Holds(x, u)
    BY DEF Holds
  <2> QED BY <1>1, <2>1, <2>2 DEF LockedInv
<1>2. CASE /\ pc[x] \notin {"lock", "count", "commit", "countKeys", "insertKey"}
           /\ pc'[x] \notin {"count", "commit"}
  <2>1. \A r \in Rows : lock'[r] # x
    BY <1>2 DEF LockedInv
  <2>2. \A u \in Users : ~Holds(x, u)'
    BY <2>1 DEF Holds, Rows
  <2> QED BY <1>2, <2>1, <2>2
<1> QED BY <1>1, <1>2

LEMMA LockedRequest ==
  ASSUME AccountsIInv, LockedInv, NEW t \in Requests, Request(t)
  PROVE  LockedInv'
<1>1. ASSUME NEW op, NEW u, NEW y, NEW r, NEW s, Serve(t, op, u, y, r, s),
             s \notin {"count", "commit"}
      PROVE  LockedInv'
  <2>1. /\ pc[t] = "idle" /\ pc'[t] = s /\ UNCHANGED <<active, admins, want, lock>>
        /\ \A x \in Requests \ {t} : pc'[x] = pc[x] /\ arg'[x] = arg[x]
    BY <1>1 DEF Serve, Go, tables, AccountsIInv, TypeOK
  <2> QED BY <1>1, <2>1, LockedQuiet
<1>2. ASSUME NEW u \in registered, HandleLogin(t, u) PROVE LockedInv'
  BY <1>1, <1>2 DEF HandleLogin
<1>3. ASSUME NEW u \in registered, NEW y \in registered, AdminRequest(t, u, y) PROVE LockedInv'
  BY <1>1, <1>3 DEF AdminRequest
<1>4. ASSUME NEW u \in registered, NEW r,
             HandleCreateProjectKey(t, u, r) \/ HandleCreatePersonalKey(t, u, r)
      PROVE  LockedInv'
  BY <1>1, <1>4 DEF HandleCreateProjectKey, HandleCreatePersonalKey
<1>5. ASSUME NEW k, NEW m, IdentifyKey(t, k, m) PROVE LockedInv'
  BY <1>1, <1>5 DEF IdentifyKey
<1> QED BY <1>2, <1>3, <1>4, <1>5 DEF Request

\* The steps under the guard before the commit.
LEMMA LockedSteps ==
  ASSUME AccountsIInv, LockedInv, NEW t \in Requests,
         \/ RequirePlatformAdmin(t) \/ AdminGetUserByID(t)
         \/ CountActivePlatformAdminsForUpdate(t) \/ \E x \in want[t] : LockAdmin(t, x)
         \/ ChangeTarget(t) \/ CheckRemaining(t) \/ Deadlock(t)
  PROVE  LockedInv'
<1> USE AccountsAssumption DEF tables
<1>1. CASE Refuse(t)
  BY <1>1, AnswerFrees DEF Refuse, End
<1>2. CASE (RequirePlatformAdmin(t) \/ AdminGetUserByID(t)) /\ ~Refuse(t)
  <2>1. /\ pc[t] \in {"admin", "read"} /\ UNCHANGED <<tables, arg, want, lock>>
        /\ \E s : pc' = [pc EXCEPT ![t] = s] /\ s \notin {"count", "commit"}
    <3>1. CASE RequirePlatformAdmin(t)
      BY <1>2, <3>1 DEF RequirePlatformAdmin, Continue, Go
    <3>2. CASE AdminGetUserByID(t)
      <4>1. /\ pc[t] = "read" /\ pc' = [pc EXCEPT ![t] = NextOf[arg[t].op]]
            /\ UNCHANGED <<tables, arg, want, lock>>
        BY <1>2, <3>2 DEF AdminGetUserByID, Continue, Go
      <4>2. arg[t].op \in {"deactivate", "activate", "grant"}
        BY <4>1 DEF AccountsIInv, AskedInv
      <4>3. NextOf[arg[t].op] \notin {"count", "commit"}
        BY <4>2 DEF NextOf
      <4> QED BY <4>1, <4>3
    <3> QED BY <1>2, <3>1, <3>2
  <2>2. /\ pc'[t] \notin {"count", "commit"}
        /\ \A x \in Requests \ {t} : pc'[x] = pc[x] /\ arg'[x] = arg[x]
    BY <2>1 DEF AccountsIInv, TypeOK
  <2> QED BY <2>1, <2>2, LockedQuiet
<1>3. CASE CountActivePlatformAdminsForUpdate(t)
  <2>1. /\ pc[t] = "find" /\ pc' = [pc EXCEPT ![t] = "lock"] /\ UNCHANGED <<tables, arg, lock>>
        /\ want' = [want EXCEPT ![t] = {"role"} \X ActiveAdmins]
    BY <1>3 DEF CountActivePlatformAdminsForUpdate, Continue, Go
  <2>2. /\ pc'[t] = "lock"
        /\ \A x \in Requests \ {t} : pc'[x] = pc[x] /\ arg'[x] = arg[x] /\ want'[x] = want[x]
    BY <2>1 DEF AccountsIInv, TypeOK
  <2>3. \A r \in Rows : lock'[r] # t
    BY <2>1 DEF LockedInv
  <2>4. \A u \in Users : ~Holds(t, u)'
    BY <2>3 DEF Holds, Rows
  <2> QED BY <2>1, <2>2, <2>3, <2>4, LockedKept DEF ActiveAdmins
<1>4. ASSUME NEW x \in want[t], LockAdmin(t, x) PROVE LockedInv'
  <2> DEFINE u == x[2]
  <2>1. /\ pc[t] = "lock" /\ UNCHANGED <<tables, pc, arg>> /\ lock[x] \in {None, t}
        /\ \/ UNCHANGED lock
           \/ u \in ActiveAdmins /\ lock' = [lock EXCEPT ![x] = t]
        /\ \E W : want' = [want EXCEPT ![t] = W]
    BY <1>4 DEF LockAdmin
  <2>2. x \in Rows /\ \A y \in Requests \ {t} : want'[y] = want[y]
    BY <2>1 DEF AccountsIInv, TypeOK
  <2>3. /\ \A r \in Rows, y \in Requests \ {t} : lock'[r] = y <=> lock[r] = y
        /\ \A r \in Rows : lock'[r] = t => lock[r] = t \/ (r = x /\ u \in ActiveAdmins)
    BY <2>1, <2>2 DEF AccountsIInv, TypeOK
  <2>4. ASSUME NEW v \in Users \ {arg'[t].of}, Holds(t, v)' PROVE v \in ActiveAdmins'
    <3>1. <<"role", v>> \in Rows /\ <<"user", v>> \in Rows
      BY DEF Rows
    <3>2. lock'[<<"role", v>>] = t /\ lock'[<<"user", v>>] = t
      BY <2>4 DEF Holds
    <3>3. v \in ActiveAdmins
      BY <2>1, <2>3, <3>1, <3>2 DEF LockedInv, Holds
    <3> QED BY <2>1, <3>3 DEF ActiveAdmins
  <2> QED BY <2>1, <2>2, <2>3, <2>4, LockedKept DEF ActiveAdmins
<1>5. CASE ChangeTarget(t) /\ ~Refuse(t)
  <2>1. /\ pc[t] = "lock" /\ pc' = [pc EXCEPT ![t] = "count"] /\ UNCHANGED <<tables, arg, want>>
        /\ want[t] = {} /\ lock[TargetRow(t)] \in {None, t}
        /\ lock' = [lock EXCEPT ![TargetRow(t)] = t]
    BY <1>5 DEF ChangeTarget, Continue, Go, TargetRow
  <2>2. TargetRow(t) \in Rows
    BY <2>1, TargetTyped DEF Guarded
  <2>3. TargetRow(t) = TargetRow(t)' /\ TargetRow(t) \in {<<"role", arg[t].of>>, <<"user", arg[t].of>>}
    BY <2>1 DEF TargetRow
  <2>4. /\ lock'[TargetRow(t)] = t /\ pc'[t] = "count"
        /\ \A x \in Requests \ {t} : pc'[x] = pc[x]
        /\ \A r \in Rows : lock'[r] = t => lock[r] = t \/ r = TargetRow(t)
        /\ \A r \in Rows, y \in Requests \ {t} : lock'[r] = y <=> lock[r] = y
    BY <2>1, <2>2 DEF AccountsIInv, TypeOK
  <2>5. ASSUME NEW v \in Users \ {arg'[t].of}, Holds(t, v)' PROVE v \in ActiveAdmins'
    <3>1. <<"role", v>> \in Rows /\ <<"user", v>> \in Rows
      BY DEF Rows
    <3>2. v # arg[t].of /\ <<"role", v>> # TargetRow(t) /\ <<"user", v>> # TargetRow(t)
      BY <2>1, <2>3, <2>5
    <3>3. lock[<<"role", v>>] = t /\ lock[<<"user", v>>] = t
      BY <2>4, <2>5, <3>1, <3>2 DEF Holds
    <3>4. v \in ActiveAdmins
      BY <2>1, <3>2, <3>3 DEF LockedInv, Holds
    <3> QED BY <2>1, <3>4 DEF ActiveAdmins
  <2> QED BY <2>1, <2>3, <2>4, <2>5, LockedKept DEF ActiveAdmins
<1>6. CASE CheckRemaining(t) /\ ~Refuse(t)
  <2>1. /\ pc[t] = "count" /\ pc' = [pc EXCEPT ![t] = "commit"]
        /\ UNCHANGED <<tables, arg, want, lock>>
    BY <1>6 DEF CheckRemaining, Continue, Go
  <2>2. pc'[t] = "commit" /\ \A x \in Requests \ {t} : pc'[x] = pc[x]
    BY <2>1 DEF AccountsIInv, TypeOK
  <2>3. TargetRow(t)' = TargetRow(t) /\ ActiveAdmins' = ActiveAdmins
        /\ \A u \in Users : Holds(t, u)' <=> Holds(t, u)
    BY <2>1 DEF TargetRow, ActiveAdmins, Holds
  <2> QED BY <2>1, <2>2, <2>3, LockedKept DEF LockedInv
<1>7. CASE Deadlock(t) /\ ~Refuse(t)
  <2>1. /\ pc' = [pc EXCEPT ![t] = "find"] /\ UNCHANGED <<tables, arg>>
        /\ want' = [want EXCEPT ![t] = {}] /\ lock' = Unlocked(t)
    BY <1>7 DEF Deadlock, Go
  <2>2. /\ pc'[t] = "find"
        /\ \A x \in Requests \ {t} : pc'[x] = pc[x] /\ want'[x] = want[x]
        /\ \A r \in Rows, y \in Requests \ {t} : lock'[r] = y <=> lock[r] = y
        /\ \A r \in Rows : lock'[r] # t
    BY <2>1 DEF AccountsIInv, TypeOK, Unlocked
  <2> QED BY <2>1, <2>2, LockedKept DEF ActiveAdmins
<1> QED BY <1>1, <1>2, <1>3, <1>4, <1>5, <1>6, <1>7

\* A removal commits: nobody else holds both rows of the user it removes.
LEMMA LockedCommit ==
  ASSUME AccountsIInv, LockedInv, NEW t \in Requests, CommitRevoke(t) \/ CommitDeactivate(t)
  PROVE  LockedInv'
<1>1. /\ pc[t] = "commit" /\ EndTx(t) /\ ActiveAdmins \ {arg[t].of} \subseteq ActiveAdmins'
      /\ pc'[t] \in {"idle", "sessions"}
      /\ \A x \in Requests \ {t} : pc'[x] = pc[x] /\ arg'[x] = arg[x]
  BY DEF CommitRevoke, CommitDeactivate, ActiveAdmins, End, Answer, Go, AccountsIInv, TypeOK
<1>2. lock[TargetRow(t)] = t
  BY <1>1 DEF LockedInv
<1>3. TargetRow(t) \in {<<"role", arg[t].of>>, <<"user", arg[t].of>>}
  BY DEF TargetRow
<1> QED BY <1>1, <1>2, <1>3, LockedFreed

\* The other steps of a request take no admin away.
LEMMA OtherSteps ==
  ASSUME AccountsIInv, LockedInv, NEW t \in Requests,
         \/ DeleteUserSessions(t) \/ HandleActivateUser(t) \/ GrantPlatformRole(t)
         \/ CreateSession(t) \/ LockOwnerRow(t) \/ CountKeys(t) \/ CreateAPIKey(t)
         \/ CheckAPIKeyProjectAccess(t) \/ Abort(t)
  PROVE  LockedInv'
<1> USE DEF tables
<1>1. CASE Answer(t) /\ active \subseteq active' /\ admins \subseteq admins'
  BY <1>1, AnswerFrees
<1>2. CASE LockOwnerRow(t)
  <2>1. /\ pc' = [pc EXCEPT ![t] = "countKeys"] /\ UNCHANGED <<active, admins, arg, want>>
        /\ lock[OwnerRow(t)] = None /\ lock' = [lock EXCEPT ![OwnerRow(t)] = t]
    BY <1>2 DEF LockOwnerRow, Continue, Go
  <2>2. /\ \A r \in Rows, x \in Requests \ {t} : lock'[r] = x <=> lock[r] = x
        /\ pc'[t] = "countKeys" /\ \A x \in Requests \ {t} : pc'[x] = pc[x]
    BY <2>1, AccountsAssumption DEF AccountsIInv, TypeOK
  <2> QED BY <2>1, <2>2, LockedKept DEF ActiveAdmins
<1>3. CASE CountKeys(t) /\ ~Refuse(t)
  <2>1. /\ pc' = [pc EXCEPT ![t] = "insertKey"]
        /\ UNCHANGED <<active, admins, arg, want, lock>>
    BY <1>3 DEF CountKeys, Continue, Go
  <2>2. pc'[t] = "insertKey" /\ \A x \in Requests \ {t} : pc'[x] = pc[x]
    BY <2>1 DEF AccountsIInv, TypeOK
  <2> QED BY <2>1, <2>2, LockedKept DEF ActiveAdmins
<1>4. Refuse(t) => Answer(t) /\ UNCHANGED <<active, admins>>
  BY DEF Refuse, End
<1> QED BY <1>1, <1>2, <1>3, <1>4 DEF DeleteUserSessions, HandleActivateUser, GrantPlatformRole,
     CreateSession, CountKeys, CreateAPIKey, CheckAPIKeyProjectAccess, Abort, End

LEMMA LockedInit == Init => LockedInv
BY AccountsAssumption DEF Init, LockedInv

LEMMA LockedNext == AccountsIInv /\ LockedInv /\ [Next]_vars => LockedInv'
<1> SUFFICES ASSUME AccountsIInv, LockedInv, [Next]_vars PROVE LockedInv'
  OBVIOUS
<1>1. ASSUME NEW t \in Requests, Request(t) \/ Step(t) \/ Abort(t) PROVE LockedInv'
  BY <1>1, LockedRequest, LockedSteps, LockedCommit, OtherSteps DEF Step
<1>2. CASE \/ \E u \in Users : HandleRegister(u) \/ UpsertPlatformRole(u)
           \/ \E u \in Users, r \in Roles : MemberChanges(u, r)
           \/ \E x \in sessions : HandleLogout(x) \/ ExpireSession(x)
  <2>1. UNCHANGED <<pc, arg, want, lock>> /\ active \subseteq active' /\ admins \subseteq admins'
    BY <1>2 DEF HandleRegister, UpsertPlatformRole, MemberChanges, HandleLogout, ExpireSession, Once
  <2> QED BY <2>1, LockedQuiet
<1>3. ASSUME NEW k \in DOMAIN keys, DeleteKey(k) \/ ExpireKey(k) PROVE LockedInv'
  <2>1. UNCHANGED <<pc, arg, want, lock, active, admins>>
    BY <1>3 DEF DeleteKey, ExpireKey, Once
  <2> QED BY <2>1, LockedQuiet
<1>4. CASE UNCHANGED vars
  <2>1. UNCHANGED <<pc, arg, want, lock, active, admins>>
    BY <1>4 DEF vars, tables
  <2> QED BY <2>1, LockedQuiet
<1> QED BY <1>1, <1>2, <1>3, <1>4 DEF Next

\* However many requests run and whatever they do, a removal by HandleDeactivateUser
\* or HandleRevokePlatformRole that has locked an admin other than the one it removes
\* leaves an active platform admin.
THEOREM RemovalsAreGuarded == Spec => RemovalsLeaveAdmin
<1>1. AccountsIInv /\ LockedInv /\ [Next]_vars => [LockedAdminStays]_vars
  <2> SUFFICES ASSUME AccountsIInv, LockedInv, Next, NEW t \in Requests, pc[t] = "commit",
                      NEW u \in Users \ {arg[t].of}, Holds(t, u)
               PROVE  u \in ActiveAdmins'
    BY DEF LockedAdminStays
  <2>1. u \in ActiveAdmins
    BY DEF LockedInv
  <2>2. ASSUME NEW x \in Requests, CommitRevoke(x) \/ CommitDeactivate(x) PROVE u \in ActiveAdmins'
    <3>1. /\ pc[x] = "commit" /\ ActiveAdmins' = ActiveAdmins \ {arg[x].of}
          /\ lock[TargetRow(x)] = x
      BY <2>2 DEF CommitRevoke, CommitDeactivate, ActiveAdmins, LockedInv
    <3>2. u # arg[x].of
      BY <3>1 DEF Holds, TargetRow
    <3> QED BY <2>1, <3>1, <3>2
  <2>3. \/ \E x \in Requests : CommitRevoke(x) \/ CommitDeactivate(x)
        \/ active \subseteq active' /\ admins \subseteq admins'
    <3> USE DEF tables
    <3>1. ASSUME NEW x \in Requests, Request(x) PROVE UNCHANGED <<active, admins>>
      BY <3>1 DEF Request, HandleLogin, AdminRequest, HandleCreateProjectKey,
                  HandleCreatePersonalKey, IdentifyKey, Serve
    <3>2. ASSUME NEW x \in Requests, Step(x) \/ Abort(x), ~CommitRevoke(x), ~CommitDeactivate(x)
          PROVE  active \subseteq active' /\ admins \subseteq admins'
      BY <3>2 DEF Step, Abort, RequirePlatformAdmin, AdminGetUserByID,
           CountActivePlatformAdminsForUpdate, LockAdmin, ChangeTarget, CheckRemaining,
           DeleteUserSessions, HandleActivateUser, GrantPlatformRole, CreateSession, LockOwnerRow,
           CountKeys, CreateAPIKey, CheckAPIKeyProjectAccess, Deadlock, Refuse, Continue
    <3>3. ASSUME NEW x \in Users, HandleRegister(x) \/ UpsertPlatformRole(x)
          PROVE  active \subseteq active' /\ admins \subseteq admins'
      BY <3>3 DEF HandleRegister, UpsertPlatformRole
    <3>4. ASSUME NEW x \in Users, NEW r \in Roles, MemberChanges(x, r)
          PROVE  UNCHANGED <<active, admins>>
      BY <3>4 DEF MemberChanges
    <3>5. ASSUME NEW s \in sessions, HandleLogout(s) \/ ExpireSession(s)
          PROVE  UNCHANGED <<active, admins>>
      BY <3>5 DEF HandleLogout, ExpireSession
    <3>6. ASSUME NEW k \in DOMAIN keys, DeleteKey(k) \/ ExpireKey(k)
          PROVE  UNCHANGED <<active, admins>>
      BY <3>6 DEF DeleteKey, ExpireKey
    <3> QED BY <3>1, <3>2, <3>3, <3>4, <3>5, <3>6 DEF Next
  <2> QED BY <2>1, <2>2, <2>3 DEF ActiveAdmins
<1> QED BY <1>1, AccountsInit, AccountsNext, LockedInit, LockedNext, PTL DEF Spec, RemovalsLeaveAdmin
=============================================================================
