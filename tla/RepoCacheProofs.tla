--------------------------- MODULE RepoCacheProofs ---------------------------
(***************************************************************************)
(* Proofs about ProjectKeys and RepoCache, for any users, keys, projects,  *)
(* requests and jobs, any URLs and any bounds.                             *)
(***************************************************************************)
EXTENDS RepoCache, TLAPS, FiniteSetTheorems

-----------------------------------------------------------------------------
(* ProjectKeys: how requests end and go on.                                *)

LEMMA TxOperations == DOMAIN TxStart = {"create", "reassign", "generate"}
BY DEF TxStart

\* The end of a transaction answers t; the others stay where they are or stop
\* waiting for it.
LEMMA EndTxFacts ==
  ASSUME KeysTypeOK, NEW t \in Requests, NEW replaced \in BOOLEAN, EndTx(t, replaced)
  PROVE  /\ pc' \in [Requests -> Steps] /\ pc'[t] = "idle"
         /\ arg' \in [Requests -> Asked \cup {None}]
         /\ \A x \in Requests : pc'[x] # "idle" =>
              /\ x # t /\ pc[x] # "idle" /\ arg'[x] = arg[x]
              /\ \/ pc'[x] = pc[x]
                 \/ pc[x] = "lockWait" /\ pc'[x] = "deactivate"
                 \/ pc[x] = "deactivateWait" /\ pc'[x] = "insert"
         /\ rowLock' \in [Projects -> Requests \cup {None}]
         /\ deleting' \in [Projects -> Requests \cup {None}]
         /\ \A p \in Projects : deleting'[p] = IF deleting[p] = t THEN None ELSE deleting[p]
         /\ attempt' \in [Requests -> 0..MaxDeadlockRetries]
<1> USE DEF EndTx
<1>1. \A x \in Requests :
        \/ pc'[x] = "idle" \/ pc'[x] = pc[x]
        \/ pc[x] = "lockWait" /\ pc'[x] = "deactivate"
        \/ pc[x] = "deactivateWait" /\ pc'[x] = "insert"
  BY DEF Waiting, Passed
<1>2. pc' \in [Requests -> Steps] /\ pc'[t] = "idle"
  <2>1. \A x \in Requests : pc'[x] \in Steps
    BY <1>1 DEF KeysTypeOK, Steps, Waiting
  <2>2. pc' = [x \in Requests |-> pc'[x]] /\ pc'[t] = "idle"
    OBVIOUS
  <2> QED BY <2>1, <2>2
<1>3. \A x \in Requests : pc'[x] # "idle" => x # t /\ pc[x] # "idle" /\ arg'[x] = arg[x]
  BY <1>1, <1>2
<1>4. arg' \in [Requests -> Asked \cup {None}]
  BY DEF KeysTypeOK
<1>5. /\ rowLock' \in [Projects -> Requests \cup {None}]
      /\ deleting' \in [Projects -> Requests \cup {None}]
      /\ \A p \in Projects : deleting'[p] = IF deleting[p] = t THEN None ELSE deleting[p]
      /\ attempt' \in [Requests -> 0..MaxDeadlockRetries]
  BY ProjectKeysAssumption DEF KeysTypeOK
<1> QED BY <1>1, <1>2, <1>3, <1>4, <1>5

\* A transaction that ends keeps the invariant if what it writes keeps every key,
\* the projects that others refer to, and the assignments' references.
LEMMA EndTxKeeps ==
  ASSUME KeysIInv, NEW t \in Requests, NEW replaced \in BOOLEAN, EndTx(t, replaced),
         keys' \in [Keys -> [by : Users, active : BOOLEAN] \cup {None}],
         projects' \in [Projects -> Urls \cup {None}],
         assigned' \in [Projects -> Keys \cup {None}],
         \A k \in Keys : keys[k] # None => keys'[k] # None,
         \A x \in Requests \ {t} : pc[x] = "commit" /\ projects[arg[x].proj] # None
                                   => projects'[arg[x].proj] # None,
         AssignmentHolds'
  PROVE  KeysIInv'
<1> USE EndTxFacts DEF KeysIInv
<1>1. KeysTypeOK'
  BY DEF KeysTypeOK, EndTx
<1>2. AskedKey'
  BY DEF AskedKey, Assigning
<1>3. KeyChecked'
  BY TxOperations DEF KeyChecked, Assigning, AskedKey
<1>4. ProjectPinned'
  BY ProjectKeysAssumption DEF ProjectPinned, KeysTypeOK, Asked
<1> QED BY <1>1, <1>2, <1>3, <1>4

\* A refused request changes no table.
LEMMA RefuseKeeps == ASSUME KeysIInv, NEW t \in Requests, Refuse(t) PROVE KeysIInv'
BY EndTxKeeps DEF Refuse, KeysIInv, KeysTypeOK, AssignmentHolds

\* A request that goes on keeps the invariant if it may be where it goes.
LEMMA ContinueKeeps ==
  ASSUME KeysIInv, NEW t \in Requests, NEW s \in Steps \ {"idle", "cascade"}, Continue(t, s),
         pc[t] # "idle",
         rowLock' \in [Projects -> Requests \cup {None}],
         s \in {"verify"} \cup Assigning => arg[t].op \in DOMAIN TxStart,
         s \in Assigning /\ arg[t].op # "generate" => keys[arg[t].key] # None,
         s = "commit" => /\ deleting[arg[t].proj] = None
                         /\ arg[t].op # "create" => projects[arg[t].proj] # None
  PROVE  KeysIInv'
<1> USE DEF KeysIInv, Continue, Go
<1>1. pc' \in [Requests -> Steps] /\ pc'[t] = s /\ \A x \in Requests \ {t} : pc'[x] = pc[x]
  BY DEF KeysTypeOK
<1>2. KeysTypeOK'
  BY <1>1 DEF KeysTypeOK
<1>3. AskedKey'
  BY <1>1 DEF AskedKey
<1>4. KeyChecked'
  BY <1>1 DEF KeyChecked
<1>5. ProjectPinned'
  BY <1>1 DEF ProjectPinned
<1>6. AssignmentHolds'
  BY DEF AssignmentHolds
<1> QED BY <1>2, <1>3, <1>4, <1>5, <1>6

\* A request that is accepted with what its operation needs keeps the invariant.
LEMMA ServeKeeps ==
  ASSUME KeysIInv, NEW t \in Requests, NEW op \in Operations, NEW u \in Users, NEW p \in Projects,
         NEW k \in Keys \cup {None}, NEW url \in Urls \cup {None}, NEW s \in Steps,
         Serve(t, op, u, p, k, url, s),
         op \in DOMAIN TxStart => k \in Keys /\ s \in {"verify", "lock"},
         op \notin DOMAIN TxStart => s \in {"remove", "delete"},
         s = "lock" => op = "generate",
         op = "create" => url \in Urls
  PROVE  KeysIInv'
<1> USE DEF KeysIInv, Serve, Go, Accept
<1>1. pc' \in [Requests -> Steps] /\ pc'[t] = s /\ \A x \in Requests \ {t} : pc'[x] = pc[x]
  BY DEF KeysTypeOK
<1>2. /\ arg' \in [Requests -> Asked \cup {None}]
      /\ arg'[t] = [op |-> op, by |-> u, proj |-> p, key |-> k, url |-> url]
      /\ arg'[t] \in Asked
      /\ \A x \in Requests \ {t} : arg'[x] = arg[x]
  BY DEF KeysTypeOK, Asked
<1>3. KeysTypeOK'
  BY <1>1, <1>2, ProjectKeysAssumption DEF KeysTypeOK
<1>4. AskedKey'
  BY <1>1, <1>2 DEF AskedKey, Assigning
<1>5. KeyChecked'
  BY <1>1, <1>2, TxOperations DEF KeyChecked, Assigning
<1>6. ProjectPinned'
  BY <1>1, <1>2 DEF ProjectPinned
<1>7. AssignmentHolds'
  BY DEF AssignmentHolds
<1> QED BY <1>3, <1>4, <1>5, <1>6, <1>7

-----------------------------------------------------------------------------
(* ProjectKeys: the invariant.                                             *)

LEMMA KeysInitInv == KeysInit => KeysIInv
<1> SUFFICES ASSUME KeysInit PROVE KeysIInv
  OBVIOUS
<1>1. KeysTypeOK
  BY ProjectKeysAssumption DEF KeysInit, KeysTypeOK, Steps
<1>2. AskedKey /\ KeyChecked /\ ProjectPinned
  BY DEF KeysInit, AskedKey, KeyChecked, ProjectPinned, Assigning
<1>3. AssignmentHolds
  <2>1. PICK u \in Users, url \in Urls, k \in FirstKeys \cup {None} :
          /\ keys = [x \in Keys |-> IF x \in FirstKeys THEN [by |-> u, active |-> TRUE] ELSE None]
          /\ projects = [p \in Projects |-> IF p \in FirstProjects THEN url ELSE None]
          /\ assigned = [p \in Projects |-> IF p \in FirstProjects THEN k ELSE None]
    BY DEF KeysInit
  <2>2. [by |-> u, active |-> TRUE] # None /\ url # None
    <3>1. [by |-> u, active |-> TRUE] \in [by : Users, active : BOOLEAN]
      OBVIOUS
    <3> QED BY <3>1, KeysNoneAssumption
  <2>3. ASSUME NEW p \in Projects, assigned[p] # None
        PROVE  projects[p] # None /\ keys[assigned[p]] # None
    <3>1. p \in FirstProjects /\ assigned[p] = k
      BY <2>1, <2>3
    <3>2. k \in FirstKeys /\ k \in Keys
      BY <2>3, <3>1, ProjectKeysAssumption
    <3> QED BY <2>1, <2>2, <3>1, <3>2
  <2> QED BY <2>3 DEF AssignmentHolds
<1> QED BY <1>1, <1>2, <1>3 DEF KeysIInv

\* A request of one statement that keeps the keys and the projects there are.
LEMMA QuietKeeps ==
  ASSUME KeysIInv, Quiet, Accept, UNCHANGED assigned,
         keys' \in [Keys -> [by : Users, active : BOOLEAN] \cup {None}],
         projects' \in [Projects -> Urls \cup {None}],
         \A k \in Keys : keys[k] # None => keys'[k] # None,
         \A p \in Projects : projects[p] # None => projects'[p] # None
  PROVE  KeysIInv'
<1> USE DEF KeysIInv, Quiet, Accept
<1>1. KeysTypeOK'
  BY ProjectKeysAssumption DEF KeysTypeOK
<1>2. AskedKey' /\ KeyChecked'
  BY TxOperations DEF AskedKey, KeyChecked, Assigning
<1>3. \A t \in Requests : pc[t] = "commit" => arg[t].proj \in Projects
  BY DEF KeysTypeOK, Asked
<1>4. ProjectPinned'
  BY <1>3 DEF ProjectPinned
<1>5. AssignmentHolds'
  <2>1. \A p \in Projects : assigned[p] # None => assigned[p] \in Keys
    BY DEF KeysTypeOK
  <2> QED BY <2>1 DEF AssignmentHolds
<1> QED BY <1>1, <1>2, <1>4, <1>5

\* Requests of the key library and new requests with a transaction.
LEMMA RequestStep == ASSUME KeysIInv, KeysRequest PROVE KeysIInv'
<1> USE ProjectKeysAssumption, KeysNoneAssumption, TxOperations
<1>1. ASSUME NEW u \in Users, NEW k \in Keys, HandleCreateKey(u, k) PROVE KeysIInv'
  BY <1>1, QuietKeeps DEF HandleCreateKey, KeysIInv, KeysTypeOK
<1>2. ASSUME NEW u \in Users, NEW k \in Keys, HandleRetire(u, k) PROVE KeysIInv'
  <2>1. keys[k] \in [by : Users, active : BOOLEAN]
    BY <1>2 DEF HandleRetire, Owned, KeysIInv, KeysTypeOK
  <2>2. keys' \in [Keys -> [by : Users, active : BOOLEAN] \cup {None}]
    BY <1>2, <2>1 DEF HandleRetire, KeysIInv, KeysTypeOK
  <2>3. \A x \in Keys : keys[x] # None => keys'[x] # None
    BY <1>2, <2>1 DEF HandleRetire, KeysIInv, KeysTypeOK
  <2> QED BY <1>2, <2>2, <2>3, QuietKeeps DEF HandleRetire, KeysIInv, KeysTypeOK
<1>3. ASSUME NEW p \in Projects, NEW url \in Urls, HandleUpdate(p, url) PROVE KeysIInv'
  BY <1>3, QuietKeeps DEF HandleUpdate, KeysIInv, KeysTypeOK
<1>4. ASSUME NEW t \in Requests, NEW u \in Users, NEW p \in Projects, HandleDelete(t, u, p)
      PROVE  KeysIInv'
  BY <1>4, ServeKeeps DEF HandleDelete, Operations, Steps
<1>5. ASSUME NEW t \in Requests, NEW u \in Users, NEW p \in Projects, HandleRemoveSSHKey(t, u, p)
      PROVE  KeysIInv'
  BY <1>5, ServeKeeps DEF HandleRemoveSSHKey, Operations, Steps
<1>6. ASSUME NEW t \in Requests, NEW u \in Users, NEW p \in Projects, NEW k \in Keys,
             setSSHKeyReassign(t, u, p, k) \/ setSSHKeyGenerate(t, u, p, k)
      PROVE  KeysIInv'
  BY <1>6, ServeKeeps DEF setSSHKeyReassign, setSSHKeyGenerate, Operations, Steps
<1>7. ASSUME NEW t \in Requests, NEW u \in Users, NEW p \in Projects, NEW k \in Keys, NEW url \in Urls,
             HandleCreate(t, u, p, k, url)
      PROVE  KeysIInv'
  BY <1>7, ServeKeeps DEF HandleCreate, Operations, Steps
<1> QED BY <1>1, <1>2, <1>3, <1>4, <1>5, <1>6, <1>7 DEF KeysRequest

\* A statement on the active assignment, which the request may go on from.
LEMMA OnAssignmentKeeps ==
  ASSUME KeysIInv, NEW t \in Requests, NEW wait \in Assigning \ {"commit"},
         NEW next \in Assigning \ {"commit"},
         pc[t] \in Assigning, OnAssignment(t, wait, next)
  PROVE  KeysIInv'
<1>1. /\ pc[t] # "idle" /\ arg[t].op \in DOMAIN TxStart
      /\ arg[t].op # "generate" => keys[arg[t].key] # None
      /\ Assigning \subseteq Steps \ {"idle", "cascade"}
  BY DEF KeysIInv, AskedKey, KeyChecked, Assigning, Steps, Waiting
<1>2. rowLock' \in [Projects -> Requests \cup {None}]
  BY DEF OnAssignment, KeysIInv, KeysTypeOK
<1>3. Continue(t, wait) \/ Continue(t, next)
  BY DEF OnAssignment
<1> QED BY <1>1, <1>2, <1>3, ContinueKeeps

\* What a commit writes: the assignment with its project and its key.
LEMMA CommitKeeps == ASSUME KeysIInv, NEW t \in Requests, Commit(t) PROVE KeysIInv'
<1> DEFINE a == arg[t]
<1>1. /\ a \in Asked /\ a.key \in Keys /\ a.proj \in Projects /\ a.by \in Users
      /\ a.op = "create" => a.url \in Urls /\ a.url # None
      /\ a.op # "generate" => keys[a.key] # None
      /\ a.op # "create" => projects[a.proj] # None
  BY KeysNoneAssumption
     DEF Commit, KeysIInv, KeysTypeOK, AskedKey, KeyChecked, ProjectPinned, Assigning, Asked
<1>2. [by |-> a.by, active |-> TRUE] \in [by : Users, active : BOOLEAN] \ {None}
  <2>1. [by |-> a.by, active |-> TRUE] \in [by : Users, active : BOOLEAN]
    BY <1>1
  <2> QED BY <2>1, KeysNoneAssumption
<1>3. /\ keys' \in [Keys -> [by : Users, active : BOOLEAN] \cup {None}]
      /\ \A k \in Keys : keys[k] # None => keys'[k] # None
      /\ keys'[a.key] # None
  BY <1>1, <1>2 DEF Commit, KeysIInv, KeysTypeOK
<1>4. /\ projects' \in [Projects -> Urls \cup {None}]
      /\ \A p \in Projects : projects[p] # None => projects'[p] # None
      /\ projects'[a.proj] # None
  BY <1>1 DEF Commit, KeysIInv, KeysTypeOK
<1>5. /\ assigned' \in [Projects -> Keys \cup {None}]
      /\ assigned'[a.proj] = a.key
      /\ \A p \in Projects \ {a.proj} : assigned'[p] = assigned[p]
  BY <1>1 DEF Commit, KeysIInv, KeysTypeOK
<1>6. AssignmentHolds'
  <2>1. \A p \in Projects : assigned[p] # None => assigned[p] \in Keys
    BY DEF KeysIInv, KeysTypeOK
  <2> QED BY <1>3, <1>4, <1>5, <2>1 DEF KeysIInv, AssignmentHolds
<1>7. \A x \in Requests : pc[x] = "commit" => arg[x].proj \in Projects
  BY DEF KeysIInv, KeysTypeOK, Asked
<1> QED BY <1>3, <1>4, <1>5, <1>6, <1>7, EndTxKeeps DEF Commit

\* A project's deletion: nobody has inserted an assignment that refers to it.
LEMMA CascadeKeeps == ASSUME KeysIInv, NEW t \in Requests, DeleteCascade(t) PROVE KeysIInv'
<1> DEFINE p == arg[t].proj
<1>1. p \in Projects /\ deleting[p] = t
  BY DEF DeleteCascade, KeysIInv, KeysTypeOK, ProjectPinned, Asked
<1>2. \A x \in Requests : pc[x] = "commit" => arg[x].proj \in Projects \ {p}
  BY <1>1, ProjectKeysAssumption DEF KeysIInv, KeysTypeOK, ProjectPinned, Asked
<1>3. /\ keys' = keys
      /\ projects' \in [Projects -> Urls \cup {None}]
      /\ \A q \in Projects \ {p} : projects'[q] = projects[q] /\ assigned'[q] = assigned[q]
      /\ assigned' \in [Projects -> Keys \cup {None}] /\ assigned'[p] = None
  BY <1>1 DEF DeleteCascade, KeysIInv, KeysTypeOK
<1>4. AssignmentHolds'
  BY <1>3 DEF KeysIInv, AssignmentHolds
<1>5. EndTx(t, TRUE) /\ keys' \in [Keys -> [by : Users, active : BOOLEAN] \cup {None}]
  BY <1>3 DEF DeleteCascade, KeysIInv, KeysTypeOK
<1>6. /\ \A k \in Keys : keys[k] # None => keys'[k] # None
      /\ \A x \in Requests \ {t} : pc[x] = "commit" /\ projects[arg[x].proj] # None
                                    => projects'[arg[x].proj] # None
  BY <1>2, <1>3
<1> QED BY <1>3, <1>4, <1>5, <1>6, EndTxKeeps

\* The deletion locks its project when no insert refers to it.
LEMMA DeleteProjectKeeps == ASSUME KeysIInv, NEW t \in Requests, DeleteProject(t) PROVE KeysIInv'
<1>1. CASE Refuse(t)
  BY <1>1, RefuseKeeps
<1>2. CASE ~Refuse(t)
  <2> DEFINE p == arg[t].proj
  <2>1. p \in Projects /\ deleting[p] = None /\ Referring(p) = {} /\ pc[t] = "delete"
    BY <1>2 DEF DeleteProject, KeysIInv, KeysTypeOK, Asked
  <2>2. /\ pc' \in [Requests -> Steps] /\ pc'[t] = "cascade"
        /\ \A x \in Requests \ {t} : pc'[x] = pc[x]
        /\ deleting' \in [Projects -> Requests \cup {None}] /\ deleting'[p] = t
        /\ \A q \in Projects \ {p} : deleting'[q] = deleting[q]
        /\ UNCHANGED <<keys, projects, assigned, arg, rowLock, attempt, served>>
    BY <1>2, <2>1 DEF DeleteProject, Go, KeysIInv, KeysTypeOK, Steps
  <2>3. KeysTypeOK'
    BY <2>1, <2>2 DEF KeysIInv, KeysTypeOK
  <2>4. AskedKey'
    BY <2>1, <2>2 DEF KeysIInv, AskedKey, Assigning
  <2>7. KeyChecked'
    BY <2>2 DEF KeysIInv, KeyChecked, Assigning
  <2>8. AssignmentHolds'
    BY <2>2 DEF KeysIInv, AssignmentHolds
  <2>5. \A x \in Requests : pc[x] \in {"commit", "cascade"} => arg[x].proj \in Projects
    BY DEF KeysIInv, KeysTypeOK, Asked
  <2>6. ProjectPinned'
    BY <2>1, <2>2, <2>5, ProjectKeysAssumption DEF KeysIInv, ProjectPinned, Referring
  <2> QED BY <2>3, <2>4, <2>6, <2>7, <2>8 DEF KeysIInv
<1> QED BY <1>1, <1>2

\* A transaction that is run again has no locks and starts over.
LEMMA DeadlockKeeps == ASSUME KeysIInv, NEW t \in Requests, KeysDeadlock(t) PROVE KeysIInv'
<1>1. CASE Refuse(t)
  BY <1>1, RefuseKeeps
<1>2. CASE ~Refuse(t)
  <2> DEFINE s == TxStart[arg[t].op]
  <2>1. /\ pc[t] # "idle" /\ arg[t].op \in {"create", "reassign", "generate"}
        /\ attempt[t] < MaxDeadlockRetries
    BY <1>2, TxOperations DEF KeysDeadlock
  <2>2. s \in {"verify", "lock"} /\ (s = "lock" => arg[t].op = "generate")
    BY <2>1 DEF TxStart
  <2>3. /\ pc' \in [Requests -> Steps] /\ pc'[t] = s
        /\ \A x \in Requests \ {t} : pc'[x] = pc[x]
        /\ attempt' \in [Requests -> 0..MaxDeadlockRetries]
        /\ rowLock' \in [Projects -> Requests \cup {None}]
        /\ UNCHANGED <<keys, projects, assigned, arg, deleting, served>>
    <3>1. attempt[t] + 1 \in 0..MaxDeadlockRetries
      BY <2>1, ProjectKeysAssumption DEF KeysIInv, KeysTypeOK
    <3> QED BY <1>2, <2>2, <3>1 DEF KeysDeadlock, Go, KeysIInv, KeysTypeOK, Steps
  <2>4. KeysTypeOK'
    BY <2>1, <2>3 DEF KeysIInv, KeysTypeOK
  <2>5. AskedKey'
    BY <2>1, <2>2, <2>3, TxOperations DEF KeysIInv, AskedKey
  <2>6. KeyChecked'
    BY <2>2, <2>3 DEF KeysIInv, KeyChecked, Assigning
  <2>7. ProjectPinned'
    BY <2>2, <2>3 DEF KeysIInv, ProjectPinned
  <2>8. AssignmentHolds'
    BY <2>3 DEF KeysIInv, AssignmentHolds
  <2> QED BY <2>4, <2>5, <2>6, <2>7, <2>8 DEF KeysIInv
<1> QED BY <1>1, <1>2

\* One step of a request.
LEMMA KeysStepKeeps == ASSUME KeysIInv, NEW t \in Requests, KeysStep(t) \/ KeysAbort(t)
                       PROVE  KeysIInv'
<1>1. CASE GetSSHKey(t)
  <2>1. CASE Refuse(t)
    BY <2>1, RefuseKeeps
  <2>2. CASE ~Refuse(t)
    <3> DEFINE s == IF arg[t].op = "create" THEN "insert" ELSE "lock"
    <3>1. /\ Continue(t, s) /\ pc[t] = "verify" /\ UNCHANGED rowLock
          /\ keys[arg[t].key] # None
      BY <1>1, <2>2 DEF GetSSHKey, Owned
    <3>2. arg[t].op \in DOMAIN TxStart
      BY <3>1 DEF KeysIInv, AskedKey
    <3> QED BY <3>1, <3>2, ContinueKeeps DEF KeysIInv, KeysTypeOK, Steps
  <2> QED BY <2>1, <2>2
<1>2. CASE LockActiveProjectSSHKeyAssignment(t)
  BY <1>2, OnAssignmentKeeps DEF LockActiveProjectSSHKeyAssignment, Assigning
<1>3. CASE DeactivateProjectSSHKeyAssignments(t)
  BY <1>3, OnAssignmentKeeps DEF DeactivateProjectSSHKeyAssignments, Assigning
<1>4. CASE AssignProjectSSHKey(t)
  <2>1. CASE Refuse(t)
    BY <2>1, RefuseKeeps
  <2>2. CASE ~Refuse(t)
    <3>1. /\ Continue(t, "commit") /\ pc[t] = "insert" /\ UNCHANGED rowLock
          /\ deleting[arg[t].proj] = None
          /\ arg[t].op # "create" => projects[arg[t].proj] # None
      BY <1>4, <2>2 DEF AssignProjectSSHKey
    <3>2. /\ arg[t].op \in DOMAIN TxStart
          /\ arg[t].op # "generate" => keys[arg[t].key] # None
      BY <3>1 DEF KeysIInv, AskedKey, KeyChecked, Assigning
    <3> QED BY <3>1, <3>2, ContinueKeeps DEF KeysIInv, KeysTypeOK, Steps
  <2> QED BY <2>1, <2>2
<1>5. CASE Commit(t)
  BY <1>5, CommitKeeps
<1>6. CASE RemoveAssignment(t)
  <2> DEFINE p == arg[t].proj
  <2>1. pc[t] \in {"remove", "removeWait"}
    BY <1>6 DEF RemoveAssignment
  <2>2. CASE Continue(t, "removeWait") /\ UNCHANGED rowLock
    BY <2>1, <2>2, ContinueKeeps DEF KeysIInv, KeysTypeOK, Steps, Waiting, Assigning
  <2>3. CASE /\ assigned' = [assigned EXCEPT ![p] = None]
             /\ EndTx(t, TRUE) /\ UNCHANGED <<keys, projects>>
    <3>1. AssignmentHolds' /\ assigned' \in [Projects -> Keys \cup {None}]
      BY <2>3 DEF KeysIInv, KeysTypeOK, AssignmentHolds
    <3> QED BY <2>3, <3>1, EndTxKeeps DEF KeysIInv, KeysTypeOK
  <2> QED BY <1>6, <2>2, <2>3 DEF RemoveAssignment
<1>7. CASE DeleteProject(t)
  BY <1>7, DeleteProjectKeeps
<1>8. CASE DeleteCascade(t)
  BY <1>8, CascadeKeeps
<1>9. CASE KeysDeadlock(t)
  BY <1>9, DeadlockKeeps
<1>10. CASE KeysAbort(t)
  BY <1>10, RefuseKeeps DEF KeysAbort
<1> QED BY <1>1, <1>2, <1>3, <1>4, <1>5, <1>6, <1>7, <1>8, <1>9, <1>10 DEF KeysStep

\* A step of any request, or none.
LEMMA KeysNextKeeps == KeysIInv /\ [KeysNext]_keyVars => KeysIInv'
<1> SUFFICES ASSUME KeysIInv, [KeysNext]_keyVars PROVE KeysIInv'
  OBVIOUS
<1>1. CASE KeysNext
  BY <1>1, RequestStep, KeysStepKeeps DEF KeysNext
<1>2. CASE UNCHANGED keyVars
  BY <1>2 DEF keyVars, KeysIInv, KeysTypeOK, AskedKey, KeyChecked, ProjectPinned, AssignmentHolds
<1> QED BY <1>1, <1>2

\* However removals, deletions and assignments of the same project cross each
\* other, what is assigned exists: the project that HandleDelete would delete and
\* the key that setSSHKeyReassign has checked.
THEOREM KeysAssignmentHolds == KeysSpec => []AssignmentInv
<1>1. KeysIInv => AssignmentInv
  BY DEF KeysIInv, AssignmentInv
<1> QED BY <1>1, KeysInitInv, KeysNextKeeps, PTL DEF KeysSpec

-----------------------------------------------------------------------------
(* RepoCache: what any step of a job has to keep.                          *)

LEMMA AtMostOne ==
  ASSUME NEW S, \A x, y \in S : x = y
  PROVE  Cardinality(S) <= 1
<1>1. CASE S = {}
  BY <1>1, FS_EmptySet
<1>2. CASE S # {}
  <2>1. PICK x \in S : S = {x}
    BY <1>2
  <2> QED BY <2>1, FS_Singleton
<1> QED BY <1>1, <1>2

\* What a job knows, in the shapes that its steps use.
LEMMA JobFacts ==
  ASSUME RepoIInv, NEW j \in Jobs, step[j] \in InProgress
  PROVE  /\ ctx[j] \in Context /\ Proj(j) \in Projects /\ ctx[j].url \in Urls
         /\ normalizeURL[ctx[j].url] \in Repositories
         /\ remote[normalizeURL[ctx[j].url]] \in 1..(MaxPushes + 1)
         /\ since[j] \in Nat /\ since[j] <= remote[normalizeURL[ctx[j].url]]
<1>1. ctx[j] \in Context /\ Proj(j) \in Projects /\ ctx[j].url \in Urls
  BY DEF RepoIInv, TypeOK, Context, Proj
<1>2. normalizeURL[ctx[j].url] \in Repositories
  BY <1>1 DEF Repositories
<1>3. since[j] \in Nat /\ since[j] <= remote[normalizeURL[ctx[j].url]]
  BY RepoCacheAssumption DEF RepoIInv, TypeOK, SinceKnown
<1> QED BY <1>1, <1>2, <1>3 DEF RepoIInv, TypeOK

\* The lock file keeps one holder: it is taken when it is free, and released.
LEMMA LockKeeps ==
  ASSUME RepoIInv, NEW j \in Jobs, Local,
         \/ flock' = flock \/ flock' = Unlocked(j)
         \/ Lockable(Proj(j)) /\ flock' = [flock EXCEPT ![Proj(j)] = @ \cup {j}]
  PROVE  /\ flock' \in [Projects -> SUBSET Jobs] /\ OneHolder'
         /\ honoured' => \A p \in Projects : Cardinality(flock'[p]) <= 1
<1>1. flock' \in [Projects -> SUBSET Jobs]
  BY DEF RepoIInv, TypeOK, Unlocked
<1>2. OneHolder'
  BY DEF RepoIInv, TypeOK, OneHolder, Unlocked, Lockable, Local
<1>3. ASSUME honoured', NEW p \in Projects PROVE Cardinality(flock'[p]) <= 1
  BY <1>2, <1>3, AtMostOne DEF OneHolder
<1> QED BY <1>1, <1>2, <1>3

\* A step of job j keeps the invariant if the caches stay what they are for the
\* jobs that use them, and j finds what it needs where it goes.
LEMMA JobKeeps ==
  ASSUME RepoIInv, NEW j \in Jobs, NEW s \in InProgress \cup {"done", "dead"},
         step[j] \in InProgress, To(j, s), Local, UNCHANGED <<ctx, since>>,
         \/ flock' = flock \/ flock' = Unlocked(j)
         \/ Lockable(Proj(j)) /\ flock' = [flock EXCEPT ![Proj(j)] = @ \cup {j}],
         cache' \in [Projects -> Checkout \cup {None}],
         \A p \in Projects : cache[p] # None =>
            /\ cache'[p] # None /\ cache'[p].url = cache[p].url
            /\ cache'[p].commit >= cache[p].commit,
         CachesWhole',
         clone' \in [Jobs -> Checkout \cup {None}],
         worktree' \in [Jobs -> Checkout \cup {None}],
         \A i \in Jobs \ {j} : clone'[i] = clone[i] /\ worktree'[i] = worktree[i],
         keyFile' \subseteq keyFile \cup {j}, faults' \in 0..MaxFaults,
         s = "rename" => clone'[j] # None /\ Whole(clone'[j]) /\ Serves(j, clone'[j]),
         s \notin {"clone", "rename", "dead"} => clone'[j] = None,
         s \in {"fetch", "worktree"} =>
            /\ cache'[Proj(j)] # None
            /\ normalizeURL[cache'[Proj(j)].url] = normalizeURL[ctx[j].url],
         s = "worktree" => cache'[Proj(j)].commit >= since[j],
         s \in {"head", "ready"} => worktree'[j] # None /\ Serves(j, worktree'[j]),
         s = "done" => j \notin keyFile'
  PROVE  RepoIInv'
<1>1. /\ step' \in [Jobs -> InProgress \cup {"queued", "done", "dead"}] /\ step'[j] = s
      /\ \A i \in Jobs \ {j} : step'[i] = step[i]
  BY DEF To, RepoIInv, TypeOK
<1>2. keyFile' \subseteq Jobs
  BY DEF RepoIInv, TypeOK
<1>3. KeysTypeOK'
  BY DEF Local, keyVars, RepoIInv, TypeOK, KeysTypeOK
<1>4. TypeOK'
  BY <1>1, <1>2, <1>3, LockKeeps DEF Local, RepoIInv, TypeOK
<1>5. SinceKnown'
  BY <1>1 DEF RepoIInv, SinceKnown, Local
<1>6. CloneInv'
  BY <1>1, <1>2 DEF RepoIInv, CloneInv, Local, Whole, Serves
<1>7. CacheInv'
  <2>1. ASSUME NEW i \in Jobs \ {j}, step[i] \in {"fetch", "worktree"}
        PROVE  /\ cache'[Proj(i)] # None
               /\ normalizeURL[cache'[Proj(i)].url] = normalizeURL[ctx[i].url]
               /\ step[i] = "worktree" => cache'[Proj(i)].commit >= since[i]
    <3>1. /\ Proj(i) \in Projects /\ cache[Proj(i)] # None /\ since[i] \in Nat
          /\ normalizeURL[cache[Proj(i)].url] = normalizeURL[ctx[i].url]
          /\ step[i] = "worktree" => cache[Proj(i)].commit >= since[i]
      BY <2>1, JobFacts DEF RepoIInv, CacheInv, InProgress
    <3>2. cache[Proj(i)].commit \in Nat /\ cache'[Proj(i)].commit \in Nat /\ cache'[Proj(i)] # None
      BY <3>1, RepoCacheAssumption DEF RepoIInv, TypeOK, Checkout
    <3> QED BY <3>1, <3>2
  <2>2. \A i \in Jobs \ {j} : step[i] \in {"head", "ready"} => worktree[i] # None /\ Serves(i, worktree[i])
    BY DEF RepoIInv, CacheInv
  <2> QED BY <1>1, <1>2, <2>1, <2>2 DEF CacheInv, Serves, Proj
<1>8. NothingLeft'
  BY <1>1, <1>2 DEF RepoIInv, NothingLeft
<1> QED BY <1>4, <1>5, <1>6, <1>7, <1>8, LockKeeps DEF RepoIInv

-----------------------------------------------------------------------------
(* RepoCache: the steps.                                                   *)

\* A cache that stays as it is keeps serving.
LEMMA CacheStays ==
  ASSUME RepoIInv, UNCHANGED <<cache, remote>>
  PROVE  /\ cache' \in [Projects -> Checkout \cup {None}]
         /\ \A p \in Projects : cache[p] # None =>
              /\ cache'[p] # None /\ cache'[p].url = cache[p].url
              /\ cache'[p].commit >= cache[p].commit
         /\ CachesWhole'
<1>1. \A p \in Projects : cache[p] # None => cache[p].commit \in Nat
  BY RepoCacheAssumption DEF RepoIInv, TypeOK, Checkout
<1> QED BY <1>1 DEF RepoIInv, TypeOK, CachesWhole, Whole

\* A job loads what it needs from the database.
LEMMA LoadKeeps ==
  ASSUME RepoIInv, NEW j \in Jobs, NEW p \in Projects, LoadExecutionContext(j, p)
  PROVE  RepoIInv'
<1> DEFINE s == IF projects[p] \in SSHUrls THEN "key" ELSE "flock"
<1>1. projects[p] \in Urls /\ normalizeURL[projects[p]] \in Repositories
  BY DEF LoadExecutionContext, Usable, RepoIInv, TypeOK, KeysTypeOK, Repositories
<1>2. remote[normalizeURL[projects[p]]] \in 1..(MaxPushes + 1)
  BY <1>1 DEF RepoIInv, TypeOK
<1>3. /\ step' \in [Jobs -> InProgress \cup {"queued", "done", "dead"}] /\ step'[j] = s
      /\ \A i \in Jobs \ {j} : step'[i] = step[i]
  BY DEF LoadExecutionContext, To, RepoIInv, TypeOK, InProgress
<1>4. /\ ctx' \in [Jobs -> Context \cup {None}]
      /\ ctx'[j] = [proj |-> p, url |-> projects[p]] /\ ctx'[j] \in Context
      /\ \A i \in Jobs \ {j} : ctx'[i] = ctx[i]
  BY <1>1 DEF LoadExecutionContext, RepoIInv, TypeOK, Context
<1>5. /\ since' \in [Jobs -> 0..(MaxPushes + 1)]
      /\ since'[j] = remote[normalizeURL[projects[p]]]
      /\ \A i \in Jobs \ {j} : since'[i] = since[i]
  BY <1>2, RepoCacheAssumption DEF LoadExecutionContext, RepoIInv, TypeOK
<1>6. /\ UNCHANGED <<keyVars, remote, honoured, flock, cache, clone, worktree, keyFile, faults>>
      /\ step[j] = "queued" /\ s \in {"key", "flock"}
  BY DEF LoadExecutionContext, Local
<1>7. KeysTypeOK'
  BY <1>6 DEF keyVars, RepoIInv, TypeOK, KeysTypeOK
<1>8. TypeOK'
  BY <1>3, <1>4, <1>5, <1>6, <1>7 DEF RepoIInv, TypeOK
<1>9. OneHolder' /\ CachesWhole' /\ NothingLeft'
  BY <1>3, <1>6 DEF RepoIInv, OneHolder, CachesWhole, Whole, NothingLeft
<1>10. SinceKnown'
  BY <1>2, <1>3, <1>4, <1>5, <1>6, RepoCacheAssumption DEF RepoIInv, SinceKnown
<1>11. CloneInv'
  BY <1>3, <1>4, <1>5, <1>6 DEF RepoIInv, CloneInv, Whole, Serves
<1>12. CacheInv'
  BY <1>3, <1>4, <1>5, <1>6 DEF RepoIInv, CacheInv, Serves, Proj
<1> QED BY <1>8, <1>9, <1>10, <1>11, <1>12 DEF RepoIInv

\* A push makes a newer commit: what was whole and known is still.
LEMMA PushKeeps == ASSUME RepoIInv, NEW r \in Repositories, Push(r) PROVE RepoIInv'
<1>1. /\ remote' \in [Repositories -> 1..(MaxPushes + 1)]
      /\ \A q \in Repositories : remote[q] \in Nat /\ remote'[q] \in Nat /\ remote[q] <= remote'[q]
  BY RepoCacheAssumption DEF Push, RepoIInv, TypeOK
<1>2. UNCHANGED <<keyVars, honoured, flock, cache, step, ctx, since, clone, worktree, keyFile, faults>>
  BY DEF Push
<1>3. KeysTypeOK'
  BY <1>2 DEF keyVars, RepoIInv, TypeOK, KeysTypeOK
<1>4. TypeOK'
  BY <1>1, <1>2, <1>3 DEF RepoIInv, TypeOK
<1>5. \A c \in Checkout : Whole(c) => Whole(c)'
  <2>1. \A c \in Checkout : c.commit \in Nat /\ normalizeURL[c.url] \in Repositories
    BY RepoCacheAssumption DEF Checkout, Repositories
  <2> QED BY <1>1, <2>1 DEF Whole
<1>6. CachesWhole'
  BY <1>2, <1>5 DEF RepoIInv, TypeOK, CachesWhole, Whole
<1>7. SinceKnown'
  <2>1. ASSUME NEW j \in Jobs, step[j] \in InProgress
        PROVE  since[j] <= remote'[normalizeURL[ctx[j].url]]
    BY <1>1, <2>1, JobFacts
  <2> QED BY <1>2, <2>1 DEF SinceKnown
<1>8. CloneInv'
  BY <1>2, <1>5 DEF RepoIInv, TypeOK, CloneInv, Serves, Whole
<1>9. CacheInv' /\ OneHolder' /\ NothingLeft'
  BY <1>2 DEF RepoIInv, CacheInv, OneHolder, NothingLeft, Serves, Proj
<1> QED BY <1>4, <1>6, <1>7, <1>8, <1>9 DEF RepoIInv

\* A failed command leaves the caches to the others and releases the lock; the job
\* may have got a worktree.
LEMMA FailKeeps ==
  ASSUME RepoIInv, NEW j \in Jobs, step[j] \in InProgress, Fail(j),
         faults' \in 0..MaxFaults,
         \/ worktree' = worktree
         \/ worktree' = [worktree EXCEPT ![j] = cache[Proj(j)]] /\ step[j] = "worktree",
         \/ clone' = clone /\ step[j] \notin {"clone", "rename"}
         \/ clone' = [clone EXCEPT ![j] = None]
  PROVE  RepoIInv'
<1>1. /\ clone' \in [Jobs -> Checkout \cup {None}] /\ clone'[j] = None
      /\ \A i \in Jobs \ {j} : clone'[i] = clone[i]
  BY DEF RepoIInv, TypeOK, CloneInv, InProgress
<1>2. /\ To(j, "cleanup") /\ Local /\ UNCHANGED <<ctx, since>>
      /\ flock' = Unlocked(j) /\ "cleanup" \in InProgress /\ keyFile' \subseteq keyFile \cup {j}
  BY DEF Fail, InProgress
<1>4. /\ worktree' \in [Jobs -> Checkout \cup {None}]
      /\ \A i \in Jobs \ {j} : worktree'[i] = worktree[i]
  <2>1. worktree \in [Jobs -> Checkout \cup {None}] /\ cache[Proj(j)] \in Checkout \cup {None}
    BY JobFacts DEF RepoIInv, TypeOK
  <2> QED BY <2>1
<1>3. /\ cache' \in [Projects -> Checkout \cup {None}]
      /\ \A p \in Projects : cache[p] # None =>
           /\ cache'[p] # None /\ cache'[p].url = cache[p].url
           /\ cache'[p].commit >= cache[p].commit
      /\ CachesWhole'
  BY CacheStays DEF Fail, Local
<1> QED BY <1>1, <1>2, <1>3, <1>4, JobKeeps

\* A step that changes neither the caches, nor the clones, nor the worktrees.
LEMMA SimpleKeeps ==
  ASSUME RepoIInv, NEW j \in Jobs, NEW s \in InProgress \cup {"done", "dead"},
         step[j] \in InProgress, To(j, s), Local, UNCHANGED <<cache, ctx, since, clone, worktree>>,
         \/ flock' = flock \/ flock' = Unlocked(j)
         \/ Lockable(Proj(j)) /\ flock' = [flock EXCEPT ![Proj(j)] = @ \cup {j}],
         keyFile' \subseteq keyFile \cup {j}, faults' \in 0..MaxFaults,
         s # "rename",
         s \notin {"clone", "dead"} => step[j] \notin {"clone", "rename"},
         s = "fetch" => /\ cache[Proj(j)] # None
                        /\ normalizeURL[cache[Proj(j)].url] = normalizeURL[ctx[j].url],
         s \notin {"worktree", "head"}, s = "ready" => step[j] = "head",
         s = "done" => j \notin keyFile'
  PROVE  RepoIInv'
<1>1. /\ clone' \in [Jobs -> Checkout \cup {None}] /\ worktree' \in [Jobs -> Checkout \cup {None}]
      /\ \A i \in Jobs \ {j} : clone'[i] = clone[i] /\ worktree'[i] = worktree[i]
      /\ s \notin {"clone", "rename", "dead"} => clone'[j] = None
      /\ s \in {"head", "ready"} => worktree'[j] # None /\ Serves(j, worktree'[j])
  BY DEF RepoIInv, TypeOK, CloneInv, CacheInv, InProgress
<1>2. /\ cache' \in [Projects -> Checkout \cup {None}]
      /\ \A p \in Projects : cache[p] # None =>
           /\ cache'[p] # None /\ cache'[p].url = cache[p].url
           /\ cache'[p].commit >= cache[p].commit
      /\ CachesWhole'
  BY CacheStays DEF Local
<1> QED BY <1>1, <1>2, JobKeeps

\* A step that changes the clone of its job, and the cache only by the rename.
LEMMA StartCloneKeeps == ASSUME RepoIInv, NEW j \in Jobs, StartClone(j) PROVE RepoIInv'
<1>1. /\ step[j] = "repo" /\ To(j, "clone") /\ Local
      /\ UNCHANGED <<flock, cache, ctx, since, worktree, keyFile, faults>>
      /\ step[j] \in InProgress /\ "clone" \in InProgress
      /\ clone' = [clone EXCEPT ![j] = [url |-> ctx[j].url, commit |-> 0]]
  BY DEF StartClone, InProgress
<1>2. [url |-> ctx[j].url, commit |-> 0] \in Checkout
  BY <1>1, JobFacts, RepoCacheAssumption DEF Checkout
<1>3. /\ clone' \in [Jobs -> Checkout \cup {None}] /\ worktree' \in [Jobs -> Checkout \cup {None}]
      /\ \A i \in Jobs \ {j} : clone'[i] = clone[i] /\ worktree'[i] = worktree[i]
      /\ faults' \in 0..MaxFaults
  BY <1>1, <1>2 DEF RepoIInv, TypeOK
<1>4. /\ cache' \in [Projects -> Checkout \cup {None}]
      /\ \A p \in Projects : cache[p] # None =>
           /\ cache'[p] # None /\ cache'[p].url = cache[p].url
           /\ cache'[p].commit >= cache[p].commit
      /\ CachesWhole'
  BY <1>1, CacheStays DEF Local
<1> QED BY <1>1, <1>3, <1>4, JobKeeps

LEMMA CloneKeeps == ASSUME RepoIInv, NEW j \in Jobs, Clone(j) PROVE RepoIInv'
<1> DEFINE c == [url |-> ctx[j].url, commit |-> remote[normalizeURL[ctx[j].url]]]
<1>1. /\ step[j] = "clone" /\ To(j, "rename") /\ Local
      /\ UNCHANGED <<flock, cache, ctx, since, worktree, keyFile, faults>>
      /\ step[j] \in InProgress /\ "rename" \in InProgress
      /\ clone' = [clone EXCEPT ![j] = c]
  BY DEF Clone, InProgress
<1>2. /\ c \in Checkout /\ Serves(j, c) /\ c # None
      /\ c.commit > 0 /\ c.commit <= remote[normalizeURL[c.url]]
  <2>1. c \in Checkout
    BY <1>1, JobFacts, RepoCacheAssumption DEF Checkout
  <2>2. c # None
    BY <2>1, RepoNoneAssumption DEF Checkout
  <2> QED BY <1>1, <2>1, <2>2, JobFacts, RepoCacheAssumption DEF Serves
<1>3. /\ clone' \in [Jobs -> Checkout \cup {None}] /\ worktree' \in [Jobs -> Checkout \cup {None}]
      /\ \A i \in Jobs \ {j} : clone'[i] = clone[i] /\ worktree'[i] = worktree[i]
      /\ faults' \in 0..MaxFaults
  BY <1>1, <1>2 DEF RepoIInv, TypeOK
<1>4. clone'[j] # None /\ Whole(clone'[j]) /\ Serves(j, clone'[j])
  BY <1>1, <1>2 DEF RepoIInv, TypeOK, Whole
<1>5. /\ cache' \in [Projects -> Checkout \cup {None}]
      /\ \A p \in Projects : cache[p] # None =>
           /\ cache'[p] # None /\ cache'[p].url = cache[p].url
           /\ cache'[p].commit >= cache[p].commit
      /\ CachesWhole'
  BY <1>1, CacheStays DEF Local
<1> QED BY <1>1, <1>3, <1>4, <1>5, JobKeeps

LEMMA RenameKeeps == ASSUME RepoIInv, NEW j \in Jobs, Rename(j) PROVE RepoIInv'
<1> DEFINE p == Proj(j)
<1>1. /\ step[j] = "rename" /\ Local /\ UNCHANGED <<flock, ctx, since, worktree, keyFile, faults>>
      /\ step[j] \in InProgress /\ {"worktree", "race"} \subseteq InProgress
      /\ clone' = [clone EXCEPT ![j] = None]
  BY DEF Rename, InProgress
<1>2. /\ p \in Projects /\ clone[j] \in Checkout /\ Whole(clone[j]) /\ Serves(j, clone[j])
      /\ clone[j] # None
  BY <1>1, JobFacts DEF RepoIInv, TypeOK, CloneInv
<1>3. /\ clone' \in [Jobs -> Checkout \cup {None}] /\ worktree' \in [Jobs -> Checkout \cup {None}]
      /\ \A i \in Jobs \ {j} : clone'[i] = clone[i] /\ worktree'[i] = worktree[i]
      /\ clone'[j] = None /\ faults' \in 0..MaxFaults
  BY <1>1 DEF RepoIInv, TypeOK
<1>4. CASE cache[p] = None /\ cache' = [cache EXCEPT ![p] = clone[j]] /\ To(j, "worktree")
  <2>1. cache' \in [Projects -> Checkout \cup {None}] /\ cache'[p] = clone[j]
    BY <1>2, <1>4 DEF RepoIInv, TypeOK
  <2>2. \A q \in Projects : cache[q] # None => cache'[q] = cache[q] /\ cache[q].commit \in Nat
    BY <1>4, RepoCacheAssumption DEF RepoIInv, TypeOK, Checkout
  <2>3. \A q \in Projects : cache[q] # None =>
          cache'[q] # None /\ cache'[q].url = cache[q].url /\ cache'[q].commit >= cache[q].commit
    BY <2>2
  <2>4. CachesWhole'
    BY <1>1, <1>2, <1>4, <2>1 DEF RepoIInv, TypeOK, CachesWhole, Whole, Local
  <2>5. /\ cache'[p] # None /\ normalizeURL[cache'[p].url] = normalizeURL[ctx[j].url]
        /\ cache'[p].commit >= since[j]
    BY <1>2, <2>1 DEF Serves
  <2> QED BY <1>1, <1>3, <1>4, <2>1, <2>3, <2>4, <2>5, JobKeeps
<1>5. CASE UNCHANGED cache /\ To(j, "race")
  <2>1. /\ cache' \in [Projects -> Checkout \cup {None}]
        /\ \A q \in Projects : cache[q] # None =>
             /\ cache'[q] # None /\ cache'[q].url = cache[q].url
             /\ cache'[q].commit >= cache[q].commit
        /\ CachesWhole'
    BY <1>1, <1>5, CacheStays DEF Local
  <2> QED BY <1>1, <1>3, <1>5, <2>1, JobKeeps
<1> QED BY <1>4, <1>5 DEF Rename

\* A fetch makes the cache as new as its repository, for all who use it.
LEMMA FetchKeeps == ASSUME RepoIInv, NEW j \in Jobs, Fetch(j) PROVE RepoIInv'
<1> DEFINE p == Proj(j)
           n == remote[normalizeURL[cache[p].url]]
<1>1. /\ step[j] = "fetch" /\ To(j, "worktree") /\ Local
      /\ UNCHANGED <<flock, ctx, since, clone, worktree, keyFile, faults>>
      /\ step[j] \in InProgress /\ "worktree" \in InProgress
      /\ cache' = [cache EXCEPT ![p].commit = n]
  BY DEF Fetch, InProgress
<1>2. /\ p \in Projects /\ cache[p] # None /\ cache[p] \in Checkout /\ Whole(cache[p])
      /\ normalizeURL[cache[p].url] = normalizeURL[ctx[j].url]
  BY <1>1, JobFacts DEF RepoIInv, TypeOK, CacheInv, CachesWhole
<1>3. n \in 1..(MaxPushes + 1) /\ since[j] <= n
  BY <1>1, <1>2, JobFacts
<1>4. /\ cache' \in [Projects -> Checkout \cup {None}]
      /\ cache'[p] \in Checkout /\ cache'[p].url = cache[p].url /\ cache'[p].commit = n
      /\ \A q \in Projects \ {p} : cache'[q] = cache[q]
  <2>1. [cache[p] EXCEPT !.commit = n] \in Checkout
    BY <1>2, <1>3 DEF Checkout
  <2>2. cache' = [cache EXCEPT ![p] = [cache[p] EXCEPT !.commit = n]]
    BY <1>1
  <2>3. [cache[p] EXCEPT !.commit = n].url = cache[p].url /\ [cache[p] EXCEPT !.commit = n].commit = n
    BY <1>2 DEF Checkout
  <2> QED BY <1>2, <2>1, <2>2, <2>3 DEF RepoIInv, TypeOK
<1>5. cache'[p] # None
  BY <1>4, RepoNoneAssumption DEF Checkout
<1>6. \A q \in Projects : cache[q] # None =>
        cache'[q] # None /\ cache'[q].url = cache[q].url /\ cache'[q].commit >= cache[q].commit
  <2>1. \A q \in Projects : cache[q] # None => cache[q].commit \in Nat
    BY RepoCacheAssumption DEF RepoIInv, TypeOK, Checkout
  <2>2. n >= cache[p].commit
    BY <1>2 DEF Whole
  <2> QED BY <1>4, <1>5, <2>1, <2>2
<1>7. CachesWhole'
  <2>1. cache'[p].commit > 0 /\ cache'[p].commit <= remote[normalizeURL[cache'[p].url]]
    BY <1>3, <1>4, RepoCacheAssumption
  <2> QED BY <1>1, <1>4, <2>1 DEF RepoIInv, CachesWhole, Whole, Local
<1>8. /\ clone' \in [Jobs -> Checkout \cup {None}] /\ worktree' \in [Jobs -> Checkout \cup {None}]
      /\ \A i \in Jobs \ {j} : clone'[i] = clone[i] /\ worktree'[i] = worktree[i]
      /\ clone'[j] = None /\ faults' \in 0..MaxFaults
  BY <1>1 DEF RepoIInv, TypeOK, CloneInv
<1>9. /\ normalizeURL[cache'[p].url] = normalizeURL[ctx[j].url]
      /\ cache'[p].commit >= since[j]
  BY <1>2, <1>3, <1>4
<1> QED BY <1>1, <1>4, <1>5, <1>6, <1>7, <1>8, <1>9, JobKeeps

LEMMA WorktreeAddKeeps == ASSUME RepoIInv, NEW j \in Jobs, WorktreeAdd(j) PROVE RepoIInv'
<1>1. /\ step[j] = "worktree" /\ To(j, "head") /\ Local /\ flock' = Unlocked(j)
      /\ UNCHANGED <<cache, ctx, since, clone, keyFile, faults>>
      /\ step[j] \in InProgress /\ "head" \in InProgress
      /\ worktree' = [worktree EXCEPT ![j] = cache[Proj(j)]]
  BY DEF WorktreeAdd, InProgress
<1>2. /\ Proj(j) \in Projects /\ cache[Proj(j)] \in Checkout /\ cache[Proj(j)] # None
      /\ Serves(j, cache[Proj(j)])
  BY <1>1, JobFacts DEF RepoIInv, TypeOK, CacheInv, Serves
<1>3. /\ clone' \in [Jobs -> Checkout \cup {None}] /\ worktree' \in [Jobs -> Checkout \cup {None}]
      /\ \A i \in Jobs \ {j} : clone'[i] = clone[i] /\ worktree'[i] = worktree[i]
      /\ clone'[j] = None /\ faults' \in 0..MaxFaults
      /\ worktree'[j] # None /\ Serves(j, worktree'[j])
  BY <1>1, <1>2 DEF RepoIInv, TypeOK, CloneInv
<1>4. /\ cache' \in [Projects -> Checkout \cup {None}]
      /\ \A q \in Projects : cache[q] # None =>
           /\ cache'[q] # None /\ cache'[q].url = cache[q].url
           /\ cache'[q].commit >= cache[q].commit
      /\ CachesWhole'
  BY <1>1, CacheStays DEF Local
<1> QED BY <1>1, <1>3, <1>4, JobKeeps

LEMMA WorktreeRemoveKeeps == ASSUME RepoIInv, NEW j \in Jobs, WorktreeRemove(j) PROVE RepoIInv'
<1>1. /\ step[j] = "clean" /\ To(j, "done") /\ Local /\ flock' = Unlocked(j)
      /\ UNCHANGED <<cache, ctx, since, clone>> /\ keyFile' = keyFile \ {j}
      /\ step[j] \in InProgress
      /\ worktree' = [worktree EXCEPT ![j] = None] \/ worktree' = worktree
      /\ UNCHANGED faults \/ Fault
  BY DEF WorktreeRemove, InProgress
<1>2. /\ clone' \in [Jobs -> Checkout \cup {None}] /\ worktree' \in [Jobs -> Checkout \cup {None}]
      /\ \A i \in Jobs \ {j} : clone'[i] = clone[i] /\ worktree'[i] = worktree[i]
      /\ clone'[j] = None /\ faults' \in 0..MaxFaults
  BY <1>1, RepoCacheAssumption DEF RepoIInv, TypeOK, CloneInv, Fault
<1>3. /\ cache' \in [Projects -> Checkout \cup {None}]
      /\ \A q \in Projects : cache[q] # None =>
           /\ cache'[q] # None /\ cache'[q].url = cache[q].url
           /\ cache'[q].commit >= cache[q].commit
      /\ CachesWhole'
  BY <1>1, CacheStays DEF Local
<1>4. keyFile' \subseteq keyFile \cup {j} /\ j \notin keyFile'
  BY <1>1
<1> QED BY <1>1, <1>2, <1>3, <1>4, JobKeeps

\* The steps that a job takes when nothing fails.
LEMMA JobStepKeeps == ASSUME RepoIInv, NEW j \in Jobs, JobStep(j) PROVE RepoIInv'
<1> USE RepoCacheAssumption
<1>0. faults \in 0..MaxFaults /\ keyFile \subseteq Jobs /\ (Fault => faults' \in 0..MaxFaults)
  BY DEF RepoIInv, TypeOK, Fault
<1>1. CASE WriteKey(j)
  BY <1>0, <1>1, SimpleKeeps DEF WriteKey, InProgress
<1>2. CASE Keyscan(j)
  <2>1. CASE To(j, "flock") /\ UNCHANGED <<keyFile, faults>>
    BY <1>0, <1>2, <2>1, SimpleKeeps DEF Keyscan, InProgress
  <2>2. CASE To(j, "cleanup") /\ Fault /\ keyFile' = keyFile \ {j}
    BY <1>0, <1>2, <2>2, SimpleKeeps DEF Keyscan, InProgress
  <2> QED BY <1>2, <2>1, <2>2 DEF Keyscan
<1>3. CASE LockProject(j)
  BY <1>0, <1>3, SimpleKeeps DEF LockProject, InProgress
<1>4. ASSUME NEW s \in {"repo", "race"}, Reuse(j, s) PROVE RepoIInv'
  <2>1. CASE Fail(j)
    BY <1>0, <1>4, <2>1, FailKeeps DEF Reuse, InProgress
  <2>2. CASE ~Fail(j)
    BY <1>0, <1>4, <2>2, SimpleKeeps DEF Reuse, InProgress
  <2> QED BY <2>1, <2>2
<1>5. CASE Fetch(j)
  BY <1>5, FetchKeeps
<1>6. CASE StartClone(j)
  BY <1>6, StartCloneKeeps
<1>7. CASE Clone(j)
  BY <1>7, CloneKeeps
<1>8. CASE Rename(j)
  BY <1>8, RenameKeeps
<1>9. CASE WorktreeAdd(j)
  BY <1>9, WorktreeAddKeeps
<1>10. CASE Prepare(j)
  <2>1. CASE To(j, "ready") /\ UNCHANGED faults
    BY <1>0, <1>10, <2>1, SimpleKeeps DEF Prepare, InProgress
  <2>2. CASE To(j, "cleanup") /\ Fault
    BY <1>0, <1>10, <2>2, SimpleKeeps DEF Prepare, InProgress
  <2> QED BY <1>10, <2>1, <2>2 DEF Prepare
<1>11. CASE Finish(j)
  BY <1>0, <1>11, SimpleKeeps DEF Finish, InProgress
<1>12. CASE CleanupEarly(j)
  BY <1>0, <1>12, SimpleKeeps DEF CleanupEarly, InProgress
<1>13. CASE CleanupLock(j)
  BY <1>0, <1>13, SimpleKeeps DEF CleanupLock, InProgress
<1>14. CASE WorktreeRemove(j)
  BY <1>14, WorktreeRemoveKeeps
<1> QED BY <1>1, <1>2, <1>3, <1>4, <1>5, <1>6, <1>7, <1>8, <1>9, <1>10, <1>11, <1>12, <1>13,
           <1>14 DEF JobStep

\* Failures, timeouts and crashes.
LEMMA JobFailsKeeps == ASSUME RepoIInv, NEW j \in Jobs, JobFails(j) PROVE RepoIInv'
<1> USE RepoCacheAssumption
<1>0. faults \in 0..MaxFaults /\ keyFile \subseteq Jobs /\ (Fault => faults' \in 0..MaxFaults)
  BY DEF RepoIInv, TypeOK, Fault
<1>1. CASE LockCancelled(j)
  BY <1>0, <1>1, FailKeeps DEF LockCancelled, CommandFails, InProgress
<1>2. CASE CloneFails(j)
  BY <1>0, <1>2, FailKeeps DEF CloneFails, CommandFails, InProgress
<1>3. CASE RepoFails(j)
  BY <1>0, <1>3, FailKeeps DEF RepoFails, CommandFails, InProgress
<1>4. CASE WorktreeAddFails(j)
  BY <1>0, <1>4, FailKeeps DEF WorktreeAddFails, CommandFails, InProgress
<1>5. CASE CleanupTimeout(j)
  BY <1>0, <1>5, SimpleKeeps DEF CleanupTimeout, InProgress
<1>6. CASE Crash(j)
  BY <1>0, <1>6, SimpleKeeps DEF Crash
<1> QED BY <1>1, <1>2, <1>3, <1>4, <1>5, <1>6 DEF JobFails

LEMMA RepoInitInv == Init => KeysIInv /\ RepoIInv
<1> SUFFICES ASSUME Init PROVE KeysIInv /\ RepoIInv
  OBVIOUS
<1>1. KeysIInv
  BY KeysInitInv DEF Init
<1>2. TypeOK
  <2>1. \A p \in Projects : Cardinality(flock[p]) <= 1
    BY FS_EmptySet DEF Init
  <2> QED BY <1>1, <2>1, RepoCacheAssumption DEF Init, TypeOK, KeysIInv, InProgress
<1>3. OneHolder /\ CachesWhole /\ SinceKnown /\ CloneInv /\ CacheInv /\ NothingLeft
  BY DEF Init, OneHolder, CachesWhole, SinceKnown, CloneInv, CacheInv, NothingLeft, InProgress
<1> QED BY <1>1, <1>2, <1>3 DEF RepoIInv

\* A step of the API, which a job sees only when it loads its context.
LEMMA ApiKeeps == KeysIInv /\ RepoIInv /\ [KeysNext]_keyVars /\ UNCHANGED repoVars => RepoIInv'
<1> SUFFICES ASSUME KeysIInv, RepoIInv, [KeysNext]_keyVars, UNCHANGED repoVars PROVE RepoIInv'
  OBVIOUS
<1>1. KeysTypeOK'
  BY KeysNextKeeps DEF KeysIInv
<1>2. TypeOK'
  BY <1>1 DEF repoVars, RepoIInv, TypeOK
<1>3. CachesWhole' /\ OneHolder' /\ SinceKnown' /\ NothingLeft'
  BY DEF repoVars, RepoIInv, CachesWhole, OneHolder, SinceKnown, NothingLeft, Whole
<1>4. CloneInv' /\ CacheInv'
  BY DEF repoVars, RepoIInv, CloneInv, CacheInv, Whole, Serves, Proj
<1> QED BY <1>2, <1>3, <1>4 DEF RepoIInv

LEMMA RepoNextKeeps == KeysIInv /\ RepoIInv /\ [Next]_allVars => KeysIInv' /\ RepoIInv'
<1> SUFFICES ASSUME KeysIInv, RepoIInv, [Next]_allVars PROVE KeysIInv' /\ RepoIInv'
  OBVIOUS
<1>1. [KeysNext]_keyVars
  <2>1. ASSUME NEW j \in Jobs, JobStep(j) PROVE UNCHANGED keyVars
    BY <2>1 DEF JobStep, WriteKey, Keyscan, LockProject, Reuse, Fetch, StartClone, Clone, Rename,
                WorktreeAdd, Prepare, Finish, CleanupEarly, CleanupLock, WorktreeRemove, Fail, Local
  <2>2. ASSUME NEW j \in Jobs, JobFails(j) PROVE UNCHANGED keyVars
    BY <2>2 DEF JobFails, LockCancelled, CloneFails, RepoFails, WorktreeAddFails, CleanupTimeout,
                Crash, CommandFails, Fail, Local
  <2>3. ASSUME NEW j \in Jobs, NEW p \in Projects, LoadExecutionContext(j, p) PROVE UNCHANGED keyVars
    BY <2>3 DEF LoadExecutionContext, Local
  <2>4. ASSUME NEW r \in Repositories, Push(r) PROVE UNCHANGED keyVars
    BY <2>4 DEF Push
  <2>5. UNCHANGED allVars => UNCHANGED keyVars
    BY DEF allVars
  <2> QED BY <2>1, <2>2, <2>3, <2>4, <2>5 DEF Next
<1>2. KeysIInv'
  BY <1>1, KeysNextKeeps
<1>3. CASE UNCHANGED repoVars
  BY <1>1, <1>2, <1>3, ApiKeeps
<1>4. ASSUME NEW j \in Jobs, NEW p \in Projects, LoadExecutionContext(j, p) PROVE RepoIInv'
  BY <1>4, LoadKeeps
<1>5. ASSUME NEW j \in Jobs, JobStep(j) \/ JobFails(j) PROVE RepoIInv'
  BY <1>5, JobStepKeeps, JobFailsKeeps
<1>6. ASSUME NEW r \in Repositories, Push(r) PROVE RepoIInv'
  BY <1>6, PushKeeps
<1> QED BY <1>2, <1>3, <1>4, <1>5, <1>6 DEF Next, allVars

\* What Prepare promises, whoever else clones, fetches, fails, crashes, pushes or
\* changes the project meanwhile, and whether or not the volume honours flock: the
\* cache is whole, and a prepared job reads its own repository at a commit no older
\* than when it started.
THEOREM PreparedWorkspace == Spec => []WorkspaceInv
<1>1. RepoIInv => WorkspaceInv
  BY DEF RepoIInv, WorkspaceInv, CachesWhole, CacheWhole, Whole, CacheInv, Serves, RightRepository,
         CommitFresh
<1> QED BY <1>1, RepoInitInv, RepoNextKeeps, PTL DEF Spec

\* On whatever path a job ends by itself, Setup's cleanup has removed its private key
\* and Clone its temporary directory.
THEOREM NothingLeftBehind == Spec => []NothingLeft
<1>1. RepoIInv => NothingLeft
  BY DEF RepoIInv
<1> QED BY <1>1, RepoInitInv, RepoNextKeeps, PTL DEF Spec

\* The jobs' view of the library does not matter to it: the composition keeps what
\* ProjectKeys promises alone.
THEOREM RepoAssignmentHolds == Spec => []AssignmentInv
<1>1. KeysIInv => AssignmentInv
  BY DEF KeysIInv, AssignmentInv
<1> QED BY <1>1, RepoInitInv, RepoNextKeeps, PTL DEF Spec
=============================================================================
