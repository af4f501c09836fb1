----------------------- MODULE ProviderSettingsProofs -----------------------
(***************************************************************************)
(* Proofs about the provider settings: for any number of requests and      *)
(* projects, each kind keeps exactly one default that is active, a project *)
(* has one choice and may have it, custom credentials stay with their      *)
(* endpoint, and every saved embedding model has its version.              *)
(*                                                                         *)
(* A step of a request leaves the other requests alone: what UnderWay says *)
(* of them is about rows they have locked, owners, which never change, and *)
(* versions, which are never deleted.  That is Untouched, shown once for   *)
(* every kind of step.                                                     *)
(***************************************************************************)
EXTENDS ProviderSettings, TLAPS, FiniteSetTheorems

-----------------------------------------------------------------------------
(* The parts of the type invariant.                                        *)

TablesTyped ==
  /\ cfg \in [Kinds -> Seq(Row)]
  /\ sel \in [Kinds -> [Projects -> Ids]]
  /\ versions \subseteq Ids \X Models

RequestsTyped ==
  /\ pc \in [Requests -> Steps]
  /\ arg \in [Requests -> Arg \cup {None}]
  /\ \A t \in Requests : pc[t] # "idle" => arg[t] \in Arg
  /\ cur \in [Requests -> Ids]
  /\ seen \in [Requests -> Row \cup {None}]
  /\ want \in [Requests -> SUBSET RowsToLock]
  /\ attempt \in [Requests -> 0..MaxDeadlockRetries]
  /\ lock \in [RowsToLock -> Requests \cup {None}]
  /\ answer \in [Requests -> {"none", "config", "missing"}]
  /\ served \in 0..MaxRequests

Busy == {t \in Requests : pc[t] # "idle"}

\* The requests under way are finitely many, whatever the state.
LEMMA BusyFinite ==
  /\ IsFiniteSet(Busy) /\ Cardinality(Busy) \in Nat
  /\ IsFiniteSet(Busy') /\ Cardinality(Busy') \in Nat
<1>1. IsFiniteSet(Requests)
  BY ProvidersAssumption
<1>2. Busy \subseteq Requests /\ Busy' \subseteq Requests
  BY DEF Busy
<1>3. IsFiniteSet(Busy) /\ IsFiniteSet(Busy')
  BY <1>1, <1>2, FS_Subset
<1> QED
  BY <1>3, FS_CardinalityType

\* The tables stay within the ids because requests are counted.
LEMMA TypeParts ==
  /\ TypeOK => TablesTyped /\ RequestsTyped
  /\ TablesTyped /\ RequestsTyped /\ Counted => TypeOK
<1>1. TypeOK => TablesTyped /\ RequestsTyped
  BY DEF TypeOK, TablesTyped, RequestsTyped
<1>2. ASSUME TablesTyped, RequestsTyped, Counted
      PROVE  TypeOK
  <2>1. ASSUME NEW k \in Kinds
        PROVE  Len(cfg[k]) \in Ids
    <3>1. cfg[k] \in Seq(Row)
      BY <1>2 DEF TablesTyped
    <3>2. Len(cfg[k]) \in Nat
      BY <3>1
    <3>3. Len(cfg[k]) + Cardinality(Busy) <= served + 1
      BY <1>2 DEF Counted, Busy
    <3>4. served \in 0..MaxRequests /\ MaxRequests \in Nat
      BY <1>2, ProvidersAssumption DEF RequestsTyped
    <3> QED
      BY <3>2, <3>3, <3>4, BusyFinite DEF Ids
  <2> QED
    BY <1>2, <2>1 DEF TypeOK, TablesTyped, RequestsTyped
<1> QED
  BY <1>1, <1>2

\* A finite set has at most one element exactly if any two are the same.
LEMMA AtMostOne ==
  ASSUME NEW S, IsFiniteSet(S)
  PROVE  Cardinality(S) <= 1 <=> \A x, y \in S : x = y
<1>1. Cardinality(S) \in Nat
  BY FS_CardinalityType
<1>2. CASE S = {}
  BY <1>2, FS_EmptySet
<1>3. CASE S # {}
  <2>1. PICK x : x \in S
    BY <1>3
  <2>2. Cardinality(S) # 0
    BY <1>3, FS_EmptySet
  <2>3. Cardinality(S) <= 1 <=> Cardinality(S) = 1
    BY <1>1, <2>2
  <2>4. Cardinality(S) = 1 <=> \E y : S = {y}
    BY FS_Singleton
  <2> QED
    BY <2>1, <2>3, <2>4
<1> QED
  BY <1>2, <1>3

LEMMA RowsFinite ==
  ASSUME TablesTyped, NEW k \in Kinds, NEW S, S \subseteq DOMAIN cfg[k]
  PROVE  IsFiniteSet(S)
<1>1. cfg[k] \in Seq(Row)
  BY DEF TablesTyped
<1>2. DOMAIN cfg[k] = 1..Len(cfg[k]) /\ Len(cfg[k]) \in Nat
  BY <1>1
<1>3. IsFiniteSet(1..Len(cfg[k]))
  BY <1>2, FS_Interval
<1> QED
  BY <1>2, <1>3, FS_Subset

LEMMA RowsTyped ==
  ASSUME TablesTyped, NEW k \in Kinds
  PROVE  /\ cfg[k] \in Seq(Row) /\ Len(cfg[k]) \in Nat /\ DOMAIN cfg[k] = 1..Len(cfg[k])
         /\ \A i \in DOMAIN cfg[k] : cfg[k][i] \in Row
<1>1. cfg[k] \in Seq(Row)
  BY DEF TablesTyped
<1> QED
  BY <1>1

-----------------------------------------------------------------------------
(* What a step of one request leaves to the others.                        *)

\* The rows of the tables, as far as a request u depends on them.
RowsUntouched(u) ==
  /\ \A k \in Kinds : \A i \in DOMAIN cfg[k] :
       /\ i \in DOMAIN cfg'[k]
       /\ cfg'[k][i].owner = cfg[k][i].owner
       /\ lock[<<k, i>>] = u /\ cfg[k][i].owner = Platform =>
            cfg'[k][i].avail = cfg[k][i].avail /\ cfg'[k][i].active = cfg[k][i].active
  /\ versions \subseteq versions'

StateUntouched(u) ==
  /\ pc'[u] = pc[u] /\ arg'[u] = arg[u] /\ cur'[u] = cur[u]
  /\ seen'[u] = seen[u] /\ want'[u] = want[u]
  /\ \A x \in RowsToLock : lock[x] = u => lock'[x] = u

LEMMA OthersKept ==
  ASSUME TypeOK, NEW u \in Requests, UnderWay(u), StateUntouched(u), RowsUntouched(u)
  PROVE  UnderWay(u)'
<1> SUFFICES ASSUME pc[u] # "idle"
             PROVE  UnderWay(u)'
  BY DEF UnderWay, StateUntouched
<1>1. arg[u] \in Arg /\ cur[u] \in Ids
  BY DEF TypeOK
<1>2. arg[u].kind \in Kinds /\ arg[u].id \in Ids
  BY <1>1 DEF Arg
<1>3. <<arg[u].kind, arg[u].id>> \in RowsToLock /\ <<arg[u].kind, cur[u]>> \in RowsToLock
  BY <1>1, <1>2 DEF RowsToLock
<1>4. Named(u) /\ StepOf(u) /\ SelectionHeld(u) /\ RowsHeld(u) /\ StaleReads(u)
  BY DEF UnderWay
<1>5. Named(u)' /\ StepOf(u)'
  BY <1>4 DEF Named, StepOf, StateUntouched
<1>6. SelectionHeld(u)'
  BY <1>2, <1>3, <1>4 DEF SelectionHeld, StateUntouched, RowsUntouched
<1>7. RowsHeld(u)'
  <2>1. ASSUME pc[u] = "users"
        PROVE  /\ cur[u] \in DOMAIN cfg'[arg[u].kind]
               /\ cfg'[arg[u].kind][cur[u]].owner = Platform
               /\ lock'[<<arg[u].kind, cur[u]>>] = u
    BY <1>2, <1>3, <1>4, <2>1 DEF RowsHeld, StateUntouched, RowsUntouched
  <2>2. ASSUME pc[u] \in {"second", "unique"}, cur[u] # 0
        PROVE  lock'[<<arg[u].kind, cur[u]>>] = u
    BY <1>3, <1>4, <2>2 DEF RowsHeld, StateUntouched
  <2>3. ASSUME pc[u] = "unique", arg[u].op = "promote"
        PROVE  /\ arg[u].id \in GlobalRows(arg[u].kind)'
               /\ lock'[<<arg[u].kind, arg[u].id>>] = u
    <3>1. arg[u].id \in GlobalRows(arg[u].kind) /\ lock[<<arg[u].kind, arg[u].id>>] = u
      BY <1>4, <2>3 DEF RowsHeld
    <3>2. /\ arg[u].id \in DOMAIN cfg[arg[u].kind]
          /\ cfg[arg[u].kind][arg[u].id].owner = Platform
          /\ cfg[arg[u].kind][arg[u].id].active
      BY <3>1 DEF GlobalRows
    <3>3. /\ arg[u].id \in DOMAIN cfg'[arg[u].kind]
          /\ cfg'[arg[u].kind][arg[u].id].owner = Platform
          /\ cfg'[arg[u].kind][arg[u].id].active
      BY <1>2, <3>1, <3>2 DEF RowsUntouched
    <3>4. arg'[u] = arg[u]
      BY DEF StateUntouched
    <3>5. arg[u].id \in GlobalRows(arg[u].kind)'
      BY <3>3, <3>4 DEF GlobalRows
    <3> QED
      BY <1>3, <3>1, <3>5 DEF StateUntouched
  <2> QED
    BY <2>1, <2>2, <2>3 DEF RowsHeld, StateUntouched
<1>8. StaleReads(u)'
  BY <1>4 DEF StaleReads, StateUntouched, RowsUntouched, MustReenter
<1> QED
  BY <1>5, <1>6, <1>7, <1>8 DEF UnderWay

-----------------------------------------------------------------------------
(* Three kinds of step: a statement of a transaction, the end of one, and  *)
(* the commit that changes the tables.                                     *)

\* The other requests see nothing of a step of t but its locks.
OnlyOf(t) == \A u \in Requests \ {t} : StateUntouched(u)

LEMMA TypesOf ==
  ASSUME ProvidersIInv
  PROVE  TypeOK /\ TablesTyped /\ RequestsTyped
BY TypeParts DEF ProvidersIInv, SettingsInv

\* A statement leaves the tables alone and its request under way.
LEMMA StatementKeeps ==
  ASSUME ProvidersIInv, NEW t \in Requests, pc[t] # "idle", pc'[t] # "idle",
         UNCHANGED <<tables, answer, served>>, RequestsTyped', OnlyOf(t), UnderWay(t)'
  PROVE  ProvidersIInv'
<1>1. TypeOK /\ TablesTyped
  BY TypesOf
<1>2. \A u \in Requests \ {t} : RowsUntouched(u)
  BY DEF tables, RowsUntouched
<1>3. \A u \in Requests : UnderWay(u)'
  <2>1. ASSUME NEW u \in Requests \ {t}
        PROVE  UnderWay(u)'
    <3>1. UnderWay(u) /\ StateUntouched(u) /\ RowsUntouched(u)
      BY <1>2 DEF ProvidersIInv, OnlyOf
    <3> QED
      BY <1>1, <3>1, OthersKept
  <2> QED
    BY <2>1
<1>4. Busy' = Busy
  BY DEF Busy, OnlyOf, StateUntouched
<1>5. Counted'
  BY <1>4 DEF ProvidersIInv, Counted, Busy, tables
<1>6. TypeOK'
  <2>1. TablesTyped'
    BY <1>1 DEF TablesTyped, tables
  <2> QED
    BY <1>5, <2>1, TypeParts, PTL
<1>7. Seeded'
  <2>1. \A k \in Kinds : DefaultRows(k)' = DefaultRows(k) /\ DefaultEntries(k)' = DefaultEntries(k)
    BY DEF DefaultRows, DefaultEntries, tables
  <2>2. \A u \in Requests : pc'[u] # "idle" => pc[u] # "idle"
    BY DEF OnlyOf, StateUntouched
  <2> QED
    BY <2>1, <2>2 DEF ProvidersIInv, Seeded, tables
<1>8. /\ SelectionShareable' /\ OneChoice' /\ SelectionIsRow'
      /\ CustomCredentials' /\ VersionRecorded' /\ ResolveFinds'
  <2>1. \A k \in Kinds, p \in Projects : CustomRows(k, p)' = CustomRows(k, p)
    BY DEF CustomRows, tables
  <2> QED
    BY <2>1 DEF ProvidersIInv, SettingsInv, SelectionShareable, OneChoice, SelectionIsRow,
                CustomCredentials, VersionRecorded, ResolveFinds, tables
<1> QED
  BY <1>3, <1>5, <1>6, <1>7, <1>8 DEF ProvidersIInv, SettingsInv

\* The end of a transaction gives back its locks and no others.
LEMMA EndEffect ==
  ASSUME RequestsTyped, NEW t \in Requests, End(t),
         answer' \in [Requests -> {"none", "config", "missing"}]
  PROVE  /\ RequestsTyped' /\ OnlyOf(t) /\ UnderWay(t)' /\ pc'[t] = "idle"
         /\ Busy' = Busy \ {t} /\ served' = served
<1>1. /\ pc' = [pc EXCEPT ![t] = "idle"]
      /\ arg' = [arg EXCEPT ![t] = None]
      /\ cur' = [cur EXCEPT ![t] = 0]
      /\ seen' = [seen EXCEPT ![t] = None]
      /\ want' = [want EXCEPT ![t] = {}]
      /\ attempt' = [attempt EXCEPT ![t] = 0]
      /\ lock' = [x \in RowsToLock |-> IF lock[x] = t THEN None ELSE lock[x]]
      /\ served' = served
  BY DEF End, Unlocked
<1>2. pc'[t] = "idle" /\ pc' \in [Requests -> Steps]
  BY <1>1 DEF RequestsTyped, Steps
<1>3. lock' \in [RowsToLock -> Requests \cup {None}]
  BY <1>1 DEF RequestsTyped
<1>4. /\ arg' \in [Requests -> Arg \cup {None}]
      /\ \A u \in Requests : pc'[u] # "idle" => arg'[u] \in Arg
  BY <1>1 DEF RequestsTyped
<1>5. 0 \in Ids /\ 0 \in 0..MaxDeadlockRetries
  BY ProvidersAssumption DEF Ids
<1>6. cur' \in [Requests -> Ids] /\ attempt' \in [Requests -> 0..MaxDeadlockRetries]
  BY <1>1, <1>5 DEF RequestsTyped
<1>7. seen' \in [Requests -> Row \cup {None}] /\ want' \in [Requests -> SUBSET RowsToLock]
  BY <1>1 DEF RequestsTyped
<1>8. RequestsTyped'
  BY <1>1, <1>2, <1>3, <1>4, <1>6, <1>7 DEF RequestsTyped
<1>9. OnlyOf(t)
  <2> SUFFICES ASSUME NEW u \in Requests \ {t}
               PROVE  StateUntouched(u)
    BY DEF OnlyOf
  <2>1. /\ pc'[u] = pc[u] /\ arg'[u] = arg[u] /\ cur'[u] = cur[u]
        /\ seen'[u] = seen[u] /\ want'[u] = want[u]
    BY <1>1 DEF RequestsTyped
  <2>2. \A x \in RowsToLock : lock[x] = u => lock'[x] = u
    BY <1>1
  <2> QED
    BY <2>1, <2>2 DEF StateUntouched
<1>10. Busy' = Busy \ {t}
  BY <1>1, <1>2 DEF Busy, RequestsTyped
<1> QED
  BY <1>1, <1>2, <1>8, <1>9, <1>10 DEF UnderWay

\* What a commit has to show of the tables.
TablesKept(t) ==
  /\ TablesTyped'
  /\ \A k \in Kinds : Len(cfg'[k]) <= Len(cfg[k]) + 1
  /\ SelectionShareable' /\ OneChoice' /\ SelectionIsRow' /\ CustomCredentials' /\ VersionRecorded'
  /\ \A k \in Kinds : \E d : DefaultEntries(k)' = {d} /\ d \in DefaultRows(k)'
  /\ \A u \in Requests \ {t} : RowsUntouched(u)

LEMMA CommitKeeps ==
  ASSUME ProvidersIInv, NEW t \in Requests, pc[t] # "idle", End(t),
         answer' \in [Requests -> {"none", "config"}], TablesKept(t)
  PROVE  ProvidersIInv'
<1>1. TypeOK /\ TablesTyped /\ RequestsTyped
  BY TypesOf
<1>2. answer' \in [Requests -> {"none", "config", "missing"}]
  OBVIOUS
<1>3. /\ RequestsTyped' /\ OnlyOf(t) /\ UnderWay(t)' /\ pc'[t] = "idle"
      /\ Busy' = Busy \ {t} /\ served' = served
  BY <1>1, <1>2, EndEffect
<1>4. \A u \in Requests : UnderWay(u)'
  <2>1. ASSUME NEW u \in Requests \ {t}
        PROVE  UnderWay(u)'
    <3>1. UnderWay(u) /\ StateUntouched(u) /\ RowsUntouched(u)
      BY <1>3 DEF ProvidersIInv, OnlyOf, TablesKept
    <3> QED
      BY <1>1, <3>1, OthersKept
  <2> QED
    BY <1>3, <2>1
<1>5. Counted'
  <2>1. t \in Busy
    BY DEF Busy
  <2>2. Cardinality(Busy') = Cardinality(Busy) - 1
    BY <1>3, <2>1, BusyFinite, FS_RemoveElement
  <2>3. ASSUME NEW k \in Kinds
        PROVE  Len(cfg'[k]) + Cardinality(Busy') <= served' + 1
    <3>1. Len(cfg[k]) + Cardinality(Busy) <= served + 1
      BY DEF ProvidersIInv, Counted, Busy
    <3>2. Len(cfg'[k]) <= Len(cfg[k]) + 1
      BY DEF TablesKept
    <3>3. cfg[k] \in Seq(Row) /\ cfg'[k] \in Seq(Row)
      BY <1>1 DEF TablesKept, TablesTyped
    <3>4. Len(cfg[k]) \in Nat /\ Len(cfg'[k]) \in Nat /\ served \in Nat
      BY <1>1, <3>3 DEF RequestsTyped
    <3> QED
      BY <1>3, <2>2, <3>1, <3>2, <3>4, BusyFinite
  <2> QED
    BY <2>3 DEF Counted, Busy
<1>6. TypeOK'
  <2>1. TablesTyped'
    BY DEF TablesKept
  <2> QED
    BY <1>3, <1>5, <2>1, TypeParts, PTL
<1>7. Seeded'
  <2>1. \A u \in Requests : pc'[u] # "idle" => pc[u] # "idle"
    BY <1>3 DEF OnlyOf, StateUntouched
  <2>2. \A k \in Kinds : \E d \in DefaultRows(k)' : DefaultEntries(k)' = {d}
    BY DEF TablesKept
  <2>3. \A k \in Kinds : cfg'[k] # <<>>
    BY <2>2 DEF DefaultRows
  <2>4. served' > 0 => served > 0
    BY <1>3
  <2> QED
    BY <1>3, <2>1, <2>2, <2>3, <2>4 DEF ProvidersIInv, Seeded
<1>8. ResolveFinds'
  BY DEF ResolveFinds
<1> QED
  BY <1>4, <1>5, <1>6, <1>7, <1>8 DEF ProvidersIInv, SettingsInv, TablesKept

\* Nothing but a resolve changes what was answered.
LEMMA AnswersKept ==
  ASSUME ProvidersIInv, UNCHANGED answer
  PROVE  answer' \in [Requests -> {"none", "config"}]
<1>1. answer \in [Requests -> {"none", "config", "missing"}]
  BY TypesOf DEF RequestsTyped
<1>2. \A t \in Requests : answer[t] # "missing"
  BY DEF ProvidersIInv, ResolveFinds
<1> QED
  BY <1>1, <1>2

\* While a request is under way both tables have their default.
LEMMA DefaultThere ==
  ASSUME ProvidersIInv, NEW t \in Requests, pc[t] # "idle", NEW k \in Kinds
  PROVE  \E d : DefaultEntries(k) = {d} /\ d \in DefaultRows(k)
<1>1. served > 0
  BY DEF ProvidersIInv, Seeded
<1>2. cfg[k] # <<>>
  BY <1>1 DEF ProvidersIInv, Seeded
<1> QED
  BY <1>2 DEF ProvidersIInv, Seeded

\* Tables that do not change are kept.
LEMMA UnchangedKept ==
  ASSUME ProvidersIInv, NEW t \in Requests, pc[t] # "idle", UNCHANGED tables
  PROVE  TablesKept(t)
<1>0. cfg' = cfg /\ sel' = sel /\ versions' = versions
  BY DEF tables
<1>1. TablesTyped'
  BY <1>0, TypesOf DEF TablesTyped
<1>2. \A k \in Kinds : Len(cfg'[k]) <= Len(cfg[k]) + 1
  BY <1>0, TypesOf, RowsTyped
<1>3. \A k \in Kinds, p \in Projects : CustomRows(k, p)' = CustomRows(k, p)
  BY <1>0 DEF CustomRows
<1>4. SelectionShareable' /\ OneChoice' /\ SelectionIsRow' /\ CustomCredentials' /\ VersionRecorded'
  BY <1>0, <1>3 DEF ProvidersIInv, SettingsInv, SelectionShareable, OneChoice, SelectionIsRow,
                    CustomCredentials, VersionRecorded
<1>5. \A k \in Kinds : DefaultRows(k)' = DefaultRows(k) /\ DefaultEntries(k)' = DefaultEntries(k)
  BY <1>0 DEF DefaultRows, DefaultEntries
<1>6. \A k \in Kinds : \E d : DefaultEntries(k)' = {d} /\ d \in DefaultRows(k)'
  BY <1>5, DefaultThere
<1>7. \A u \in Requests \ {t} : RowsUntouched(u)
  BY <1>0 DEF RowsUntouched
<1> QED
  BY <1>1, <1>2, <1>4, <1>6, <1>7 DEF TablesKept

LEMMA RefuseKeeps ==
  ASSUME ProvidersIInv, NEW t \in Requests, pc[t] # "idle", Refuse(t)
  PROVE  ProvidersIInv'
<1>1. End(t) /\ UNCHANGED tables /\ UNCHANGED answer
  BY DEF Refuse
<1>2. TablesKept(t)
  BY <1>1, UnchangedKept
<1>3. answer' \in [Requests -> {"none", "config"}]
  BY <1>1, AnswersKept
<1> QED
  BY <1>1, <1>2, <1>3, CommitKeeps

\* A resolve that finds a configuration.
LEMMA AnswerKeeps ==
  ASSUME ProvidersIInv, NEW t \in Requests, pc[t] # "idle", Answer(t, "config")
  PROVE  ProvidersIInv'
<1>1. End(t) /\ UNCHANGED tables /\ answer' = [answer EXCEPT ![t] = "config"]
  BY DEF Answer
<1>2. TablesKept(t)
  BY <1>1, UnchangedKept
<1>3. answer' \in [Requests -> {"none", "config"}]
  <2>1. answer \in [Requests -> {"none", "config", "missing"}]
    BY TypesOf DEF RequestsTyped
  <2>2. \A u \in Requests : answer[u] # "missing"
    BY DEF ProvidersIInv, ResolveFinds
  <2> QED
    BY <1>1, <2>1, <2>2
<1> QED
  BY <1>1, <1>2, <1>3, CommitKeeps

-----------------------------------------------------------------------------
(* The requests come in.                                                   *)

\* What the routes and the bodies' checks leave of a request.
Proper(op, p, b, step) ==
  /\ \/ op \in {"select", "custom", "reset"} /\ step = "lockProject"
     \/ op \in {"replace", "patch", "delete", "promote", "resolve"} /\ step = "read"
  /\ op \in {"select", "custom", "reset", "resolve"} => p \in Projects
  /\ op \in {"custom", "replace"} => b \in Saves
  /\ op = "patch" => b \in Patches

LEMMA ServeKeeps ==
  ASSUME ProvidersIInv, NEW t \in Requests, NEW k \in Kinds, NEW op, NEW p, NEW i, NEW b, NEW step,
         Serve(t, k, op, p, i, b, step),
         [op |-> op, kind |-> k, proj |-> p, id |-> i, body |-> b] \in Arg,
         Proper(op, p, b, step)
  PROVE  ProvidersIInv'
<1> DEFINE a == [op |-> op, kind |-> k, proj |-> p, id |-> i, body |-> b]
<1>1. TypeOK /\ TablesTyped /\ RequestsTyped
  BY TypesOf
<1>2. /\ pc[t] = "idle" /\ Serving /\ served' = served + 1
      /\ pc' = [pc EXCEPT ![t] = step] /\ arg' = [arg EXCEPT ![t] = a]
      /\ answer' = [answer EXCEPT ![t] = "none"]
      /\ cfg' = cfg /\ sel' = sel /\ versions' = versions
      /\ cur' = cur /\ seen' = seen /\ want' = want /\ attempt' = attempt /\ lock' = lock
  BY DEF Serve, tables
<1>3. step \in {"lockProject", "read"}
  BY DEF Proper
<1>4. /\ pc'[t] = step /\ arg'[t] = a
      /\ \A u \in Requests \ {t} : pc'[u] = pc[u] /\ arg'[u] = arg[u]
  BY <1>1, <1>2 DEF RequestsTyped
<1>5. RequestsTyped'
  <2>1. served' \in 0..MaxRequests
    BY <1>1, <1>2, ProvidersAssumption DEF RequestsTyped, Serving
  <2>2. pc' \in [Requests -> Steps]
    BY <1>1, <1>2, <1>3 DEF RequestsTyped, Steps
  <2>3. arg' \in [Requests -> Arg \cup {None}]
    BY <1>1, <1>2 DEF RequestsTyped
  <2>4. \A u \in Requests : pc'[u] # "idle" => arg'[u] \in Arg
    BY <1>1, <1>4 DEF RequestsTyped
  <2>5. answer' \in [Requests -> {"none", "config", "missing"}]
    BY <1>1, <1>2 DEF RequestsTyped
  <2> QED
    BY <1>1, <1>2, <2>1, <2>2, <2>3, <2>4, <2>5 DEF RequestsTyped
<1>6. Counted'
  <2>1. Busy' = Busy \cup {t} /\ t \notin Busy
    BY <1>2, <1>3, <1>4 DEF Busy
  <2>2. Cardinality(Busy') = Cardinality(Busy) + 1
    BY <2>1, BusyFinite, FS_AddElement
  <2>3. ASSUME NEW j \in Kinds
        PROVE  Len(cfg'[j]) + Cardinality(Busy') <= served' + 1
    <3>1. Len(cfg[j]) + Cardinality(Busy) <= served + 1
      BY DEF ProvidersIInv, Counted, Busy
    <3>2. Len(cfg[j]) \in Nat /\ served \in Nat
      BY <1>1, RowsTyped DEF RequestsTyped
    <3> QED
      BY <1>2, <2>2, <3>1, <3>2, BusyFinite
  <2> QED
    BY <2>3 DEF Counted, Busy
<1>7. TypeOK'
  <2>1. TablesTyped'
    BY <1>1, <1>2 DEF TablesTyped
  <2> QED
    BY <1>5, <1>6, <2>1, TypeParts, PTL
<1>8. Seeded'
  <2>1. \A j \in Kinds : DefaultRows(j)' = DefaultRows(j) /\ DefaultEntries(j)' = DefaultEntries(j)
    BY <1>2 DEF DefaultRows, DefaultEntries
  <2>2. \A j \in Kinds : cfg[j] # <<>>
    <3>1. CASE served = 0
      BY <1>2, <3>1 DEF Serving, DefaultRows
    <3>2. CASE served # 0
      BY <1>1, <3>2 DEF ProvidersIInv, Seeded, RequestsTyped
    <3> QED
      BY <3>1, <3>2
  <2>3. served' > 0
    BY <1>1, <1>2 DEF RequestsTyped
  <2> QED
    BY <1>2, <2>1, <2>2, <2>3 DEF ProvidersIInv, Seeded
<1>9. /\ SelectionShareable' /\ OneChoice' /\ SelectionIsRow'
      /\ CustomCredentials' /\ VersionRecorded'
  <2>1. \A j \in Kinds, q \in Projects : CustomRows(j, q)' = CustomRows(j, q)
    BY <1>2 DEF CustomRows
  <2> QED
    BY <1>2, <2>1 DEF ProvidersIInv, SettingsInv, SelectionShareable, OneChoice, SelectionIsRow,
                CustomCredentials, VersionRecorded
<1>10. ResolveFinds'
  BY <1>1, <1>2 DEF ProvidersIInv, ResolveFinds, RequestsTyped
<1>11. \A u \in Requests : UnderWay(u)'
  <2>1. ASSUME NEW u \in Requests \ {t}
        PROVE  UnderWay(u)'
    <3>1. UnderWay(u)
      BY DEF ProvidersIInv
    <3>2. StateUntouched(u)
      BY <1>2, <1>4 DEF StateUntouched
    <3>3. RowsUntouched(u)
      BY <1>2 DEF RowsUntouched
    <3> QED
      BY <1>1, <3>1, <3>2, <3>3, OthersKept
  <2>2. UnderWay(t)'
    <3>1. Named(t)'
      BY <1>4 DEF Named, Proper
    <3>2. StepOf(t)'
      BY <1>4 DEF StepOf, Proper
    <3>3. SelectionHeld(t)' /\ RowsHeld(t)' /\ StaleReads(t)'
      BY <1>3, <1>4 DEF SelectionHeld, RowsHeld, StaleReads
    <3> QED
      BY <3>1, <3>2, <3>3 DEF UnderWay
  <2> QED
    BY <2>1, <2>2
<1> QED
  BY <1>6, <1>7, <1>8, <1>9, <1>10, <1>11 DEF ProvidersIInv, SettingsInv

\* The handlers only serve what their routes and bodies allow.
LEMMA RequestKeeps ==
  ASSUME ProvidersIInv, NEW t \in Requests, NEW k \in Kinds,
         \/ HandleProjectUpdate(k, t) \/ HandleProjectDelete(k, t) \/ HandleGlobalUpdate(k, t)
         \/ HandleUpdateGlobalConfigByID(k, t) \/ HandleDeleteGlobalConfig(k, t)
         \/ HandlePromoteGlobalConfigToDefault(k, t) \/ HandleProjectResolved(k, t)
  PROVE  ProvidersIInv'
<1>1. DOMAIN cfg[k] \subseteq Ids
  <2>1. Len(cfg[k]) \in Ids
    BY TypesOf DEF TypeOK
  <2>2. Len(cfg[k]) \in Nat /\ DOMAIN cfg[k] = 1..Len(cfg[k])
    BY TypesOf, RowsTyped
  <2> QED
    BY <2>1, <2>2, ProvidersAssumption DEF Ids
<1>2. 0 \in Ids
  BY ProvidersAssumption DEF Ids
<1>3. \A p \in Projects, i \in DOMAIN cfg[k] :
        [op |-> "select", kind |-> k, proj |-> p, id |-> i, body |-> None] \in Arg
  BY <1>1 DEF Arg
<1>4. \A p \in Projects, b \in Saves :
        [op |-> "custom", kind |-> k, proj |-> p, id |-> 0, body |-> b] \in Arg
  BY <1>2 DEF Arg
<1>5. \A p \in Projects, op \in {"reset", "resolve"} :
        [op |-> op, kind |-> k, proj |-> p, id |-> 0, body |-> None] \in Arg
  BY <1>2 DEF Arg
<1>6. \A b \in Saves : [op |-> "replace", kind |-> k, proj |-> None, id |-> 0, body |-> b] \in Arg
  BY <1>2 DEF Arg
<1>7. \A b \in Patches, i \in DOMAIN cfg[k] :
        [op |-> "patch", kind |-> k, proj |-> None, id |-> i, body |-> b] \in Arg
  BY <1>1 DEF Arg
<1>8. \A op \in {"delete", "promote"}, i \in DOMAIN cfg[k] :
        [op |-> op, kind |-> k, proj |-> None, id |-> i, body |-> None] \in Arg
  BY <1>1 DEF Arg
<1>9. CASE \E p \in Projects, i \in DOMAIN cfg[k] : Serve(t, k, "select", p, i, None, "lockProject")
  <2>1. PICK p \in Projects, i \in DOMAIN cfg[k] : Serve(t, k, "select", p, i, None, "lockProject")
    BY <1>9
  <2>2. [op |-> "select", kind |-> k, proj |-> p, id |-> i, body |-> None] \in Arg
    BY <1>3
  <2>3. Proper("select", p, None, "lockProject")
    BY DEF Proper
  <2> QED
    BY <2>1, <2>2, <2>3, ServeKeeps, Zenon
<1>10. CASE \E p \in Projects, b \in Saves : Serve(t, k, "custom", p, 0, b, "lockProject")
  <2>1. PICK p \in Projects, b \in Saves : Serve(t, k, "custom", p, 0, b, "lockProject")
    BY <1>10
  <2>2. [op |-> "custom", kind |-> k, proj |-> p, id |-> 0, body |-> b] \in Arg
    BY <1>4
  <2>3. Proper("custom", p, b, "lockProject")
    BY DEF Proper
  <2> QED
    BY <2>1, <2>2, <2>3, ServeKeeps, Zenon
<1>11. CASE \E p \in Projects : Serve(t, k, "reset", p, 0, None, "lockProject")
  <2>1. PICK p \in Projects : Serve(t, k, "reset", p, 0, None, "lockProject")
    BY <1>11
  <2>2. [op |-> "reset", kind |-> k, proj |-> p, id |-> 0, body |-> None] \in Arg
    BY <1>5
  <2>3. Proper("reset", p, None, "lockProject")
    BY DEF Proper
  <2> QED
    BY <2>1, <2>2, <2>3, ServeKeeps, Zenon
<1>12. CASE \E b \in Saves : Serve(t, k, "replace", None, 0, b, "read")
  <2>1. PICK b \in Saves : Serve(t, k, "replace", None, 0, b, "read")
    BY <1>12
  <2>2. [op |-> "replace", kind |-> k, proj |-> None, id |-> 0, body |-> b] \in Arg
    BY <1>6
  <2>3. Proper("replace", None, b, "read")
    BY DEF Proper
  <2> QED
    BY <2>1, <2>2, <2>3, ServeKeeps, Zenon
<1>13. CASE \E i \in DOMAIN cfg[k], b \in Patches : Serve(t, k, "patch", None, i, b, "read")
  <2>1. PICK i \in DOMAIN cfg[k], b \in Patches : Serve(t, k, "patch", None, i, b, "read")
    BY <1>13
  <2>2. [op |-> "patch", kind |-> k, proj |-> None, id |-> i, body |-> b] \in Arg
    BY <1>7
  <2>3. Proper("patch", None, b, "read")
    BY DEF Proper
  <2> QED
    BY <2>1, <2>2, <2>3, ServeKeeps, Zenon
<1>14. CASE \E i \in DOMAIN cfg[k] : Serve(t, k, "delete", None, i, None, "read")
  <2>1. PICK i \in DOMAIN cfg[k] : Serve(t, k, "delete", None, i, None, "read")
    BY <1>14
  <2>2. [op |-> "delete", kind |-> k, proj |-> None, id |-> i, body |-> None] \in Arg
    BY <1>8
  <2>3. Proper("delete", None, None, "read")
    BY DEF Proper
  <2> QED
    BY <2>1, <2>2, <2>3, ServeKeeps, Zenon
<1>15. CASE \E i \in DOMAIN cfg[k] : Serve(t, k, "promote", None, i, None, "read")
  <2>1. PICK i \in DOMAIN cfg[k] : Serve(t, k, "promote", None, i, None, "read")
    BY <1>15
  <2>2. [op |-> "promote", kind |-> k, proj |-> None, id |-> i, body |-> None] \in Arg
    BY <1>8
  <2>3. Proper("promote", None, None, "read")
    BY DEF Proper
  <2> QED
    BY <2>1, <2>2, <2>3, ServeKeeps, Zenon
<1>16. CASE \E p \in Projects : Serve(t, k, "resolve", p, 0, None, "read")
  <2>1. PICK p \in Projects : Serve(t, k, "resolve", p, 0, None, "read")
    BY <1>16
  <2>2. [op |-> "resolve", kind |-> k, proj |-> p, id |-> 0, body |-> None] \in Arg
    BY <1>5
  <2>3. Proper("resolve", p, None, "read")
    BY DEF Proper
  <2> QED
    BY <2>1, <2>2, <2>3, ServeKeeps, Zenon
<1> QED
  BY <1>9, <1>10, <1>11, <1>12, <1>13, <1>14, <1>15, <1>16
  DEF HandleProjectUpdate, HandleProjectDelete, HandleGlobalUpdate, HandleUpdateGlobalConfigByID,
      HandleDeleteGlobalConfig, HandlePromoteGlobalConfigToDefault, HandleProjectResolved

-----------------------------------------------------------------------------
(* The statements of a transaction.                                        *)

\* What a request under way is about.
LEMMA ArgTyped ==
  ASSUME ProvidersIInv, NEW t \in Requests, pc[t] # "idle"
  PROVE  /\ arg[t] \in Arg /\ arg[t].kind \in Kinds /\ arg[t].id \in Ids /\ cur[t] \in Ids
         /\ Named(t) /\ StepOf(t) /\ SelectionHeld(t) /\ RowsHeld(t) /\ StaleReads(t)
<1>1. arg[t] \in Arg /\ cur[t] \in Ids
  BY TypesOf DEF RequestsTyped
<1>2. UnderWay(t)
  BY DEF ProvidersIInv
<1> QED
  BY <1>1, <1>2 DEF Arg, UnderWay

\* A statement that only moves on, and perhaps records an id or a row.
LEMMA MovesOn ==
  ASSUME ProvidersIInv, NEW t \in Requests, pc[t] # "idle", NEW step \in Steps \ {"idle"},
         pc' = [pc EXCEPT ![t] = step],
         NEW c \in Ids, cur' = [cur EXCEPT ![t] = c],
         NEW r \in Row \cup {None}, seen' = [seen EXCEPT ![t] = r],
         UNCHANGED <<tables, arg, want, attempt, lock, answer, served>>,
         StepOf(t)', SelectionHeld(t)', RowsHeld(t)', StaleReads(t)'
  PROVE  ProvidersIInv'
<1>1. RequestsTyped
  BY TypesOf
<1>2. pc'[t] = step /\ pc'[t] # "idle" /\ arg'[t] = arg[t]
  BY <1>1 DEF RequestsTyped
<1>3. RequestsTyped'
  <2>1. pc' \in [Requests -> Steps] /\ cur' \in [Requests -> Ids] /\ seen' \in [Requests -> Row \cup {None}]
    BY <1>1 DEF RequestsTyped
  <2>2. \A u \in Requests : pc'[u] # "idle" => arg'[u] \in Arg
    BY <1>1 DEF RequestsTyped
  <2> QED
    BY <1>1, <2>1, <2>2 DEF RequestsTyped
<1>4. OnlyOf(t)
  BY <1>1 DEF OnlyOf, StateUntouched, RequestsTyped
<1>5. Named(t)'
  BY <1>2, ArgTyped DEF Named
<1>6. UnderWay(t)'
  BY <1>5 DEF UnderWay
<1> QED
  BY <1>2, <1>3, <1>4, <1>6, StatementKeeps DEF tables

LEMMA ReadDefaultKeeps ==
  ASSUME ProvidersIInv, NEW t \in Requests, NEW k \in Kinds, ReadDefault(k, t)
  PROVE  ProvidersIInv'
<1> DEFINE d == TheRow(DefaultRows(k))
           current == IF d = 0 THEN None ELSE cfg[k][d]
<1>1. pc[t] = "read" /\ arg[t].op = "replace" /\ arg[t].kind = k
  BY DEF ReadDefault
<1>2. CASE Refuse(t)
  BY <1>1, <1>2, RefuseKeeps
<1>3. CASE /\ seen' = [seen EXCEPT ![t] = current]
           /\ pc' = [pc EXCEPT ![t] = "pick"]
           /\ UNCHANGED <<tables, arg, cur, want, attempt, lock, answer, served>>
  <2>0. TablesTyped /\ RequestsTyped
    BY TypesOf
  <2>1. current \in Row \cup {None}
    <3>1. d = 0 \/ d \in DefaultRows(k)
      BY DEF TheRow
    <3>2. d = 0 \/ d \in DOMAIN cfg[k]
      BY <3>1 DEF DefaultRows
    <3> QED
      BY <2>0, <3>2, RowsTyped
  <2>2. cur[t] \in Ids /\ cur' = [cur EXCEPT ![t] = cur[t]]
    BY <1>3, <2>0 DEF RequestsTyped
  <2>3. pc'[t] = "pick" /\ arg'[t] = arg[t]
    BY <1>3, <2>0 DEF RequestsTyped
  <2>4. StepOf(t)' /\ SelectionHeld(t)' /\ RowsHeld(t)' /\ StaleReads(t)'
    BY <1>1, <2>3 DEF StepOf, SelectionHeld, RowsHeld, StaleReads
  <2>5. "pick" \in Steps \ {"idle"}
    BY DEF Steps
  <2> QED
    BY <1>1, <1>3, <2>1, <2>2, <2>4, <2>5, MovesOn
<1> QED
  BY <1>2, <1>3 DEF ReadDefault, Go

LEMMA ReadPromotedKeeps ==
  ASSUME ProvidersIInv, NEW t \in Requests, NEW k \in Kinds, ReadPromoted(k, t)
  PROVE  ProvidersIInv'
<1>1. pc[t] = "read" /\ arg[t].op = "promote" /\ arg[t].kind = k
  BY DEF ReadPromoted
<1>2. CASE Refuse(t)
  BY <1>1, <1>2, RefuseKeeps
<1>3. CASE /\ pc' = [pc EXCEPT ![t] = "pick"]
           /\ UNCHANGED <<tables, arg, cur, seen, want, attempt, lock, answer, served>>
  <2>0. RequestsTyped
    BY TypesOf
  <2>1. /\ cur[t] \in Ids /\ cur' = [cur EXCEPT ![t] = cur[t]]
        /\ seen[t] \in Row \cup {None} /\ seen' = [seen EXCEPT ![t] = seen[t]]
    BY <1>3, <2>0 DEF RequestsTyped
  <2>2. pc'[t] = "pick" /\ arg'[t] = arg[t]
    BY <1>3, <2>0 DEF RequestsTyped
  <2>3. StepOf(t)' /\ SelectionHeld(t)' /\ RowsHeld(t)' /\ StaleReads(t)'
    BY <1>1, <2>2 DEF StepOf, SelectionHeld, RowsHeld, StaleReads
  <2>4. "pick" \in Steps \ {"idle"}
    BY DEF Steps
  <2> QED
    BY <1>1, <1>3, <2>1, <2>3, <2>4, MovesOn
<1> QED
  BY <1>2, <1>3 DEF ReadPromoted, Go

LEMMA PickDefaultKeeps ==
  ASSUME ProvidersIInv, NEW t \in Requests, PickDefault(t)
  PROVE  ProvidersIInv'
<1> DEFINE k == arg[t].kind
           c == TheRow(IF arg[t].op = "replace" THEN DefaultRows(k) ELSE DefaultEntries(k))
<1>1. /\ pc[t] = "pick"
      /\ cur' = [cur EXCEPT ![t] = c]
      /\ pc' = [pc EXCEPT ![t] = "lockRow"]
      /\ UNCHANGED <<tables, arg, seen, want, attempt, lock, answer, served>>
  BY DEF PickDefault, Go
<1>2. TypeOK /\ TablesTyped /\ RequestsTyped
  BY TypesOf
<1>3. k \in Kinds /\ arg[t].op \in {"replace", "promote"}
  BY <1>1, ArgTyped DEF StepOf
<1>4. c \in Ids
  <2>1. c = 0 \/ c \in DOMAIN cfg[k]
    BY DEF TheRow, DefaultRows, DefaultEntries
  <2>2. Len(cfg[k]) \in Ids /\ Len(cfg[k]) \in Nat /\ DOMAIN cfg[k] = 1..Len(cfg[k])
    BY <1>2, <1>3, RowsTyped DEF TypeOK
  <2> QED
    BY <2>1, <2>2, ProvidersAssumption DEF Ids
<1>5. seen[t] \in Row \cup {None} /\ seen' = [seen EXCEPT ![t] = seen[t]]
  BY <1>1, <1>2 DEF RequestsTyped
<1>6. pc'[t] = "lockRow" /\ arg'[t] = arg[t]
  BY <1>1, <1>2 DEF RequestsTyped
<1>7. StepOf(t)' /\ SelectionHeld(t)' /\ RowsHeld(t)' /\ StaleReads(t)'
  BY <1>3, <1>6 DEF StepOf, SelectionHeld, RowsHeld, StaleReads
<1>8. "lockRow" \in Steps \ {"idle"}
  BY DEF Steps
<1> HIDE DEF c, k
<1> QED
  BY <1>1, <1>4, <1>5, <1>7, <1>8, MovesOn

LEMMA ReadPatchedKeeps ==
  ASSUME ProvidersIInv, NEW t \in Requests, NEW k \in Kinds, ReadPatched(k, t)
  PROVE  ProvidersIInv'
<1> DEFINE i == arg[t].id
<1>1. pc[t] = "read" /\ arg[t].op = "patch" /\ arg[t].kind = k
  BY DEF ReadPatched
<1>2. CASE Refuse(t)
  BY <1>1, <1>2, RefuseKeeps
<1>3. CASE /\ i \in GlobalRows(k)
           /\ seen' = [seen EXCEPT ![t] = cfg[k][i]]
           /\ cur' = [cur EXCEPT ![t] = i]
           /\ pc' = [pc EXCEPT ![t] = "lockRow"]
           /\ UNCHANGED <<tables, arg, want, attempt, lock, answer, served>>
  <2>0. TablesTyped /\ RequestsTyped
    BY TypesOf
  <2>1. i \in DOMAIN cfg[k] /\ i \in Ids
    BY <1>1, <1>3, ArgTyped DEF GlobalRows
  <2>2. cfg[k][i] \in Row
    BY <2>0, <2>1, RowsTyped
  <2>3. /\ pc'[t] = "lockRow" /\ arg'[t] = arg[t] /\ cur'[t] = i /\ seen'[t] = cfg[k][i]
        /\ versions' = versions
    BY <1>3, <2>0 DEF RequestsTyped, tables
  <2>4. StepOf(t)' /\ SelectionHeld(t)' /\ RowsHeld(t)'
    BY <1>1, <2>3 DEF StepOf, SelectionHeld, RowsHeld
  <2>5. StaleReads(t)'
    <3>1. k = "embedding" => \/ <<i, cfg[k][i].model>> \in versions
                             \/ i = 1 /\ cfg[k][i].model = FirstModel
      BY <2>1 DEF ProvidersIInv, VersionRecorded
    <3> QED
      BY <1>1, <2>2, <2>3, <3>1 DEF StaleReads
  <2>6. "lockRow" \in Steps \ {"idle"}
    BY DEF Steps
  <2> QED
    BY <1>1, <1>3, <2>1, <2>2, <2>4, <2>5, <2>6, MovesOn
<1> QED
  BY <1>2, <1>3 DEF ReadPatched, Go

LEMMA ReadDeletedKeeps ==
  ASSUME ProvidersIInv, NEW t \in Requests, NEW k \in Kinds, ReadDeleted(k, t) \/ CountUsers(k, t)
  PROVE  ProvidersIInv'
<1>1. pc[t] \in {"read", "count"} /\ arg[t].op = "delete" /\ arg[t].kind = k
  <2>1. CASE ReadDeleted(k, t)
    BY <2>1 DEF ReadDeleted
  <2>2. CASE CountUsers(k, t)
    <3>1. pc[t] = "count" /\ arg[t].kind = k
      BY <2>2 DEF CountUsers
    <3> QED
      BY <3>1, ArgTyped DEF StepOf
  <2> QED
    BY <2>1, <2>2
<1>2. CASE Refuse(t)
  BY <1>1, <1>2, RefuseKeeps
<1>3. ASSUME NEW step \in {"count", "lockRow"}, NEW c \in Ids,
             cur' = [cur EXCEPT ![t] = c],
             pc' = [pc EXCEPT ![t] = step],
             UNCHANGED <<tables, arg, seen, want, attempt, lock, answer, served>>
      PROVE  ProvidersIInv'
  <2>0. RequestsTyped
    BY TypesOf
  <2>1. seen[t] \in Row \cup {None} /\ seen' = [seen EXCEPT ![t] = seen[t]]
    BY <1>3, <2>0 DEF RequestsTyped
  <2>2. pc'[t] = step /\ arg'[t] = arg[t]
    BY <1>3, <2>0 DEF RequestsTyped
  <2>3. StepOf(t)' /\ SelectionHeld(t)' /\ RowsHeld(t)' /\ StaleReads(t)'
    BY <1>1, <1>3, <2>2 DEF StepOf, SelectionHeld, RowsHeld, StaleReads
  <2>4. step \in Steps \ {"idle"} /\ pc[t] # "idle"
    BY <1>1, <1>3 DEF Steps
  <2> QED
    BY <1>3, <2>1, <2>3, <2>4, MovesOn
<1>4. CASE ReadDeleted(k, t) /\ ~Refuse(t)
  <2>1. /\ cur' = [cur EXCEPT ![t] = arg[t].id]
        /\ pc' = [pc EXCEPT ![t] = "count"]
        /\ UNCHANGED <<tables, arg, seen, want, attempt, lock, answer, served>>
    BY <1>4 DEF ReadDeleted, Go
  <2>2. arg[t].id \in Ids
    BY <1>1, ArgTyped
  <2> QED
    BY <1>3, <2>1, <2>2
<1>5. CASE CountUsers(k, t) /\ ~Refuse(t)
  <2>1. /\ cur' = cur
        /\ pc' = [pc EXCEPT ![t] = "lockRow"]
        /\ UNCHANGED <<tables, arg, seen, want, attempt, lock, answer, served>>
    BY <1>5 DEF CountUsers, Go
  <2>2. cur[t] \in Ids /\ cur' = [cur EXCEPT ![t] = cur[t]]
    BY <2>1, TypesOf DEF RequestsTyped
  <2> QED
    BY <1>3, <2>1, <2>2
<1> QED
  BY <1>2, <1>4, <1>5

\* A statement that locks a row which nobody else has locked.
LEMMA LocksOn ==
  ASSUME ProvidersIInv, NEW t \in Requests, pc[t] # "idle", NEW step \in Steps \ {"idle"},
         pc' = [pc EXCEPT ![t] = step],
         NEW c \in Ids, cur' = [cur EXCEPT ![t] = c],
         NEW r \in Row \cup {None}, seen' = [seen EXCEPT ![t] = r],
         NEW w \in SUBSET RowsToLock, want' = [want EXCEPT ![t] = w],
         NEW x \in RowsToLock, lock[x] \in {None, t}, lock' = [lock EXCEPT ![x] = t],
         UNCHANGED <<tables, arg, attempt, answer, served>>,
         StepOf(t)', SelectionHeld(t)', RowsHeld(t)', StaleReads(t)'
  PROVE  ProvidersIInv'
<1>1. RequestsTyped
  BY TypesOf
<1>2. pc'[t] = step /\ pc'[t] # "idle" /\ arg'[t] = arg[t]
  BY <1>1 DEF RequestsTyped
<1>3. RequestsTyped'
  <2>1. pc' \in [Requests -> Steps] /\ cur' \in [Requests -> Ids] /\ seen' \in [Requests -> Row \cup {None}]
    BY <1>1 DEF RequestsTyped
  <2>2. \A u \in Requests : pc'[u] # "idle" => arg'[u] \in Arg
    BY <1>1 DEF RequestsTyped
  <2>3. want' \in [Requests -> SUBSET RowsToLock]
    BY <1>1 DEF RequestsTyped
  <2>4. lock' \in [RowsToLock -> Requests \cup {None}]
    BY <1>1 DEF RequestsTyped
  <2> QED
    BY <1>1, <2>1, <2>2, <2>3, <2>4 DEF RequestsTyped
<1>4. OnlyOf(t)
  <2> SUFFICES ASSUME NEW u \in Requests \ {t}
               PROVE  StateUntouched(u)
    BY DEF OnlyOf
  <2>1. /\ pc'[u] = pc[u] /\ arg'[u] = arg[u] /\ cur'[u] = cur[u]
        /\ seen'[u] = seen[u] /\ want'[u] = want[u]
    BY <1>1 DEF RequestsTyped
  <2>2. None # u
    BY ProvidersAssumption
  <2>3. \A y \in RowsToLock : lock[y] = u => lock'[y] = u
    BY <1>1, <2>2 DEF RequestsTyped
  <2> QED
    BY <2>1, <2>3 DEF StateUntouched
<1>5. Named(t)'
  BY <1>2, ArgTyped DEF Named
<1>6. UnderWay(t)'
  BY <1>5 DEF UnderWay
<1> QED
  BY <1>2, <1>3, <1>4, <1>6, StatementKeeps DEF tables

\* The project's row is locked with the setting's checks done: a config to be
\* selected is offered, and credentials to be kept belong to their endpoint.
LEMMA LockProjectRowKeeps ==
  ASSUME ProvidersIInv, NEW t \in Requests, NEW k \in Kinds, LockProjectRow(k, t)
  PROVE  ProvidersIInv'
<1> DEFINE a == arg[t]
           c == TheRow(CustomRows(k, a.proj))
           current == IF c = 0 THEN None ELSE cfg[k][c]
<1>1. pc[t] = "lockProject" /\ a.kind = k /\ lock[a.proj] = None
  BY DEF LockProjectRow
<1>2. CASE Refuse(t)
  BY <1>1, <1>2, RefuseKeeps
<1>3. CASE /\ a.op = "select" => a.id \in AvailableRows(k)
           /\ a.op = "custom" => ~MustReenter(a.body, current, a.body.ep)
           /\ lock' = [lock EXCEPT ![a.proj] = t]
           /\ seen' = [seen EXCEPT ![t] = current]
           /\ want' = [want EXCEPT ![t] = TriggerRows(t)]
           /\ pc' = [pc EXCEPT ![t] = "trigger"]
           /\ UNCHANGED <<tables, arg, cur, attempt, answer, served>>
  <2>0. TablesTyped /\ RequestsTyped
    BY TypesOf
  <2>1. a.op \in {"select", "custom", "reset"} /\ a.proj \in Projects /\ a.id \in Ids
    BY <1>1, ArgTyped DEF StepOf, Named
  <2>2. c = 0 \/ c \in CustomRows(k, a.proj)
    BY DEF TheRow
  <2>3. c = 0 \/ (c \in DOMAIN cfg[k] /\ cfg[k][c].owner = a.proj)
    BY <2>2 DEF CustomRows
  <2>4. current \in Row \cup {None}
    BY <2>0, <2>3, RowsTyped
  <2>5. TriggerRows(t) \in SUBSET RowsToLock
    <3>1. \A j \in Kinds : sel[j][a.proj] \in Ids
      BY <2>0, <2>1 DEF TablesTyped
    <3>2. \A j \in Kinds : (IF j = a.kind THEN a.id ELSE sel[j][a.proj]) \in Ids
      BY <2>1, <3>1
    <3>3. \A j \in Kinds : <<j, IF j = a.kind THEN a.id ELSE sel[j][a.proj]>> \in Kinds \X Ids
      BY <3>2
    <3> QED
      BY <3>3 DEF TriggerRows, RowsToLock
  <2>6. /\ pc'[t] = "trigger" /\ arg'[t] = a /\ seen'[t] = current /\ want'[t] = TriggerRows(t)
        /\ cfg' = cfg
    BY <1>3, <2>0 DEF RequestsTyped, tables
  <2>7. StepOf(t)' /\ RowsHeld(t)'
    BY <2>1, <2>6 DEF StepOf, RowsHeld
  <2>8. SelectionHeld(t)'
    <3> SUFFICES ASSUME a.op = "select"
                 PROVE  /\ a.id \in DOMAIN cfg[k]
                        /\ cfg[k][a.id].owner = Platform
                        /\ <<k, a.id>> \in TriggerRows(t)
      BY <1>1, <2>6 DEF SelectionHeld
    <3>1. a.id \in DOMAIN cfg[k] /\ cfg[k][a.id].owner = Platform
      BY <1>3 DEF AvailableRows, GlobalRows
    <3>2. a.id # 0
      BY <2>0, <3>1, RowsTyped
    <3>3. <<k, a.id>> = <<k, IF k = a.kind THEN a.id ELSE sel[k][a.proj]>>
      BY <1>1
    <3>4. <<k, a.id>> \notin Kinds \X {0}
      BY <3>2
    <3> QED
      BY <3>1, <3>3, <3>4 DEF TriggerRows
  <2>9. StaleReads(t)'
    <3> SUFFICES ASSUME a.op = "custom", current # None
                 PROVE  /\ current \in Row
                        /\ current.cred \in {None, current.ep}
                        /\ ~MustReenter(a.body, current, a.body.ep)
      BY <2>6 DEF StaleReads, MustReenter
    <3>1. c \in DOMAIN cfg[k] /\ cfg[k][c].owner \in Projects /\ current = cfg[k][c]
      BY <2>1, <2>3
    <3>2. cfg[k][c].owner # Platform
      BY <3>1, ProvidersAssumption
    <3>3. cfg[k][c].cred \in {None, cfg[k][c].ep}
      BY <3>1, <3>2 DEF ProvidersIInv, SettingsInv, CustomCredentials
    <3> QED
      BY <1>3, <2>4, <3>1, <3>3
  <2>10. cur[t] \in Ids /\ cur' = [cur EXCEPT ![t] = cur[t]]
    BY <1>3, <2>0 DEF RequestsTyped
  <2>11. "trigger" \in Steps \ {"idle"} /\ a.proj \in RowsToLock /\ lock[a.proj] \in {None, t}
    BY <1>1, <2>1 DEF Steps, RowsToLock
  <2>12. pc[t] # "idle"
    BY <1>1
  <2> HIDE DEF a, c, current
  <2> QED
    BY <1>3, <2>4, <2>5, <2>7, <2>8, <2>9, <2>10, <2>11, <2>12, LocksOn
<1> QED
  BY <1>2, <1>3 DEF LockProjectRow, Go

\* The trigger checks a selection and locks it in one statement.
LEMMA TriggerLockKeeps ==
  ASSUME ProvidersIInv, NEW t \in Requests, NEW x, TriggerLock(t, x)
  PROVE  ProvidersIInv'
<1>1. pc[t] = "trigger" /\ x \in TriggerNext(t) /\ lock[x] = None
  BY DEF TriggerLock
<1>2. CASE Refuse(t)
  BY <1>1, <1>2, RefuseKeeps
<1>3. CASE /\ cfg[x[1]][x[2]].avail
           /\ lock' = [lock EXCEPT ![x] = t]
           /\ want' = [want EXCEPT ![t] = @ \ {x}]
           /\ UNCHANGED <<tables, pc, arg, cur, seen, attempt, answer, served>>
  <2>0. TablesTyped /\ RequestsTyped
    BY TypesOf
  <2>1. x \in want[t] /\ x \in RowsToLock /\ want[t] \ {x} \in SUBSET RowsToLock
    BY <1>1, <2>0 DEF TriggerNext, RequestsTyped
  <2>2. /\ pc' = [pc EXCEPT ![t] = "trigger"]
        /\ cur[t] \in Ids /\ cur' = [cur EXCEPT ![t] = cur[t]]
        /\ seen[t] \in Row \cup {None} /\ seen' = [seen EXCEPT ![t] = seen[t]]
        /\ want' = [want EXCEPT ![t] = want[t] \ {x}]
    BY <1>1, <1>3, <2>0 DEF RequestsTyped
  <2>3. /\ pc'[t] = "trigger" /\ arg'[t] = arg[t] /\ seen'[t] = seen[t]
        /\ want'[t] = want[t] \ {x} /\ cfg' = cfg /\ versions' = versions
    BY <1>1, <1>3, <2>0 DEF RequestsTyped, tables
  <2>4. StepOf(t) /\ SelectionHeld(t) /\ RowsHeld(t) /\ StaleReads(t)
    BY <1>1, ArgTyped
  <2>5. StepOf(t)' /\ RowsHeld(t)'
    BY <1>1, <2>3, <2>4 DEF StepOf, RowsHeld
  <2>6. StaleReads(t)'
    BY <1>1, <2>3, <2>4 DEF StaleReads, MustReenter
  <2>7. SelectionHeld(t)'
    <3> DEFINE k == arg[t].kind
               i == arg[t].id
    <3> SUFFICES ASSUME arg[t].op = "select"
                 PROVE  /\ i \in DOMAIN cfg[k]
                        /\ cfg[k][i].owner = Platform
                        /\ \/ <<k, i>> \in want[t] \ {x}
                           \/ lock'[<<k, i>>] = t /\ cfg[k][i].avail
      BY <2>3 DEF SelectionHeld
    <3>1. /\ i \in DOMAIN cfg[k] /\ cfg[k][i].owner = Platform
          /\ <<k, i>> \in want[t] \/ (lock[<<k, i>>] = t /\ cfg[k][i].avail)
      BY <1>1, <2>4 DEF SelectionHeld
    <3>2. CASE x = <<k, i>>
      BY <1>3, <2>0, <2>1, <3>1, <3>2 DEF RequestsTyped
    <3>3. CASE x # <<k, i>>
      <4>1. <<k, i>> \in RowsToLock
        BY <1>1, ArgTyped DEF RowsToLock
      <4> QED
        BY <1>3, <2>0, <2>1, <3>1, <3>3, <4>1 DEF RequestsTyped
    <3> QED
      BY <3>1, <3>2, <3>3
  <2>8. "trigger" \in Steps \ {"idle"} /\ lock[x] \in {None, t} /\ pc[t] # "idle"
    BY <1>1 DEF Steps
  <2> QED
    BY <1>3, <2>1, <2>2, <2>5, <2>6, <2>7, <2>8, LocksOn
<1> QED
  BY <1>2, <1>3 DEF TriggerLock

LEMMA LockDefaultKeeps ==
  ASSUME ProvidersIInv, NEW t \in Requests, LockDefault(t)
  PROVE  ProvidersIInv'
<1> DEFINE k == arg[t].kind
           x == <<k, cur[t]>>
           c == IF cur[t] \in DefaultEntries(k) THEN cur[t] ELSE 0
           step == IF arg[t].op = "replace" THEN "unique" ELSE "second"
<1>0. TablesTyped /\ RequestsTyped
  BY TypesOf
<1>1. /\ pc[t] = "lockRow" /\ arg[t].op \in {"replace", "promote"} /\ lock[x] = None
      /\ lock' = [lock EXCEPT ![x] = t]
      /\ cur' = [cur EXCEPT ![t] = IF @ \in DefaultEntries(k) THEN @ ELSE 0]
      /\ pc' = [pc EXCEPT ![t] = step]
      /\ UNCHANGED <<tables, arg, seen, want, attempt, answer, served>>
  BY DEF LockDefault, Go
<1>2. k \in Kinds /\ cur[t] \in Ids /\ x \in RowsToLock
  BY <1>1, ArgTyped DEF RowsToLock
<1>3. c \in Ids /\ (c = 0 \/ c = cur[t])
  BY <1>2, ProvidersAssumption DEF Ids
<1>4. cur' = [cur EXCEPT ![t] = c]
  BY <1>0, <1>1 DEF RequestsTyped
<1>5. step \in Steps \ {"idle"}
  BY DEF Steps
<1>6. /\ seen[t] \in Row \cup {None} /\ seen' = [seen EXCEPT ![t] = seen[t]]
      /\ want[t] \in SUBSET RowsToLock /\ want' = [want EXCEPT ![t] = want[t]]
  BY <1>0, <1>1 DEF RequestsTyped
<1>7. pc'[t] = step /\ arg'[t] = arg[t] /\ cur'[t] = c /\ lock'[x] = t
  BY <1>0, <1>1, <1>2, <1>4 DEF RequestsTyped
<1>8. StepOf(t)' /\ SelectionHeld(t)' /\ StaleReads(t)'
  BY <1>1, <1>7 DEF StepOf, SelectionHeld, StaleReads
<1>9. RowsHeld(t)'
  <2>1. step = "unique" => arg[t].op # "promote"
    OBVIOUS
  <2>2. c # 0 => lock'[<<k, c>>] = t
    BY <1>3, <1>7
  <2>3. step # "users"
    OBVIOUS
  <2> QED
    BY <1>7, <2>1, <2>2, <2>3 DEF RowsHeld
<1>10. pc[t] # "idle" /\ lock[x] \in {None, t}
  BY <1>1
<1> HIDE DEF k, x, c, step
<1> QED
  BY <1>1, <1>2, <1>3, <1>4, <1>5, <1>6, <1>8, <1>9, <1>10, LocksOn

LEMMA LockPromotedKeeps ==
  ASSUME ProvidersIInv, NEW t \in Requests, LockPromoted(t)
  PROVE  ProvidersIInv'
<1> DEFINE k == arg[t].kind
           x == <<k, arg[t].id>>
<1>0. TablesTyped /\ RequestsTyped
  BY TypesOf
<1>1. pc[t] = "second" /\ lock[x] \in {None, t}
  BY DEF LockPromoted
<1>2. CASE Refuse(t)
  BY <1>1, <1>2, RefuseKeeps
<1>3. CASE /\ arg[t].id \in GlobalRows(k)
           /\ lock' = [lock EXCEPT ![x] = t]
           /\ pc' = [pc EXCEPT ![t] = "unique"]
           /\ UNCHANGED <<tables, arg, cur, seen, want, attempt, answer, served>>
  <2>1. k \in Kinds /\ arg[t].id \in Ids /\ cur[t] \in Ids /\ arg[t].op = "promote"
    BY <1>1, ArgTyped DEF StepOf
  <2>2. x \in RowsToLock /\ <<k, cur[t]>> \in RowsToLock
    BY <2>1 DEF RowsToLock
  <2>3. /\ cur' = [cur EXCEPT ![t] = cur[t]]
        /\ seen[t] \in Row \cup {None} /\ seen' = [seen EXCEPT ![t] = seen[t]]
        /\ want[t] \in SUBSET RowsToLock /\ want' = [want EXCEPT ![t] = want[t]]
    BY <1>0, <1>3 DEF RequestsTyped
  <2>4. /\ pc'[t] = "unique" /\ arg'[t] = arg[t] /\ cur'[t] = cur[t] /\ lock'[x] = t
        /\ cfg' = cfg /\ GlobalRows(k)' = {i \in DOMAIN cfg[k] : cfg[k][i].owner = Platform /\ cfg[k][i].active}
    BY <1>0, <1>3, <2>2 DEF RequestsTyped, tables, GlobalRows
  <2>5. StepOf(t)' /\ SelectionHeld(t)' /\ StaleReads(t)'
    BY <2>1, <2>4 DEF StepOf, SelectionHeld, StaleReads
  <2>6. RowsHeld(t)'
    <3>1. cur[t] # 0 => lock[<<k, cur[t]>>] = t
      BY <1>1, ArgTyped DEF RowsHeld
    <3>2. cur[t] # 0 => lock'[<<k, cur[t]>>] = t
      BY <1>0, <1>3, <2>2, <3>1 DEF RequestsTyped
    <3>3. arg[t].id \in GlobalRows(k)'
      BY <1>3, <2>4 DEF GlobalRows
    <3> QED
      BY <2>4, <3>2, <3>3 DEF RowsHeld
  <2>7. "unique" \in Steps \ {"idle"} /\ pc[t] # "idle"
    BY <1>1 DEF Steps
  <2> HIDE DEF k, x
  <2> QED
    BY <1>1, <1>3, <2>1, <2>2, <2>3, <2>5, <2>6, <2>7, LocksOn
<1> QED
  BY <1>2, <1>3 DEF LockPromoted, Go

LEMMA LockPatchedKeeps ==
  ASSUME ProvidersIInv, NEW t \in Requests, LockPatched(t)
  PROVE  ProvidersIInv'
<1> DEFINE k == arg[t].kind
           x == <<k, cur[t]>>
<1>0. TablesTyped /\ RequestsTyped
  BY TypesOf
<1>1. pc[t] = "lockRow" /\ arg[t].op = "patch" /\ lock[x] = None
  BY DEF LockPatched
<1>2. CASE Refuse(t)
  BY <1>1, <1>2, RefuseKeeps
<1>3. CASE /\ cur[t] \in GlobalRows(k)
           /\ lock' = [lock EXCEPT ![x] = t]
           /\ want' = [want EXCEPT ![t] = ProjectsUsing(k, cur[t])]
           /\ pc' = [pc EXCEPT ![t] = "users"]
           /\ UNCHANGED <<tables, arg, cur, seen, attempt, answer, served>>
  <2>1. k \in Kinds /\ cur[t] \in Ids /\ x \in RowsToLock
    BY <1>1, ArgTyped DEF RowsToLock
  <2>2. ProjectsUsing(k, cur[t]) \in SUBSET RowsToLock
    BY DEF ProjectsUsing, RowsToLock
  <2>3. /\ cur' = [cur EXCEPT ![t] = cur[t]]
        /\ seen[t] \in Row \cup {None} /\ seen' = [seen EXCEPT ![t] = seen[t]]
    BY <1>0, <1>3 DEF RequestsTyped
  <2>4. /\ pc'[t] = "users" /\ arg'[t] = arg[t] /\ cur'[t] = cur[t] /\ seen'[t] = seen[t]
        /\ lock'[x] = t /\ cfg' = cfg /\ versions' = versions
    BY <1>0, <1>3, <2>1 DEF RequestsTyped, tables
  <2>5. StepOf(t)' /\ SelectionHeld(t)'
    BY <1>1, <2>4 DEF StepOf, SelectionHeld
  <2>6. RowsHeld(t)'
    <3>1. cur[t] \in DOMAIN cfg[k] /\ cfg[k][cur[t]].owner = Platform
      BY <1>3 DEF GlobalRows
    <3> QED
      BY <2>4, <3>1 DEF RowsHeld
  <2>7. StaleReads(t)'
    <3>1. StaleReads(t)
      BY <1>1, ArgTyped
    <3> QED
      BY <1>1, <2>4, <3>1 DEF StaleReads
  <2>8. "users" \in Steps \ {"idle"} /\ pc[t] # "idle" /\ lock[x] \in {None, t}
    BY <1>1 DEF Steps
  <2> HIDE DEF k, x
  <2> QED
    BY <1>3, <2>1, <2>2, <2>3, <2>5, <2>6, <2>7, <2>8, LocksOn
<1> QED
  BY <1>2, <1>3 DEF LockPatched, Go

LEMMA LockUserKeeps ==
  ASSUME ProvidersIInv, NEW t \in Requests, NEW p, LockUser(t, p)
  PROVE  ProvidersIInv'
<1>0. TablesTyped /\ RequestsTyped
  BY TypesOf
<1>1. /\ pc[t] = "users" /\ p \in want[t] /\ lock[p] = None
      /\ lock' = [lock EXCEPT ![p] = t]
      /\ want' = [want EXCEPT ![t] = @ \ {p}]
      /\ UNCHANGED <<tables, pc, arg, cur, seen, attempt, answer, served>>
  BY DEF LockUser
<1>2. p \in RowsToLock /\ want[t] \ {p} \in SUBSET RowsToLock
  BY <1>0, <1>1 DEF RequestsTyped
<1>3. /\ pc' = [pc EXCEPT ![t] = "users"]
      /\ cur[t] \in Ids /\ cur' = [cur EXCEPT ![t] = cur[t]]
      /\ seen[t] \in Row \cup {None} /\ seen' = [seen EXCEPT ![t] = seen[t]]
      /\ want' = [want EXCEPT ![t] = want[t] \ {p}]
  BY <1>0, <1>1 DEF RequestsTyped
<1>4. /\ pc'[t] = "users" /\ arg'[t] = arg[t] /\ cur'[t] = cur[t] /\ seen'[t] = seen[t]
      /\ cfg' = cfg /\ versions' = versions
  BY <1>1 DEF tables
<1>5. StepOf(t) /\ RowsHeld(t) /\ StaleReads(t)
  BY <1>1, ArgTyped
<1>6. StepOf(t)' /\ SelectionHeld(t)' /\ StaleReads(t)'
  BY <1>1, <1>4, <1>5 DEF StepOf, SelectionHeld, StaleReads
<1>7. RowsHeld(t)'
  <2>1. <<arg[t].kind, cur[t]>> \in RowsToLock
    BY <1>1, ArgTyped DEF RowsToLock
  <2>2. lock'[<<arg[t].kind, cur[t]>>] = t
    BY <1>0, <1>1, <1>2, <1>5, <2>1 DEF RowsHeld, RequestsTyped
  <2> QED
    BY <1>1, <1>4, <1>5, <2>2 DEF RowsHeld
<1>8. "users" \in Steps \ {"idle"} /\ pc[t] # "idle" /\ lock[p] \in {None, t}
  BY <1>1 DEF Steps
<1> QED
  BY <1>1, <1>2, <1>3, <1>6, <1>7, <1>8, LocksOn

\* A resolve reads four times, and the default is there when it needs it.
LEMMA ResolveKeeps ==
  ASSUME ProvidersIInv, NEW t \in Requests, pc[t] # "idle", NEW k \in Kinds,
         \/ GetActiveCustomConfig(k, t) \/ GetProjectProviderSelections(t)
         \/ GetSelectedConfig(t) \/ GetDefaultConfig(k, t)
  PROVE  ProvidersIInv'
<1>0. TablesTyped /\ RequestsTyped
  BY TypesOf
<1>1. ASSUME NEW step \in {"selection", "selected", "default"}, NEW c \in Ids, arg[t].op = "resolve",
             cur' = [cur EXCEPT ![t] = c],
             pc' = [pc EXCEPT ![t] = step],
             UNCHANGED <<tables, arg, seen, want, attempt, lock, answer, served>>
      PROVE  ProvidersIInv'
  <2>1. seen[t] \in Row \cup {None} /\ seen' = [seen EXCEPT ![t] = seen[t]]
    BY <1>0, <1>1 DEF RequestsTyped
  <2>2. pc'[t] = step /\ arg'[t] = arg[t]
    BY <1>0, <1>1 DEF RequestsTyped
  <2>3. StepOf(t)' /\ SelectionHeld(t)' /\ RowsHeld(t)' /\ StaleReads(t)'
    BY <1>1, <2>2 DEF StepOf, SelectionHeld, RowsHeld, StaleReads
  <2>4. step \in Steps \ {"idle"}
    BY <1>1 DEF Steps
  <2> QED
    BY <1>1, <2>1, <2>3, <2>4, MovesOn
<1>2. cur[t] \in Ids /\ (cur' = cur => cur' = [cur EXCEPT ![t] = cur[t]])
  BY <1>0 DEF RequestsTyped
<1>3. CASE GetActiveCustomConfig(k, t)
  <2>1. CASE Answer(t, "config")
    BY <2>1, AnswerKeeps
  <2>2. CASE ~Answer(t, "config")
    <3>1. /\ arg[t].op = "resolve" /\ pc' = [pc EXCEPT ![t] = "selection"] /\ cur' = cur
          /\ UNCHANGED <<tables, arg, seen, want, attempt, lock, answer, served>>
      BY <1>3, <2>2 DEF GetActiveCustomConfig, Go
    <3> QED
      BY <1>1, <1>2, <3>1
  <2> QED
    BY <2>1, <2>2
<1>4. CASE GetProjectProviderSelections(t)
  <2> DEFINE s == sel[arg[t].kind][arg[t].proj]
             step == IF s = 0 THEN "default" ELSE "selected"
  <2>1. /\ pc[t] = "selection" /\ cur' = [cur EXCEPT ![t] = s]
        /\ pc' = [pc EXCEPT ![t] = step]
        /\ UNCHANGED <<tables, arg, seen, want, attempt, lock, answer, served>>
    BY <1>4 DEF GetProjectProviderSelections, Go
  <2>2. arg[t].op = "resolve" /\ arg[t].kind \in Kinds /\ arg[t].proj \in Projects
    BY <2>1, ArgTyped DEF StepOf, Named
  <2>3. s \in Ids
    BY <1>0, <2>2 DEF TablesTyped
  <2>4. step \in {"selection", "selected", "default"}
    OBVIOUS
  <2> HIDE DEF s, step
  <2> QED
    BY <1>1, <2>1, <2>2, <2>3, <2>4
<1>5. CASE GetSelectedConfig(t)
  <2>1. CASE Answer(t, "config")
    BY <2>1, AnswerKeeps
  <2>2. CASE ~Answer(t, "config")
    <3>1. /\ pc[t] = "selected" /\ pc' = [pc EXCEPT ![t] = "default"] /\ cur' = cur
          /\ UNCHANGED <<tables, arg, seen, want, attempt, lock, answer, served>>
      BY <1>5, <2>2 DEF GetSelectedConfig, Go
    <3>2. arg[t].op = "resolve"
      BY <3>1, ArgTyped DEF StepOf
    <3> QED
      BY <1>1, <1>2, <3>1, <3>2
  <2> QED
    BY <2>1, <2>2
<1>6. CASE GetDefaultConfig(k, t)
  <2>1. DefaultRows(k) # {}
    BY DefaultThere
  <2>2. Answer(t, "config")
    BY <1>6, <2>1 DEF GetDefaultConfig
  <2> QED
    BY <2>2, AnswerKeeps
<1> QED
  BY <1>3, <1>4, <1>5, <1>6

\* A transaction that starts again has no locks, and keeps what it read before.
LEMMA DeadlockKeeps ==
  ASSUME ProvidersIInv, NEW t \in Requests, pc[t] # "idle", Deadlock(t)
  PROVE  ProvidersIInv'
<1>0. TablesTyped /\ RequestsTyped
  BY TypesOf
<1>1. CASE Refuse(t)
  BY <1>1, RefuseKeeps
<1>2. CASE /\ InTx(t) /\ attempt[t] < MaxDeadlockRetries
           /\ attempt' = [attempt EXCEPT ![t] = @ + 1]
           /\ pc' = [pc EXCEPT ![t] = TxStart[arg[t].op]]
           /\ want' = [want EXCEPT ![t] = {}]
           /\ lock' = Unlocked(t)
           /\ UNCHANGED <<tables, arg, cur, seen, answer, served>>
  <2>1. PICK y \in Requests : Waits(t, y)
    BY DEF Deadlock, Deadlocked
  <2>2. pc[t] \in {"lockProject", "trigger", "users", "lockRow", "second", "unique"}
    <3>1. Wanted(t) # {} \/ pc[t] = "unique"
      BY <2>1 DEF Waits
    <3> QED
      BY <3>1 DEF Wanted
  <2>3. arg[t].op \in {"select", "custom", "reset", "replace", "promote", "patch"}
    BY <1>2, <2>2, ArgTyped DEF StepOf, InTx
  <2> DEFINE step == TxStart[arg[t].op]
  <2>4. /\ arg[t].op \in {"select", "custom", "reset"} => step = "lockProject"
        /\ arg[t].op = "replace" => step = "pick"
        /\ arg[t].op = "promote" => step = "read"
        /\ arg[t].op = "patch" => step = "lockRow"
    BY DEF TxStart
  <2> HIDE DEF step
  <2>5. step \in Steps \ {"idle"}
    BY <2>3, <2>4 DEF Steps
  <2>6. /\ pc'[t] = step /\ arg'[t] = arg[t] /\ cur'[t] = cur[t] /\ seen'[t] = seen[t]
        /\ versions' = versions
    BY <1>0, <1>2 DEF step, RequestsTyped, tables
  <2>7. RequestsTyped'
    <3>1. pc' \in [Requests -> Steps]
      BY <1>0, <1>2, <2>5 DEF step, RequestsTyped
    <3>2. \A u \in Requests : pc'[u] # "idle" => arg'[u] \in Arg
      BY <1>0, <1>2 DEF RequestsTyped
    <3>3. attempt' \in [Requests -> 0..MaxDeadlockRetries]
      BY <1>0, <1>2, ProvidersAssumption DEF RequestsTyped
    <3>4. lock' \in [RowsToLock -> Requests \cup {None}]
      BY <1>0, <1>2 DEF RequestsTyped, Unlocked
    <3>5. want' \in [Requests -> SUBSET RowsToLock]
      BY <1>0, <1>2 DEF RequestsTyped
    <3> QED
      BY <1>0, <1>2, <3>1, <3>2, <3>3, <3>4, <3>5 DEF RequestsTyped
  <2>8. OnlyOf(t)
    <3> SUFFICES ASSUME NEW u \in Requests \ {t}
                 PROVE  StateUntouched(u)
      BY DEF OnlyOf
    <3>1. /\ pc'[u] = pc[u] /\ arg'[u] = arg[u] /\ cur'[u] = cur[u]
          /\ seen'[u] = seen[u] /\ want'[u] = want[u]
      BY <1>0, <1>2 DEF RequestsTyped
    <3>2. \A x \in RowsToLock : lock[x] = u => lock'[x] = u
      BY <1>2 DEF Unlocked
    <3> QED
      BY <3>1, <3>2 DEF StateUntouched
  <2>9. UnderWay(t)'
    <3>1. Named(t)'
      BY <2>6, ArgTyped DEF Named
    <3>2. StepOf(t)' /\ SelectionHeld(t)' /\ RowsHeld(t)'
      BY <2>3, <2>4, <2>6 DEF StepOf, SelectionHeld, RowsHeld
    <3>3. StaleReads(t)'
      <4>1. StaleReads(t) /\ (arg[t].op = "patch" => pc[t] \in {"lockRow", "users"})
        BY <2>2, ArgTyped DEF StepOf
      <4> QED
        BY <2>3, <2>4, <2>6, <4>1 DEF StaleReads
    <3> QED
      BY <3>1, <3>2, <3>3 DEF UnderWay
  <2>10. pc'[t] # "idle"
    BY <2>5, <2>6
  <2> QED
    BY <1>2, <2>7, <2>8, <2>9, <2>10, StatementKeeps DEF tables
<1> QED
  BY <1>1, <1>2 DEF Deadlock, Go

-----------------------------------------------------------------------------
(* The commits.  Each writes one table: R is what its rows become.         *)

\* What the rows R, and the selections of the projects, show of themselves.
RowsGood(k, R) ==
  /\ R \in Seq(Row)
  /\ \A p \in Projects : sel'[k][p] # 0 =>
       sel'[k][p] \in DOMAIN R /\ R[sel'[k][p]].owner = Platform /\ R[sel'[k][p]].avail
  /\ \A p \in Projects : \A i, j \in DOMAIN R :
       R[i].owner = p /\ R[i].active /\ R[j].owner = p /\ R[j].active => i = j
  /\ \A p \in Projects : \A i \in DOMAIN R :
       R[i].owner = p /\ R[i].active => sel'[k][p] = 0
  /\ \A i \in DOMAIN R : R[i].owner # Platform => R[i].cred \in {None, R[i].ep}
  /\ k = "embedding" => \A i \in DOMAIN R : \/ <<i, R[i].model>> \in versions'
                                            \/ i = 1 /\ R[i].model = FirstModel

\* They have one default, and it is active.
HasDefault(R) ==
  \E d \in DOMAIN R :
    /\ R[d].owner = Platform /\ R[d].default /\ R[d].active
    /\ \A i \in DOMAIN R : R[i].owner = Platform /\ R[i].default => i = d

\* What they keep of the rows before.
RowsFollow(k, R, t) ==
  /\ Len(R) \in {Len(cfg[k]), Len(cfg[k]) + 1}
  /\ \A i \in DOMAIN cfg[k] :
       /\ R[i].owner = cfg[k][i].owner
       /\ \A u \in Requests \ {t} : lock[<<k, i>>] = u /\ cfg[k][i].owner = Platform =>
            R[i].avail = cfg[k][i].avail /\ R[i].active = cfg[k][i].active

LEMMA OneTableKept ==
  ASSUME ProvidersIInv, NEW t \in Requests, \A j \in Kinds : cfg[j] # <<>>,
         NEW k \in Kinds, NEW R, cfg' = [cfg EXCEPT ![k] = R], RowsGood(k, R), HasDefault(R), RowsFollow(k, R, t),
         sel' \in [Kinds -> [Projects -> Ids]], \A j \in Kinds \ {k} : sel'[j] = sel[j],
         versions \subseteq versions', versions' \subseteq Ids \X Models
  PROVE  TablesKept(t)
<1>0. TablesTyped
  BY TypesOf
<1>1. cfg'[k] = R /\ \A j \in Kinds \ {k} : cfg'[j] = cfg[j]
  BY <1>0 DEF TablesTyped
<1>2. TablesTyped'
  <2>1. cfg' \in [Kinds -> Seq(Row)]
    BY <1>0 DEF TablesTyped, RowsGood
  <2> QED
    BY <2>1 DEF TablesTyped
<1>3. \A j \in Kinds : Len(cfg'[j]) <= Len(cfg[j]) + 1
  BY <1>0, <1>1, RowsTyped DEF RowsFollow
<1>4. SelectionShareable' /\ SelectionIsRow'
  BY <1>1 DEF ProvidersIInv, SettingsInv, SelectionShareable, SelectionIsRow, RowsGood
<1>5. OneChoice'
  <2>1. ASSUME NEW j \in Kinds \ {k}, NEW p \in Projects
        PROVE  Cardinality(CustomRows(j, p)') <= 1 /\ (CustomRows(j, p)' # {} => sel'[j][p] = 0)
    <3>1. CustomRows(j, p)' = CustomRows(j, p)
      BY <1>1 DEF CustomRows
    <3> QED
      BY <3>1 DEF ProvidersIInv, SettingsInv, OneChoice
  <2>2. ASSUME NEW p \in Projects
        PROVE  Cardinality(CustomRows(k, p)') <= 1 /\ (CustomRows(k, p)' # {} => sel'[k][p] = 0)
    <3> DEFINE S == {i \in DOMAIN R : R[i].owner = p /\ R[i].active}
    <3>1. CustomRows(k, p)' = S
      BY <1>1 DEF CustomRows
    <3>2. IsFiniteSet(S)
      <4>1. DOMAIN R = 1..Len(R) /\ Len(R) \in Nat
        BY DEF RowsGood
      <4>2. 1 \in Int /\ Len(R) \in Int
        BY <4>1
      <4>3. IsFiniteSet(1..Len(R))
        BY <4>2, FS_Interval
      <4> QED
        BY <4>1, <4>3, FS_Subset
    <3>3. \A x, y \in S : x = y
      BY DEF RowsGood
    <3>4. Cardinality(S) <= 1
      BY <3>2, <3>3, AtMostOne
    <3>5. S # {} => sel'[k][p] = 0
      BY DEF RowsGood
    <3> QED
      BY <3>1, <3>4, <3>5
  <2> QED
    BY <2>1, <2>2 DEF OneChoice
<1>6. CustomCredentials'
  BY <1>1 DEF ProvidersIInv, SettingsInv, CustomCredentials, RowsGood
<1>7. VersionRecorded'
  <2>1. CASE k = "embedding"
    BY <1>1, <2>1 DEF VersionRecorded, RowsGood
  <2>2. CASE k # "embedding"
    <3>1. cfg'["embedding"] = cfg["embedding"]
      BY <1>1, <2>2 DEF Kinds
    <3> QED
      BY <3>1 DEF ProvidersIInv, VersionRecorded
  <2> QED
    BY <2>1, <2>2
<1>8. \A j \in Kinds : \E d : DefaultEntries(j)' = {d} /\ d \in DefaultRows(j)'
  <2>1. ASSUME NEW j \in Kinds \ {k}
        PROVE  \E d : DefaultEntries(j)' = {d} /\ d \in DefaultRows(j)'
    <3>1. DefaultEntries(j)' = DefaultEntries(j) /\ DefaultRows(j)' = DefaultRows(j)
      BY <1>1 DEF DefaultEntries, DefaultRows
    <3> QED
      BY <3>1 DEF ProvidersIInv, Seeded
  <2>2. \E d : DefaultEntries(k)' = {d} /\ d \in DefaultRows(k)'
    <3>1. PICK d \in DOMAIN R :
            /\ R[d].owner = Platform /\ R[d].default /\ R[d].active
            /\ \A i \in DOMAIN R : R[i].owner = Platform /\ R[i].default => i = d
      BY DEF HasDefault
    <3>2. DefaultEntries(k)' = {i \in DOMAIN R : R[i].owner = Platform /\ R[i].default}
      BY <1>1 DEF DefaultEntries
    <3>3. DefaultRows(k)' = {i \in DOMAIN R : R[i].owner = Platform /\ R[i].active /\ R[i].default}
      BY <1>1 DEF DefaultRows
    <3> QED
      BY <3>1, <3>2, <3>3
  <2> QED
    BY <2>1, <2>2
<1>9. \A u \in Requests \ {t} : RowsUntouched(u)
  <2>1. DOMAIN cfg[k] \subseteq DOMAIN R
    <3>1. DOMAIN R = 1..Len(R) /\ Len(R) \in Nat
      BY DEF RowsGood
    <3>2. DOMAIN cfg[k] = 1..Len(cfg[k]) /\ Len(cfg[k]) \in Nat
      BY <1>0, RowsTyped
    <3>3. Len(R) = Len(cfg[k]) \/ Len(R) = Len(cfg[k]) + 1
      BY DEF RowsFollow
    <3> DEFINE m == Len(cfg[k])
               n == Len(R)
    <3>4. m \in Nat /\ n \in Nat /\ (n = m \/ n = m + 1)
      BY <3>1, <3>2, <3>3
    <3>5. DOMAIN cfg[k] = 1..m /\ DOMAIN R = 1..n
      BY <3>1, <3>2
    <3> HIDE DEF m, n
    <3>6. 1..m \subseteq 1..n
      BY <3>4
    <3> QED
      BY <3>5, <3>6
  <2> QED
    BY <1>1, <2>1 DEF RowsUntouched, RowsFollow
<1> QED
  BY <1>2, <1>3, <1>4, <1>5, <1>6, <1>7, <1>8, <1>9 DEF TablesKept

\* What the invariant says of one table.
LEMMA TableNow ==
  ASSUME ProvidersIInv, NEW k \in Kinds, cfg[k] # <<>>
  PROVE  /\ cfg[k] \in Seq(Row) /\ Len(cfg[k]) \in Nat /\ DOMAIN cfg[k] = 1..Len(cfg[k])
         /\ \A i \in DOMAIN cfg[k] : cfg[k][i] \in Row
         /\ \A p \in Projects : sel[k][p] # 0 =>
              sel[k][p] \in DOMAIN cfg[k] /\ cfg[k][sel[k][p]].owner = Platform /\ cfg[k][sel[k][p]].avail
         /\ \A p \in Projects : \A i, j \in DOMAIN cfg[k] :
              cfg[k][i].owner = p /\ cfg[k][i].active /\ cfg[k][j].owner = p /\ cfg[k][j].active => i = j
         /\ \A p \in Projects : \A i \in DOMAIN cfg[k] :
              cfg[k][i].owner = p /\ cfg[k][i].active => sel[k][p] = 0
         /\ \A i \in DOMAIN cfg[k] :
              cfg[k][i].owner # Platform => cfg[k][i].cred \in {None, cfg[k][i].ep}
         /\ k = "embedding" => \A i \in DOMAIN cfg[k] : \/ <<i, cfg[k][i].model>> \in versions
                                                        \/ i = 1 /\ cfg[k][i].model = FirstModel
         /\ \E d \in DOMAIN cfg[k] :
              /\ cfg[k][d].owner = Platform /\ cfg[k][d].default /\ cfg[k][d].active
              /\ \A i \in DOMAIN cfg[k] : cfg[k][i].owner = Platform /\ cfg[k][i].default => i = d
<1>0. TablesTyped
  BY TypesOf
<1>1. /\ cfg[k] \in Seq(Row) /\ Len(cfg[k]) \in Nat /\ DOMAIN cfg[k] = 1..Len(cfg[k])
      /\ \A i \in DOMAIN cfg[k] : cfg[k][i] \in Row
  BY <1>0, RowsTyped
<1>2. \A p \in Projects : sel[k][p] # 0 =>
        sel[k][p] \in DOMAIN cfg[k] /\ cfg[k][sel[k][p]].owner = Platform /\ cfg[k][sel[k][p]].avail
  BY DEF ProvidersIInv, SettingsInv, SelectionShareable, SelectionIsRow
<1>3. ASSUME NEW p \in Projects
      PROVE  /\ \A i, j \in DOMAIN cfg[k] :
                  cfg[k][i].owner = p /\ cfg[k][i].active /\ cfg[k][j].owner = p /\ cfg[k][j].active => i = j
             /\ \A i \in DOMAIN cfg[k] : cfg[k][i].owner = p /\ cfg[k][i].active => sel[k][p] = 0
  <2>1. Cardinality(CustomRows(k, p)) <= 1 /\ (CustomRows(k, p) # {} => sel[k][p] = 0)
    BY DEF ProvidersIInv, SettingsInv, OneChoice
  <2>2. IsFiniteSet(CustomRows(k, p))
    BY <1>0, RowsFinite DEF CustomRows
  <2>3. \A i, j \in CustomRows(k, p) : i = j
    BY <2>1, <2>2, AtMostOne
  <2> QED
    BY <2>1, <2>3 DEF CustomRows
<1>4. \A i \in DOMAIN cfg[k] : cfg[k][i].owner # Platform => cfg[k][i].cred \in {None, cfg[k][i].ep}
  BY DEF ProvidersIInv, SettingsInv, CustomCredentials
<1>5. k = "embedding" => \A i \in DOMAIN cfg[k] : \/ <<i, cfg[k][i].model>> \in versions
                                                  \/ i = 1 /\ cfg[k][i].model = FirstModel
  BY DEF ProvidersIInv, VersionRecorded
<1>6. PICK d \in DefaultRows(k) : DefaultEntries(k) = {d}
  BY DEF ProvidersIInv, Seeded
<1>7. /\ d \in DOMAIN cfg[k] /\ cfg[k][d].owner = Platform /\ cfg[k][d].default /\ cfg[k][d].active
      /\ \A i \in DOMAIN cfg[k] : cfg[k][i].owner = Platform /\ cfg[k][i].default => i = d
  <2>1. d \in DOMAIN cfg[k] /\ cfg[k][d].owner = Platform /\ cfg[k][d].default /\ cfg[k][d].active
    BY <1>6 DEF DefaultRows
  <2>2. \A i \in DOMAIN cfg[k] : cfg[k][i].owner = Platform /\ cfg[k][i].default => i \in DefaultEntries(k)
    BY DEF DefaultEntries
  <2> QED
    BY <1>6, <2>1, <2>2
<1> QED
  BY <1>1, <1>2, <1>3, <1>4, <1>5, <1>7

LEMMA BusySeeded ==
  ASSUME ProvidersIInv, NEW t \in Requests, pc[t] # "idle"
  PROVE  \A j \in Kinds : cfg[j] # <<>>
BY DEF ProvidersIInv, Seeded

\* DeactivateProject...ProviderConfigs touches the rows of one project only.
LEMMA DeactivateCustomRows ==
  ASSUME TablesTyped, NEW k \in Kinds, NEW p \in Projects
  PROVE  /\ DeactivateCustom(k, p) \in Seq(Row) /\ Len(DeactivateCustom(k, p)) = Len(cfg[k])
         /\ DOMAIN DeactivateCustom(k, p) = DOMAIN cfg[k]
         /\ \A i \in DOMAIN cfg[k] :
              LET new == DeactivateCustom(k, p)[i]
                  old == cfg[k][i]
              IN /\ new.owner = old.owner /\ new.default = old.default /\ new.avail = old.avail
                 /\ new.ep = old.ep /\ new.model = old.model
                 /\ new.cred \in {None, old.cred}
                 /\ new.active = (old.active /\ old.owner # p)
<1> DEFINE D == DeactivateCustom(k, p)
<1>1. /\ cfg[k] \in Seq(Row) /\ Len(cfg[k]) \in Nat /\ DOMAIN cfg[k] = 1..Len(cfg[k])
      /\ \A i \in DOMAIN cfg[k] : cfg[k][i] \in Row
  BY RowsTyped
<1>2. DOMAIN D = DOMAIN cfg[k]
  BY DEF DeactivateCustom
<1>3. ASSUME NEW i \in DOMAIN cfg[k]
      PROVE  /\ D[i] \in Row
             /\ D[i].owner = cfg[k][i].owner /\ D[i].default = cfg[k][i].default
             /\ D[i].avail = cfg[k][i].avail /\ D[i].ep = cfg[k][i].ep
             /\ D[i].model = cfg[k][i].model /\ D[i].cred \in {None, cfg[k][i].cred}
             /\ D[i].active = (cfg[k][i].active /\ cfg[k][i].owner # p)
  <2>1. cfg[k][i] \in Row
    BY <1>1
  <2>2. D[i] = IF i \in CustomRows(k, p) THEN [cfg[k][i] EXCEPT !.active = FALSE, !.cred = None]
               ELSE cfg[k][i]
    BY DEF DeactivateCustom
  <2>3. i \in CustomRows(k, p) <=> cfg[k][i].owner = p /\ cfg[k][i].active
    BY DEF CustomRows
  <2>4. CASE i \in CustomRows(k, p)
    <3>1. D[i] = [cfg[k][i] EXCEPT !.active = FALSE, !.cred = None]
      BY <2>2, <2>4
    <3> HIDE DEF D
    <3>2. /\ D[i] \in Row
          /\ D[i].owner = cfg[k][i].owner /\ D[i].default = cfg[k][i].default
          /\ D[i].avail = cfg[k][i].avail /\ D[i].ep = cfg[k][i].ep
          /\ D[i].model = cfg[k][i].model /\ D[i].cred = None
      BY <2>1, <3>1 DEF Row
    <3>3. D[i].active = FALSE
      BY <2>1, <3>1 DEF Row
    <3>4. (cfg[k][i].active /\ cfg[k][i].owner # p) = FALSE
      BY <2>3, <2>4
    <3> QED
      BY <3>2, <3>3, <3>4
  <2>5. CASE i \notin CustomRows(k, p)
    BY <2>1, <2>2, <2>3, <2>5 DEF Row
  <2> QED
    BY <2>4, <2>5
<1>4. D \in Seq(Row) /\ Len(D) = Len(cfg[k])
  <2>1. D \in [1..Len(cfg[k]) -> Row]
    <3>1. D = [i \in 1..Len(cfg[k]) |-> D[i]]
      BY <1>1 DEF DeactivateCustom
    <3> QED
      BY <1>1, <1>3, <3>1
  <2> QED
    BY <1>1, <2>1
<1> QED
  BY <1>2, <1>3, <1>4

\* A commit ends its request.
LEMMA CommitOf ==
  ASSUME ProvidersIInv, NEW t \in Requests, pc[t] # "idle", End(t), UNCHANGED answer,
         NEW k \in Kinds, NEW R, cfg' = [cfg EXCEPT ![k] = R], RowsGood(k, R), HasDefault(R), RowsFollow(k, R, t),
         sel' \in [Kinds -> [Projects -> Ids]], \A j \in Kinds \ {k} : sel'[j] = sel[j],
         versions \subseteq versions', versions' \subseteq Ids \X Models
  PROVE  ProvidersIInv'
<1>1. \A j \in Kinds : cfg[j] # <<>>
  BY BusySeeded
<1>2. TablesKept(t)
  BY <1>1, OneTableKept
<1>3. answer' \in [Requests -> {"none", "config"}]
  BY AnswersKept
<1> QED
  BY <1>2, <1>3, CommitKeeps

\* A selection or a reset: the custom config goes, whatever is selected then is offered.
LEMMA SelectionRows ==
  ASSUME ProvidersIInv, NEW k \in Kinds, NEW t \in Requests, pc[t] # "idle",
         NEW p \in Projects, NEW i \in Ids, sel' = [sel EXCEPT ![k][p] = i], versions \subseteq versions',
         i # 0 => i \in DOMAIN cfg[k] /\ cfg[k][i].owner = Platform /\ cfg[k][i].avail
  PROVE  /\ RowsGood(k, DeactivateCustom(k, p)) /\ HasDefault(DeactivateCustom(k, p))
         /\ RowsFollow(k, DeactivateCustom(k, p), t)
         /\ sel' \in [Kinds -> [Projects -> Ids]] /\ \A j \in Kinds \ {k} : sel'[j] = sel[j]
         /\ sel'[k][p] = i
<1> DEFINE D == DeactivateCustom(k, p)
<1>0. TablesTyped
  BY TypesOf
<1>1. sel' \in [Kinds -> [Projects -> Ids]] /\ \A j \in Kinds \ {k} : sel'[j] = sel[j]
  BY <1>0 DEF TablesTyped
<1>2. sel'[k][p] = i /\ \A q \in Projects \ {p} : sel'[k][q] = sel[k][q]
  BY <1>0 DEF TablesTyped
<1>3. /\ D \in Seq(Row) /\ Len(D) = Len(cfg[k]) /\ DOMAIN D = DOMAIN cfg[k]
      /\ \A x \in DOMAIN cfg[k] :
           /\ D[x].owner = cfg[k][x].owner /\ D[x].default = cfg[k][x].default
           /\ D[x].avail = cfg[k][x].avail /\ D[x].ep = cfg[k][x].ep /\ D[x].model = cfg[k][x].model
           /\ D[x].cred \in {None, cfg[k][x].cred}
           /\ D[x].active = (cfg[k][x].active /\ cfg[k][x].owner # p)
  BY <1>0, DeactivateCustomRows
<1>4. cfg[k] # <<>>
  BY BusySeeded
<1> HIDE DEF D
<1>5. \A q \in Projects : sel'[k][q] # 0 =>
        sel'[k][q] \in DOMAIN D /\ D[sel'[k][q]].owner = Platform /\ D[sel'[k][q]].avail
  <2>1. \A q \in Projects : sel[k][q] # 0 =>
          sel[k][q] \in DOMAIN cfg[k] /\ cfg[k][sel[k][q]].owner = Platform /\ cfg[k][sel[k][q]].avail
    BY <1>4, TableNow
  <2> QED
    BY <1>2, <1>3, <2>1
<1>6. /\ \A q \in Projects : \A x, y \in DOMAIN D :
           D[x].owner = q /\ D[x].active /\ D[y].owner = q /\ D[y].active => x = y
      /\ \A q \in Projects : \A x \in DOMAIN D :
           D[x].owner = q /\ D[x].active => sel'[k][q] = 0
  <2>1. /\ \A q \in Projects : \A x, y \in DOMAIN cfg[k] :
             cfg[k][x].owner = q /\ cfg[k][x].active /\ cfg[k][y].owner = q /\ cfg[k][y].active => x = y
        /\ \A q \in Projects : \A x \in DOMAIN cfg[k] :
             cfg[k][x].owner = q /\ cfg[k][x].active => sel[k][q] = 0
    BY <1>4, TableNow
  <2>2. \A x \in DOMAIN D : D[x].active => /\ D[x].owner = cfg[k][x].owner
                                           /\ cfg[k][x].active /\ cfg[k][x].owner # p
    BY <1>3
  <2> QED
    BY <1>2, <1>3, <2>1, <2>2
<1>7. \A x \in DOMAIN D : D[x].owner # Platform => D[x].cred \in {None, D[x].ep}
  <2>1. \A x \in DOMAIN cfg[k] : cfg[k][x].owner # Platform => cfg[k][x].cred \in {None, cfg[k][x].ep}
    BY <1>4, TableNow
  <2> QED
    BY <1>3, <2>1
<1>8. k = "embedding" => \A x \in DOMAIN D : \/ <<x, D[x].model>> \in versions'
                                             \/ x = 1 /\ D[x].model = FirstModel
  <2>1. k = "embedding" => \A x \in DOMAIN cfg[k] : \/ <<x, cfg[k][x].model>> \in versions
                                                    \/ x = 1 /\ cfg[k][x].model = FirstModel
    BY <1>4, TableNow
  <2> QED
    BY <1>3, <2>1
<1>9. \E d \in DOMAIN D :
        /\ D[d].owner = Platform /\ D[d].default /\ D[d].active
        /\ \A x \in DOMAIN D : D[x].owner = Platform /\ D[x].default => x = d
  <2>1. PICK d \in DOMAIN cfg[k] :
          /\ cfg[k][d].owner = Platform /\ cfg[k][d].default /\ cfg[k][d].active
          /\ \A x \in DOMAIN cfg[k] : cfg[k][x].owner = Platform /\ cfg[k][x].default => x = d
    BY <1>4, TableNow
  <2>2. Platform # p
    BY ProvidersAssumption
  <2>3. D[d].owner = Platform /\ D[d].default /\ D[d].active
    BY <1>3, <2>1, <2>2
  <2> QED
    BY <1>3, <2>1, <2>3
<1>10. RowsGood(k, D) /\ HasDefault(D)
  BY <1>3, <1>5, <1>6, <1>7, <1>8, <1>9 DEF RowsGood, HasDefault
<1>11. RowsFollow(k, D, t)
  <2>1. \A x \in DOMAIN cfg[k] : cfg[k][x].owner = Platform => D[x].active = cfg[k][x].active
    <3> SUFFICES ASSUME NEW x \in DOMAIN cfg[k], cfg[k][x].owner = Platform
                 PROVE  D[x].active = cfg[k][x].active
      OBVIOUS
    <3>1. cfg[k][x] \in Row
      BY <1>0, RowsTyped
    <3>2. cfg[k][x].active \in BOOLEAN /\ Platform # p
      BY <3>1, ProvidersAssumption DEF Row
    <3>3. D[x].active = (cfg[k][x].active /\ cfg[k][x].owner # p)
      BY <1>3
    <3> QED
      BY <3>2, <3>3
  <2> QED
    BY <1>3, <2>1 DEF RowsFollow
<1> QED
  BY <1>1, <1>2, <1>10, <1>11 DEF D

LEMMA SelectGlobalConfigKeeps ==
  ASSUME ProvidersIInv, NEW t \in Requests, NEW k \in Kinds,
         SelectGlobalConfig(k, t) \/ ResetProjectSetting(k, t)
  PROVE  ProvidersIInv'
<1> DEFINE p == arg[t].proj
           i == IF arg[t].op = "select" THEN arg[t].id ELSE 0
<1>1. /\ pc[t] = "trigger" /\ want[t] = {} /\ arg[t].kind = k /\ arg[t].op \in {"select", "reset"}
      /\ cfg' = [cfg EXCEPT ![k] = DeactivateCustom(k, p)]
      /\ sel' = [sel EXCEPT ![k][p] = i]
      /\ End(t) /\ versions' = versions /\ answer' = answer
  BY DEF SelectGlobalConfig, ResetProjectSetting
<1>2. p \in Projects /\ i \in Ids
  BY <1>1, ArgTyped, ProvidersAssumption DEF Named, Ids
<1>3. i # 0 => i \in DOMAIN cfg[k] /\ cfg[k][i].owner = Platform /\ cfg[k][i].avail
  BY <1>1, ArgTyped DEF SelectionHeld
<1>4. pc[t] # "idle"
  BY <1>1
<1> HIDE DEF p, i
<1>5. /\ RowsGood(k, DeactivateCustom(k, p)) /\ HasDefault(DeactivateCustom(k, p))
      /\ RowsFollow(k, DeactivateCustom(k, p), t)
      /\ sel' \in [Kinds -> [Projects -> Ids]] /\ \A j \in Kinds \ {k} : sel'[j] = sel[j]
  BY <1>1, <1>2, <1>3, <1>4, SelectionRows
<1>6. versions \subseteq versions' /\ versions' \subseteq Ids \X Models
  BY <1>1, TypesOf DEF TablesTyped
<1> QED
  BY <1>1, <1>4, <1>5, <1>6, CommitOf

\* A row added at the end: whoever owns it has no other that is active.
LEMMA AppendGood ==
  ASSUME NEW k \in Kinds, NEW D, RowsGood(k, D), NEW n \in Row,
         n.owner # Platform => n.cred \in {None, n.ep},
         \A p \in Projects : n.owner = p => /\ sel'[k][p] = 0
                                            /\ \A i \in DOMAIN D : ~(D[i].owner = p /\ D[i].active),
         k = "embedding" => <<Len(D) + 1, n.model>> \in versions'
  PROVE  RowsGood(k, Append(D, n))
<1> DEFINE R == Append(D, n)
           m == Len(D)
<1>1. D \in Seq(Row) /\ m \in Nat /\ DOMAIN D = 1..m
  BY DEF RowsGood
<1>2. R \in Seq(Row) /\ DOMAIN R = 1..(m + 1)
  BY <1>1
<1>3. R[m + 1] = n /\ \A i \in DOMAIN D : i \in DOMAIN R /\ R[i] = D[i]
  BY <1>1
<1>4. \A i \in DOMAIN R : i \in DOMAIN D \/ i = m + 1
  BY <1>1, <1>2
<1> HIDE DEF R, m
<1>5. \A p \in Projects : sel'[k][p] # 0 =>
        sel'[k][p] \in DOMAIN R /\ R[sel'[k][p]].owner = Platform /\ R[sel'[k][p]].avail
  BY <1>3 DEF RowsGood
<1>6. \A p \in Projects : \A i, j \in DOMAIN R :
        R[i].owner = p /\ R[i].active /\ R[j].owner = p /\ R[j].active => i = j
  BY <1>3, <1>4 DEF RowsGood
<1>7. \A p \in Projects : \A i \in DOMAIN R : R[i].owner = p /\ R[i].active => sel'[k][p] = 0
  BY <1>3, <1>4 DEF RowsGood
<1>8. \A i \in DOMAIN R : R[i].owner # Platform => R[i].cred \in {None, R[i].ep}
  BY <1>3, <1>4 DEF RowsGood
<1>9. k = "embedding" => \A i \in DOMAIN R : \/ <<i, R[i].model>> \in versions'
                                             \/ i = 1 /\ R[i].model = FirstModel
  BY <1>3, <1>4 DEF RowsGood, m
<1> QED
  BY <1>2, <1>5, <1>6, <1>7, <1>8, <1>9 DEF RowsGood, R

LEMMA AppendFollows ==
  ASSUME NEW k \in Kinds, NEW t \in Requests, TablesTyped,
         NEW D \in Seq(Row), Len(D) = Len(cfg[k]), RowsFollow(k, D, t), NEW n \in Row
  PROVE  RowsFollow(k, Append(D, n), t)
<1>1. DOMAIN cfg[k] = 1..Len(cfg[k]) /\ Len(cfg[k]) \in Nat
  BY RowsTyped
<1>2. Len(Append(D, n)) = Len(cfg[k]) + 1
  OBVIOUS
<1>3. \A i \in DOMAIN cfg[k] : Append(D, n)[i] = D[i]
  BY <1>1
<1> QED
  BY <1>2, <1>3 DEF RowsFollow

\* A row that is not the platform's default leaves the default alone.
LEMMA AppendDefault ==
  ASSUME NEW D \in Seq(Row), HasDefault(D), NEW n \in Row, ~(n.owner = Platform /\ n.default)
  PROVE  HasDefault(Append(D, n))
<1>1. Len(D) \in Nat /\ DOMAIN D = 1..Len(D) /\ DOMAIN Append(D, n) = 1..(Len(D) + 1)
  OBVIOUS
<1>2. /\ Append(D, n)[Len(D) + 1] = n
      /\ \A i \in DOMAIN D : i \in DOMAIN Append(D, n) /\ Append(D, n)[i] = D[i]
  BY <1>1
<1>3. \A i \in DOMAIN Append(D, n) : i \in DOMAIN D \/ i = Len(D) + 1
  BY <1>1
<1> DEFINE R == Append(D, n)
<1>4. PICK d \in DOMAIN D :
        /\ D[d].owner = Platform /\ D[d].default /\ D[d].active
        /\ \A i \in DOMAIN D : D[i].owner = Platform /\ D[i].default => i = d
  BY DEF HasDefault
<1>5. d \in DOMAIN R /\ R[d].owner = Platform /\ R[d].default /\ R[d].active
  BY <1>2, <1>4
<1>6. \A i \in DOMAIN R : R[i].owner = Platform /\ R[i].default => i = d
  BY <1>2, <1>3, <1>4
<1> QED
  BY <1>5, <1>6 DEF HasDefault

\* A request under way may still add a row within the ids, and its version.
LEMMA RoomForRow ==
  ASSUME ProvidersIInv, NEW t \in Requests, pc[t] # "idle", NEW k \in Kinds
  PROVE  Len(cfg[k]) + 1 \in Ids
<1>1. Len(cfg[k]) \in Nat /\ served \in 0..MaxRequests /\ MaxRequests \in Nat
  BY TypesOf, RowsTyped, ProvidersAssumption DEF RequestsTyped
<1>2. Len(cfg[k]) + Cardinality(Busy) <= served + 1
  BY DEF ProvidersIInv, Counted, Busy
<1>3. Cardinality(Busy) \in Nat /\ Cardinality(Busy) # 0
  <2>1. t \in Busy
    BY DEF Busy
  <2> QED
    BY <2>1, BusyFinite, FS_EmptySet
<1> QED
  BY <1>1, <1>2, <1>3 DEF Ids

LEMMA VersionCreated ==
  ASSUME TablesTyped, NEW k \in Kinds, NEW i \in Ids, NEW m \in Models, CreateVersion(k, i, m)
  PROVE  /\ versions \subseteq versions' /\ versions' \subseteq Ids \X Models
         /\ k = "embedding" => <<i, m>> \in versions'
BY DEF CreateVersion, TablesTyped

\* The custom config that is written carries credentials of its own endpoint: kept
\* ones were checked against it, whatever happened to the row since.
LEMMA UpsertCustomConfigKeeps ==
  ASSUME ProvidersIInv, NEW t \in Requests, NEW k \in Kinds, UpsertCustomConfig(k, t)
  PROVE  ProvidersIInv'
<1> DEFINE a == arg[t]
           p == a.proj
           D == DeactivateCustom(k, p)
           cred == ResolveCredentials(a.body, seen[t], a.body.ep)
           n == NewRow(p, FALSE, FALSE, a.body, cred)
<1>0. TablesTyped /\ RequestsTyped
  BY TypesOf
<1>1. /\ pc[t] = "trigger" /\ a.op = "custom" /\ a.kind = k
      /\ cfg' = [cfg EXCEPT ![k] = Append(D, n)]
      /\ sel' = [sel EXCEPT ![k][p] = 0]
      /\ CreateVersion(k, Len(cfg[k]) + 1, a.body.model)
      /\ End(t) /\ answer' = answer
  BY DEF UpsertCustomConfig
<1>2. pc[t] # "idle" /\ p \in Projects /\ a.body \in Saves
  BY <1>1, ArgTyped DEF Named
<1>3. /\ a.body.ep \in Endpoints /\ a.body.model \in Models
      /\ a.body.cred \in {"keep", "clear", "set"}
  BY <1>2, ProvidersAssumption
<1>4. cred \in {None, a.body.ep}
  <2>1. \/ seen[t] = None
        \/ /\ seen[t] \in Row
           /\ seen[t].cred \in {None, seen[t].ep}
           /\ ~MustReenter(a.body, seen[t], a.body.ep)
    BY <1>1, ArgTyped DEF StaleReads
  <2>2. CASE a.body.cred = "keep"
    <3>1. cred = IF seen[t] = None THEN None ELSE seen[t].cred
      BY <2>2 DEF ResolveCredentials
    <3> QED
      BY <2>1, <2>2, <3>1 DEF MustReenter
  <2>3. CASE a.body.cred = "clear"
    BY <2>3 DEF ResolveCredentials
  <2>4. CASE a.body.cred = "set"
    BY <2>4 DEF ResolveCredentials
  <2> QED
    BY <1>3, <2>2, <2>3, <2>4
<1> HIDE DEF cred
<1>5. /\ n \in Row /\ n.owner = p /\ n.cred = cred /\ n.ep = a.body.ep /\ n.model = a.body.model
      /\ n.default = FALSE
  BY <1>2, <1>3, <1>4 DEF NewRow, Row
<1>6. Len(cfg[k]) + 1 \in Ids
  BY <1>2, RoomForRow
<1>7. /\ versions \subseteq versions' /\ versions' \subseteq Ids \X Models
      /\ k = "embedding" => <<Len(cfg[k]) + 1, a.body.model>> \in versions'
  BY <1>0, <1>1, <1>3, <1>6, VersionCreated
<1> DEFINE none == 0
<1>8. /\ none \in Ids /\ sel' = [sel EXCEPT ![k][p] = none]
      /\ none # 0 => none \in DOMAIN cfg[k] /\ cfg[k][none].owner = Platform /\ cfg[k][none].avail
  BY <1>1, ProvidersAssumption DEF Ids
<1> HIDE DEF n, p, a, none
<1>9. /\ RowsGood(k, D) /\ HasDefault(D) /\ RowsFollow(k, D, t)
      /\ sel' \in [Kinds -> [Projects -> Ids]] /\ \A j \in Kinds \ {k} : sel'[j] = sel[j]
      /\ sel'[k][p] = none
  BY <1>2, <1>7, <1>8, SelectionRows
<1>10. /\ D \in Seq(Row) /\ Len(D) = Len(cfg[k]) /\ DOMAIN D = DOMAIN cfg[k]
       /\ \A i \in DOMAIN cfg[k] : D[i].owner = cfg[k][i].owner
                                   /\ D[i].active = (cfg[k][i].active /\ cfg[k][i].owner # p)
  BY <1>0, <1>2, DeactivateCustomRows
<1> HIDE DEF D
<1>11. RowsGood(k, Append(D, n))
  <2>1. n.owner # Platform => n.cred \in {None, n.ep}
    BY <1>4, <1>5
  <2>2. \A q \in Projects : n.owner = q => /\ sel'[k][q] = 0
                                           /\ \A i \in DOMAIN D : ~(D[i].owner = q /\ D[i].active)
    BY <1>5, <1>9, <1>10 DEF none
  <2>3. k = "embedding" => <<Len(D) + 1, n.model>> \in versions'
    BY <1>5, <1>7, <1>10
  <2> QED
    BY <1>5, <1>9, <2>1, <2>2, <2>3, AppendGood
<1>12. HasDefault(Append(D, n))
  <2>1. ~(n.owner = Platform /\ n.default)
    BY <1>5
  <2> QED
    BY <1>5, <1>9, <1>10, <2>1, AppendDefault
<1>13. RowsFollow(k, Append(D, n), t)
  BY <1>0, <1>5, <1>9, <1>10, AppendFollows
<1> QED
  BY <1>1, <1>2, <1>7, <1>9, <1>11, <1>12, <1>13, CommitOf

\* One platform row is written: r takes the place of row i.
LEMMA OneRowGood ==
  ASSUME ProvidersIInv, NEW t \in Requests, pc[t] # "idle", NEW k \in Kinds,
         NEW i \in DOMAIN cfg[k], cfg[k][i].owner = Platform,
         NEW r \in Row, r.owner = Platform,
         sel' = sel, versions \subseteq versions',
         r.avail \/ \A p \in Projects : sel[k][p] # i,
         k = "embedding" => \/ <<i, r.model>> \in versions'
                            \/ i = 1 /\ r.model = FirstModel
  PROVE  /\ [cfg[k] EXCEPT ![i] = r] \in Seq(Row)
         /\ Len([cfg[k] EXCEPT ![i] = r]) = Len(cfg[k])
         /\ RowsGood(k, [cfg[k] EXCEPT ![i] = r])
<1> DEFINE D == [cfg[k] EXCEPT ![i] = r]
<1>1. cfg[k] # <<>>
  BY BusySeeded
<1>2. /\ cfg[k] \in Seq(Row) /\ Len(cfg[k]) \in Nat /\ DOMAIN cfg[k] = 1..Len(cfg[k])
      /\ \A x \in DOMAIN cfg[k] : cfg[k][x] \in Row
  BY TypesOf, RowsTyped
<1>3. D \in Seq(Row) /\ Len(D) = Len(cfg[k]) /\ DOMAIN D = DOMAIN cfg[k]
  BY <1>2
<1>4. D[i] = r /\ \A x \in DOMAIN cfg[k] \ {i} : D[x] = cfg[k][x]
  BY <1>2
<1>5. \A p \in Projects : Platform # p
  BY ProvidersAssumption
<1> HIDE DEF D
<1>6. \A p \in Projects : sel'[k][p] # 0 =>
        sel'[k][p] \in DOMAIN D /\ D[sel'[k][p]].owner = Platform /\ D[sel'[k][p]].avail
  <2>1. \A p \in Projects : sel[k][p] # 0 =>
          sel[k][p] \in DOMAIN cfg[k] /\ cfg[k][sel[k][p]].owner = Platform /\ cfg[k][sel[k][p]].avail
    BY <1>1, TableNow
  <2> QED
    BY <1>3, <1>4, <2>1
<1>7. \A x \in DOMAIN D : D[x].owner # Platform => x \in DOMAIN cfg[k] /\ D[x] = cfg[k][x]
  BY <1>3, <1>4
<1>8. /\ \A p \in Projects : \A x, y \in DOMAIN D :
           D[x].owner = p /\ D[x].active /\ D[y].owner = p /\ D[y].active => x = y
      /\ \A p \in Projects : \A x \in DOMAIN D :
           D[x].owner = p /\ D[x].active => sel'[k][p] = 0
  <2>1. /\ \A q \in Projects : \A x, y \in DOMAIN cfg[k] :
             cfg[k][x].owner = q /\ cfg[k][x].active /\ cfg[k][y].owner = q /\ cfg[k][y].active => x = y
        /\ \A q \in Projects : \A x \in DOMAIN cfg[k] :
             cfg[k][x].owner = q /\ cfg[k][x].active => sel[k][q] = 0
    BY <1>1, TableNow
  <2> QED
    BY <1>5, <1>7, <2>1
<1>9. \A x \in DOMAIN D : D[x].owner # Platform => D[x].cred \in {None, D[x].ep}
  <2>1. \A x \in DOMAIN cfg[k] : cfg[k][x].owner # Platform => cfg[k][x].cred \in {None, cfg[k][x].ep}
    BY <1>1, TableNow
  <2> QED
    BY <1>7, <2>1
<1>10. k = "embedding" => \A x \in DOMAIN D : \/ <<x, D[x].model>> \in versions'
                                              \/ x = 1 /\ D[x].model = FirstModel
  <2>1. k = "embedding" => \A x \in DOMAIN cfg[k] : \/ <<x, cfg[k][x].model>> \in versions
                                                    \/ x = 1 /\ cfg[k][x].model = FirstModel
    BY <1>1, TableNow
  <2> QED
    BY <1>3, <1>4, <2>1
<1> QED
  BY <1>3, <1>6, <1>8, <1>9, <1>10 DEF RowsGood, D

\* It stays the default if it was, and it is nobody's but the writer's.
LEMMA OneRowDefault ==
  ASSUME ProvidersIInv, NEW t \in Requests, pc[t] # "idle", NEW k \in Kinds,
         NEW i \in DOMAIN cfg[k], NEW r \in Row, r.owner = cfg[k][i].owner,
         r.default = cfg[k][i].default, r.default => r.active = cfg[k][i].active
  PROVE  HasDefault([cfg[k] EXCEPT ![i] = r])
<1> DEFINE D == [cfg[k] EXCEPT ![i] = r]
<1>1. cfg[k] # <<>>
  BY BusySeeded
<1>2. PICK d \in DOMAIN cfg[k] :
        /\ cfg[k][d].owner = Platform /\ cfg[k][d].default /\ cfg[k][d].active
        /\ \A x \in DOMAIN cfg[k] : cfg[k][x].owner = Platform /\ cfg[k][x].default => x = d
  BY <1>1, TableNow
<1>3. DOMAIN D = DOMAIN cfg[k] /\ D[i] = r /\ \A x \in DOMAIN cfg[k] \ {i} : D[x] = cfg[k][x]
  BY TypesOf, RowsTyped
<1> HIDE DEF D
<1>4. D[d].owner = Platform /\ D[d].default /\ D[d].active
  BY <1>2, <1>3
<1>5. \A x \in DOMAIN D : D[x].owner = Platform /\ D[x].default => x = d
  BY <1>2, <1>3
<1> QED
  BY <1>2, <1>3, <1>4, <1>5 DEF HasDefault, D

LEMMA OneRowFollows ==
  ASSUME ProvidersIInv, NEW t \in Requests, NEW k \in Kinds,
         NEW i \in DOMAIN cfg[k], NEW r \in Row, r.owner = cfg[k][i].owner, lock[<<k, i>>] \in {None, t}
  PROVE  RowsFollow(k, [cfg[k] EXCEPT ![i] = r], t)
<1> DEFINE D == [cfg[k] EXCEPT ![i] = r]
<1>1. /\ cfg[k] \in Seq(Row) /\ Len(D) = Len(cfg[k]) /\ DOMAIN D = DOMAIN cfg[k] /\ D[i] = r
      /\ \A x \in DOMAIN cfg[k] \ {i} : D[x] = cfg[k][x]
  BY TypesOf, RowsTyped
<1>2. \A u \in Requests \ {t} : lock[<<k, i>>] # u
  BY ProvidersAssumption
<1> HIDE DEF D
<1> QED
  BY <1>1, <1>2 DEF RowsFollow, D

\* A PATCH decides on a version from the row it read earlier; a version that was
\* there then is there now.
LEMMA PatchKeeps ==
  ASSUME ProvidersIInv, NEW t \in Requests, NEW k \in Kinds, UpdateGlobalConfigByID(k, t)
  PROVE  ProvidersIInv'
<1> DEFINE b == arg[t].body
           i == cur[t]
           cred == ResolveCredentials(b, seen[t], EffectiveEndpoint(b, seen[t]))
           r == Patched(cfg[k][i], b, cred)
<1>0. TablesTyped /\ RequestsTyped
  BY TypesOf
<1>1. pc[t] = "users" /\ arg[t].kind = k
  BY DEF UpdateGlobalConfigByID
<1>2. CASE Refuse(t)
  BY <1>1, <1>2, RefuseKeeps
<1>3. CASE /\ r.avail \/ ProjectsUsing(k, i) = {}
           /\ cfg' = [cfg EXCEPT ![k][i] = r]
           /\ IF r.model # seen[t].model THEN CreateVersion(k, i, r.model) ELSE UNCHANGED versions
           /\ End(t)
           /\ UNCHANGED <<sel, answer>>
  <2>1. /\ arg[t].op = "patch" /\ b \in Patches /\ i \in Ids
        /\ i \in DOMAIN cfg[k] /\ cfg[k][i].owner = Platform /\ lock[<<k, i>>] = t
        /\ seen[t] \in Row
        /\ k = "embedding" => \/ <<i, seen[t].model>> \in versions
                              \/ i = 1 /\ seen[t].model = FirstModel
    BY <1>1, ArgTyped DEF StepOf, Named, RowsHeld, StaleReads
  <2>2. cfg[k][i] \in Row
    BY <1>0, <2>1, RowsTyped
  <2>3. /\ b.ep \in Endpoints \cup {None} /\ b.model \in Models \cup {None}
        /\ b.cred \in {"keep", "clear", "set"} /\ b.avail \in {"yes", "no", "keep"}
    BY <2>1, ProvidersAssumption
  <2>4. cred \in Endpoints \cup {None}
    <3>1. EffectiveEndpoint(b, seen[t]) \in Endpoints
      BY <2>1, <2>3 DEF EffectiveEndpoint, Row
    <3>2. seen[t].cred \in Endpoints \cup {None}
      BY <2>1 DEF Row
    <3> QED
      BY <2>3, <3>1, <3>2 DEF ResolveCredentials
  <2> HIDE DEF cred, b
  <2>5. /\ r \in Row /\ r.owner = cfg[k][i].owner /\ r.default = cfg[k][i].default
        /\ r.active = cfg[k][i].active /\ r.model \in Models
    <3> DEFINE old == cfg[k][i]
               ep == IF b.ep = None THEN old.ep ELSE b.ep
               model == IF b.model = None THEN old.model ELSE b.model
               avail == IF b.avail = "keep" THEN old.avail ELSE b.avail = "yes"
               kept == IF b.cred = "clear" THEN None ELSE IF cred = None THEN old.cred ELSE cred
    <3>1. old \in Row
      BY <2>2
    <3>2. ep \in Endpoints /\ model \in Models /\ kept \in Endpoints \cup {None}
      BY <2>3, <2>4, <3>1 DEF Row
    <3>3. avail \in BOOLEAN
      <4>1. old.avail \in BOOLEAN
        BY <3>1 DEF Row
      <4> QED
        BY <4>1
    <3>4. r = [old EXCEPT !.ep = ep, !.model = model, !.avail = avail, !.cred = kept]
      BY <3>1 DEF Patched, Row
    <3> HIDE DEF ep, model, avail, kept, old, r
    <3>5. /\ r \in Row /\ r.owner = old.owner /\ r.default = old.default
          /\ r.active = old.active /\ r.model \in Models
      BY <3>1, <3>2, <3>3, <3>4 DEF Row
    <3> QED
      BY <3>5 DEF old
  <2>6. /\ versions \subseteq versions' /\ versions' \subseteq Ids \X Models
        /\ k = "embedding" => \/ <<i, r.model>> \in versions'
                              \/ i = 1 /\ r.model = FirstModel
    <3> HIDE DEF r
    <3>1. CASE r.model # seen[t].model
      <4>1. CreateVersion(k, i, r.model)
        BY <1>3, <3>1
      <4> QED
        BY <1>0, <2>1, <2>5, <4>1, VersionCreated
    <3>2. CASE r.model = seen[t].model
      BY <1>0, <1>3, <2>1, <3>2 DEF TablesTyped
    <3> QED
      BY <3>1, <3>2
  <2> HIDE DEF r
  <2>7. r.avail \/ \A p \in Projects : sel[k][p] # i
    BY <1>3 DEF ProjectsUsing
  <2> DEFINE D == [cfg[k] EXCEPT ![i] = r]
  <2>8. pc[t] # "idle" /\ r.owner = Platform /\ sel' = sel
    BY <1>1, <1>3, <2>1, <2>5
  <2> HIDE DEF i
  <2>9. RowsGood(k, D)
    BY <2>1, <2>5, <2>6, <2>7, <2>8, OneRowGood
  <2>10. HasDefault(D)
    BY <2>1, <2>5, <2>8, OneRowDefault
  <2>11. RowsFollow(k, D, t)
    BY <2>1, <2>5, OneRowFollows
  <2>12. cfg' = [cfg EXCEPT ![k] = D]
    BY <1>3
  <2>13. sel' \in [Kinds -> [Projects -> Ids]] /\ \A j \in Kinds \ {k} : sel'[j] = sel[j]
    BY <1>0, <2>8 DEF TablesTyped
  <2> HIDE DEF D
  <2> QED
    BY <1>3, <2>6, <2>8, <2>9, <2>10, <2>11, <2>12, <2>13, CommitOf
<1> QED
  BY <1>2, <1>3 DEF UpdateGlobalConfigByID

\* The deactivation spares the default.
LEMMA DeleteKeeps ==
  ASSUME ProvidersIInv, NEW t \in Requests, NEW k \in Kinds, DeleteGlobalConfig(k, t)
  PROVE  ProvidersIInv'
<1> DEFINE i == cur[t]
           r == [cfg[k][i] EXCEPT !.active = FALSE, !.cred = None]
           D == [cfg[k] EXCEPT ![i] = r]
<1>0. TablesTyped /\ RequestsTyped
  BY TypesOf
<1>1. pc[t] = "lockRow" /\ arg[t].op = "delete" /\ arg[t].kind = k /\ lock[<<k, i>>] = None
  BY DEF DeleteGlobalConfig
<1>2. CASE Refuse(t)
  BY <1>1, <1>2, RefuseKeeps
<1>3. CASE /\ i \in GlobalRows(k) \ DefaultRows(k)
           /\ cfg' = [cfg EXCEPT ![k][i].active = FALSE, ![k][i].cred = None]
           /\ End(t)
           /\ UNCHANGED <<sel, versions, answer>>
  <2>1. /\ i \in DOMAIN cfg[k] /\ cfg[k][i].owner = Platform /\ cfg[k][i].active /\ ~cfg[k][i].default
    BY <1>3 DEF GlobalRows, DefaultRows
  <2>2. cfg[k][i] \in Row
    BY <1>0, <2>1, RowsTyped
  <2>3. /\ r \in Row /\ r.owner = Platform /\ r.owner = cfg[k][i].owner /\ r.default = cfg[k][i].default
        /\ r.avail = cfg[k][i].avail /\ r.model = cfg[k][i].model
    BY <2>1, <2>2 DEF Row
  <2>4. cfg' = [cfg EXCEPT ![k] = D]
    <3>1. cfg \in [Kinds -> Seq(Row)] /\ cfg[k] \in Seq(Row)
      BY <1>0 DEF TablesTyped
    <3> QED
      BY <1>3, <2>1, <2>2, <3>1 DEF Row
  <2> HIDE DEF r
  <2>5. sel' = sel /\ versions' = versions /\ pc[t] # "idle" /\ answer' = answer /\ End(t)
    BY <1>1, <1>3
  <2>6. r.avail \/ \A p \in Projects : sel[k][p] # i
    <3> SUFFICES ASSUME NEW p \in Projects, sel[k][p] = i
                 PROVE  r.avail
      OBVIOUS
    <3>1. i # 0
      BY <1>0, <2>1, RowsTyped
    <3> QED
      BY <2>3, <3>1 DEF ProvidersIInv, SettingsInv, SelectionShareable
  <2>7. k = "embedding" => \/ <<i, r.model>> \in versions'
                           \/ i = 1 /\ r.model = FirstModel
    BY <2>1, <2>3, <2>5 DEF ProvidersIInv, VersionRecorded
  <2>8. r.default => r.active = cfg[k][i].active
    BY <2>1, <2>3
  <2>9. lock[<<k, i>>] \in {None, t}
    BY <1>1
  <2> HIDE DEF i
  <2>10. RowsGood(k, D)
    BY <2>1, <2>3, <2>5, <2>6, <2>7, OneRowGood
  <2>11. HasDefault(D)
    BY <2>1, <2>3, <2>5, <2>8, OneRowDefault
  <2>12. RowsFollow(k, D, t)
    BY <2>1, <2>3, <2>9, OneRowFollows
  <2>13. /\ sel' \in [Kinds -> [Projects -> Ids]] /\ \A j \in Kinds \ {k} : sel'[j] = sel[j]
         /\ versions \subseteq versions' /\ versions' \subseteq Ids \X Models
    BY <1>0, <2>5 DEF TablesTyped
  <2> HIDE DEF D
  <2> QED
    BY <2>4, <2>5, <2>10, <2>11, <2>12, <2>13, CommitOf
<1> QED
  BY <1>2, <1>3 DEF DeleteGlobalConfig

\* The index lets a replacement commit only if the row it locked is the default
\* still: then that one is cleared and the new row takes its place.
LEMMA ReplaceKeeps ==
  ASSUME ProvidersIInv, NEW t \in Requests, NEW k \in Kinds, UpdateGlobalConfig(k, t)
  PROVE  ProvidersIInv'
<1> DEFINE b == arg[t].body
           i == cur[t]
           r == [cfg[k][i] EXCEPT !.active = FALSE, !.default = FALSE]
           D == [cfg[k] EXCEPT ![i] = r]
           cred == ResolveCredentials(b, seen[t], b.ep)
           n == NewRow(Platform, TRUE, b.avail = "yes", b, cred)
<1>0. TablesTyped /\ RequestsTyped
  BY TypesOf
<1>1. /\ pc[t] = "unique" /\ arg[t].op = "replace" /\ arg[t].kind = k
      /\ DefaultEntries(k) \subseteq {i}
      /\ cfg' = [cfg EXCEPT ![k] =
                   Append([x \in DOMAIN cfg[k] |->
                             IF x = i THEN [cfg[k][x] EXCEPT !.active = FALSE, !.default = FALSE]
                             ELSE cfg[k][x]], n)]
      /\ CreateVersion(k, Len(cfg[k]) + 1, b.model)
      /\ End(t) /\ sel' = sel /\ answer' = answer
  <2>1. cfg \in [Kinds -> Seq(Row)]
    BY <1>0 DEF TablesTyped
  <2> QED
    BY <2>1 DEF UpdateGlobalConfig
<1>2. pc[t] # "idle" /\ b \in Saves
  BY <1>1, ArgTyped DEF Named
<1>3. /\ b.ep \in Endpoints /\ b.model \in Models /\ b.cred \in {"keep", "clear", "set"}
  BY <1>2, ProvidersAssumption
<1>4. i \in DOMAIN cfg[k] /\ cfg[k][i].owner = Platform /\ cfg[k][i].default /\ i # 0
      /\ \A x \in DOMAIN cfg[k] : cfg[k][x].owner = Platform /\ cfg[k][x].default => x = i
  <2>1. PICK d : DefaultEntries(k) = {d} /\ d \in DefaultRows(k)
    BY <1>2, DefaultThere
  <2>2. d = i
    BY <1>1, <2>1
  <2>3. i \in DOMAIN cfg[k] /\ cfg[k][i].owner = Platform /\ cfg[k][i].default
    BY <2>1, <2>2 DEF DefaultRows
  <2>4. \A x \in DOMAIN cfg[k] : cfg[k][x].owner = Platform /\ cfg[k][x].default => x = i
    <3>1. \A x \in DOMAIN cfg[k] : cfg[k][x].owner = Platform /\ cfg[k][x].default => x \in DefaultEntries(k)
      BY DEF DefaultEntries
    <3> QED
      BY <2>1, <2>2, <3>1
  <2>5. i # 0
    BY <1>0, <2>3, RowsTyped
  <2> QED
    BY <2>3, <2>4, <2>5
<1>5. cfg[k][i] \in Row
  BY <1>0, <1>4, RowsTyped
<1>6. /\ r \in Row /\ r.owner = Platform /\ r.owner = cfg[k][i].owner /\ r.default = FALSE
      /\ r.avail = cfg[k][i].avail /\ r.model = cfg[k][i].model
  BY <1>4, <1>5 DEF Row
<1>7. cfg' = [cfg EXCEPT ![k] = Append(D, n)]
  <2>1. D = [x \in DOMAIN cfg[k] |->
               IF x = i THEN [cfg[k][x] EXCEPT !.active = FALSE, !.default = FALSE]
               ELSE cfg[k][x]]
    <3>1. cfg[k] \in Seq(Row)
      BY <1>0, RowsTyped
    <3> QED
      BY <1>4, <3>1
  <2> QED
    BY <1>1, <2>1
<1>8. cred \in Endpoints \cup {None}
  <2>1. seen[t] \in Row \cup {None}
    BY <1>0 DEF RequestsTyped
  <2>2. seen[t] \in Row => seen[t].cred \in Endpoints \cup {None}
    BY DEF Row
  <2> QED
    BY <1>3, <2>1, <2>2 DEF ResolveCredentials
<1> HIDE DEF cred
<1>9. /\ n \in Row /\ n.owner = Platform /\ n.default = TRUE /\ n.active = TRUE /\ n.model = b.model
  <2>1. (b.avail = "yes") \in BOOLEAN
    OBVIOUS
  <2> QED
    BY <1>3, <1>8, <2>1 DEF NewRow, Row
<1>10. Len(cfg[k]) + 1 \in Ids
  BY <1>2, RoomForRow
<1>11. /\ versions \subseteq versions' /\ versions' \subseteq Ids \X Models
       /\ k = "embedding" => <<Len(cfg[k]) + 1, b.model>> \in versions'
  BY <1>0, <1>1, <1>3, <1>10, VersionCreated
<1> HIDE DEF r, n, b
<1>12. r.avail \/ \A p \in Projects : sel[k][p] # i
  <2> SUFFICES ASSUME NEW p \in Projects, sel[k][p] = i
               PROVE  r.avail
    OBVIOUS
  <2> QED
    BY <1>4, <1>6 DEF ProvidersIInv, SettingsInv, SelectionShareable
<1>13. k = "embedding" => \/ <<i, r.model>> \in versions'
                          \/ i = 1 /\ r.model = FirstModel
  BY <1>4, <1>6, <1>11 DEF ProvidersIInv, VersionRecorded
<1>14. lock[<<k, i>>] \in {None, t}
  BY <1>1, <1>4, ArgTyped DEF RowsHeld
<1>15. sel' = sel
  BY <1>1
<1> HIDE DEF i
<1>16. D \in Seq(Row) /\ Len(D) = Len(cfg[k]) /\ RowsGood(k, D)
  BY <1>2, <1>4, <1>6, <1>11, <1>12, <1>13, <1>15, OneRowGood
<1>17. RowsFollow(k, D, t)
  BY <1>4, <1>6, <1>14, OneRowFollows
<1>18. RowsGood(k, Append(D, n))
  <2>1. \A p \in Projects : n.owner # p
    BY <1>9, ProvidersAssumption
  <2>2. n.owner # Platform => n.cred \in {None, n.ep}
    BY <1>9
  <2>3. k = "embedding" => <<Len(D) + 1, n.model>> \in versions'
    BY <1>9, <1>11, <1>16
  <2> QED
    BY <1>9, <1>16, <2>1, <2>2, <2>3, AppendGood
<1>19. HasDefault(Append(D, n))
  <2> DEFINE m == Len(D)
             R == Append(D, n)
  <2>1. m \in Nat /\ DOMAIN D = 1..m /\ DOMAIN R = 1..(m + 1)
    BY <1>9, <1>16
  <2>2. R[m + 1] = n /\ \A x \in DOMAIN D : R[x] = D[x]
    BY <1>9, <1>16, <2>1
  <2>3. \A x \in DOMAIN D : ~(D[x].owner = Platform /\ D[x].default)
    <3>1. DOMAIN D = DOMAIN cfg[k] /\ D[i] = r /\ \A x \in DOMAIN cfg[k] \ {i} : D[x] = cfg[k][x]
      BY <1>0, <1>4, RowsTyped
    <3> QED
      BY <1>4, <1>6, <3>1
  <2>4. \A x \in DOMAIN R : x \in DOMAIN D \/ x = m + 1
    BY <2>1
  <2>5. m + 1 \in DOMAIN R
    BY <2>1
  <2> HIDE DEF m, R
  <2>6. R[m + 1].owner = Platform /\ R[m + 1].default /\ R[m + 1].active
    BY <1>9, <2>2
  <2>7. \A x \in DOMAIN R : R[x].owner = Platform /\ R[x].default => x = m + 1
    BY <2>2, <2>3, <2>4
  <2> QED
    BY <2>5, <2>6, <2>7 DEF HasDefault, R
<1>20. RowsFollow(k, Append(D, n), t)
  BY <1>0, <1>9, <1>16, <1>17, AppendFollows
<1>21. sel' \in [Kinds -> [Projects -> Ids]] /\ \A j \in Kinds \ {k} : sel'[j] = sel[j]
  BY <1>0, <1>15 DEF TablesTyped
<1> HIDE DEF D
<1> QED
  BY <1>1, <1>2, <1>7, <1>11, <1>18, <1>19, <1>20, <1>21, CommitOf

\* The row to be promoted was locked and is active still; the one it follows is
\* cleared with the same commit.
LEMMA PromoteKeeps ==
  ASSUME ProvidersIInv, NEW t \in Requests, NEW k \in Kinds, PromoteToDefault(k, t)
  PROVE  ProvidersIInv'
<1> DEFINE i == arg[t].id
           c == cur[t]
           D == [x \in DOMAIN cfg[k] |-> [cfg[k][x] EXCEPT !.default = IF x = i THEN TRUE
                                                     ELSE IF x = c THEN FALSE ELSE cfg[k][x].default]]
<1>0. TablesTyped /\ RequestsTyped
  BY TypesOf
<1>1. /\ pc[t] = "unique" /\ arg[t].op = "promote" /\ arg[t].kind = k
      /\ DefaultEntries(k) \subseteq {c, i}
      /\ cfg' = [cfg EXCEPT ![k] = D]
      /\ End(t) /\ sel' = sel /\ versions' = versions /\ answer' = answer
  BY DEF PromoteToDefault
<1>2. pc[t] # "idle" /\ i \in DOMAIN cfg[k] /\ cfg[k][i].owner = Platform /\ cfg[k][i].active
  BY <1>1, ArgTyped DEF RowsHeld, GlobalRows
<1>3. /\ cfg[k] \in Seq(Row) /\ Len(cfg[k]) \in Nat /\ DOMAIN cfg[k] = 1..Len(cfg[k])
      /\ \A x \in DOMAIN cfg[k] : cfg[k][x] \in Row
  BY <1>0, RowsTyped
<1>4. ASSUME NEW x \in DOMAIN cfg[k]
      PROVE  /\ D[x] \in Row
             /\ D[x].owner = cfg[k][x].owner /\ D[x].active = cfg[k][x].active
             /\ D[x].avail = cfg[k][x].avail /\ D[x].ep = cfg[k][x].ep
             /\ D[x].model = cfg[k][x].model /\ D[x].cred = cfg[k][x].cred
             /\ D[x].default = IF x = i THEN TRUE ELSE IF x = c THEN FALSE ELSE cfg[k][x].default
  <2> DEFINE f == IF x = i THEN TRUE ELSE IF x = c THEN FALSE ELSE cfg[k][x].default
  <2>1. cfg[k][x] \in Row
    BY <1>3
  <2>2. f \in BOOLEAN
    <3>1. cfg[k][x].default \in BOOLEAN
      BY <2>1 DEF Row
    <3> QED
      BY <3>1
  <2>3. D[x] = [cfg[k][x] EXCEPT !.default = f]
    OBVIOUS
  <2> HIDE DEF f, D
  <2>4. /\ D[x] \in Row
        /\ D[x].owner = cfg[k][x].owner /\ D[x].active = cfg[k][x].active
        /\ D[x].avail = cfg[k][x].avail /\ D[x].ep = cfg[k][x].ep
        /\ D[x].model = cfg[k][x].model /\ D[x].cred = cfg[k][x].cred
        /\ D[x].default = f
    BY <2>1, <2>2, <2>3 DEF Row
  <2> QED
    BY <2>4 DEF f
<1>5. DOMAIN D = DOMAIN cfg[k] /\ D \in Seq(Row) /\ Len(D) = Len(cfg[k])
  <2>1. DOMAIN D = DOMAIN cfg[k]
    OBVIOUS
  <2>2. D = [x \in 1..Len(cfg[k]) |-> D[x]]
    BY <1>3
  <2>3. D \in [1..Len(cfg[k]) -> Row]
    BY <1>3, <1>4, <2>2
  <2> HIDE DEF D
  <2> QED
    BY <1>3, <2>1, <2>3
<1> HIDE DEF D
<1>6. cfg[k] # <<>>
  BY <1>2, BusySeeded
<1>7. RowsGood(k, D)
  <2>0. /\ sel' = sel /\ versions' = versions /\ DOMAIN D = DOMAIN cfg[k]
        /\ \A x \in DOMAIN cfg[k] :
             /\ D[x].owner = cfg[k][x].owner /\ D[x].active = cfg[k][x].active
             /\ D[x].avail = cfg[k][x].avail /\ D[x].ep = cfg[k][x].ep
             /\ D[x].model = cfg[k][x].model /\ D[x].cred = cfg[k][x].cred
    BY <1>1, <1>4, <1>5
  <2>1. \A p \in Projects : sel'[k][p] # 0 =>
          sel'[k][p] \in DOMAIN D /\ D[sel'[k][p]].owner = Platform /\ D[sel'[k][p]].avail
    <3>1. \A p \in Projects : sel[k][p] # 0 =>
            sel[k][p] \in DOMAIN cfg[k] /\ cfg[k][sel[k][p]].owner = Platform /\ cfg[k][sel[k][p]].avail
      BY <1>6, TableNow
    <3> QED
      BY <2>0, <3>1
  <2>2. /\ \A p \in Projects : \A x, y \in DOMAIN D :
             D[x].owner = p /\ D[x].active /\ D[y].owner = p /\ D[y].active => x = y
        /\ \A p \in Projects : \A x \in DOMAIN D :
             D[x].owner = p /\ D[x].active => sel'[k][p] = 0
    <3>1. /\ \A q \in Projects : \A x, y \in DOMAIN cfg[k] :
               cfg[k][x].owner = q /\ cfg[k][x].active /\ cfg[k][y].owner = q /\ cfg[k][y].active => x = y
          /\ \A q \in Projects : \A x \in DOMAIN cfg[k] :
               cfg[k][x].owner = q /\ cfg[k][x].active => sel[k][q] = 0
      BY <1>6, TableNow
    <3> QED
      BY <2>0, <3>1
  <2>3. \A x \in DOMAIN D : D[x].owner # Platform => D[x].cred \in {None, D[x].ep}
    BY <2>0 DEF ProvidersIInv, SettingsInv, CustomCredentials
  <2>4. k = "embedding" => \A x \in DOMAIN D : \/ <<x, D[x].model>> \in versions'
                                               \/ x = 1 /\ D[x].model = FirstModel
    BY <2>0 DEF ProvidersIInv, VersionRecorded
  <2> QED
    BY <1>5, <2>1, <2>2, <2>3, <2>4 DEF RowsGood
<1>8. HasDefault(D)
  <2>1. D[i].owner = Platform /\ D[i].default /\ D[i].active /\ i \in DOMAIN D
    BY <1>2, <1>4, <1>5
  <2>2. ASSUME NEW x \in DOMAIN D, D[x].owner = Platform, D[x].default
        PROVE  x = i
    <3>1. x \in DOMAIN cfg[k] /\ cfg[k][x].owner = Platform
      BY <1>4, <1>5, <2>2
    <3>2. CASE x # i
      <4>1. x # c /\ cfg[k][x].default
        BY <1>4, <2>2, <3>1, <3>2
      <4>2. x \in DefaultEntries(k)
        BY <3>1, <4>1 DEF DefaultEntries
      <4> QED
        BY <1>1, <3>2, <4>1, <4>2
    <3> QED
      BY <3>2
  <2> QED
    BY <2>1, <2>2 DEF HasDefault
<1>9. RowsFollow(k, D, t)
  BY <1>4, <1>5 DEF RowsFollow
<1>10. /\ sel' \in [Kinds -> [Projects -> Ids]] /\ \A j \in Kinds \ {k} : sel'[j] = sel[j]
       /\ versions \subseteq versions' /\ versions' \subseteq Ids \X Models
  BY <1>0, <1>1 DEF TablesTyped
<1> QED
  BY <1>1, <1>2, <1>7, <1>8, <1>9, <1>10, CommitOf

\* An additional platform config: nothing conflicts with it.
LEMMA CreateKeeps ==
  ASSUME ProvidersIInv, NEW t \in Requests, NEW k \in Kinds, CreateAdditionalGlobalConfig(k, t)
  PROVE  ProvidersIInv'
<1>0. TypeOK /\ TablesTyped /\ RequestsTyped
  BY TypesOf
<1>1. PICK b \in Saves :
        /\ pc[t] = "idle" /\ Serving /\ served' = served + 1
        /\ cfg' = [cfg EXCEPT ![k] = Append(cfg[k], NewRow(Platform, FALSE, b.avail = "yes", b,
                                                         ResolveCredentials(b, None, b.ep)))]
        /\ CreateVersion(k, Len(cfg[k]) + 1, b.model)
        /\ UNCHANGED <<sel, pc, arg, cur, seen, want, attempt, lock, answer>>
  <2>1. cfg \in [Kinds -> Seq(Row)]
    BY <1>0 DEF TablesTyped
  <2> QED
    BY <2>1 DEF CreateAdditionalGlobalConfig
<1> DEFINE cred == ResolveCredentials(b, None, b.ep)
           n == NewRow(Platform, FALSE, b.avail = "yes", b, cred)
           R == Append(cfg[k], n)
<1>2. b.ep \in Endpoints /\ b.model \in Models /\ b.cred \in {"keep", "clear", "set"}
  BY ProvidersAssumption
<1>3. cred \in Endpoints \cup {None}
  BY <1>2 DEF ResolveCredentials
<1> HIDE DEF cred
<1>4. n \in Row /\ n.owner = Platform /\ n.default = FALSE /\ n.model = b.model
  <2>1. (b.avail = "yes") \in BOOLEAN
    OBVIOUS
  <2> QED
    BY <1>2, <1>3, <2>1 DEF NewRow, Row
<1>5. \A j \in Kinds : cfg[j] # <<>>
  <2>1. CASE served = 0
    BY <1>1, <2>1 DEF Serving, DefaultRows
  <2>2. CASE served # 0
    BY <1>0, <2>2 DEF ProvidersIInv, Seeded, RequestsTyped
  <2> QED
    BY <2>1, <2>2
<1>6. /\ served \in Nat /\ served' = served + 1 /\ served' \in 0..MaxRequests
      /\ \A j \in Kinds : /\ Len(cfg[j]) \in Nat
                          /\ Len(cfg[j]) + Cardinality(Busy) <= served + 1
  <2>1. served \in Nat /\ served' = served + 1 /\ served' \in 0..MaxRequests
    BY <1>0, <1>1, ProvidersAssumption DEF RequestsTyped, Serving
  <2>2. \A j \in Kinds : Len(cfg[j]) \in Nat
    BY <1>0, RowsTyped
  <2>3. \A j \in Kinds : Len(cfg[j]) + Cardinality(Busy) <= served + 1
    BY DEF ProvidersIInv, Counted, Busy
  <2> QED
    BY <2>1, <2>2, <2>3
<1>7. Len(cfg[k]) + 1 \in Ids
  BY <1>6, BusyFinite, ProvidersAssumption DEF Ids
<1>8. /\ versions \subseteq versions' /\ versions' \subseteq Ids \X Models
      /\ k = "embedding" => <<Len(cfg[k]) + 1, b.model>> \in versions'
  BY <1>0, <1>1, <1>2, <1>7, VersionCreated
<1>9. sel' = sel
  BY <1>1
<1>10. RowsGood(k, cfg[k]) /\ HasDefault(cfg[k])
  <2>1. cfg[k] # <<>>
    BY <1>5
  <2>2. RowsGood(k, cfg[k])
    BY <1>8, <1>9, <2>1, TableNow DEF RowsGood
  <2>3. HasDefault(cfg[k])
    BY <2>1, TableNow DEF HasDefault
  <2> QED
    BY <2>2, <2>3
<1> HIDE DEF n
<1>11. cfg[k] \in Seq(Row) /\ RowsFollow(k, cfg[k], t)
  BY <1>0, RowsTyped DEF RowsFollow
<1>12. RowsGood(k, R)
  <2>1. \A p \in Projects : n.owner # p
    BY <1>4, ProvidersAssumption
  <2>2. n.owner # Platform => n.cred \in {None, n.ep}
    BY <1>4
  <2>3. k = "embedding" => <<Len(cfg[k]) + 1, n.model>> \in versions'
    BY <1>4, <1>8
  <2> QED
    BY <1>4, <1>10, <2>1, <2>2, <2>3, AppendGood
<1>13. HasDefault(R)
  <2>1. ~(n.owner = Platform /\ n.default)
    BY <1>4
  <2> QED
    BY <1>4, <1>10, <1>11, <2>1, AppendDefault
<1>14. RowsFollow(k, R, t)
  BY <1>0, <1>4, <1>11, AppendFollows
<1>15. /\ sel' \in [Kinds -> [Projects -> Ids]] /\ \A j \in Kinds \ {k} : sel'[j] = sel[j]
       /\ cfg' = [cfg EXCEPT ![k] = R]
  BY <1>0, <1>1, <1>9 DEF TablesTyped, n, cred
<1> HIDE DEF R
<1>16. TablesKept(t)
  BY <1>5, <1>8, <1>12, <1>13, <1>14, <1>15, OneTableKept
<1>17. /\ pc' = pc /\ arg' = arg /\ cur' = cur /\ seen' = seen /\ want' = want /\ attempt' = attempt
       /\ lock' = lock /\ answer' = answer
  BY <1>1
<1>18. RequestsTyped' /\ Busy' = Busy
  BY <1>0, <1>6, <1>17 DEF RequestsTyped, Busy
<1>19. Counted'
  <2>1. ASSUME NEW j \in Kinds
        PROVE  Len(cfg'[j]) + Cardinality(Busy') <= served' + 1
    <3>1. Len(cfg'[j]) <= Len(cfg[j]) + 1
      BY <1>16 DEF TablesKept
    <3>2. cfg'[j] \in Seq(Row)
      BY <1>16 DEF TablesKept, TablesTyped
    <3>3. Len(cfg'[j]) \in Nat
      BY <3>2
    <3> QED
      BY <1>6, <1>18, <3>1, <3>3, BusyFinite
  <2> QED
    BY <2>1 DEF Counted, Busy
<1>20. TypeOK'
  <2>1. TablesTyped'
    BY <1>16 DEF TablesKept
  <2> QED
    BY <1>18, <1>19, <2>1, TypeParts, PTL
<1>21. Seeded'
  <2>1. \A j \in Kinds : \E d \in DefaultRows(j)' : DefaultEntries(j)' = {d}
    BY <1>16 DEF TablesKept
  <2>2. \A j \in Kinds : cfg'[j] # <<>>
    BY <2>1 DEF DefaultRows
  <2>3. served' > 0
    BY <1>6
  <2> QED
    BY <2>1, <2>2, <2>3 DEF Seeded
<1>22. \A u \in Requests : UnderWay(u)'
  <2>1. ASSUME NEW u \in Requests \ {t}
        PROVE  UnderWay(u)'
    <3>1. UnderWay(u)
      BY DEF ProvidersIInv
    <3>2. StateUntouched(u)
      BY <1>17 DEF StateUntouched
    <3>3. RowsUntouched(u)
      BY <1>16 DEF TablesKept
    <3> QED
      BY <1>0, <3>1, <3>2, <3>3, OthersKept
  <2>2. UnderWay(t)'
    BY <1>1, <1>17 DEF UnderWay
  <2> QED
    BY <2>1, <2>2
<1>23. ResolveFinds'
  BY <1>17 DEF ProvidersIInv, ResolveFinds
<1> QED
  BY <1>16, <1>19, <1>20, <1>21, <1>22, <1>23 DEF ProvidersIInv, SettingsInv, TablesKept

\* The seeding of an empty table, before any request.
LEMMA BootstrapKeeps ==
  ASSUME ProvidersIInv, NEW k \in Kinds, BootstrapDefaultConfig(k)
  PROVE  ProvidersIInv'
<1> DEFINE n == NewRow(Platform, TRUE, TRUE, [ep |-> FirstEndpoint, model |-> FirstModel], None)
<1>0. TypeOK /\ TablesTyped /\ RequestsTyped
  BY TypesOf
<1>1. /\ DefaultEntries(k) = {}
      /\ cfg' = [cfg EXCEPT ![k] = Append(cfg[k], n)]
      /\ sel' = sel /\ versions' = versions
      /\ pc' = pc /\ arg' = arg /\ cur' = cur /\ seen' = seen /\ want' = want /\ attempt' = attempt
      /\ lock' = lock /\ answer' = answer /\ served' = served
  <2>1. cfg \in [Kinds -> Seq(Row)]
    BY <1>0 DEF TablesTyped
  <2> QED
    BY <2>1 DEF BootstrapDefaultConfig
<1>2. cfg[k] = <<>>
  BY <1>1 DEF ProvidersIInv, Seeded
<1>3. served = 0 /\ \A t \in Requests : pc[t] = "idle"
  <2>1. ~(served > 0)
    BY <1>2 DEF ProvidersIInv, Seeded
  <2>2. served \in Nat
    BY <1>0 DEF RequestsTyped
  <2> QED
    BY <2>1, <2>2 DEF ProvidersIInv, Seeded
<1>4. /\ n \in Row /\ n.owner = Platform /\ n.default = TRUE /\ n.active = TRUE /\ n.model = FirstModel
  BY ProvidersAssumption DEF NewRow, Row
<1> HIDE DEF n
<1>5. /\ cfg'[k] = <<n>> /\ DOMAIN cfg'[k] = {1} /\ cfg'[k][1] = n /\ Len(cfg'[k]) = 1
      /\ \A j \in Kinds \ {k} : cfg'[j] = cfg[j]
  <2>1. cfg \in [Kinds -> Seq(Row)]
    BY <1>0 DEF TablesTyped
  <2>2. cfg'[k] = Append(<<>>, n) /\ \A j \in Kinds \ {k} : cfg'[j] = cfg[j]
    BY <1>1, <1>2, <2>1
  <2> QED
    BY <2>2
<1>6. TablesTyped' /\ RequestsTyped'
  <2>1. cfg' \in [Kinds -> Seq(Row)]
    <3>1. <<n>> \in Seq(Row)
      BY <1>4
    <3>2. cfg \in [Kinds -> Seq(Row)] /\ cfg' = [cfg EXCEPT ![k] = cfg'[k]]
      BY <1>0, <1>1 DEF TablesTyped
    <3> QED
      BY <1>5, <3>1, <3>2
  <2> QED
    BY <1>0, <1>1, <2>1 DEF TablesTyped, RequestsTyped
<1>7. Busy = {} /\ Busy' = {} /\ Cardinality(Busy) = 0 /\ Cardinality(Busy') = 0
  <2>1. Busy = {} /\ Busy' = {}
    BY <1>1, <1>3 DEF Busy
  <2> QED
    BY <2>1, FS_EmptySet
<1>8. Counted'
  <2>1. ASSUME NEW j \in Kinds
        PROVE  Len(cfg'[j]) + Cardinality(Busy') <= served' + 1
    <3>1. CASE j = k
      BY <1>1, <1>3, <1>5, <1>7, <3>1
    <3>2. CASE j # k
      <4>1. Len(cfg[j]) + Cardinality(Busy) <= served + 1
        BY DEF ProvidersIInv, Counted, Busy
      <4> QED
        BY <1>1, <1>5, <1>7, <3>2, <4>1
    <3> QED
      BY <3>1, <3>2
  <2> QED
    BY <2>1 DEF Counted, Busy
<1>9. TypeOK'
  BY <1>6, <1>8, TypeParts, PTL
<1>10. Seeded'
  <2>1. ASSUME NEW j \in Kinds
        PROVE  cfg'[j] = <<>> \/ \E d \in DefaultRows(j)' : DefaultEntries(j)' = {d}
    <3>1. CASE j = k
      <4>1. DefaultEntries(j)' = {1}
        BY <1>4, <1>5, <3>1 DEF DefaultEntries
      <4>2. 1 \in DefaultRows(j)'
        BY <1>4, <1>5, <3>1 DEF DefaultRows
      <4> QED
        BY <4>1, <4>2
    <3>2. CASE j # k
      <4>1. DefaultEntries(j)' = DefaultEntries(j) /\ DefaultRows(j)' = DefaultRows(j) /\ cfg'[j] = cfg[j]
        BY <1>5, <3>2 DEF DefaultEntries, DefaultRows
      <4> QED
        BY <4>1 DEF ProvidersIInv, Seeded
    <3> QED
      BY <3>1, <3>2
  <2> QED
    BY <1>1, <1>3, <2>1 DEF Seeded
<1>11. \A p \in Projects : sel[k][p] = 0
  BY <1>2 DEF ProvidersIInv, SelectionIsRow
<1>12. SelectionShareable' /\ SelectionIsRow'
  BY <1>1, <1>5, <1>11 DEF ProvidersIInv, SettingsInv, SelectionShareable, SelectionIsRow
<1>13. OneChoice'
  <2>1. ASSUME NEW j \in Kinds, NEW p \in Projects
        PROVE  Cardinality(CustomRows(j, p)') <= 1 /\ (CustomRows(j, p)' # {} => sel'[j][p] = 0)
    <3>1. CASE j = k
      <4>1. n.owner # p
        BY <1>4, ProvidersAssumption
      <4>2. CustomRows(j, p)' = {}
        BY <1>5, <3>1, <4>1 DEF CustomRows
      <4> QED
        BY <4>2, FS_EmptySet
    <3>2. CASE j # k
      <4>1. CustomRows(j, p)' = CustomRows(j, p)
        BY <1>5, <3>2 DEF CustomRows
      <4> QED
        BY <1>1, <4>1 DEF ProvidersIInv, SettingsInv, OneChoice
    <3> QED
      BY <3>1, <3>2
  <2> QED
    BY <2>1 DEF OneChoice
<1>14. CustomCredentials' /\ VersionRecorded'
  <2>1. CustomCredentials'
    BY <1>4, <1>5 DEF ProvidersIInv, SettingsInv, CustomCredentials
  <2>2. VersionRecorded'
    BY <1>1, <1>4, <1>5 DEF ProvidersIInv, VersionRecorded, Kinds
  <2> QED
    BY <2>1, <2>2
<1>15. ResolveFinds' /\ \A t \in Requests : UnderWay(t)'
  BY <1>1, <1>3 DEF ProvidersIInv, ResolveFinds, UnderWay
<1> QED
  BY <1>8, <1>9, <1>10, <1>12, <1>13, <1>14, <1>15 DEF ProvidersIInv, SettingsInv

-----------------------------------------------------------------------------
(* The theorems.                                                           *)

LEMMA ProvidersInit == Init => ProvidersIInv
<1> SUFFICES ASSUME Init
             PROVE  ProvidersIInv
  OBVIOUS
<1> USE DEF Init
<1>1. 0 \in Ids /\ 0 \in 0..MaxRequests /\ 0 \in 0..MaxDeadlockRetries
  BY ProvidersAssumption DEF Ids
<1>2. TablesTyped
  <2>1. <<>> \in Seq(Row)
    OBVIOUS
  <2> QED
    BY <1>1, <2>1 DEF TablesTyped
<1>3. RequestsTyped
  <2>1. pc \in [Requests -> Steps] /\ answer \in [Requests -> {"none", "config", "missing"}]
    BY DEF Steps
  <2> QED
    BY <1>1, <2>1 DEF RequestsTyped
<1>4. \A k \in Kinds : cfg[k] = <<>> /\ Len(cfg[k]) = 0 /\ DOMAIN cfg[k] = {}
  OBVIOUS
<1>5. Busy = {} /\ Cardinality(Busy) = 0
  <2>1. Busy = {}
    BY DEF Busy
  <2> QED
    BY <2>1, FS_EmptySet
<1>6. Counted
  BY <1>4, <1>5 DEF Counted, Busy
<1>7. TypeOK
  BY <1>2, <1>3, <1>6, TypeParts
<1>8. OneChoice
  <2>1. \A k \in Kinds, p \in Projects : CustomRows(k, p) = {}
    BY <1>4 DEF CustomRows
  <2>2. Cardinality({}) <= 1
    BY FS_EmptySet
  <2>3. \A k \in Kinds, p \in Projects : Cardinality(CustomRows(k, p)) <= 1
    BY <2>1, <2>2, Zenon
  <2> QED
    BY <2>1, <2>3 DEF OneChoice
<1>9. SelectionShareable /\ SelectionIsRow /\ CustomCredentials /\ ResolveFinds
  BY <1>4 DEF SelectionShareable, SelectionIsRow, CustomCredentials, ResolveFinds
<1>10. VersionRecorded
  BY <1>4 DEF VersionRecorded, Kinds
<1>11. Seeded /\ \A t \in Requests : UnderWay(t)
  BY <1>4 DEF Seeded, UnderWay
<1> QED
  BY <1>6, <1>7, <1>8, <1>9, <1>10, <1>11 DEF ProvidersIInv, SettingsInv

\* A statement or a commit of one of the two services.
LEMMA ServiceKeeps ==
  ASSUME ProvidersIInv, NEW t \in Requests, pc[t] # "idle", NEW k \in Kinds,
         \/ LockProjectRow(k, t) \/ SelectGlobalConfig(k, t) \/ UpsertCustomConfig(k, t)
         \/ ResetProjectSetting(k, t) \/ ReadDefault(k, t) \/ UpdateGlobalConfig(k, t)
         \/ ReadPatched(k, t) \/ UpdateGlobalConfigByID(k, t)
         \/ ReadDeleted(k, t) \/ CountUsers(k, t) \/ DeleteGlobalConfig(k, t)
         \/ ReadPromoted(k, t) \/ PromoteToDefault(k, t)
         \/ GetActiveCustomConfig(k, t) \/ GetDefaultConfig(k, t)
  PROVE  ProvidersIInv'
<1>1. CASE LockProjectRow(k, t)
  BY <1>1, LockProjectRowKeeps
<1>2. CASE SelectGlobalConfig(k, t) \/ ResetProjectSetting(k, t)
  BY <1>2, SelectGlobalConfigKeeps
<1>3. CASE UpsertCustomConfig(k, t)
  BY <1>3, UpsertCustomConfigKeeps
<1>4. CASE ReadDefault(k, t)
  BY <1>4, ReadDefaultKeeps
<1>5. CASE UpdateGlobalConfig(k, t)
  BY <1>5, ReplaceKeeps
<1>6. CASE ReadPatched(k, t)
  BY <1>6, ReadPatchedKeeps
<1>7. CASE UpdateGlobalConfigByID(k, t)
  BY <1>7, PatchKeeps
<1>8. CASE ReadDeleted(k, t) \/ CountUsers(k, t)
  BY <1>8, ReadDeletedKeeps
<1>9. CASE DeleteGlobalConfig(k, t)
  BY <1>9, DeleteKeeps
<1>10. CASE ReadPromoted(k, t)
  BY <1>10, ReadPromotedKeeps
<1>11. CASE PromoteToDefault(k, t)
  BY <1>11, PromoteKeeps
<1>12. CASE GetActiveCustomConfig(k, t) \/ GetDefaultConfig(k, t)
  BY <1>12, ResolveKeeps
<1> QED
  BY <1>1, <1>2, <1>3, <1>4, <1>5, <1>6, <1>7, <1>8, <1>9, <1>10, <1>11, <1>12

LEMMA StepKeeps ==
  ASSUME ProvidersIInv, NEW t \in Requests, Step(t)
  PROVE  ProvidersIInv'
<1>0. pc[t] # "idle" /\ "embedding" \in Kinds /\ "llm" \in Kinds
  BY DEF Step, Kinds
<1>1. CASE EmbeddingStep(t)
  BY <1>0, <1>1, ServiceKeeps DEF EmbeddingStep
<1>2. CASE LLMStep(t)
  <2>1. \E k \in {"llm"} :
          \/ LockProjectRow(k, t) \/ SelectGlobalConfig(k, t) \/ UpsertCustomConfig(k, t)
          \/ ResetProjectSetting(k, t) \/ ReadDefault(k, t) \/ UpdateGlobalConfig(k, t)
          \/ ReadPatched(k, t) \/ UpdateGlobalConfigByID(k, t)
          \/ ReadDeleted(k, t) \/ CountUsers(k, t) \/ DeleteGlobalConfig(k, t)
          \/ ReadPromoted(k, t) \/ PromoteToDefault(k, t)
          \/ GetActiveCustomConfig(k, t) \/ GetDefaultConfig(k, t)
    BY <1>2 DEF LLMStep, LLMSelectGlobalConfig, LLMUpsertCustomConfig, LLMResetProjectSetting,
                LLMUpdateGlobalConfig, LLMUpdateGlobalConfigByID, LLMDeleteGlobalConfig,
                LLMPromoteToDefault, LLMResolveState
  <2> QED
    BY <1>0, <2>1, ServiceKeeps
<1>3. CASE \E x \in want[t] : TriggerLock(t, x) \/ LockUser(t, x)
  BY <1>3, TriggerLockKeeps, LockUserKeeps
<1>4. CASE PickDefault(t) \/ LockDefault(t) \/ LockPromoted(t) \/ LockPatched(t)
  BY <1>4, PickDefaultKeeps, LockDefaultKeeps, LockPromotedKeeps, LockPatchedKeeps
<1>5. CASE UniqueViolation(t)
  <2>1. Refuse(t)
    BY <1>5 DEF UniqueViolation
  <2> QED
    BY <1>0, <2>1, RefuseKeeps
<1>6. CASE GetProjectProviderSelections(t) \/ GetSelectedConfig(t)
  BY <1>0, <1>6, ResolveKeeps
<1>7. CASE Deadlock(t)
  BY <1>0, <1>7, DeadlockKeeps
<1> QED
  BY <1>1, <1>2, <1>3, <1>4, <1>5, <1>6, <1>7 DEF Step

LEMMA ProvidersNext == ProvidersIInv /\ [Next]_vars => ProvidersIInv'
<1> SUFFICES ASSUME ProvidersIInv, [Next]_vars
             PROVE  ProvidersIInv'
  OBVIOUS
<1>0. "embedding" \in Kinds /\ "llm" \in Kinds
  BY DEF Kinds
<1>1. CASE BootstrapDefaultConfig("embedding") \/ LLMBootstrapDefaultConfig
  BY <1>0, <1>1, BootstrapKeeps DEF LLMBootstrapDefaultConfig
<1>2. ASSUME NEW t \in Requests, EmbeddingRequest(t)
      PROVE  ProvidersIInv'
  BY <1>0, <1>2, RequestKeeps DEF EmbeddingRequest
<1>3. ASSUME NEW t \in Requests, LLMRequest(t)
      PROVE  ProvidersIInv'
  BY <1>0, <1>3, RequestKeeps
  DEF LLMRequest, LLMHandleProjectUpdate, LLMHandleProjectDelete, LLMHandleGlobalUpdate,
      LLMHandleUpdateGlobalConfigByID, LLMHandleDeleteGlobalConfig,
      LLMHandlePromoteGlobalConfigToDefault, LLMHandleProjectResolved
<1>4. ASSUME NEW t \in Requests,
             CreateAdditionalGlobalConfig("embedding", t) \/ LLMCreateAdditionalGlobalConfig(t)
      PROVE  ProvidersIInv'
  BY <1>0, <1>4, CreateKeeps DEF LLMCreateAdditionalGlobalConfig
<1>5. ASSUME NEW t \in Requests, Step(t)
      PROVE  ProvidersIInv'
  BY <1>5, StepKeeps
<1>6. ASSUME NEW t \in Requests, Abort(t)
      PROVE  ProvidersIInv'
  BY <1>6, RefuseKeeps DEF Abort
<1>7. CASE UNCHANGED vars
  <2>1. /\ cfg' = cfg /\ sel' = sel /\ versions' = versions /\ pc' = pc /\ arg' = arg /\ cur' = cur
        /\ seen' = seen /\ want' = want /\ attempt' = attempt /\ lock' = lock /\ answer' = answer
        /\ served' = served
    BY <1>7 DEF vars, tables
  <2>2. \A k \in Kinds : /\ DefaultRows(k)' = DefaultRows(k) /\ DefaultEntries(k)' = DefaultEntries(k)
                         /\ GlobalRows(k)' = GlobalRows(k)
                         /\ \A p \in Projects : CustomRows(k, p)' = CustomRows(k, p)
    BY <2>1 DEF DefaultRows, DefaultEntries, CustomRows, GlobalRows
  <2>3. TypeOK' /\ Counted'
    BY <2>1 DEF ProvidersIInv, SettingsInv, TypeOK, Counted
  <2>4. Seeded'
    BY <2>1, <2>2 DEF ProvidersIInv, Seeded
  <2>5. /\ SelectionShareable' /\ OneChoice' /\ SelectionIsRow'
        /\ CustomCredentials' /\ VersionRecorded' /\ ResolveFinds'
    BY <2>1, <2>2 DEF ProvidersIInv, SettingsInv, SelectionShareable, OneChoice, SelectionIsRow,
                      CustomCredentials, VersionRecorded, ResolveFinds
  <2>6. \A u \in Requests : UnderWay(u)'
    <3> SUFFICES ASSUME NEW u \in Requests
                 PROVE  UnderWay(u)'
      OBVIOUS
    <3>1. TypeOK /\ UnderWay(u)
      BY TypesOf DEF ProvidersIInv
    <3>2. StateUntouched(u) /\ RowsUntouched(u)
      BY <2>1 DEF StateUntouched, RowsUntouched
    <3> QED
      BY <3>1, <3>2, OthersKept
  <2> QED
    BY <2>3, <2>4, <2>5, <2>6 DEF ProvidersIInv, SettingsInv
<1> QED
  BY <1>1, <1>2, <1>3, <1>4, <1>5, <1>6, <1>7 DEF Next

LEMMA ProvidersIInvHolds == Spec => []ProvidersIInv
BY ProvidersInit, ProvidersNext, PTL DEF Spec

\* However selections, custom configs, resets and withdrawals of a config cross
\* each other: a project has one choice, and what it has selected is a platform
\* config that is offered (selectGlobalConfig, upsertCustomConfig, the triggers).
THEOREM ChoicesHold == Spec => []SettingsInv
<1>1. ProvidersIInv => SettingsInv
  BY DEF ProvidersIInv
<1> QED
  BY <1>1, ProvidersIInvHolds, PTL

\* From the first request on each kind has exactly one default, and it is active,
\* whatever replacements, promotions and deletions race (UpdateGlobalConfig,
\* PromoteToDefault, DeleteGlobalConfig, the unique index).
THEOREM OneDefaultServes == Spec => []DefaultServes
<1>1. ProvidersIInv => DefaultServes
  <2> SUFFICES ASSUME ProvidersIInv, served > 0, NEW k \in Kinds
               PROVE  Cardinality(DefaultRows(k)) = 1 /\ DefaultEntries(k) = DefaultRows(k)
    BY DEF DefaultServes
  <2>1. PICK d \in DefaultRows(k) : DefaultEntries(k) = {d}
    BY DEF ProvidersIInv, Seeded
  <2>2. DefaultRows(k) \subseteq DefaultEntries(k)
    BY DEF DefaultRows, DefaultEntries
  <2>3. DefaultRows(k) = {d}
    BY <2>1, <2>2
  <2> QED
    BY <2>1, <2>3, FS_Singleton
<1> QED
  BY <1>1, ProvidersIInvHolds, PTL

\* Stored credentials of a custom config belong to its endpoint, although the row
\* they are kept from is read before the commit (upsertCustomConfig).
THEOREM CredentialsStayWithEndpoint == Spec => []CustomCredentials
<1>1. ProvidersIInv => CustomCredentials
  BY DEF ProvidersIInv, SettingsInv
<1> QED
  BY <1>1, ProvidersIInvHolds, PTL

\* Every embedding config has a version for its model, although a PATCH compares
\* with a row it read before its transaction (UpdateGlobalConfigByID).
THEOREM VersionsRecorded == Spec => []VersionRecorded
<1>1. ProvidersIInv => VersionRecorded
  BY DEF ProvidersIInv
<1> QED
  BY <1>1, ProvidersIInvHolds, PTL

\* Resolving a setting always finds a configuration, in whatever order its four
\* statements meet the changes of others (resolveState).
THEOREM ResolveAlwaysFinds == Spec => []ResolveFinds
<1>1. ProvidersIInv => ResolveFinds
  BY DEF ProvidersIInv
<1> QED
  BY <1>1, ProvidersIInvHolds, PTL

=============================================================================
