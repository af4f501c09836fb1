-------------------------- MODULE ProviderSettings --------------------------
(***************************************************************************)
(* The embedding and LLM provider settings of the API: platform configs,   *)
(* of which one is the default, custom configs of projects, and each       *)
(* project's selection.  The two services keep a table each and are the    *)
(* same but for the transactions and the versions of embedding configs;    *)
(* "kind" tells them apart.                                                *)
(*                                                                         *)
(* PostgreSQL is modelled at READ COMMITTED (external): a statement sees   *)
(* what is committed when it starts, an UPDATE finds its row, waits for    *)
(* its lock and looks at it again, locks last to the end of the            *)
(* transaction, writes show at the commit, and of transactions that wait   *)
(* for each other one is aborted.                                          *)
(***************************************************************************)
EXTENDS Naturals, Sequences, FiniteSets, SequencesExt, Relation

CONSTANTS
  Projects,
  Endpoints,          \* provider and endpoint_url of a config
  Models,             \* model and dimensions of a config
  FirstEndpoint, FirstModel, \* what a fresh database is seeded with
  Saves,              \* bodies of create and replace: [ep, model, cred, avail]
  Patches,            \* bodies of PATCH; None or "keep" for an omitted field
  Requests,           \* requests served at a time
  MaxRequests,        \* bound: requests served in all
  MaxDeadlockRetries, \* WithTx runs a transaction again after a deadlock
  Platform, None

ASSUME ProvidersAssumption ==
  /\ IsFiniteSet(Projects) /\ IsFiniteSet(Requests)
  /\ Platform \notin Projects
  /\ None \notin Projects \cup Endpoints \cup Models \cup Requests
  /\ FirstEndpoint \in Endpoints /\ FirstModel \in Models
  /\ MaxRequests \in Nat /\ MaxDeadlockRetries \in Nat
  /\ Saves \subseteq [ep : Endpoints, model : Models,
                      cred : {"keep", "clear", "set"}, avail : {"yes", "no"}]
  /\ Patches \subseteq [ep : Endpoints \cup {None}, model : Models \cup {None},
                        cred : {"keep", "clear", "set"}, avail : {"yes", "no", "keep"}]

VARIABLES
  cfg,      \* per kind the rows of its table, by id; rows are never deleted
  sel,      \* per kind and project: the selected platform config, 0 for NULL
  versions, \* embedding_versions: config and model
  pc, arg,  \* per request: its step, and what it asks for
  cur,      \* the id it read or is about to update, 0 for none
  seen,     \* the row it read before its transaction
  want,     \* rows its statement has yet to lock
  attempt,  \* deadlocks its transaction has met
  lock,     \* per row: the transaction that holds it
  answer,   \* what its last resolve answered
  served    \* requests accepted so far

tables == <<cfg, sel, versions>>
vars   == <<tables, pc, arg, cur, seen, want, attempt, lock, answer, served>>

Kinds == {"embedding", "llm"}
Ids   == 0..(MaxRequests + 1)
Row   == [owner : Projects \cup {Platform}, active : BOOLEAN, default : BOOLEAN,
          avail : BOOLEAN, ep : Endpoints, model : Models,
          cred : Endpoints \cup {None}]  \* the endpoint credentials were entered for
RowsToLock == Projects \cup (Kinds \X Ids)
Steps == {"idle", "read", "count", "lockProject", "trigger", "pick", "lockRow",
          "users", "second", "unique", "selection", "selected", "default"}
Arg == [op : {"select", "custom", "reset", "replace", "patch", "delete", "promote", "resolve"},
        kind : Kinds, proj : Projects \cup {None}, id : Ids,
        body : Saves \cup Patches \cup {None}]

\* Every variable has its shape and retries stay within their bound.
TypeOK ==
  /\ cfg \in [Kinds -> Seq(Row)] /\ \A k \in Kinds : Len(cfg[k]) \in Ids
  /\ sel \in [Kinds -> [Projects -> Ids]]
  /\ versions \subseteq Ids \X Models
  /\ pc \in [Requests -> Steps]
  /\ arg \in [Requests -> Arg \cup {None}]
  /\ \A t \in Requests : pc[t] # "idle" => arg[t] \in Arg
  /\ cur \in [Requests -> Ids]
  /\ seen \in [Requests -> Row \cup {None}]
  /\ want \in [Requests -> SUBSET RowsToLock]
  /\ attempt \in [Requests -> 0..MaxDeadlockRetries]
  /\ lock \in [RowsToLock -> Requests \cup {None}]
  /\ answer \in [Requests -> {"none", "config", "missing"}]
  /\ served \in 0..MaxRequests

Init ==
  /\ cfg = [k \in Kinds |-> <<>>]
  /\ sel = [k \in Kinds |-> [p \in Projects |-> 0]]
  /\ versions = {}
  /\ pc = [t \in Requests |-> "idle"]
  /\ arg = [t \in Requests |-> None]
  /\ cur = [t \in Requests |-> 0]
  /\ seen = [t \in Requests |-> None]
  /\ want = [t \in Requests |-> {}]
  /\ attempt = [t \in Requests |-> 0]
  /\ lock = [x \in RowsToLock |-> None]
  /\ answer = [t \in Requests |-> "none"]
  /\ served = 0

-----------------------------------------------------------------------------
(* The queries.                                                            *)

\* GetDefaultGlobal...ProviderConfig: at most one row, by the unique index.
DefaultRows(k) ==
  {i \in DOMAIN cfg[k] : cfg[k][i].owner = Platform /\ cfg[k][i].active /\ cfg[k][i].default}

\* What the unique index on is_default covers: active or not.
DefaultEntries(k) == {i \in DOMAIN cfg[k] : cfg[k][i].owner = Platform /\ cfg[k][i].default}

\* GetActiveProject...ProviderConfig.
CustomRows(k, p) == {i \in DOMAIN cfg[k] : cfg[k][i].owner = p /\ cfg[k][i].active}

\* GetGlobal...ProviderConfigByID with the check on is_active that follows it.
GlobalRows(k) == {i \in DOMAIN cfg[k] : cfg[k][i].owner = Platform /\ cfg[k][i].active}

\* ListAvailableGlobal...ProviderConfigs: what a project is offered.
AvailableRows(k) == {i \in GlobalRows(k) : cfg[k][i].avail}

\* CountProjectsUsing...Config.
ProjectsUsing(k, i) == {p \in Projects : sel[k][p] = i}

TheRow(S) == IF S = {} THEN 0 ELSE CHOOSE i \in S : TRUE

\* Create...ProviderConfig, CreateGlobal...ProviderConfig and ...NonDefault.
NewRow(owner, default, avail, b, cred) ==
  [owner |-> owner, active |-> TRUE, default |-> default, avail |-> avail,
   ep |-> b.ep, model |-> b.model, cred |-> cred]

\* DeactivateProject...ProviderConfigs.
DeactivateCustom(k, p) ==
  [i \in DOMAIN cfg[k] |-> IF i \in CustomRows(k, p)
                           THEN [cfg[k][i] EXCEPT !.active = FALSE, !.cred = None]
                           ELSE cfg[k][i]]

\* UpdateGlobal...ProviderConfig: COALESCE keeps the columns that are not given.
Patched(row, b, cred) ==
  [row EXCEPT !.ep    = IF b.ep = None THEN @ ELSE b.ep,
              !.model = IF b.model = None THEN @ ELSE b.model,
              !.avail = IF b.avail = "keep" THEN @ ELSE b.avail = "yes",
              !.cred  = IF b.cred = "clear" THEN None ELSE IF cred = None THEN @ ELSE cred]

\* CreateEmbeddingVersion, which the LLM service has no counterpart of.
CreateVersion(k, i, m) == versions' = IF k = "embedding" THEN versions \cup {<<i, m>>} ELSE versions

-----------------------------------------------------------------------------
(* Requests and their transactions.                                        *)

\* ResolveCredentials: kept from the row at hand, cleared, or entered for ep.
ResolveCredentials(b, current, ep) ==
  CASE b.cred = "keep"  -> IF current = None THEN None ELSE current.cred
    [] b.cred = "clear" -> None
    [] b.cred = "set"   -> ep

\* Stored credentials go with the endpoint they were entered for.
MustReenter(b, current, ep) ==
  /\ current # None
  /\ current.cred # None
  /\ b.cred = "keep"
  /\ ep # current.ep

\* New seeds both tables before Run serves the first request.
Serving == served < MaxRequests /\ (served = 0 => \A k \in Kinds : DefaultRows(k) # {})

\* The handlers validate, and pass on to the service.
Serve(t, k, op, p, i, b, step) ==
  /\ pc[t] = "idle"
  /\ Serving
  /\ served' = served + 1
  /\ pc' = [pc EXCEPT ![t] = step]
  /\ arg' = [arg EXCEPT ![t] = [op |-> op, kind |-> k, proj |-> p, id |-> i, body |-> b]]
  /\ answer' = [answer EXCEPT ![t] = "none"]
  /\ UNCHANGED <<tables, cur, seen, want, attempt, lock>>

HandleProjectUpdate(k, t) ==
  \E p \in Projects :
    \/ \E i \in DOMAIN cfg[k] : Serve(t, k, "select", p, i, None, "lockProject")
    \/ \E b \in Saves : Serve(t, k, "custom", p, 0, b, "lockProject")
HandleProjectDelete(k, t) ==
  \E p \in Projects : Serve(t, k, "reset", p, 0, None, "lockProject")
HandleGlobalUpdate(k, t) ==
  \E b \in Saves : Serve(t, k, "replace", None, 0, b, "read")
HandleUpdateGlobalConfigByID(k, t) ==
  \E i \in DOMAIN cfg[k], b \in Patches : Serve(t, k, "patch", None, i, b, "read")
HandleDeleteGlobalConfig(k, t) ==
  \E i \in DOMAIN cfg[k] : Serve(t, k, "delete", None, i, None, "read")
HandlePromoteGlobalConfigToDefault(k, t) ==
  \E i \in DOMAIN cfg[k] : Serve(t, k, "promote", None, i, None, "read")
HandleProjectResolved(k, t) ==
  \E p \in Projects : Serve(t, k, "resolve", p, 0, None, "read")

Go(t, step) == pc' = [pc EXCEPT ![t] = step]

\* Locks that outlive their transaction.
UnlockedNever(t) == lock

\* Locks end with the transaction.
Unlocked(t) == [x \in RowsToLock |-> IF lock[x] = t THEN None ELSE lock[x]]

\* The transaction ends, whatever its outcome, and the request is answered.
End(t) ==
  /\ pc' = [pc EXCEPT ![t] = "idle"]
  /\ arg' = [arg EXCEPT ![t] = None]
  /\ cur' = [cur EXCEPT ![t] = 0]
  /\ seen' = [seen EXCEPT ![t] = None]
  /\ want' = [want EXCEPT ![t] = {}]
  /\ attempt' = [attempt EXCEPT ![t] = 0]
  /\ lock' = Unlocked(t)
  /\ UNCHANGED served

\* Refused, not found, or rolled back.
Refuse(t) == End(t) /\ UNCHANGED <<tables, answer>>

\* BootstrapDefaultConfig at the start of a process: ON CONFLICT DO NOTHING.
BootstrapDefaultConfig(k) ==
  /\ DefaultEntries(k) = {}
  /\ cfg' = [cfg EXCEPT ![k] = Append(@, NewRow(Platform, TRUE, TRUE,
                                [ep |-> FirstEndpoint, model |-> FirstModel], None))]
  /\ UNCHANGED <<sel, versions, pc, arg, cur, seen, want, attempt, lock, answer, served>>

\* CreateAdditionalGlobalConfig: inserts that nothing conflicts with.
CreateAdditionalGlobalConfig(k, t) ==
  \E b \in Saves :
    /\ pc[t] = "idle"
    /\ Serving
    /\ served' = served + 1
    /\ cfg' = [cfg EXCEPT ![k] = Append(@, NewRow(Platform, FALSE, b.avail = "yes", b,
                                          ResolveCredentials(b, None, b.ep)))]
    /\ CreateVersion(k, Len(cfg[k]) + 1, b.model)
    /\ UNCHANGED <<sel, pc, arg, cur, seen, want, attempt, lock, answer>>

-----------------------------------------------------------------------------
(* A project's setting: selectGlobalConfig, upsertCustomConfig and         *)
(* ResetProjectSetting.                                                    *)

\* The rows the trigger on projects locks: the selections as they will be, of
\* both kinds, whichever column the UPDATE names.
TriggerRows(t) ==
  LET a == arg[t] IN
  {<<k, IF k = a.kind THEN a.id ELSE sel[k][a.proj]>> : k \in Kinds} \ (Kinds \X {0})

\* LockProjectRow, then the checks of the three operations.
LockProjectRow(k, t) ==
  LET a == arg[t]
      c == TheRow(CustomRows(k, a.proj))
      current == IF c = 0 THEN None ELSE cfg[k][c]
  IN
  /\ pc[t] = "lockProject" /\ a.kind = k
  /\ lock[a.proj] = None
  /\ \/ /\ \/ a.op = "select" /\ a.id \notin AvailableRows(k)
           \/ a.op = "custom" /\ MustReenter(a.body, current, a.body.ep)
        /\ Refuse(t)
     \/ /\ a.op = "select" => a.id \in AvailableRows(k)
        /\ a.op = "custom" => ~MustReenter(a.body, current, a.body.ep)
        /\ lock' = [lock EXCEPT ![a.proj] = t]
        /\ seen' = [seen EXCEPT ![t] = current]
        /\ want' = [want EXCEPT ![t] = TriggerRows(t)]
        /\ Go(t, "trigger")
        /\ UNCHANGED <<tables, arg, cur, attempt, answer, served>>

\* The trigger locks and checks the embedding config before the LLM config.
TriggerNext(t) ==
  LET e == {x \in want[t] : x[1] = "embedding"} IN IF e # {} THEN e ELSE want[t]

\* Mutant of TriggerLock: availability is checked without FOR UPDATE.
TriggerLockUnlocked(t, x) ==
  /\ pc[t] = "trigger"
  /\ x \in TriggerNext(t)
  /\ cfg[x[1]][x[2]].avail
  /\ want' = [want EXCEPT ![t] = @ \ {x}]
  /\ UNCHANGED <<tables, pc, arg, cur, seen, attempt, lock, answer, served>>

TriggerLock(t, x) ==
  /\ pc[t] = "trigger"
  /\ x \in TriggerNext(t)
  /\ lock[x] = None
  /\ \/ ~cfg[x[1]][x[2]].avail /\ Refuse(t)
     \/ /\ cfg[x[1]][x[2]].avail
        /\ lock' = [lock EXCEPT ![x] = t]
        /\ want' = [want EXCEPT ![t] = @ \ {x}]
        /\ UNCHANGED <<tables, pc, arg, cur, seen, attempt, answer, served>>

\* The trigger's locks are held: the commit of selectGlobalConfig.
SelectGlobalConfig(k, t) ==
  LET a == arg[t] IN
  /\ pc[t] = "trigger" /\ want[t] = {}
  /\ a.op = "select" /\ a.kind = k
  /\ cfg' = [cfg EXCEPT ![k] = DeactivateCustom(k, a.proj)]
  /\ sel' = [sel EXCEPT ![k][a.proj] = a.id]
  /\ End(t)
  /\ UNCHANGED <<versions, answer>>

\* The commit of upsertCustomConfig: a new row replaces the active one.
UpsertCustomConfig(k, t) ==
  LET a == arg[t] IN
  /\ pc[t] = "trigger" /\ want[t] = {}
  /\ a.op = "custom" /\ a.kind = k
  /\ cfg' = [cfg EXCEPT ![k] = Append(DeactivateCustom(k, a.proj),
                NewRow(a.proj, FALSE, FALSE, a.body,
                       ResolveCredentials(a.body, seen[t], a.body.ep)))]
  /\ sel' = [sel EXCEPT ![k][a.proj] = 0]
  /\ CreateVersion(k, Len(cfg[k]) + 1, a.body.model)
  /\ End(t)
  /\ UNCHANGED answer

ResetProjectSetting(k, t) ==
  LET a == arg[t] IN
  /\ pc[t] = "trigger" /\ want[t] = {}
  /\ a.op = "reset" /\ a.kind = k
  /\ cfg' = [cfg EXCEPT ![k] = DeactivateCustom(k, a.proj)]
  /\ sel' = [sel EXCEPT ![k][a.proj] = 0]
  /\ End(t)
  /\ UNCHANGED <<versions, answer>>

-----------------------------------------------------------------------------
(* The platform's default: UpdateGlobalConfig and PromoteToDefault.        *)

\* UpdateGlobalConfig reads the default before its transaction.
ReadDefault(k, t) ==
  LET d == TheRow(DefaultRows(k))
      current == IF d = 0 THEN None ELSE cfg[k][d]
      b == arg[t].body
  IN
  /\ pc[t] = "read" /\ arg[t].op = "replace" /\ arg[t].kind = k
  /\ \/ MustReenter(b, current, b.ep) /\ Refuse(t)
     \/ /\ ~MustReenter(b, current, b.ep)
        /\ seen' = [seen EXCEPT ![t] = current]
        /\ Go(t, "pick")
        /\ UNCHANGED <<tables, arg, cur, want, attempt, lock, answer, served>>

\* PromoteToDefault reads its target; the default itself needs no promotion.
ReadPromoted(k, t) ==
  /\ pc[t] = "read" /\ arg[t].op = "promote" /\ arg[t].kind = k
  /\ \/ arg[t].id \notin GlobalRows(k) \ DefaultRows(k) /\ Refuse(t)
     \/ /\ arg[t].id \in GlobalRows(k) \ DefaultRows(k)
        /\ Go(t, "pick")
        /\ UNCHANGED <<tables, arg, cur, seen, want, attempt, lock, answer, served>>

\* DeactivateDefaultGlobal... and DemoteGlobal...Default: the row they find.
PickDefault(t) ==
  LET k == arg[t].kind IN
  /\ pc[t] = "pick"
  /\ cur' = [cur EXCEPT ![t] = TheRow(IF arg[t].op = "replace" THEN DefaultRows(k)
                                                               ELSE DefaultEntries(k))]
  /\ Go(t, "lockRow")
  /\ UNCHANGED <<tables, arg, seen, want, attempt, lock, answer, served>>

\* They lock it, and update it if it still is the default.
LockDefault(t) ==
  LET k == arg[t].kind
      x == <<k, cur[t]>>
  IN
  /\ pc[t] = "lockRow" /\ arg[t].op \in {"replace", "promote"}
  /\ lock[x] = None
  /\ lock' = [lock EXCEPT ![x] = t]
  /\ cur' = [cur EXCEPT ![t] = IF @ \in DefaultEntries(k) THEN @ ELSE 0]
  /\ Go(t, IF arg[t].op = "replace" THEN "unique" ELSE "second")
  /\ UNCHANGED <<tables, arg, seen, want, attempt, answer, served>>

\* PromoteGlobal...ToDefault locks its row; no row updated is an error.
LockPromoted(t) ==
  LET k == arg[t].kind
      x == <<k, arg[t].id>>
  IN
  /\ pc[t] = "second"
  /\ lock[x] \in {None, t}
  /\ \/ arg[t].id \notin GlobalRows(k) /\ Refuse(t)
     \/ /\ arg[t].id \in GlobalRows(k)
        /\ lock' = [lock EXCEPT ![x] = t]
        /\ Go(t, "unique")
        /\ UNCHANGED <<tables, arg, cur, seen, want, attempt, answer, served>>

\* Transactions that have cleared the default and not ended yet: a new entry in
\* the unique index waits for them.
Clearing(t) ==
  {y \in Requests \ {t} : /\ pc[y] \in {"second", "unique"}
                          /\ arg[y].kind = arg[t].kind
                          /\ cur[y] # 0}

\* The index refuses a second default.
UniqueViolation(t) ==
  /\ pc[t] = "unique"
  /\ Clearing(t) = {}
  /\ DefaultEntries(arg[t].kind) \ {cur[t], arg[t].id} # {}
  /\ Refuse(t)

\* The insert and the commit of UpdateGlobalConfig.
UpdateGlobalConfig(k, t) ==
  LET b == arg[t].body IN
  /\ pc[t] = "unique" /\ arg[t].op = "replace" /\ arg[t].kind = k
  /\ Clearing(t) = {}
  /\ DefaultEntries(k) \subseteq {cur[t]}
  /\ cfg' = [cfg EXCEPT ![k] =
               Append([i \in DOMAIN @ |-> IF i = cur[t]
                                          THEN [@[i] EXCEPT !.active = FALSE, !.default = FALSE]
                                          ELSE @[i]],
                      NewRow(Platform, TRUE, b.avail = "yes", b,
                             ResolveCredentials(b, seen[t], b.ep)))]
  /\ CreateVersion(k, Len(cfg[k]) + 1, b.model)
  /\ End(t)
  /\ UNCHANGED <<sel, answer>>

\* The commit of PromoteToDefault.
PromoteToDefault(k, t) ==
  /\ pc[t] = "unique" /\ arg[t].op = "promote" /\ arg[t].kind = k
  /\ Clearing(t) = {}
  /\ DefaultEntries(k) \subseteq {cur[t], arg[t].id}
  /\ cfg' = [cfg EXCEPT ![k] =
               [i \in DOMAIN cfg[k] |->
                 [cfg[k][i] EXCEPT !.default = IF i = arg[t].id THEN TRUE
                                               ELSE IF i = cur[t] THEN FALSE
                                               ELSE cfg[k][i].default]]]
  /\ End(t)
  /\ UNCHANGED <<sel, versions, answer>>

-----------------------------------------------------------------------------
(* One platform config: UpdateGlobalConfigByID and DeleteGlobalConfig.     *)

\* The endpoint a PATCH leaves the row with, as far as the request can tell.
EffectiveEndpoint(b, row) == IF b.ep = None THEN row.ep ELSE b.ep

\* UpdateGlobalConfigByID reads the row before its transaction.
ReadPatched(k, t) ==
  LET b == arg[t].body
      i == arg[t].id
      ok == i \in GlobalRows(k) /\ ~MustReenter(b, cfg[k][i], EffectiveEndpoint(b, cfg[k][i]))
  IN
  /\ pc[t] = "read" /\ arg[t].op = "patch" /\ arg[t].kind = k
  /\ \/ ~ok /\ Refuse(t)
     \/ /\ ok
        /\ seen' = [seen EXCEPT ![t] = cfg[k][i]]
        /\ cur' = [cur EXCEPT ![t] = i]
        /\ Go(t, "lockRow")
        /\ UNCHANGED <<tables, arg, want, attempt, lock, answer, served>>

\* The UPDATE locks the row and its trigger looks for the projects using it.
LockPatched(t) ==
  LET k == arg[t].kind
      x == <<k, cur[t]>>
  IN
  /\ pc[t] = "lockRow" /\ arg[t].op = "patch"
  /\ lock[x] = None
  /\ \/ cur[t] \notin GlobalRows(k) /\ Refuse(t)
     \/ /\ cur[t] \in GlobalRows(k)
        /\ lock' = [lock EXCEPT ![x] = t]
        /\ want' = [want EXCEPT ![t] = ProjectsUsing(k, cur[t])]
        /\ Go(t, "users")
        /\ UNCHANGED <<tables, arg, cur, seen, attempt, answer, served>>

\* The trigger locks them one after the other.
LockUser(t, p) ==
  /\ pc[t] = "users"
  /\ p \in want[t]
  /\ lock[p] = None
  /\ lock' = [lock EXCEPT ![p] = t]
  /\ want' = [want EXCEPT ![t] = @ \ {p}]
  /\ UNCHANGED <<tables, pc, arg, cur, seen, attempt, answer, served>>

\* The PATCH that leaves the version to the next replacement.
PatchWithoutVersion(k, t) ==
  LET b == arg[t].body
      i == cur[t]
      row == Patched(cfg[k][i], b,
               ResolveCredentials(b, seen[t], EffectiveEndpoint(b, seen[t])))
  IN
  /\ pc[t] = "users" /\ want[t] = {} /\ arg[t].kind = k
  /\ row.avail \/ ProjectsUsing(k, i) = {}
  /\ cfg' = [cfg EXCEPT ![k][i] = row]
  /\ End(t)
  /\ UNCHANGED <<sel, versions, answer>>

\* The trigger refuses to withdraw a config in use; otherwise the row is written
\* and committed, with a version when the model is not the one read before.
UpdateGlobalConfigByID(k, t) ==
  LET b == arg[t].body
      i == cur[t]
      row == Patched(cfg[k][i], b,
               ResolveCredentials(b, seen[t], EffectiveEndpoint(b, seen[t])))
  IN
  /\ pc[t] = "users" /\ want[t] = {} /\ arg[t].kind = k
  /\ \/ ~row.avail /\ ProjectsUsing(k, i) # {} /\ Refuse(t)
     \/ /\ row.avail \/ ProjectsUsing(k, i) = {}
        /\ cfg' = [cfg EXCEPT ![k][i] = row]
        /\ IF row.model # seen[t].model THEN CreateVersion(k, i, row.model) ELSE UNCHANGED versions
        /\ End(t)
        /\ UNCHANGED <<sel, answer>>

\* DeleteGlobalConfig: the row must be there and must not be the default ...
ReadDeleted(k, t) ==
  /\ pc[t] = "read" /\ arg[t].op = "delete" /\ arg[t].kind = k
  /\ \/ arg[t].id \notin GlobalRows(k) \ DefaultRows(k) /\ Refuse(t)
     \/ /\ arg[t].id \in GlobalRows(k) \ DefaultRows(k)
        /\ cur' = [cur EXCEPT ![t] = arg[t].id]
        /\ Go(t, "count")
        /\ UNCHANGED <<tables, arg, seen, want, attempt, lock, answer, served>>

\* ... and no project may use it.
CountUsers(k, t) ==
  /\ pc[t] = "count" /\ arg[t].kind = k
  /\ \/ ProjectsUsing(k, cur[t]) # {} /\ Refuse(t)
     \/ /\ ProjectsUsing(k, cur[t]) = {}
        /\ Go(t, "lockRow")
        /\ UNCHANGED <<tables, arg, cur, seen, want, attempt, lock, answer, served>>

\* The deactivation without the guard on is_default.
DeactivateUnguarded(k, t) ==
  /\ pc[t] = "lockRow" /\ arg[t].op = "delete" /\ arg[t].kind = k
  /\ lock[<<k, cur[t]>>] = None
  /\ cfg' = [cfg EXCEPT ![k][cur[t]].active = FALSE, ![k][cur[t]].default = FALSE,
                        ![k][cur[t]].cred = None]
  /\ End(t)
  /\ UNCHANGED <<sel, versions, answer>>

\* DeactivateGlobal...ByID: a config promoted meanwhile is spared.
DeleteGlobalConfig(k, t) ==
  /\ pc[t] = "lockRow" /\ arg[t].op = "delete" /\ arg[t].kind = k
  /\ lock[<<k, cur[t]>>] = None
  /\ \/ cur[t] \notin GlobalRows(k) \ DefaultRows(k) /\ Refuse(t)
     \/ /\ cur[t] \in GlobalRows(k) \ DefaultRows(k)
        /\ cfg' = [cfg EXCEPT ![k][cur[t]].active = FALSE, ![k][cur[t]].cred = None]
        /\ End(t)
        /\ UNCHANGED <<sel, versions, answer>>

-----------------------------------------------------------------------------
(* resolveState: four statements, without a transaction.                   *)

Answer(t, a) == End(t) /\ answer' = [answer EXCEPT ![t] = a] /\ UNCHANGED tables

GetActiveCustomConfig(k, t) ==
  /\ pc[t] = "read" /\ arg[t].op = "resolve" /\ arg[t].kind = k
  /\ \/ CustomRows(k, arg[t].proj) # {} /\ Answer(t, "config")
     \/ /\ CustomRows(k, arg[t].proj) = {}
        /\ Go(t, "selection")
        /\ UNCHANGED <<tables, arg, cur, seen, want, attempt, lock, answer, served>>

GetProjectProviderSelections(t) ==
  LET s == sel[arg[t].kind][arg[t].proj] IN
  /\ pc[t] = "selection"
  /\ cur' = [cur EXCEPT ![t] = s]
  /\ Go(t, IF s = 0 THEN "default" ELSE "selected")
  /\ UNCHANGED <<tables, arg, seen, want, attempt, lock, answer, served>>

\* A resolve that takes a stale selection for a missing configuration.
GetSelectedConfigStrict(t) ==
  /\ pc[t] = "selected"
  /\ Answer(t, IF cur[t] \in GlobalRows(arg[t].kind) THEN "config" ELSE "missing")

\* A stale selection falls through to the default.
GetSelectedConfig(t) ==
  /\ pc[t] = "selected"
  /\ \/ cur[t] \in GlobalRows(arg[t].kind) /\ Answer(t, "config")
     \/ /\ cur[t] \notin GlobalRows(arg[t].kind)
        /\ Go(t, "default")
        /\ UNCHANGED <<tables, arg, cur, seen, want, attempt, lock, answer, served>>

GetDefaultConfig(k, t) ==
  /\ pc[t] = "default" /\ arg[t].kind = k
  /\ Answer(t, IF DefaultRows(k) = {} THEN "missing" ELSE "config")

-----------------------------------------------------------------------------
(* Deadlocks and failures.                                                 *)

\* The rows a request has to lock before its next step.
Wanted(t) ==
  CASE pc[t] = "lockProject" -> {arg[t].proj}
    [] pc[t] = "trigger"     -> TriggerNext(t)
    [] pc[t] = "users"       -> want[t]
    [] pc[t] = "lockRow"     -> {<<arg[t].kind, cur[t]>>}
    [] pc[t] = "second"      -> {<<arg[t].kind, arg[t].id>>}
    [] OTHER                 -> {}

Waits(x, y) ==
  /\ x # y
  /\ \/ \E w \in Wanted(x) : lock[w] = y
     \/ pc[x] = "unique" /\ y \in Clearing(x)

\* One waits for the other, or for one that does, and so on.
Blocked(x, y) ==
  TransitiveClosure([p \in Requests \X Requests |-> Waits(p[1], p[2])], Requests)[x, y]

\* It waits for one that waits for it.
Deadlocked == {t \in Requests : \E y \in Requests : Waits(t, y) /\ Blocked(y, t)}

\* WithTx runs everything but a single UPDATE statement: the PATCH of an LLM
\* config and every deletion.
InTx(t) == arg[t].op # "delete" /\ ~(arg[t].op = "patch" /\ arg[t].kind = "llm")

\* Where the transaction starts: what was read before it is not read again.
TxStart == [select |-> "lockProject", custom |-> "lockProject", reset |-> "lockProject",
            replace |-> "pick", promote |-> "read", patch |-> "lockRow"]

\* PostgreSQL aborts the transaction and WithTx runs it again, so many times.
Deadlock(t) ==
  /\ t \in Deadlocked
  /\ \/ ~(InTx(t) /\ attempt[t] < MaxDeadlockRetries) /\ Refuse(t)
     \/ /\ InTx(t) /\ attempt[t] < MaxDeadlockRetries
        /\ attempt' = [attempt EXCEPT ![t] = @ + 1]
        /\ Go(t, TxStart[arg[t].op])
        /\ want' = [want EXCEPT ![t] = {}]
        /\ lock' = Unlocked(t)
        /\ UNCHANGED <<tables, arg, cur, seen, answer, served>>

\* A statement fails, or the client has gone and the context is cancelled.
Abort(t) == pc[t] # "idle" /\ Refuse(t)

-----------------------------------------------------------------------------
(* The LLM service and its handler: the same operations on their own table. *)

LLMHandleProjectUpdate(t) == HandleProjectUpdate("llm", t)
LLMHandleProjectDelete(t) == HandleProjectDelete("llm", t)
LLMHandleGlobalUpdate(t) == HandleGlobalUpdate("llm", t)
LLMHandleUpdateGlobalConfigByID(t) == HandleUpdateGlobalConfigByID("llm", t)
LLMHandleDeleteGlobalConfig(t) == HandleDeleteGlobalConfig("llm", t)
LLMHandlePromoteGlobalConfigToDefault(t) == HandlePromoteGlobalConfigToDefault("llm", t)
LLMHandleProjectResolved(t) == HandleProjectResolved("llm", t)

LLMRequest(t) ==
  \/ LLMHandleProjectUpdate(t) \/ LLMHandleProjectDelete(t) \/ LLMHandleProjectResolved(t)
  \/ LLMHandleGlobalUpdate(t) \/ LLMHandleUpdateGlobalConfigByID(t)
  \/ LLMHandleDeleteGlobalConfig(t) \/ LLMHandlePromoteGlobalConfigToDefault(t)

LLMBootstrapDefaultConfig == BootstrapDefaultConfig("llm")
LLMCreateAdditionalGlobalConfig(t) == CreateAdditionalGlobalConfig("llm", t)
LLMSelectGlobalConfig(t) == LockProjectRow("llm", t) \/ SelectGlobalConfig("llm", t)
LLMUpsertCustomConfig(t) == UpsertCustomConfig("llm", t)
LLMResetProjectSetting(t) == ResetProjectSetting("llm", t)
LLMUpdateGlobalConfig(t) == ReadDefault("llm", t) \/ UpdateGlobalConfig("llm", t)
LLMUpdateGlobalConfigByID(t) == ReadPatched("llm", t) \/ UpdateGlobalConfigByID("llm", t)
LLMDeleteGlobalConfig(t) ==
  ReadDeleted("llm", t) \/ CountUsers("llm", t) \/ DeleteGlobalConfig("llm", t)
LLMPromoteToDefault(t) == ReadPromoted("llm", t) \/ PromoteToDefault("llm", t)
LLMResolveState(t) == GetActiveCustomConfig("llm", t) \/ GetDefaultConfig("llm", t)

LLMStep(t) ==
  \/ LLMSelectGlobalConfig(t) \/ LLMUpsertCustomConfig(t) \/ LLMResetProjectSetting(t)
  \/ LLMUpdateGlobalConfig(t) \/ LLMUpdateGlobalConfigByID(t) \/ LLMDeleteGlobalConfig(t)
  \/ LLMPromoteToDefault(t) \/ LLMResolveState(t)

-----------------------------------------------------------------------------

EmbeddingRequest(t) ==
  \/ HandleProjectUpdate("embedding", t)
  \/ HandleProjectDelete("embedding", t)
  \/ HandleGlobalUpdate("embedding", t)
  \/ HandleUpdateGlobalConfigByID("embedding", t)
  \/ HandleDeleteGlobalConfig("embedding", t)
  \/ HandlePromoteGlobalConfigToDefault("embedding", t)
  \/ HandleProjectResolved("embedding", t)

EmbeddingStep(t) ==
  LET k == "embedding" IN
  \/ LockProjectRow(k, t) \/ SelectGlobalConfig(k, t) \/ UpsertCustomConfig(k, t)
  \/ ResetProjectSetting(k, t) \/ ReadDefault(k, t) \/ UpdateGlobalConfig(k, t)
  \/ ReadPatched(k, t) \/ UpdateGlobalConfigByID(k, t)
  \/ ReadDeleted(k, t) \/ CountUsers(k, t) \/ DeleteGlobalConfig(k, t)
  \/ ReadPromoted(k, t) \/ PromoteToDefault(k, t)
  \/ GetActiveCustomConfig(k, t) \/ GetDefaultConfig(k, t)

\* The next statement of a request, of either service.
Step(t) ==
  /\ pc[t] # "idle"
  /\ \/ arg[t].kind = "embedding" /\ EmbeddingStep(t)
     \/ arg[t].kind = "llm" /\ LLMStep(t)
     \/ \E x \in want[t] : TriggerLock(t, x) \/ LockUser(t, x)
     \/ PickDefault(t) \/ LockDefault(t) \/ LockPromoted(t) \/ UniqueViolation(t)
     \/ LockPatched(t) \/ GetProjectProviderSelections(t) \/ GetSelectedConfig(t)
     \/ Deadlock(t)

Next ==
  \/ BootstrapDefaultConfig("embedding") \/ LLMBootstrapDefaultConfig
  \/ \E t \in Requests :
       \/ EmbeddingRequest(t) \/ LLMRequest(t)
       \/ CreateAdditionalGlobalConfig("embedding", t) \/ LLMCreateAdditionalGlobalConfig(t)
       \/ Step(t) \/ Abort(t)

Spec == Init /\ [][Next]_vars

\* A request takes its next step; strong fairness because a row lock that
\* others take and release in turn is granted in the order of waiting.
FairSpec == Spec /\ \A t \in Requests : SF_vars(Step(t))

-----------------------------------------------------------------------------
(* Properties.                                                             *)

\* Once seeded, each kind has exactly one default and it is active, whatever
\* promotions, replacements and deletions of it race (PromoteToDefault's two
\* updates, the guard of DeactivateGlobal...ByID, the unique index).
DefaultServes == served > 0 => \A k \in Kinds :
  Cardinality(DefaultRows(k)) = 1 /\ DefaultEntries(k) = DefaultRows(k)

\* What a project has selected is a platform config offered to projects, even
\* when it is withdrawn while being selected: what the two triggers and their
\* row locks are for.
SelectionShareable ==
  \A k \in Kinds, p \in Projects : sel[k][p] # 0 =>
    cfg[k][sel[k][p]].owner = Platform /\ cfg[k][sel[k][p]].avail

\* A project has a custom config or a selection, not both, and never two
\* custom configs: concurrent updates of its setting are serialised.
OneChoice ==
  \A k \in Kinds, p \in Projects :
    /\ Cardinality(CustomRows(k, p)) <= 1
    /\ CustomRows(k, p) # {} => sel[k][p] = 0

\* A custom config's stored credentials were entered for its endpoint, through
\* any sequence of updates that keep, clear or replace them.
CustomCredentials ==
  \A k \in Kinds : \A i \in DOMAIN cfg[k] :
    cfg[k][i].owner # Platform => cfg[k][i].cred \in {None, cfg[k][i].ep}

\* Every embedding config has a version for the model it is saved with, except
\* the seeded one, although UpdateGlobalConfigByID decides from an earlier read.
VersionRecorded ==
  \A i \in DOMAIN cfg["embedding"] :
    \/ <<i, cfg["embedding"][i].model>> \in versions
    \/ i = 1 /\ cfg["embedding"][i].model = FirstModel

\* Resolving a project's setting, four statements beside every change, never
\* finds no configuration at all.
ResolveFinds == \A t \in Requests : answer[t] # "missing"

\* Every request is answered: a PATCH and a selection that wait for each other
\* are told apart, retries end, and locks are given back.
Answered == \A t \in Requests : pc[t] # "idle" ~> pc[t] = "idle"

\* The types, and that each project has one choice and may have it, however
\* selections, custom configs, resets and withdrawals cross each other, with
\* credentials of its own endpoint only.
SettingsInv == TypeOK /\ SelectionShareable /\ OneChoice /\ CustomCredentials
-----------------------------------------------------------------------------
(* The inductive invariant.                                                *)

\* Every request under way may still add a row, which is how the tables stay
\* within the ids.
Counted ==
  \A k \in Kinds : Len(cfg[k]) + Cardinality({t \in Requests : pc[t] # "idle"}) <= served + 1

\* A table is empty until it is seeded, and no request is served before both are.
Seeded ==
  /\ \A k \in Kinds : \/ cfg[k] = <<>>
                      \/ \E d \in DefaultRows(k) : DefaultEntries(k) = {d}
  /\ served > 0 => \A k \in Kinds : cfg[k] # <<>>
  /\ \A t \in Requests : pc[t] # "idle" => served > 0

\* What a request names, by the operation it asks for.
Named(t) ==
  LET a == arg[t] IN
  /\ a.op \in {"select", "custom", "reset", "resolve"} => a.proj \in Projects
  /\ a.op \in {"custom", "replace"} => a.body \in Saves
  /\ a.op = "patch" => a.body \in Patches

\* The steps of each operation.
StepOf(t) ==
  LET op == arg[t].op IN
  /\ pc[t] \in {"lockProject", "trigger"} => op \in {"select", "custom", "reset"}
  /\ pc[t] \in {"pick", "unique"} => op \in {"replace", "promote"}
  /\ pc[t] = "lockRow" => op \in {"replace", "promote", "patch", "delete"}
  /\ pc[t] = "second" => op = "promote"
  /\ pc[t] = "users" => op = "patch"
  /\ pc[t] = "count" => op = "delete"
  /\ pc[t] \in {"selection", "selected", "default"} => op = "resolve"

\* The selection that waits for its commit: the config is a platform config, and
\* from the moment the trigger has found it available its lock is held.
SelectionHeld(t) ==
  LET a == arg[t]
      x == <<a.kind, a.id>>
  IN pc[t] = "trigger" /\ a.op = "select" =>
       /\ a.id \in DOMAIN cfg[a.kind]
       /\ cfg[a.kind][a.id].owner = Platform
       /\ x \in want[t] \/ (lock[x] = t /\ cfg[a.kind][a.id].avail)

\* The rows a change of the default or a PATCH is about to write are locked, and
\* the row to be promoted stays an active platform config.
RowsHeld(t) ==
  LET k == arg[t].kind IN
  /\ pc[t] = "users" => /\ cur[t] \in DOMAIN cfg[k]
                        /\ cfg[k][cur[t]].owner = Platform
                        /\ lock[<<k, cur[t]>>] = t
  /\ pc[t] \in {"second", "unique"} /\ cur[t] # 0 => lock[<<k, cur[t]>>] = t
  /\ pc[t] = "unique" /\ arg[t].op = "promote" =>
       /\ arg[t].id \in GlobalRows(k)
       /\ lock[<<k, arg[t].id>>] = t

\* What was read before the transaction and is used in it: the custom config whose
\* credentials may be kept, and the model of the row to be patched, which has its
\* version for good.
StaleReads(t) ==
  /\ pc[t] = "trigger" /\ arg[t].op = "custom" =>
       \/ seen[t] = None
       \/ /\ seen[t] \in Row
          /\ seen[t].cred \in {None, seen[t].ep}
          /\ ~MustReenter(arg[t].body, seen[t], arg[t].body.ep)
  /\ pc[t] \in {"lockRow", "users"} /\ arg[t].op = "patch" =>
       /\ seen[t] \in Row
       /\ arg[t].kind = "embedding" =>
            \/ <<cur[t], seen[t].model>> \in versions
            \/ cur[t] = 1 /\ seen[t].model = FirstModel

UnderWay(t) ==
  pc[t] # "idle" => /\ Named(t) /\ StepOf(t)
                    /\ SelectionHeld(t) /\ RowsHeld(t) /\ StaleReads(t)

\* What is selected is a row of the table.
SelectionIsRow == \A k \in Kinds, p \in Projects : sel[k][p] # 0 => sel[k][p] \in DOMAIN cfg[k]

ProvidersIInv ==
  /\ SettingsInv /\ SelectionIsRow /\ VersionRecorded /\ ResolveFinds
  /\ Counted /\ Seeded
  /\ \A t \in Requests : UnderWay(t)
=============================================================================
