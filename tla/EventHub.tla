------------------------------ MODULE EventHub ------------------------------
(***************************************************************************)
(* Live events: the SSE hub of an API process, one of several.  The hub    *)
(* knows its connected clients and the projects each may hear of.  That    *)
(* knowledge follows the table project_members along three ways: by what   *)
(* the membership handlers of the same process tell the hub, by the events *)
(* of other processes that arrive over Redis, and by refreshes from the    *)
(* database.                                                               *)
(*                                                                         *)
(* Hubs share nothing but the table and Redis, so one hub is modelled, and *)
(* of the other processes what it sees of them: changes of the table, and  *)
(* events.  The hub's mutex makes each of its methods one step.  Redis     *)
(* pub/sub (external) keeps the order of a subscription and may lose what  *)
(* it carries; a PUBLISH whose reply is lost is sent again by the client   *)
(* library.                                                                *)
(***************************************************************************)
EXTENDS Naturals, Sequences, FiniteSets

CONSTANTS
  Users, Projects,
  Clients,          \* connections to the process
  LogClients,       \* those that are log streams
  UserOf,           \* the user of a connection
  Calls,            \* membership requests served at a time, anywhere
  MaxConns,         \* the hub's limit of connections
  ClientBufferSize, \* frames a client's channel holds
  MaxEvents,        \* bound on events and silent changes
  MaxQueue,         \* bound on what Redis holds for the process
  NoCall

ASSUME ClientsAssumption ==
  /\ IsFiniteSet(Clients) /\ LogClients \subseteq Clients
  /\ UserOf \in [Clients -> Users]
ASSUME BoundsAssumption ==
  /\ MaxConns \in Nat \ {0} /\ ClientBufferSize \in Nat
  /\ MaxEvents \in Nat /\ MaxQueue \in Nat

VARIABLES
  member,   \* the table project_members: the projects of a user
  events,   \* events and silent changes so far; gives events their identity
  call,     \* membership handlers after their commit
  link,     \* the subscription to Redis
  queue,    \* what Redis holds for it
  applied,  \* handleMessage has applied the delta of the event at hand
  stream,   \* where a connection's handler is
  pids,     \* Client.ProjectIDs
  ch,       \* Client.Ch: frames to be written
  written,  \* frames of the process's own handlers that were written out
  refresh   \* RefreshAllMemberships, per caller

hubVars == <<pids, ch, written>>
subVars == <<link, queue, applied>>
vars    == <<member, events, call, subVars, stream, hubVars, refresh>>

Personal == {"member:added", "member:removed", "member:role_updated"}
Event == [id : 1..MaxEvents, kind : Personal \cup {"job"}, user : Users,
          project : Projects, origin : {"self", "other"}]
Call == [pc : {"delta", "notify", "publish"}, event : Event]

\* The two callers of RefreshAllMemberships: the ticker and OnReconnect.
Callers == {"ticker", "reconnect"}
NotLoaded == [u \in {} |-> {}]
Loaded == UNION {[U -> SUBSET Projects] : U \in SUBSET Users}
IdleRefresh == [pc |-> "idle", todo |-> {}, loaded |-> NotLoaded]

\* Every variable has its shape, and no channel holds more than its buffer.
TypeOK ==
  /\ member \in [Users -> SUBSET Projects]
  /\ events \in 0..MaxEvents
  /\ call \in [Calls -> Call \cup {NoCall}]
  /\ link \in {"new", "up", "refresh", "down"}
  /\ queue \in Seq(Event) /\ Len(queue) <= MaxQueue
  /\ applied \in BOOLEAN
  /\ stream \in [Clients -> {"off", "load", "register", "on"}]
  /\ pids \in [Clients -> SUBSET Projects]
  /\ ch \in [Clients -> Seq(Event)]
  /\ \A c \in Clients : Len(ch[c]) <= ClientBufferSize
  /\ written \in [Clients -> SUBSET Event]
  /\ refresh \in [Callers -> [pc : {"idle", "load"}, todo : SUBSET Users, loaded : Loaded]]

\* Users may be members of projects; nobody is connected.
Init ==
  /\ member \in [Users -> SUBSET Projects]
  /\ events = 0
  /\ call = [k \in Calls |-> NoCall]
  /\ link = "new" /\ queue = <<>> /\ applied = FALSE
  /\ stream = [c \in Clients |-> "off"]
  /\ pids = [c \in Clients |-> {}]
  /\ ch = [c \in Clients |-> <<>>]
  /\ written = [c \in Clients |-> {}]
  /\ refresh = [f \in Callers |-> IdleRefresh]

-----------------------------------------------------------------------------
(* The hub.                                                                *)

\* Hub.clients, log streams included.
Registered == {c \in Clients : stream[c] = "on"}
HasCapacity == Cardinality(Registered) < MaxConns

\* The clients of user u; a log stream's id is no user's.
ClientsOf(u) == {c \in Registered \ LogClients : UserOf[c] = u}

\* A send never blocks: a full channel drops the frame.
Offer(C, e) ==
  ch' = [c \in Clients |-> IF c \in C /\ Len(ch[c]) < ClientBufferSize
                           THEN Append(ch[c], e) ELSE ch[c]]

SendToUser(e) == Offer(ClientsOf(e.user), e)
Broadcast(e)  == Offer({c \in Registered : e.project \in pids[c]}, e)

\* AddProjectForUser, RemoveProjectForUser; other events change nothing.
ApplyDelta(e) ==
  pids' = [c \in Clients |->
             CASE c \in ClientsOf(e.user) /\ e.kind = "member:added"   -> pids[c] \cup {e.project}
               [] c \in ClientsOf(e.user) /\ e.kind = "member:removed" -> pids[c] \ {e.project}
               [] OTHER -> pids[c]]

-----------------------------------------------------------------------------
(* Connections: HandleStream and HandleLogStream.                          *)

Connect(c) ==
  /\ stream[c] = "off" /\ c \notin LogClients
  /\ HasCapacity
  /\ stream' = [stream EXCEPT ![c] = "load"]
  /\ UNCHANGED <<member, events, call, subVars, hubVars, refresh>>

LoadProjects(c) ==
  /\ stream[c] = "load"
  /\ \/ /\ stream' = [stream EXCEPT ![c] = "register"]
        /\ pids' = [pids EXCEPT ![c] = member[UserOf[c]]]
     \/ /\ stream' = [stream EXCEPT ![c] = "off"]
        /\ UNCHANGED pids
  /\ UNCHANGED <<member, events, call, subVars, ch, written, refresh>>

\* Register that trusts the capacity seen before the memberships were loaded.
RegisterUnchecked(c) ==
  /\ stream[c] = "register"
  /\ stream' = [stream EXCEPT ![c] = "on"]
  /\ UNCHANGED <<member, events, call, subVars, hubVars, refresh>>

\* Register looks at the capacity again, under the lock.
Register(c) ==
  /\ stream[c] = "register"
  /\ \/ /\ HasCapacity
        /\ stream' = [stream EXCEPT ![c] = "on"]
        /\ UNCHANGED pids
     \/ /\ ~HasCapacity
        /\ stream' = [stream EXCEPT ![c] = "off"]
        /\ pids' = [pids EXCEPT ![c] = {}]
  /\ UNCHANGED <<member, events, call, subVars, ch, written, refresh>>

\* A log stream has no projects and loads none.
OpenLog(c) ==
  /\ stream[c] = "off" /\ c \in LogClients
  /\ HasCapacity
  /\ stream' = [stream EXCEPT ![c] = "on"]
  /\ UNCHANGED <<member, events, call, subVars, hubVars, refresh>>

\* The handler's loop writes a frame out.
WriteFrame(c) ==
  /\ stream[c] = "on" /\ ch[c] # <<>>
  /\ ch' = [ch EXCEPT ![c] = Tail(@)]
  /\ written' = [written EXCEPT ![c] = @ \cup {e \in {Head(ch[c])} : e.origin = "self"}]
  /\ UNCHANGED <<member, events, call, subVars, stream, pids, refresh>>

\* The connections of C end, with all they had.
Drop(C) ==
  /\ stream' = [c \in Clients |-> IF c \in C THEN "off" ELSE stream[c]]
  /\ pids' = [c \in Clients |-> IF c \in C THEN {} ELSE pids[c]]
  /\ ch' = [c \in Clients |-> IF c \in C THEN <<>> ELSE ch[c]]
  /\ written' = [c \in Clients |-> IF c \in C THEN {} ELSE written[c]]

\* A write fails or the client has gone: Unregister.
Disconnect(c) ==
  /\ stream[c] = "on"
  /\ Drop({c})
  /\ UNCHANGED <<member, events, call, subVars, refresh>>

Connection(c) == \/ Connect(c) \/ LoadProjects(c) \/ Register(c) \/ OpenLog(c)
                 \/ WriteFrame(c) \/ Disconnect(c)

-----------------------------------------------------------------------------
(* Membership changes and events.                                          *)

\* The table after a change.
Changed(kind, u, p) ==
  CASE kind = "member:added"   -> [member EXCEPT ![u] = @ \cup {p}]
    [] kind = "member:removed" -> [member EXCEPT ![u] = @ \ {p}]
    [] OTHER                   -> member

\* HandleAdd, HandleRemove and HandleUpdate, here or at another process, up to
\* the commit and the answer.  Another process's hub is not modelled.
Change(k, origin, kind, u, p) ==
  /\ call[k] = NoCall
  /\ events < MaxEvents
  /\ (kind = "member:added") = (p \notin member[u])
  /\ member' = Changed(kind, u, p)
  /\ events' = events + 1
  /\ call' = [call EXCEPT ![k] =
       [pc    |-> IF origin = "other" THEN "publish"
                  ELSE IF kind = "member:role_updated" THEN "notify" ELSE "delta",
        event |-> [id |-> events + 1, kind |-> kind, user |-> u, project |-> p,
                   origin |-> origin]]]
  /\ UNCHANGED <<subVars, stream, hubVars, refresh>>

At(k, step) == call[k] # NoCall /\ call[k].pc = step

\* AddProjectForUser or RemoveProjectForUser.
TellHub(k) ==
  /\ At(k, "delta")
  /\ ApplyDelta(call[k].event)
  /\ call' = [call EXCEPT ![k].pc = "notify"]
  /\ UNCHANGED <<member, events, subVars, stream, ch, written, refresh>>

\* PublishToUser.
Notify(k) ==
  /\ At(k, "notify")
  /\ SendToUser(call[k].event)
  /\ call' = [call EXCEPT ![k].pc = "publish"]
  /\ UNCHANGED <<member, events, subVars, stream, pids, written, refresh>>

\* A message reaches the subscription, not at all, once or twice (external).
Deliver(e) ==
  \/ UNCHANGED queue
  \/ \E n \in 1..2 : /\ link \in {"up", "refresh"}
                     /\ Len(queue) + n <= MaxQueue
                     /\ queue' = queue \o [x \in 1..n |-> e]

\* EventPublisher.Publish.
Publish(k) ==
  /\ At(k, "publish")
  /\ Deliver(call[k].event)
  /\ call' = [call EXCEPT ![k] = NoCall]
  /\ UNCHANGED <<member, events, link, applied, stream, hubVars, refresh>>

\* HandleCreate makes its caller an owner, and HandleDelete deletes all members,
\* without an event.
SilentChange(p) ==
  /\ events < MaxEvents
  /\ events' = events + 1
  /\ \/ /\ \A u \in Users : p \notin member[u]
        /\ \E u \in Users : member' = [member EXCEPT ![u] = @ \cup {p}]
     \/ member' = [u \in Users |-> member[u] \ {p}]
  /\ UNCHANGED <<call, subVars, stream, hubVars, refresh>>

\* A worker publishes an event of a project.
JobEvent(u, p) ==
  /\ events < MaxEvents
  /\ events' = events + 1
  /\ Deliver([id |-> events + 1, kind |-> "job", user |-> u, project |-> p,
              origin |-> "other"])
  /\ UNCHANGED <<member, call, link, applied, stream, hubVars, refresh>>

MembershipCall(k) ==
  \/ \E origin \in {"self", "other"}, kind \in Personal, u \in Users, p \in Projects :
       Change(k, origin, kind, u, p)
  \/ TellHub(k) \/ Notify(k) \/ Publish(k)

-----------------------------------------------------------------------------
(* RefreshAllMemberships, for each of its callers.                         *)

\* It collects the users of the registered clients (nothing is loaded for the id
\* of a log stream) and returns if there are none ...
ConnectedUsers == {UserOf[c] : c \in Registered \ LogClients}
StartRefresh(f) ==
  refresh' = [refresh EXCEPT ![f] = [pc |-> "load", todo |-> ConnectedUsers, loaded |-> NotLoaded]]

Tick ==
  /\ refresh["ticker"].pc = "idle"
  /\ ConnectedUsers # {}
  /\ StartRefresh("ticker")
  /\ UNCHANGED <<member, events, call, subVars, stream, hubVars>>

\* ... loads their memberships without the lock, one user after the other ...
LoadUser(f, u) ==
  /\ u \in refresh[f].todo
  /\ LET loaded == refresh[f].loaded IN
     refresh' = [refresh EXCEPT
       ![f].todo   = @ \ {u},
       ![f].loaded = [x \in DOMAIN loaded \cup {u} |-> IF x = u THEN member[u] ELSE loaded[x]]]
  /\ UNCHANGED <<member, events, call, subVars, stream, hubVars>>

LoadFails(f, u) ==
  /\ u \in refresh[f].todo
  /\ refresh' = [refresh EXCEPT ![f].todo = @ \ {u}]
  /\ UNCHANGED <<member, events, call, subVars, stream, hubVars>>

\* The refresh that adds what it has loaded and takes nothing away.
RefreshedMerging(f, c) ==
  IF c \in Registered \ LogClients /\ UserOf[c] \in DOMAIN refresh[f].loaded
  THEN pids[c] \cup refresh[f].loaded[UserOf[c]] ELSE pids[c]

\* Client.ProjectIDs after the refresh.
Refreshed(f, c) ==
  IF c \in Registered \ LogClients /\ UserOf[c] \in DOMAIN refresh[f].loaded
  THEN refresh[f].loaded[UserOf[c]] ELSE pids[c]

\* ... and overwrites what the clients had.  OnReconnect then lets Listen go on.
Apply(f) ==
  /\ refresh[f].pc = "load" /\ refresh[f].todo = {}
  /\ pids' = [c \in Clients |-> Refreshed(f, c)]
  /\ refresh' = [refresh EXCEPT ![f] = IdleRefresh]
  /\ link' = IF f = "reconnect" THEN "up" ELSE link
  /\ UNCHANGED <<member, events, call, queue, applied, stream, ch, written>>

Refresher(f) == Apply(f) \/ \E u \in Users : LoadUser(f, u) \/ LoadFails(f, u)

-----------------------------------------------------------------------------
(* The subscriber: Listen and handleMessage.                               *)

\* The first subscription needs no refresh, a later one does.
Subscribe ==
  /\ \/ /\ link = "new" \/ (link = "down" /\ ConnectedUsers = {})
        /\ link' = "up"
        /\ UNCHANGED refresh
     \/ /\ link = "down" /\ ConnectedUsers # {}
        /\ link' = "refresh"
        /\ StartRefresh("reconnect")
  /\ UNCHANGED <<member, events, call, queue, applied, stream, hubVars>>

\* Between two messages the channel is closed.
LoseConnection ==
  /\ link = "up" /\ ~applied
  /\ link' = "down" /\ queue' = <<>>
  /\ UNCHANGED <<member, events, call, applied, stream, hubVars, refresh>>

\* The connection under the subscription is replaced unnoticed (external).
LoseMessage ==
  /\ queue # <<>> /\ ~applied
  /\ queue' = Tail(queue)
  /\ UNCHANGED <<member, events, call, link, applied, stream, hubVars, refresh>>

\* The comparison of Origin left out.
OwnNever == FALSE

\* An event of this process is skipped: the handler has told the hub.
Own == Head(queue).origin = "self"

\* applyMembershipDelta.
HandleDelta ==
  /\ link = "up" /\ queue # <<>> /\ ~applied
  /\ ~Own
  /\ ApplyDelta(Head(queue))
  /\ applied' = TRUE
  /\ UNCHANGED <<member, events, call, link, queue, stream, ch, written, refresh>>

\* SendToUser or Broadcast, and on to the next message.
HandleSend ==
  /\ link = "up" /\ queue # <<>>
  /\ \/ applied /\ Head(queue).kind \in Personal /\ SendToUser(Head(queue))
     \/ applied /\ Head(queue).kind = "job" /\ Broadcast(Head(queue))
     \/ ~applied /\ Own /\ UNCHANGED ch
  /\ applied' = FALSE
  /\ queue' = Tail(queue)
  /\ UNCHANGED <<member, events, call, link, stream, pids, written, refresh>>

\* The process ends, with its clients and the requests it serves.
Restart ==
  /\ Drop(Clients)
  /\ call' = [k \in Calls |-> IF call[k] # NoCall /\ call[k].event.origin = "self"
                              THEN NoCall ELSE call[k]]
  /\ link' = "new" /\ queue' = <<>> /\ applied' = FALSE
  /\ refresh' = [f \in Callers |-> IdleRefresh]
  /\ UNCHANGED <<member, events>>

Subscriber == \/ Subscribe \/ LoseConnection \/ LoseMessage
              \/ HandleDelta \/ HandleSend \/ Restart

Next ==
  \/ \E c \in Clients : Connection(c)
  \/ \E k \in Calls : MembershipCall(k)
  \/ \E p \in Projects : SilentChange(p) \/ \E u \in Users : JobEvent(u, p)
  \/ \E f \in Callers : Refresher(f)
  \/ Tick \/ Subscriber

Spec == Init /\ [][Next]_vars

\* The periodic refresh goes on, and not every one of its queries fails.
Fairness == /\ WF_vars(Tick)
            /\ WF_vars(Apply("ticker"))
            /\ \A u \in Users : SF_vars(LoadUser("ticker", u))

FairSpec == Spec /\ Fairness

-----------------------------------------------------------------------------
(* Properties.                                                             *)

\* MAX_SSE_CONNECTIONS holds, however many connections and log streams pass the
\* early check at the same time.
WithinCapacity == Cardinality(Registered) <= MaxConns

\* The process delivers an event of its own handlers to a client at most once,
\* although the event also comes back over Redis, perhaps twice.
OwnOnce ==
  \A c \in Clients : \A n \in DOMAIN ch[c] :
    ch[c][n].origin = "self" =>
      ch[c][n] \notin written[c] /\ \A m \in 1..(n - 1) : ch[c][m] # ch[c][n]

\* Once memberships stop changing, what the hub knows of every connected client
\* becomes what the table says, and stays so: deltas that were lost, applied
\* late, out of order, or overwritten by a refresh that had loaded before them
\* are all made good by the periodic refresh.
Converges ==
  <>[](\A c \in Clients \ LogClients : stream[c] = "on" => pids[c] = member[UserOf[c]])
=============================================================================
