--------------------------- MODULE EventHubProofs ---------------------------
(***************************************************************************)
(* Proofs about EventHub, for any users, projects, clients and requests    *)
(* and any bounds.                                                         *)
(***************************************************************************)
EXTENDS EventHub, TLAPS, FiniteSetTheorems, SequenceTheorems

-----------------------------------------------------------------------------
(* Types.                                                                  *)

\* Init establishes the type invariant.
LEMMA TypeInit == Init => TypeOK
<1> SUFFICES ASSUME Init PROVE TypeOK
  OBVIOUS
<1>1. NotLoaded \in Loaded
  BY DEF NotLoaded, Loaded
<1>2. refresh \in [Callers -> [pc : {"idle", "load"}, todo : SUBSET Users, loaded : Loaded]]
  BY <1>1 DEF Init, IdleRefresh
<1>3. ch \in [Clients -> Seq(Event)] /\ \A c \in Clients : Len(ch[c]) <= ClientBufferSize
  <2>1. <<>> \in Seq(Event) /\ Len(<<>>) = 0
    OBVIOUS
  <2> QED BY <2>1, BoundsAssumption DEF Init
<1>4. queue \in Seq(Event) /\ Len(queue) <= MaxQueue
  BY BoundsAssumption DEF Init
<1>5. events \in 0..MaxEvents
  BY BoundsAssumption DEF Init
<1>6. applied \in BOOLEAN /\ link \in {"new", "up", "refresh", "down"}
  BY DEF Init
<1>7. /\ call \in [Calls -> Call \cup {NoCall}]
      /\ stream \in [Clients -> {"off", "load", "register", "on"}]
      /\ pids \in [Clients -> SUBSET Projects]
      /\ written \in [Clients -> SUBSET Event]
      /\ member \in [Users -> SUBSET Projects]
  BY DEF Init
<1> QED BY <1>2, <1>3, <1>4, <1>5, <1>6, <1>7 DEF TypeOK

\* A frame that is offered keeps the channels' types and bounds.
LEMMA OfferType ==
  ASSUME TypeOK, NEW C, NEW e \in Event, Offer(C, e)
  PROVE  ch' \in [Clients -> Seq(Event)] /\ \A c \in Clients : Len(ch'[c]) <= ClientBufferSize
<1> SUFFICES ASSUME NEW c \in Clients
             PROVE  /\ ch'[c] \in Seq(Event) /\ Len(ch'[c]) <= ClientBufferSize
                    /\ ch' = [x \in Clients |-> ch'[x]]
  BY DEF Offer
<1>1. ch[c] \in Seq(Event) /\ Len(ch[c]) \in Nat
  BY DEF TypeOK
<1>2. Append(ch[c], e) \in Seq(Event) /\ Len(Append(ch[c], e)) = Len(ch[c]) + 1
  BY <1>1
<1> QED BY <1>1, <1>2, BoundsAssumption DEF Offer, TypeOK

\* So does a delta for the clients' projects.
LEMMA DeltaType ==
  ASSUME TypeOK, NEW e \in Event, ApplyDelta(e) PROVE pids' \in [Clients -> SUBSET Projects]
BY DEF TypeOK, ApplyDelta, Event

\* Redis keeps the queue's type and bound.
LEMMA DeliverType ==
  ASSUME TypeOK, NEW e \in Event, Deliver(e)
  PROVE  queue' \in Seq(Event) /\ Len(queue') <= MaxQueue
<1>1. CASE UNCHANGED queue
  BY <1>1 DEF TypeOK
<1>2. ASSUME NEW n \in 1..2, Len(queue) + n <= MaxQueue, queue' = queue \o [x \in 1..n |-> e]
      PROVE  queue' \in Seq(Event) /\ Len(queue') <= MaxQueue
  <2>1. [x \in 1..n |-> e] \in Seq(Event) /\ Len([x \in 1..n |-> e]) = n
    OBVIOUS
  <2>2. queue \in Seq(Event)
    BY DEF TypeOK
  <2> QED BY <1>2, <2>1, <2>2, ConcatProperties
<1> QED BY <1>1, <1>2 DEF Deliver

\* Starting a refresh keeps its type.
LEMMA StartType ==
  ASSUME TypeOK, NEW f \in Callers, StartRefresh(f)
  PROVE  refresh' \in [Callers -> [pc : {"idle", "load"}, todo : SUBSET Users, loaded : Loaded]]
<1>1. NotLoaded \in Loaded
  BY DEF NotLoaded, Loaded
<1>2. ConnectedUsers \subseteq Users
  BY ClientsAssumption DEF ConnectedUsers, Registered
<1> QED BY <1>1, <1>2 DEF StartRefresh, TypeOK

\* Connections that are dropped keep the hub's types.
LEMMA DropType ==
  ASSUME TypeOK, NEW C, Drop(C)
  PROVE  /\ stream' \in [Clients -> {"off", "load", "register", "on"}]
         /\ pids' \in [Clients -> SUBSET Projects]
         /\ ch' \in [Clients -> Seq(Event)]
         /\ \A c \in Clients : Len(ch'[c]) <= ClientBufferSize
         /\ written' \in [Clients -> SUBSET Event]
<1>1. <<>> \in Seq(Event) /\ Len(<<>>) = 0
  OBVIOUS
<1>2. ch' \in [Clients -> Seq(Event)] /\ \A c \in Clients : Len(ch'[c]) <= ClientBufferSize
  BY <1>1, BoundsAssumption DEF Drop, TypeOK
<1> QED BY <1>2 DEF Drop, TypeOK

\* Every step keeps the type invariant.
LEMMA TypeStep == TypeOK /\ [Next]_vars => TypeOK'
<1> SUFFICES ASSUME TypeOK, [Next]_vars PROVE TypeOK'
  OBVIOUS
<1> USE DEF hubVars, subVars
<1>1. ASSUME NEW c \in Clients, Connection(c) PROVE TypeOK'
  <2>1. CASE Connect(c)      BY <2>1 DEF Connect, TypeOK
  <2>2. CASE LoadProjects(c) BY <2>2, ClientsAssumption DEF LoadProjects, TypeOK
  <2>3. CASE Register(c)     BY <2>3 DEF Register, TypeOK
  <2>4. CASE OpenLog(c)      BY <2>4 DEF OpenLog, TypeOK
  <2>5. CASE WriteFrame(c)
    <3>1. ch[c] \in Seq(Event) /\ ch[c] # <<>> /\ Len(ch[c]) \in Nat
      BY <2>5 DEF WriteFrame, TypeOK
    <3>2. /\ Head(ch[c]) \in Event /\ Tail(ch[c]) \in Seq(Event)
          /\ Len(Tail(ch[c])) = Len(ch[c]) - 1
      BY <3>1, HeadTailProperties
    <3>3. ch' \in [Clients -> Seq(Event)] /\ \A x \in Clients : Len(ch'[x]) <= ClientBufferSize
      BY <2>5, <3>1, <3>2, BoundsAssumption DEF WriteFrame, TypeOK
    <3>4. written' \in [Clients -> SUBSET Event]
      BY <2>5, <3>2 DEF WriteFrame, TypeOK
    <3> QED BY <2>5, <3>3, <3>4 DEF WriteFrame, TypeOK
  <2>6. CASE Disconnect(c)   BY <2>6, DropType DEF Disconnect, TypeOK
  <2> QED BY <1>1, <2>1, <2>2, <2>3, <2>4, <2>5, <2>6 DEF Connection
<1>2. ASSUME NEW k \in Calls, MembershipCall(k) PROVE TypeOK'
  <2>1. ASSUME NEW origin \in {"self", "other"}, NEW kind \in Personal, NEW u \in Users,
               NEW p \in Projects, Change(k, origin, kind, u, p)
        PROVE  TypeOK'
    <3>1. events' \in 0..MaxEvents /\ events + 1 \in 1..MaxEvents
      BY <2>1, BoundsAssumption DEF Change, TypeOK
    <3>2. [id |-> events + 1, kind |-> kind, user |-> u, project |-> p, origin |-> origin] \in Event
      BY <3>1 DEF Event
    <3>3. call' \in [Calls -> Call \cup {NoCall}]
      BY <2>1, <3>2 DEF Change, TypeOK, Call
    <3>4. member' \in [Users -> SUBSET Projects]
      BY <2>1 DEF Change, Changed, TypeOK
    <3> QED BY <2>1, <3>1, <3>3, <3>4 DEF Change, TypeOK
  <2>2. ASSUME NEW step, At(k, step) PROVE call[k] \in Call /\ call[k].event \in Event
    BY <2>2 DEF At, TypeOK, Call
  <2>3. CASE TellHub(k)
    <3>1. call' \in [Calls -> Call \cup {NoCall}]
      BY <2>2, <2>3 DEF TellHub, TypeOK, Call
    <3> QED BY <2>2, <2>3, <3>1, DeltaType DEF TellHub, TypeOK
  <2>4. CASE Notify(k)
    <3>1. call' \in [Calls -> Call \cup {NoCall}]
      BY <2>2, <2>4 DEF Notify, TypeOK, Call
    <3> QED BY <2>2, <2>4, <3>1, OfferType DEF Notify, SendToUser, TypeOK
  <2>5. CASE Publish(k)
    <3>1. call' \in [Calls -> Call \cup {NoCall}]
      BY <2>5 DEF Publish, TypeOK
    <3> QED BY <2>2, <2>5, <3>1, DeliverType DEF Publish, TypeOK
  <2> QED BY <1>2, <2>1, <2>3, <2>4, <2>5 DEF MembershipCall
<1>3. ASSUME NEW p \in Projects, SilentChange(p) PROVE TypeOK'
  <2>1. member' \in [Users -> SUBSET Projects]
    BY <1>3 DEF SilentChange, TypeOK
  <2> QED BY <1>3, <2>1, BoundsAssumption DEF SilentChange, TypeOK
<1>4. ASSUME NEW p \in Projects, NEW u \in Users, JobEvent(u, p) PROVE TypeOK'
  <2>1. events' \in 0..MaxEvents /\ events + 1 \in 1..MaxEvents
    BY <1>4, BoundsAssumption DEF JobEvent, TypeOK
  <2>2. [id |-> events + 1, kind |-> "job", user |-> u, project |-> p, origin |-> "other"] \in Event
    BY <2>1 DEF Event
  <2>3. queue' \in Seq(Event) /\ Len(queue') <= MaxQueue
    BY <1>4, <2>2, DeliverType DEF JobEvent
  <2> QED BY <1>4, <2>1, <2>3 DEF JobEvent, TypeOK
<1>5. ASSUME NEW f \in Callers, Refresher(f) PROVE TypeOK'
  <2>1. refresh[f] \in [pc : {"idle", "load"}, todo : SUBSET Users, loaded : Loaded]
    BY DEF TypeOK
  <2>2. CASE Apply(f)
    <3>1. NotLoaded \in Loaded
      BY DEF NotLoaded, Loaded
    <3>2. refresh' \in [Callers -> [pc : {"idle", "load"}, todo : SUBSET Users, loaded : Loaded]]
      BY <2>2, <3>1 DEF Apply, IdleRefresh, TypeOK
    <3>3. \A u \in DOMAIN refresh[f].loaded : refresh[f].loaded[u] \in SUBSET Projects
      BY <2>1 DEF Loaded
    <3>4. pids' \in [Clients -> SUBSET Projects]
      BY <2>2, <3>3 DEF Apply, Refreshed, TypeOK
    <3> QED BY <2>2, <3>2, <3>4 DEF Apply, TypeOK
  <2>3. ASSUME NEW u \in Users, LoadUser(f, u) PROVE TypeOK'
    <3> DEFINE new == [x \in DOMAIN refresh[f].loaded \cup {u} |->
                         IF x = u THEN member[u] ELSE refresh[f].loaded[x]]
    <3>1. PICK U \in SUBSET Users : refresh[f].loaded \in [U -> SUBSET Projects]
      BY <2>1 DEF Loaded
    <3>2. new \in [U \cup {u} -> SUBSET Projects]
      BY <3>1 DEF TypeOK
    <3>3. new \in Loaded
      BY <3>2 DEF Loaded
    <3>4. refresh'[f] = [refresh[f] EXCEPT !.todo = @ \ {u}, !.loaded = new]
      BY <2>3 DEF LoadUser, TypeOK
    <3>5. refresh'[f] \in [pc : {"idle", "load"}, todo : SUBSET Users, loaded : Loaded]
      BY <2>1, <3>3, <3>4
    <3> QED BY <2>3, <3>5 DEF LoadUser, TypeOK
  <2>4. ASSUME NEW u \in Users, LoadFails(f, u) PROVE TypeOK'
    BY <2>1, <2>4 DEF LoadFails, TypeOK
  <2> QED BY <1>5, <2>2, <2>3, <2>4 DEF Refresher
<1>6. CASE Tick
  BY <1>6, StartType DEF Tick, TypeOK, Callers
<1>7. CASE Subscriber
  <2>1. CASE Subscribe
    BY <2>1, StartType DEF Subscribe, TypeOK, Callers
  <2>2. CASE LoseConnection
    BY <2>2, BoundsAssumption DEF LoseConnection, TypeOK
  <2>3. ASSUME queue # <<>>
        PROVE  Head(queue) \in Event /\ Tail(queue) \in Seq(Event) /\ Len(Tail(queue)) <= MaxQueue
    BY <2>3, HeadTailProperties, BoundsAssumption DEF TypeOK
  <2>4. CASE LoseMessage
    BY <2>3, <2>4 DEF LoseMessage, TypeOK
  <2>5. CASE HandleDelta
    BY <2>3, <2>5, DeltaType DEF HandleDelta, TypeOK
  <2>6. CASE HandleSend
    <3>1. ch' \in [Clients -> Seq(Event)] /\ \A c \in Clients : Len(ch'[c]) <= ClientBufferSize
      <4>1. CASE UNCHANGED ch BY <4>1 DEF TypeOK
      <4>2. CASE ~UNCHANGED ch
        BY <2>3, <2>6, <4>2, OfferType DEF HandleSend, SendToUser, Broadcast
      <4> QED BY <4>1, <4>2
    <3> QED BY <2>3, <2>6, <3>1 DEF HandleSend, TypeOK
  <2>7. CASE Restart
    <3>1. NotLoaded \in Loaded
      BY DEF NotLoaded, Loaded
    <3>2. refresh' \in [Callers -> [pc : {"idle", "load"}, todo : SUBSET Users, loaded : Loaded]]
      BY <2>7, <3>1 DEF Restart, IdleRefresh
    <3>3. call' \in [Calls -> Call \cup {NoCall}]
      BY <2>7 DEF Restart, TypeOK
    <3>4. queue' \in Seq(Event) /\ Len(queue') <= MaxQueue
      BY <2>7, BoundsAssumption DEF Restart
    <3> QED BY <2>7, <3>2, <3>3, <3>4, DropType DEF Restart, TypeOK
  <2> QED BY <1>7, <2>1, <2>2, <2>4, <2>5, <2>6, <2>7 DEF Subscriber
<1>8. CASE UNCHANGED vars
  BY <1>8 DEF TypeOK, vars
<1> QED BY <1>1, <1>2, <1>3, <1>4, <1>5, <1>6, <1>7, <1>8 DEF Next

\* TypeOK holds for any instance: in particular no channel outgrows its buffer.
THEOREM TypeCorrect == Spec => []TypeOK
<1>1. Init => TypeOK                     BY TypeInit
<1>2. TypeOK /\ [Next]_vars => TypeOK'   BY TypeStep
<1> QED BY <1>1, <1>2, PTL DEF Spec

-----------------------------------------------------------------------------
(* Capacity.                                                               *)

\* The clients are finitely many.
LEMMA RegisteredFinite == IsFiniteSet(Registered) /\ Cardinality(Registered) \in Nat
BY ClientsAssumption, FS_Subset, FS_CardinalityType DEF Registered

\* A connection that finds room leaves the hub within its limit.
LEMMA AdmitCapacity ==
  ASSUME TypeOK, NEW c \in Clients, HasCapacity, stream' = [stream EXCEPT ![c] = "on"]
  PROVE  WithinCapacity'
<1>1. Registered' = Registered \cup {c}
  BY DEF Registered, TypeOK
<1>2. \/ Cardinality(Registered \cup {c}) = Cardinality(Registered)
      \/ Cardinality(Registered \cup {c}) = Cardinality(Registered) + 1
  <2>1. CASE c \in Registered
    <3>1. Registered \cup {c} = Registered
      BY <2>1
    <3> QED BY <3>1
  <2>2. CASE c \notin Registered
    BY <2>2, RegisteredFinite, FS_AddElement
  <2> QED BY <2>1, <2>2
<1> QED BY <1>1, <1>2, RegisteredFinite, BoundsAssumption DEF HasCapacity, WithinCapacity

\* Connections that end leave room.
LEMMA LeaveCapacity ==
  ASSUME TypeOK, WithinCapacity, Registered' \subseteq Registered PROVE WithinCapacity'
<1> DEFINE R == Registered
           S == Registered'
<1>1. IsFiniteSet(R) /\ Cardinality(R) \in Nat
  BY RegisteredFinite
<1> HIDE DEF R, S
<1>2. IsFiniteSet(S) /\ Cardinality(S) <= Cardinality(R)
  BY <1>1, FS_Subset DEF R, S
<1>3. Cardinality(S) \in Nat
  BY <1>2, FS_CardinalityType
<1>4. Cardinality(R) <= MaxConns
  BY DEF WithinCapacity, R
<1>5. Cardinality(S) <= MaxConns
  BY <1>1, <1>2, <1>3, <1>4, BoundsAssumption
<1> QED BY <1>5 DEF WithinCapacity, S

\* Every step keeps the hub within its limit.
LEMMA CapacityStep == TypeOK /\ WithinCapacity /\ [Next]_vars => WithinCapacity'
<1> SUFFICES ASSUME TypeOK, WithinCapacity, [Next]_vars PROVE WithinCapacity'
  OBVIOUS
<1>1. ASSUME NEW c \in Clients, Connection(c) PROVE WithinCapacity'
  <2>1. CASE Register(c)
    <3>1. CASE HasCapacity
      BY <2>1, <3>1, AdmitCapacity DEF Register
    <3>2. CASE ~HasCapacity
      <4>1. Registered' \subseteq Registered
        BY <2>1, <3>2 DEF Register, Registered, TypeOK
      <4> QED BY <4>1, LeaveCapacity
    <3> QED BY <3>1, <3>2
  <2>2. CASE OpenLog(c)
    BY <2>2, AdmitCapacity DEF OpenLog
  <2>3. CASE Connect(c) \/ LoadProjects(c) \/ WriteFrame(c) \/ Disconnect(c)
    <3>1. Registered' \subseteq Registered
      BY <2>3 DEF Connect, LoadProjects, WriteFrame, Disconnect, Drop, Registered, TypeOK
    <3> QED BY <3>1, LeaveCapacity
  <2> QED BY <1>1, <2>1, <2>2, <2>3 DEF Connection
<1>2. ASSUME Registered' \subseteq Registered PROVE WithinCapacity'
  BY <1>2, LeaveCapacity
<1>3. CASE Restart
  BY <1>2, <1>3 DEF Restart, Drop, Registered
<1>4. CASE UNCHANGED stream
  BY <1>2, <1>4 DEF Registered
<1>5. ASSUME NEW k \in Calls, MembershipCall(k) PROVE UNCHANGED stream
  BY <1>5 DEF MembershipCall, Change, TellHub, Notify, Publish
<1>6. ASSUME NEW p \in Projects, SilentChange(p) \/ \E u \in Users : JobEvent(u, p)
      PROVE  UNCHANGED stream
  BY <1>6 DEF SilentChange, JobEvent
<1>7. ASSUME NEW f \in Callers, Refresher(f) PROVE UNCHANGED stream
  BY <1>7 DEF Refresher, Apply, LoadUser, LoadFails
<1>8. CASE Subscriber /\ ~Restart
  BY <1>4, <1>8 DEF Subscriber, Subscribe, LoseConnection, LoseMessage, HandleDelta, HandleSend
<1> QED BY <1>1, <1>3, <1>4, <1>5, <1>6, <1>7, <1>8 DEF Next, Tick, vars

\* WithinCapacity: for any number of connections that pass the early check
\* together, Register admits no more than the limit.
THEOREM WithinCapacityCorrect == Spec => []WithinCapacity
<1>1. Init => TypeOK /\ WithinCapacity
  <2> SUFFICES ASSUME Init PROVE WithinCapacity
    BY TypeInit
  <2>1. Registered = {}
    BY DEF Init, Registered
  <2> QED BY <2>1, FS_EmptySet, BoundsAssumption DEF WithinCapacity
<1>2. TypeOK /\ WithinCapacity /\ [Next]_vars => (TypeOK /\ WithinCapacity)'
  BY TypeStep, CapacityStep
<1> QED BY <1>1, <1>2, PTL DEF Spec

-----------------------------------------------------------------------------
(* Own events.                                                             *)

\* Client c has got the event e of this process, or has it before it.
OwnFrame(c, e) ==
  e.origin = "self" /\ (e \in written[c] \/ \E n \in DOMAIN ch[c] : ch[c][n] = e)

\* A handler still has to notify its own clients of e.
Outstanding(k, e) ==
  call[k] # NoCall /\ call[k].pc \in {"delta", "notify"} /\ call[k].event = e

\* The requests in flight are about different events.
CallsDistinct ==
  /\ \A k \in Calls : call[k] # NoCall => call[k].event.id <= events
  /\ \A k, l \in Calls : k # l /\ call[k] # NoCall /\ call[l] # NoCall =>
       call[k].event.id # call[l].event.id

\* What has reached a client is no longer outstanding.
FramesDone ==
  \A c \in Clients, e \in Event : OwnFrame(c, e) =>
    e.id <= events /\ \A k \in Calls : ~Outstanding(k, e)

\* handleMessage goes on only with events of other processes.
HeadForeign == applied => queue # <<>> /\ Head(queue).origin # "self"

\* The inductive invariant.
OwnInv == TypeOK /\ CallsDistinct /\ FramesDone /\ HeadForeign /\ OwnOnce

\* Offering a frame that is not a repetition.
LEMMA OfferOnce ==
  ASSUME TypeOK, OwnOnce, NEW C, NEW e \in Event, Offer(C, e), UNCHANGED written,
         \A c \in Clients : ~OwnFrame(c, e)
  PROVE  /\ OwnOnce'
         /\ \A c \in Clients, x \in Event : OwnFrame(c, x)' => OwnFrame(c, x) \/ x = e
<1> SUFFICES ASSUME NEW c \in Clients
             PROVE  /\ \A n \in DOMAIN ch'[c] : ch'[c][n].origin = "self" =>
                         /\ ch'[c][n] \notin written[c]
                         /\ \A m \in 1..(n - 1) : ch'[c][m] # ch'[c][n]
                    /\ \A x \in Event : OwnFrame(c, x)' => OwnFrame(c, x) \/ x = e
  BY DEF OwnOnce
<1>1. CASE ch'[c] = ch[c]
  BY <1>1 DEF OwnOnce, OwnFrame
<1>2. CASE ch'[c] = Append(ch[c], e)
  <2>1. ch[c] \in Seq(Event) /\ Len(ch[c]) \in Nat /\ DOMAIN ch[c] = 1..Len(ch[c])
    BY DEF TypeOK
  <2>2. /\ DOMAIN ch'[c] = 1..(Len(ch[c]) + 1)
        /\ ch'[c][Len(ch[c]) + 1] = e
        /\ \A n \in 1..Len(ch[c]) : ch'[c][n] = ch[c][n]
    BY <1>2, <2>1, AppendProperties
  <2>3. \A x \in Event : OwnFrame(c, x)' => OwnFrame(c, x) \/ x = e
    BY <2>1, <2>2 DEF OwnFrame
  <2>4. ASSUME NEW n \in DOMAIN ch'[c], ch'[c][n].origin = "self"
        PROVE  ch'[c][n] \notin written[c] /\ \A m \in 1..(n - 1) : ch'[c][m] # ch'[c][n]
    <3>1. CASE n = Len(ch[c]) + 1
      BY <2>1, <2>2, <2>4, <3>1 DEF OwnFrame
    <3>2. CASE n \in 1..Len(ch[c])
      <4>1. /\ n \in DOMAIN ch[c] /\ ch'[c][n] = ch[c][n]
            /\ \A m \in 1..(n - 1) : ch'[c][m] = ch[c][m]
        BY <2>1, <2>2, <3>2
      <4> QED BY <2>4, <4>1 DEF OwnOnce
    <3> QED BY <2>1, <2>2, <3>1, <3>2
  <2> QED BY <2>3, <2>4
<1> QED BY <1>1, <1>2 DEF Offer

\* Offering a frame of another process.
LEMMA OfferForeign ==
  ASSUME TypeOK, OwnOnce, NEW C, NEW e \in Event, Offer(C, e), UNCHANGED written, e.origin # "self"
  PROVE  /\ OwnOnce'
         /\ \A c \in Clients, x \in Event : OwnFrame(c, x)' => OwnFrame(c, x)
<1>1. \A c \in Clients : ~OwnFrame(c, e)
  BY DEF OwnFrame
<1>2. OwnOnce' /\ \A c \in Clients, x \in Event : OwnFrame(c, x)' => OwnFrame(c, x) \/ x = e
  BY <1>1, OfferOnce
<1> QED BY <1>2 DEF OwnFrame

\* Writing a frame out.
LEMMA WriteOnce ==
  ASSUME TypeOK, OwnOnce, NEW c \in Clients, WriteFrame(c)
  PROVE  /\ OwnOnce'
         /\ \A x \in Clients, e \in Event : OwnFrame(x, e)' => OwnFrame(x, e)
<1>1. /\ ch[c] \in Seq(Event) /\ ch[c] # <<>> /\ Len(ch[c]) \in Nat
      /\ DOMAIN ch[c] = 1..Len(ch[c])
  BY DEF WriteFrame, TypeOK
<1>2. /\ Head(ch[c]) = ch[c][1] /\ Len(ch[c]) >= 1
      /\ DOMAIN ch'[c] = 1..(Len(ch[c]) - 1)
      /\ \A n \in 1..(Len(ch[c]) - 1) : ch'[c][n] = ch[c][n + 1]
  BY <1>1, HeadTailProperties DEF WriteFrame, TypeOK
<1>3. \A e \in written'[c] : e \in written[c] \/ (e = ch[c][1] /\ e.origin = "self")
  BY <1>2 DEF WriteFrame, TypeOK
<1>4. \A x \in Clients \ {c} : ch'[x] = ch[x] /\ written'[x] = written[x]
  BY DEF WriteFrame, TypeOK
<1>5. \A n \in DOMAIN ch'[c] : n \in Nat /\ n >= 1 /\ n + 1 \in DOMAIN ch[c]
                              /\ ch'[c][n] = ch[c][n + 1] /\ 1 \in 1..((n + 1) - 1)
  BY <1>1, <1>2
<1>6. \A e \in Event : OwnFrame(c, e)' => OwnFrame(c, e)
  BY <1>1, <1>2, <1>3, <1>5 DEF OwnFrame
<1>7. ASSUME NEW n \in DOMAIN ch'[c], ch'[c][n].origin = "self"
      PROVE  ch'[c][n] \notin written'[c] /\ \A m \in 1..(n - 1) : ch'[c][m] # ch'[c][n]
  <2>1. /\ ch[c][n + 1] \notin written[c]
        /\ \A m \in 1..((n + 1) - 1) : ch[c][m] # ch[c][n + 1]
    BY <1>5, <1>7 DEF OwnOnce
  <2>2. ch'[c][n] \notin written'[c]
    BY <1>3, <1>5, <2>1
  <2>3. ASSUME NEW m \in 1..(n - 1) PROVE ch'[c][m] # ch'[c][n]
    <3>1. m \in DOMAIN ch'[c] /\ m + 1 \in 1..((n + 1) - 1)
      BY <1>1, <1>2, <1>5
    <3> QED BY <1>5, <2>1, <3>1
  <2> QED BY <2>2, <2>3
<1>8. OwnOnce'
  BY <1>4, <1>7 DEF OwnOnce
<1> QED BY <1>4, <1>6, <1>8 DEF OwnFrame

\* A step that leaves requests, frames and the message at hand alone.
LEMMA OwnSame ==
  ASSUME OwnInv, TypeOK', UNCHANGED <<call, ch, written>>, events' \in Nat, events' >= events,
         HeadForeign'
  PROVE  OwnInv'
<1>1. CallsDistinct'
  <2>1. \A k \in Calls : call[k] # NoCall => call[k].event.id \in Nat
    BY DEF OwnInv, TypeOK, Call, Event
  <2> QED BY <2>1 DEF OwnInv, CallsDistinct, TypeOK
<1>2. FramesDone'
  <2>1. \A e \in Event : e.id \in Nat
    BY DEF Event
  <2> QED BY <2>1 DEF OwnInv, FramesDone, OwnFrame, Outstanding, TypeOK
<1>3. OwnOnce'
  BY DEF OwnInv, OwnOnce
<1> QED BY <1>1, <1>2, <1>3 DEF OwnInv

\* Frames that go, or are written out or offered by other processes.
LEMMA OwnFewer ==
  ASSUME OwnInv, TypeOK', UNCHANGED <<call, events>>, OwnOnce', HeadForeign',
         \A c \in Clients, e \in Event : OwnFrame(c, e)' => OwnFrame(c, e)
  PROVE  OwnInv'
<1>1. CallsDistinct'
  BY DEF OwnInv, CallsDistinct
<1>2. FramesDone'
  BY DEF OwnInv, FramesDone, Outstanding
<1> QED BY <1>1, <1>2 DEF OwnInv

\* A message that arrives leaves the one at hand where it is.
LEMMA DeliverHead ==
  ASSUME TypeOK, HeadForeign, NEW e \in Event, Deliver(e), UNCHANGED applied
  PROVE  HeadForeign'
<1>1. CASE UNCHANGED queue
  BY <1>1 DEF HeadForeign
<1>2. ASSUME NEW n \in 1..2, queue' = queue \o [x \in 1..n |-> e], applied
      PROVE  queue' # <<>> /\ Head(queue').origin # "self"
  <2>1. queue \in Seq(Event) /\ [x \in 1..n |-> e] \in Seq(Event) /\ queue # <<>>
    BY <1>2 DEF TypeOK, HeadForeign
  <2>2. Len(queue) >= 1 /\ Len(queue) \in Nat /\ Len([x \in 1..n |-> e]) = n
    BY <2>1
  <2>3. queue' \in Seq(Event) /\ Len(queue') = Len(queue) + n /\ queue'[1] = queue[1]
    BY <1>2, <2>1, <2>2, ConcatProperties
  <2> QED BY <1>2, <2>1, <2>2, <2>3 DEF HeadForeign
<1> QED BY <1>1, <1>2 DEF Deliver, HeadForeign

\* Connections that end take their frames with them.
LEMMA DropOwn ==
  ASSUME TypeOK, OwnOnce, NEW C, Drop(C)
  PROVE  /\ OwnOnce'
         /\ \A c \in Clients, e \in Event : OwnFrame(c, e)' => OwnFrame(c, e)
<1>1. \A c \in Clients : \/ ch'[c] = <<>> /\ written'[c] = {}
                         \/ ch'[c] = ch[c] /\ written'[c] = written[c]
  BY DEF Drop
<1>2. DOMAIN <<>> = {}
  OBVIOUS
<1> QED BY <1>1, <1>2 DEF OwnOnce, OwnFrame

\* A change of memberships makes an event nobody has seen.
LEMMA ChangeOwn ==
  ASSUME OwnInv, TypeOK', NEW k \in Calls, NEW origin \in {"self", "other"}, NEW kind \in Personal,
         NEW u \in Users, NEW p \in Projects, Change(k, origin, kind, u, p)
  PROVE  OwnInv'
<1>1. /\ UNCHANGED <<ch, written, queue, applied>>
      /\ events \in Nat /\ events' = events + 1
      /\ call'[k] # NoCall => call'[k].event.id = events + 1
      /\ \A l \in Calls \ {k} : call'[l] = call[l]
  BY DEF Change, OwnInv, TypeOK, hubVars, subVars
<1>2. \A l \in Calls : call[l] # NoCall => call[l].event.id \in Nat /\ call[l].event.id <= events
  BY DEF OwnInv, CallsDistinct, TypeOK, Call, Event
<1>3. CallsDistinct'
  BY <1>1, <1>2 DEF OwnInv, CallsDistinct
<1>4. \A c \in Clients, e \in Event : OwnFrame(c, e)' = OwnFrame(c, e)
  BY <1>1 DEF OwnFrame
<1>5. FramesDone'
  <2> SUFFICES ASSUME NEW c \in Clients, NEW e \in Event, OwnFrame(c, e)
               PROVE  e.id <= events' /\ \A l \in Calls : ~Outstanding(l, e)'
    BY <1>4 DEF FramesDone
  <2>1. e.id \in Nat /\ e.id <= events /\ \A l \in Calls : ~Outstanding(l, e)
    BY DEF OwnInv, FramesDone, Event
  <2> QED BY <1>1, <2>1 DEF Outstanding
<1>6. OwnOnce' /\ HeadForeign'
  BY <1>1 DEF OwnInv, OwnOnce, HeadForeign
<1> QED BY <1>3, <1>5, <1>6 DEF OwnInv

\* A step of a request in flight keeps the events of the requests apart.
LEMMA CallOwn ==
  ASSUME OwnInv, NEW k \in Calls, call[k] # NoCall, UNCHANGED events,
         \A l \in Calls \ {k} : call'[l] = call[l],
         call'[k] = NoCall \/ call'[k].event = call[k].event
  PROVE  CallsDistinct'
BY DEF OwnInv, CallsDistinct

\* The handler notifies its clients of an event they have not got.
LEMMA NotifyOwn == ASSUME OwnInv, TypeOK', NEW k \in Calls, Notify(k) PROVE OwnInv'
<1> DEFINE e == call[k].event
<1>1. /\ call[k] # NoCall /\ call[k].pc = "notify" /\ call[k] \in Call /\ e \in Event
      /\ UNCHANGED <<written, events, queue, applied>>
      /\ Offer(ClientsOf(e.user), e)
      /\ \A l \in Calls \ {k} : call'[l] = call[l]
      /\ call'[k].pc = "publish" /\ call'[k].event = e
  BY DEF Notify, At, SendToUser, OwnInv, TypeOK, Call, subVars
<1>2. Outstanding(k, e)
  BY <1>1 DEF Outstanding
<1>3. \A c \in Clients : ~OwnFrame(c, e)
  BY <1>1, <1>2 DEF OwnInv, FramesDone
<1>4. OwnOnce' /\ \A c \in Clients, x \in Event : OwnFrame(c, x)' => OwnFrame(c, x) \/ x = e
  BY <1>1, <1>3, OfferOnce DEF OwnInv
<1>5. CallsDistinct'
  BY <1>1, CallOwn
<1>6. \A l \in Calls, x \in Event : Outstanding(l, x)' => Outstanding(l, x) /\ l # k
  BY <1>1 DEF Outstanding
<1>7. \A l \in Calls : l # k => ~Outstanding(l, e)
  BY <1>1 DEF OwnInv, CallsDistinct, Outstanding
<1>8. FramesDone'
  <2> SUFFICES ASSUME NEW c \in Clients, NEW x \in Event, OwnFrame(c, x)'
               PROVE  x.id <= events /\ \A l \in Calls : ~Outstanding(l, x)'
    BY <1>1 DEF FramesDone
  <2>1. CASE x = e
    BY <2>1, <1>1, <1>6, <1>7 DEF OwnInv, CallsDistinct
  <2>2. CASE OwnFrame(c, x)
    BY <2>2, <1>6 DEF OwnInv, FramesDone
  <2> QED BY <1>4, <2>1, <2>2
<1>9. HeadForeign'
  BY <1>1 DEF OwnInv, HeadForeign
<1> QED BY <1>4, <1>5, <1>8, <1>9 DEF OwnInv

\* A request that goes on without sending to its own clients, or ends.
LEMMA CallFewer ==
  ASSUME OwnInv, TypeOK', UNCHANGED events, OwnOnce', HeadForeign', CallsDistinct',
         \A c \in Clients, e \in Event : OwnFrame(c, e)' => OwnFrame(c, e),
         \A k \in Calls, e \in Event : Outstanding(k, e)' => Outstanding(k, e)
  PROVE  OwnInv'
<1>1. FramesDone'
  BY DEF OwnInv, FramesDone
<1> QED BY <1>1 DEF OwnInv

\* Nothing has been sent at first.
LEMMA OwnInit == Init => OwnInv
<1> SUFFICES ASSUME Init PROVE OwnInv
  OBVIOUS
<1>1. DOMAIN <<>> = {}
  OBVIOUS
<1>2. \A c \in Clients : ch[c] = <<>> /\ written[c] = {}
  BY DEF Init
<1>3. OwnOnce
  BY <1>1, <1>2 DEF OwnOnce
<1>4. FramesDone
  BY <1>1, <1>2 DEF FramesDone, OwnFrame
<1>5. CallsDistinct /\ HeadForeign
  BY DEF Init, CallsDistinct, HeadForeign
<1> QED BY <1>3, <1>4, <1>5, TypeInit DEF OwnInv

\* Every step keeps the invariant.
LEMMA OwnStep == OwnInv /\ [Next]_vars => OwnInv'
<1> SUFFICES ASSUME OwnInv, [Next]_vars PROVE OwnInv'
  OBVIOUS
<1> USE DEF hubVars, subVars
<1>1. /\ TypeOK /\ OwnOnce /\ HeadForeign
      /\ TypeOK'
      /\ events \in Nat
  BY TypeStep, BoundsAssumption DEF OwnInv, TypeOK
<1>2. ASSUME UNCHANGED <<call, ch, written, queue, applied>>, events' = events \/ events' = events + 1
      PROVE  OwnInv'
  <2>1. HeadForeign'
    BY <1>1, <1>2 DEF HeadForeign
  <2>2. events' \in Nat /\ events' >= events
    BY <1>1, <1>2
  <2> QED BY <1>1, <1>2, <2>1, <2>2, OwnSame
<1>3. ASSUME UNCHANGED <<queue, applied>> PROVE HeadForeign'
  BY <1>1, <1>3 DEF HeadForeign
<1>4. ASSUME NEW c \in Clients, Connection(c) PROVE OwnInv'
  <2>1. CASE Connect(c) \/ LoadProjects(c) \/ Register(c) \/ OpenLog(c)
    BY <1>2, <2>1 DEF Connect, LoadProjects, Register, OpenLog
  <2>2. CASE WriteFrame(c)
    <3>1. UNCHANGED <<call, events, queue, applied>>
      BY <2>2 DEF WriteFrame
    <3> QED BY <1>1, <1>3, <2>2, <3>1, WriteOnce, OwnFewer
  <2>3. CASE Disconnect(c)
    <3>1. UNCHANGED <<call, events, queue, applied>> /\ Drop({c})
      BY <2>3 DEF Disconnect
    <3> QED BY <1>1, <1>3, <3>1, DropOwn, OwnFewer
  <2> QED BY <1>4, <2>1, <2>2, <2>3 DEF Connection
<1>5. ASSUME NEW k \in Calls, MembershipCall(k) PROVE OwnInv'
  <2>1. ASSUME NEW step, At(k, step)
        PROVE  call[k] # NoCall /\ call[k] \in Call /\ call[k].event \in Event /\ call[k].pc = step
    BY <1>1, <2>1 DEF At, TypeOK, Call
  <2>2. CASE TellHub(k)
    <3>1. /\ UNCHANGED <<events, ch, written, queue, applied>>
          /\ call[k] # NoCall /\ call[k].pc = "delta"
          /\ \A l \in Calls \ {k} : call'[l] = call[l]
          /\ call'[k].event = call[k].event
      BY <1>1, <2>1, <2>2 DEF TellHub, TypeOK, Call
    <3>2. CallsDistinct'
      BY <3>1, CallOwn
    <3>3. \A l \in Calls, e \in Event : Outstanding(l, e)' => Outstanding(l, e)
      BY <3>1 DEF Outstanding
    <3>4. OwnOnce' /\ \A c \in Clients, e \in Event : OwnFrame(c, e)' => OwnFrame(c, e)
      BY <1>1, <3>1 DEF OwnOnce, OwnFrame
    <3> QED BY <1>1, <1>3, <3>1, <3>2, <3>3, <3>4, CallFewer
  <2>3. CASE Notify(k)
    BY <1>1, <2>3, NotifyOwn
  <2>4. CASE Publish(k)
    <3>1. /\ UNCHANGED <<events, ch, written, applied>>
          /\ call[k] # NoCall /\ call[k].event \in Event /\ Deliver(call[k].event)
          /\ \A l \in Calls \ {k} : call'[l] = call[l]
          /\ call'[k] = NoCall
      BY <1>1, <2>1, <2>4 DEF Publish, TypeOK
    <3>2. CallsDistinct'
      BY <3>1, CallOwn
    <3>3. \A l \in Calls, e \in Event : Outstanding(l, e)' => Outstanding(l, e)
      BY <3>1 DEF Outstanding
    <3>4. OwnOnce' /\ \A c \in Clients, e \in Event : OwnFrame(c, e)' => OwnFrame(c, e)
      BY <1>1, <3>1 DEF OwnOnce, OwnFrame
    <3>5. HeadForeign'
      BY <1>1, <3>1, DeliverHead
    <3> QED BY <1>1, <3>1, <3>2, <3>3, <3>4, <3>5, CallFewer
  <2> QED BY <1>1, <1>5, <2>2, <2>3, <2>4, ChangeOwn DEF MembershipCall
<1>6. ASSUME NEW p \in Projects, SilentChange(p) PROVE OwnInv'
  BY <1>2, <1>6 DEF SilentChange
<1>7. ASSUME NEW p \in Projects, NEW u \in Users, JobEvent(u, p) PROVE OwnInv'
  <2>1. events' = events + 1 /\ UNCHANGED <<call, ch, written, applied>>
    BY <1>7 DEF JobEvent
  <2>2. events + 1 \in 1..MaxEvents
    BY <1>1, <1>7, BoundsAssumption DEF JobEvent, TypeOK
  <2>3. [id |-> events + 1, kind |-> "job", user |-> u, project |-> p, origin |-> "other"] \in Event
    BY <2>2 DEF Event
  <2>4. HeadForeign'
    BY <1>1, <1>7, <2>1, <2>3, DeliverHead DEF JobEvent
  <2>5. events' \in Nat /\ events' >= events
    BY <1>1, <2>1
  <2> QED BY <1>1, <2>1, <2>4, <2>5, OwnSame
<1>8. ASSUME NEW f \in Callers, Refresher(f) PROVE OwnInv'
  BY <1>2, <1>8 DEF Refresher, Apply, LoadUser, LoadFails
<1>9. CASE Tick
  BY <1>2, <1>9 DEF Tick
<1>10. CASE Subscriber
  <2>1. CASE Subscribe
    BY <1>2, <2>1 DEF Subscribe
  <2>2. CASE LoseConnection \/ LoseMessage
    <3>1. UNCHANGED <<call, ch, written, events>> /\ HeadForeign'
      BY <2>2 DEF LoseConnection, LoseMessage, HeadForeign
    <3> QED BY <1>1, <3>1, OwnSame
  <2>3. CASE HandleDelta
    <3>1. UNCHANGED <<call, ch, written, events>> /\ HeadForeign'
      BY <2>3 DEF HandleDelta, HeadForeign, Own
    <3> QED BY <1>1, <3>1, OwnSame
  <2>4. CASE HandleSend
    <3>1. UNCHANGED <<call, written, events>> /\ HeadForeign'
      BY <2>4 DEF HandleSend, HeadForeign
    <3>2. OwnOnce' /\ \A c \in Clients, e \in Event : OwnFrame(c, e)' => OwnFrame(c, e)
      <4>1. CASE UNCHANGED ch
        BY <1>1, <3>1, <4>1 DEF OwnOnce, OwnFrame
      <4>2. CASE ~UNCHANGED ch
        <5>1. Head(queue) \in Event /\ Head(queue).origin # "self"
          BY <1>1, <2>4, <4>2, HeadTailProperties DEF HandleSend, HeadForeign, TypeOK
        <5>2. \E C : Offer(C, Head(queue))
          BY <2>4, <4>2 DEF HandleSend, SendToUser, Broadcast
        <5> QED BY <1>1, <3>1, <5>1, <5>2, OfferForeign
      <4> QED BY <4>1, <4>2
    <3> QED BY <1>1, <3>1, <3>2, OwnFewer
  <2>5. CASE Restart
    <3>1. /\ UNCHANGED events /\ Drop(Clients) /\ HeadForeign'
          /\ \A k \in Calls : call'[k] = NoCall \/ call'[k] = call[k]
      BY <2>5 DEF Restart, HeadForeign
    <3>2. CallsDistinct'
      BY <3>1 DEF OwnInv, CallsDistinct
    <3>3. \A k \in Calls, e \in Event : Outstanding(k, e)' => Outstanding(k, e)
      BY <3>1 DEF Outstanding
    <3>4. OwnOnce' /\ \A c \in Clients, e \in Event : OwnFrame(c, e)' => OwnFrame(c, e)
      BY <1>1, <3>1, DropOwn
    <3> QED BY <1>1, <3>1, <3>2, <3>3, <3>4, CallFewer
  <2> QED BY <1>10, <2>1, <2>2, <2>3, <2>4, <2>5 DEF Subscriber
<1>11. CASE UNCHANGED vars
  BY <1>2, <1>11 DEF vars
<1> QED BY <1>4, <1>5, <1>6, <1>7, <1>8, <1>9, <1>10, <1>11 DEF Next

\* OwnOnce: whatever Redis repeats, however requests, messages and restarts
\* interleave, no client is sent an event of the process's handlers twice.
THEOREM OwnOnceCorrect == Spec => []OwnOnce
<1>1. Init => OwnInv                     BY OwnInit
<1>2. OwnInv /\ [Next]_vars => OwnInv'   BY OwnStep
<1>3. OwnInv => OwnOnce                  BY DEF OwnInv
<1> QED BY <1>1, <1>2, <1>3, PTL DEF Spec
=============================================================================
