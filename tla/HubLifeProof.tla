---------------------------- MODULE HubLifeProof ----------------------------
(***************************************************************************)
(* The types are preserved by every step of the hub, and the life cycle of  *)
(* users and events by the network callbacks, for any set of users, nicks,  *)
(* CIDs, SIDs and accounts.                                                 *)
(***************************************************************************)
EXTENDS HubProps, TLAPS

-----------------------------------------------------------------------------
(* Types, and what the event queue does to its events.                     *)

\* The JOIN event that hub_handle_info posts.
LEMMA JoinFacts ==
  ASSUME NEW u \in User, NEW needs \in BOOLEAN
  PROVE  /\ Join(u, needs) \in Event
         /\ Join(u, needs).id = "JOIN" /\ Join(u, needs).ptr = u /\ Join(u, needs).flags = needs
BY DEF Join, Event

\* What event_queue_post does to the queue: the new event is the last one.
LEMMA AppendFacts ==
  ASSUME NEW S, NEW q \in Seq(S), NEW e \in S
  PROVE  /\ Append(q, e) \in Seq(S)
         /\ Len(Append(q, e)) = Len(q) + 1
         /\ \A i \in 1..Len(q) : Append(q, e)[i] = q[i]
         /\ Append(q, e)[Len(q) + 1] = e
OBVIOUS

\* What taking an event does to the queue: the others move up by one.
LEMMA TailFacts ==
  ASSUME NEW S, NEW q \in Seq(S), Len(q) > 0
  PROVE  /\ Tail(q) \in Seq(S)
         /\ Len(Tail(q)) = Len(q) - 1
         /\ \A i \in 1..(Len(q) - 1) : Tail(q)[i] = q[i + 1]
         /\ Head(q) = q[1] /\ Head(q) \in S
OBVIOUS

\* The events the hub posts are events.
LEMMA EventTypes ==
  ASSUME NEW u \in User
  PROVE  /\ \A b \in BOOLEAN : Join(u, b) \in Event
         /\ Quit(u) \in Event /\ Destroy(u) \in Event
         /\ Shutdown \in Event
         /\ DisconnectEvent(u) \in Event
BY DEF Join, Quit, Destroy, Shutdown, DisconnectEvent, Event

USE DEF idVars, umanVars, userVars, sidVars, loopVars, dataVars, vars,
        uman_send_user_list, route_to_all

\* hub_start_service leaves every variable well typed.
LEMMA TypeInit == Init => TypeOK
BY UserAssumption, ShareAssumption, NameAssumption, StatusAssumption
   DEF Init, UserManagerInit, TypeOK, UserManagerTypeOK, Status, PC, UserState

\* A disconnection preserves the types.
LEMMA DisconnectType ==
  ASSUME TypeOK, NEW D \in SUBSET User, hub_disconnect_user(D)
  PROVE  /\ state' \in [User -> UserState] /\ timer' \in [User -> BOOLEAN]
         /\ sidmap' \in [Sid -> User \cup {NoUser}] /\ noquit' \in SUBSET User
BY DEF hub_disconnect_user, sid_free, TypeOK, UserState

\* hub_disconnect_user of one user preserves the types.
LEMMA LeaveType ==
  ASSUME TypeOK, NEW u \in User, NEW q \in Seq(Event), Leave(u, q)
  PROVE  /\ queue' \in Seq(Event)
         /\ state' \in [User -> UserState] /\ timer' \in [User -> BOOLEAN]
         /\ sidmap' \in [Sid -> User \cup {NoUser}] /\ noquit' \in SUBSET User
         /\ UNCHANGED <<info, choke, sid>>
<1>1. queue' \in Seq(Event)
  BY EventTypes, AppendFacts DEF Leave
<1> QED
  BY <1>1, DisconnectType DEF Leave

\* on_login_success preserves the types.
LEMMA LoginType ==
  ASSUME TypeOK, NEW u \in User, on_login_success(u)
  PROVE  /\ UserManagerTypeOK'
         /\ state' \in [User -> UserState] /\ timer' \in [User -> BOOLEAN]
         /\ UNCHANGED <<info, choke, sid, sidmap, noquit>>
BY DEF on_login_success, uman_add, Insert, TypeOK, UserManagerTypeOK, UserState,
       idVars, sidVars

\* The ghost of a login is a logged-in user that the nick index leads to.
LEMMA GhostFacts ==
  ASSUME TypeOK, NEW n \in Nick, NEW c \in Cid
  PROVE  /\ GhostOf(n, c) \subseteq Online
         /\ GhostOf(n, c) # {} => nickmap[n] \in User /\ GhostOf(n, c) = {nickmap[n]}
         /\ GhostOf(n, c) \subseteq User
         /\ GhostQueue(n, c) \in Seq(Event)
<1>1. /\ GhostOf(n, c) \subseteq Online
      /\ GhostOf(n, c) # {} => nickmap[n] \in User /\ GhostOf(n, c) = {nickmap[n]}
      /\ GhostOf(n, c) \subseteq User
  BY DEF GhostOf, Online
<1>2. GhostQueue(n, c) \in Seq(Event)
  BY <1>1, EventTypes, AppendFacts DEF GhostQueue, TypeOK
<1> QED
  BY <1>1, <1>2

\* Every callback preserves the types.
LEMMA TypeCallback ==
  ASSUME TypeOK, NEW u \in User, Callback(u)
  PROVE  TypeOK'
<1> USE DEF TypeOK, UserManagerTypeOK
<1>1. CASE user_create(u)
  BY <1>1 DEF user_create, UserState, Connecting
<1>2. CASE hub_handle_support(u)
  BY <1>2, ChokeAssumption DEF hub_handle_support, FreeSid, UserState, Connecting
<1>3. CASE Drop(u)
  BY <1>3, LeaveType DEF Drop
<1>4. CASE Timeout(u)
  BY <1>4, LeaveType, Zenon DEF Timeout
<1>5. CASE hub_handle_password(u)
  BY <1>5, LoginType DEF hub_handle_password
<1>6. ASSUME NEW b \in Share, hub_handle_info_update(u, b)
      PROVE  TypeOK'
  BY <1>6, LeaveType DEF hub_handle_info_update
<1>7. ASSUME NEW n \in Nick, command_kick(u, n)
      PROVE  TypeOK'
  <2>1. nickmap[n] \in User
    BY <1>7 DEF command_kick, Online
  <2> QED
    BY <1>7, <2>1, LeaveType DEF command_kick
<1>8. ASSUME NEW n \in Nick, NEW c \in Cid, hub_handle_info_refused(u, n, c)
      PROVE  TypeOK'
  <2>1. GhostOf(n, c) \subseteq User /\ GhostQueue(n, c) \in Seq(Event)
    BY GhostFacts
  <2>2. queue' \in Seq(Event)
    BY <2>1, <1>8, EventTypes, AppendFacts DEF hub_handle_info_refused
  <2> QED
    BY <2>1, <2>2, <1>8, DisconnectType DEF hub_handle_info_refused
<1>9. ASSUME NEW n \in Nick, NEW c \in Cid, NEW b \in Share, hub_handle_info_login(u, n, c, b)
      PROVE  TypeOK'
  <2>1. GhostOf(n, c) \subseteq User /\ GhostQueue(n, c) \in Seq(Event)
    BY GhostFacts
  <2>2. queue' \in Seq(Event)
    <3>1. Join(u, n \in Registered) \in Event
      BY DEF Join, Event
    <3> QED
      BY <2>1, <3>1, <1>9, AppendFacts DEF hub_handle_info_login
  <2> QED
    BY <2>1, <2>2, <1>9, DisconnectType DEF hub_handle_info_login
<1> QED
  BY <1>1, <1>2, <1>3, <1>4, <1>5, <1>6, <1>7, <1>8, <1>9, Zenon DEF Callback

-----------------------------------------------------------------------------
(* The queue as a set of events.                                           *)

\* The pending events after a post ...
LEMMA AppendEvents ==
  ASSUME NEW q \in Seq(Event), NEW e \in Event, Ordered(q),
         \A d \in Events(q) : d.ptr = e.ptr => d.id = "JOIN" /\ e.id \in {"QUIT", "DESTROY"}
  PROVE  Ordered(Append(q, e))
<1> DEFINE L == Len(q)
<1> DEFINE p == Append(q, e)
<1>1. /\ L \in Nat /\ Len(p) = L + 1
      /\ \A i \in 1..L : p[i] = q[i]
      /\ p[L + 1] = e
  BY AppendFacts
<1>2. \A i \in 1..L : q[i] \in Events(q)
  BY DEF Events
<1> HIDE DEF p, L
<1> SUFFICES ASSUME NEW i \in 1..(L + 1), NEW j \in 1..(L + 1), i < j, p[i].ptr = p[j].ptr
             PROVE  p[i].id = "JOIN" /\ p[j].id \in {"QUIT", "DESTROY"}
  BY <1>1 DEF Ordered, p
<1>3. i \in 1..L
  BY <1>1
<1>4. CASE j \in 1..L
  BY <1>1, <1>3, <1>4 DEF Ordered, L
<1>5. CASE j = L + 1
  BY <1>1, <1>2, <1>3, <1>5
<1> QED
  BY <1>1, <1>4, <1>5

\* ... as a set ...
LEMMA AppendSet ==
  ASSUME NEW q \in Seq(Event), NEW e \in Event
  PROVE  /\ Events(Append(q, e)) = Events(q) \cup {e}
         /\ Events(q) \subseteq Event
<1>1. /\ Len(q) \in Nat /\ Len(Append(q, e)) = Len(q) + 1
      /\ \A i \in 1..Len(q) : Append(q, e)[i] = q[i]
      /\ Append(q, e)[Len(q) + 1] = e
  BY AppendFacts
<1>2. 1..(Len(q) + 1) = (1..Len(q)) \cup {Len(q) + 1}
  BY <1>1
<1> QED
  BY <1>1, <1>2 DEF Events

\* All of it at once, for an event that may follow those in the queue.
MayFollow(q, e) ==
  \A d \in Events(q) : d.ptr = e.ptr => d.id = "JOIN" /\ e.id \in {"QUIT", "DESTROY"}

\* post_event on such an event keeps the queue in order.
LEMMA AppendedEvent ==
  ASSUME NEW q \in Seq(Event), NEW e \in Event, Ordered(q), MayFollow(q, e),
         NEW r, r = Append(q, e)
  PROVE  /\ r \in Seq(Event) /\ Len(r) = Len(q) + 1
         /\ Events(r) = Events(q) \cup {e}
         /\ Ordered(r)
<1>1. r \in Seq(Event) /\ Len(r) = Len(q) + 1
  BY AppendFacts
<1>2. Events(r) = Events(q) \cup {e}
  BY AppendSet
<1>3. Ordered(r)
  BY AppendEvents DEF MayFollow
<1> QED
  BY <1>1, <1>2, <1>3

\* ... and after an event was taken.
LEMMA TailEvents ==
  ASSUME NEW q \in Seq(Event), Len(q) > 0
  PROVE  /\ Events(q) = {Head(q)} \cup Events(Tail(q))
         /\ Events(q) \subseteq Event
         /\ Ordered(q) =>
              /\ Ordered(Tail(q))
              /\ \A d \in Events(Tail(q)) :
                   d.ptr = Head(q).ptr
                     => Head(q).id = "JOIN" /\ d.id \in {"QUIT", "DESTROY"}
<1>1. /\ Tail(q) \in Seq(Event)
      /\ Len(q) \in Nat
      /\ Len(Tail(q)) = Len(q) - 1
      /\ \A i \in 1..(Len(q) - 1) : Tail(q)[i] = q[i + 1]
      /\ Head(q) = q[1] /\ Head(q) \in Event
  BY TailFacts
<1>2. Events(q) = {Head(q)} \cup Events(Tail(q))
  <2>1. \A i \in 1..Len(q) : i = 1 \/ (i - 1 \in 1..(Len(q) - 1) /\ i = (i - 1) + 1)
    BY <1>1
  <2>2. \A i \in 1..(Len(q) - 1) : i + 1 \in 1..Len(q)
    BY <1>1
  <2>3. Events(q) \subseteq {Head(q)} \cup Events(Tail(q))
    <3> SUFFICES ASSUME NEW i \in 1..Len(q)
                 PROVE  q[i] = Head(q) \/ q[i] \in Events(Tail(q))
      BY DEF Events
    <3>1. CASE i = 1
      BY <1>1, <3>1
    <3>2. CASE i # 1
      <4>1. i - 1 \in 1..Len(Tail(q)) /\ Tail(q)[i - 1] = q[i]
        BY <1>1, <2>1, <3>2
      <4> QED
        BY <4>1 DEF Events
    <3> QED
      BY <3>1, <3>2
  <2>4. Head(q) \in Events(q)
    BY <1>1 DEF Events
  <2>5. Events(Tail(q)) \subseteq Events(q)
    BY <1>1, <2>2 DEF Events
  <2> QED
    BY <2>3, <2>4, <2>5
<1>3. Events(q) \subseteq Event
  BY <1>1 DEF Events
<1>4. ASSUME Ordered(q)
      PROVE  Ordered(Tail(q))
  BY <1>1, <1>4 DEF Ordered
<1>5. ASSUME Ordered(q), NEW d \in Events(Tail(q)), d.ptr = Head(q).ptr
      PROVE  Head(q).id = "JOIN" /\ d.id \in {"QUIT", "DESTROY"}
  BY <1>1, <1>5 DEF Ordered, Events
<1> QED
  BY <1>2, <1>3, <1>4, <1>5

\* The event being dispatched is the first of the queue.
LEMMA HeadFacts ==
  ASSUME TypeOK, QueueOrder, QueueUsers, left > 0
  PROVE  /\ Len(queue) > 0
         /\ Head(queue) \in Events(queue) /\ Head(queue) \in Event
         /\ Head(queue).id # "SHUTDOWN" => Head(queue).ptr \in User
         /\ Tail(queue) \in Seq(Event)
         /\ Len(Tail(queue)) = Len(queue) - 1
         /\ Events(queue) = {Head(queue)} \cup Events(Tail(queue))
         /\ Events(queue) \subseteq Event
         /\ Ordered(Tail(queue))
         /\ \A d \in Events(Tail(queue)) :
              d.ptr = Head(queue).ptr
                => Head(queue).id = "JOIN" /\ d.id \in {"QUIT", "DESTROY"}
<1>1. Len(queue) \in Nat /\ Len(queue) > 0 /\ queue \in Seq(Event)
  BY DEF TypeOK, QueueOrder
<1>2. list \subseteq User
  BY DEF TypeOK, UserManagerTypeOK
<1>3. /\ Events(queue) = {Head(queue)} \cup Events(Tail(queue))
      /\ Events(queue) \subseteq Event
      /\ Ordered(Tail(queue))
      /\ \A d \in Events(Tail(queue)) :
           d.ptr = Head(queue).ptr
             => Head(queue).id = "JOIN" /\ d.id \in {"QUIT", "DESTROY"}
  BY <1>1, TailEvents DEF QueueOrder
<1>4. Tail(queue) \in Seq(Event) /\ Len(Tail(queue)) = Len(queue) - 1
  BY <1>1, TailFacts
<1> QED
  BY <1>1, <1>2, <1>3, <1>4 DEF QueueUsers, EventSound, Event

\* hub_event_dispatcher preserves the types.
LEMMA TypeDispatch ==
  ASSUME TypeOK, QueueOrder, QueueUsers, Dispatch
  PROVE  TypeOK'
<1> DEFINE u == Head(queue).ptr
<1> USE DEF TypeOK, UserManagerTypeOK
<1>0. left > 0
  BY DEF Dispatch, DispatchJoinGone, DispatchJoinPassword, DispatchJoinGuest,
         DispatchJoinDuplicate, DispatchQuit, DispatchDestroy, DispatchShutdown,
         DispatchShutdownDone, Dispatching
<1>h. /\ Tail(queue) \in Seq(Event)
      /\ Head(queue).id # "SHUTDOWN" => u \in User
  BY <1>0, HeadFacts
<1>l. left - 1 \in Nat
  BY <1>0
<1> HIDE DEF u
<1>1. CASE DispatchJoinGone
  BY <1>1, <1>h, <1>l DEF DispatchJoinGone, Dispatching
<1>2. CASE DispatchJoinPassword
  BY <1>2, <1>h, <1>l, ChokeAssumption DEF DispatchJoinPassword, Dispatching, UserState, Connecting, u
<1>3. CASE DispatchJoinGuest
  <2>1. u \in User /\ on_login_success(u)
    BY <1>3, <1>h DEF DispatchJoinGuest, Dispatching, u
  <2> QED
    BY <1>3, <1>h, <1>l, <2>1, LoginType DEF DispatchJoinGuest, Dispatching
<1>4. CASE DispatchJoinDuplicate
  <2>1. u \in User /\ Leave(u, Tail(queue))
    BY <1>4, <1>h DEF DispatchJoinDuplicate, Dispatching, u
  <2> QED
    BY <1>4, <1>h, <1>l, <2>1, LeaveType, Zenon DEF DispatchJoinDuplicate, Dispatching
<1>5. CASE DispatchQuit
  <2>1. u \in User /\ uman_remove(u) /\ uman_send_quit_message(u, Online)
        /\ queue' = Append(Tail(queue), Destroy(u)) /\ sidmap' = sid_free({u})
    BY <1>5, <1>h DEF DispatchQuit, Dispatching, u
  <2>2. queue' \in Seq(Event)
    BY <2>1, <1>h, EventTypes, AppendFacts
  <2>3. UserManagerTypeOK'
    <3>1. view' \in [User -> SUBSET User]
      BY <2>1 DEF uman_send_quit_message
    <3>2. UNCHANGED <<nick, cid, share>>
      BY <1>5 DEF DispatchQuit
    <3> QED
      BY <2>1, <3>1, <3>2 DEF uman_remove
  <2>4. sidmap' \in [Sid -> User \cup {NoUser}]
    BY <2>1 DEF sid_free
  <2> QED
    BY <1>5, <1>l, <2>2, <2>3, <2>4, Zenon DEF DispatchQuit, Dispatching
<1>6. CASE DispatchDestroy
  BY <1>6, <1>h, <1>l DEF DispatchDestroy, Dispatching, user_destroy, UserState, Freed
<1>7. CASE DispatchShutdown
  BY <1>7 DEF DispatchShutdown, uman_remove, user_destroy, UserState, Freed
<1>8. CASE DispatchShutdownDone
  BY <1>8, <1>h, <1>l DEF DispatchShutdownDone, Dispatching
<1> QED
  BY <1>1, <1>2, <1>3, <1>4, <1>5, <1>6, <1>7, <1>8, Zenon DEF Dispatch

\* hub_event_loop, main_loop and the signals preserve the types.
LEMMA TypeLoop ==
  ASSUME TypeOK, Loop \/ hub_handle_signal
  PROVE  TypeOK'
<1> USE DEF TypeOK, UserManagerTypeOK, PC, Pass, Status
<1>1. CASE hub_set_variables
  BY <1>1, StatusAssumption DEF hub_set_variables
<1>2. CASE NetDone
  BY <1>2 DEF NetDone
<1>3. CASE LoopAgain
  BY <1>3 DEF LoopAgain
<1>4. CASE LoopLeft
  BY <1>4 DEF LoopLeft
<1>5. CASE Drained
  BY <1>5 DEF Drained
<1>6. CASE hub_disconnect_all
  <2>1. Shutdown \in Event
    BY DEF Shutdown, Event
  <2> QED
    BY <1>6, <2>1, AppendFacts DEF hub_disconnect_all
<1>7. CASE DrainDone
  BY <1>7 DEF DrainDone
<1>8. CASE MainLoop
  BY <1>8 DEF MainLoop
<1>9. CASE hub_shutdown_service
  <2>1. queue' \in Seq(Event)
    BY <1>9 DEF hub_shutdown_service
  <2> QED
    BY <1>9, <2>1 DEF hub_shutdown_service, user_destroy, UserState, Freed
<1>10. CASE hub_handle_signal
  BY <1>10, StatusAssumption DEF hub_handle_signal
<1> QED
  BY <1>1, <1>2, <1>3, <1>4, <1>5, <1>6, <1>7, <1>8, <1>9, <1>10, Zenon DEF Loop

-----------------------------------------------------------------------------
(* The life cycle of users and events: the network callbacks.              *)

USE DEF idVars, umanVars, userVars, sidVars, loopVars, dataVars, vars,
        uman_send_user_list, route_to_all

Life == QueueOrder /\ QueueUsers /\ UserLife /\ DrainPhase /\ ShutdownDrained

\* A connected user is listed exactly when it is logged in, and the only event
\* it can have pending is its JOIN.
LEMMA ConnectedFacts ==
  ASSUME TypeOK, QueueUsers, UserLife, NEW u \in User,
         state[u] \in Connecting \cup {"normal"}
  PROVE  /\ u \in list <=> state[u] = "normal"
         /\ u \notin noquit
         /\ \A e \in Events(queue) : e.ptr = u => e.id = "JOIN"
<1>1. Events(queue) \subseteq Event
  BY DEF TypeOK, Events
<1>2. \A e \in Events(queue) : e.ptr = u => e.id = "JOIN"
  <2> SUFFICES ASSUME NEW e \in Events(queue), e.ptr = u
               PROVE  e.id = "JOIN"
    OBVIOUS
  <2>1. e \in Event /\ EventSound(e)
    BY <1>1 DEF QueueUsers
  <2> QED
    BY <2>1, UserAssumption DEF EventSound, Event, Connecting
<1> QED
  BY <1>2 DEF UserLife, UserSound, Has, Connecting, Freed

\* All that the invariants say about v reads the same after the step.
Kept(v) ==
  /\ state'[v] = state[v] /\ info'[v] = info[v] /\ nick'[v] = nick[v]
  /\ v \in list' <=> v \in list
  /\ v \in noquit' <=> v \in noquit

\* An event stays sound in a step that leaves its user alone ...
LEMMA EventKept ==
  ASSUME list \subseteq User, NEW e, EventSound(e), e.ptr \in User => Kept(e.ptr),
         pc = "drain3" => pc' = pc
  PROVE  EventSound(e)'
BY DEF EventSound, Kept

\* ... and so does a user that keeps its events.
LEMMA UserKept ==
  ASSUME NEW v \in User, UserSound(v), Kept(v), pc # "exit",
         \A id \in {"QUIT", "DESTROY"} : Has(v, id) => Has(v, id)'
  PROVE  UserSound(v)'
BY DEF UserSound, Kept

LEMMA AllKept ==
  ASSUME UNCHANGED <<nick, list, state, info, noquit>>
  PROVE  \A v \in User : Kept(v)
BY DEF Kept

\* A step of the loop alone touches neither users nor events.
LEMMA LoopKept ==
  ASSUME TypeOK, QueueUsers, UserLife, pc # "exit", pc = "drain3" => pc' = pc,
         UNCHANGED <<nick, list, state, info, noquit, queue>>
  PROVE  QueueUsers' /\ UserLife'
<1>1. \A v \in User : Kept(v)
  BY AllKept
<1>2. list \subseteq User
  BY DEF TypeOK, UserManagerTypeOK
<1>3. \A v \in User : \A id \in {"QUIT", "DESTROY"} : Has(v, id) => Has(v, id)'
  BY DEF Has
<1>4. QueueUsers'
  BY <1>1, <1>2, EventKept DEF QueueUsers
<1>5. UserLife'
  BY <1>1, <1>3, UserKept DEF UserLife
<1> QED
  BY <1>4, <1>5

\* Dropping a connected user outside a drain.
LEMMA LeaveLife ==
  ASSUME TypeOK, Life, pc = "net", NEW u \in User,
         state[u] \in Connecting \cup {"normal"},
         Leave(u, queue), UNCHANGED <<nick, list, status, pc, left>>
  PROVE  Life'
<1> USE DEF Life
<1>0. queue \in Seq(Event)
  BY DEF TypeOK
<1>1. PICK d \in Event :
        /\ d = DisconnectEvent(u) /\ d.ptr = u
        /\ d.id = IF NeedNotify(u) THEN "QUIT" ELSE "DESTROY"
  BY EventTypes, Zenon DEF DisconnectEvent, Quit, Destroy
<1>2. /\ u \in list <=> state[u] = "normal"
      /\ u \notin noquit
      /\ \A e \in Events(queue) : e.ptr = u => e.id = "JOIN"
  BY ConnectedFacts
<1>3. queue' = Append(queue, d)
  BY <1>1 DEF Leave
<1>4. /\ Len(queue') = Len(queue) + 1
      /\ Events(queue') = Events(queue) \cup {d}
      /\ Ordered(queue')
  <2>1. MayFollow(queue, d) /\ Ordered(queue)
    BY <1>1, <1>2 DEF MayFollow, QueueOrder
  <2> QED
    BY <1>0, <1>3, <2>1, AppendedEvent, Zenon
<1>5. /\ \A v \in User : state'[v] = IF v = u THEN "cleanup" ELSE state[v]
      /\ noquit' = IF state[u] = "normal" /\ ~NeedNotify(u) THEN noquit \cup {u} ELSE noquit
      /\ info' = info
  BY DEF Leave, hub_disconnect_user, TypeOK
<1>6. QueueOrder'
  BY <1>0, <1>4 DEF QueueOrder, TypeOK
<1>k. list \subseteq User /\ \A v \in User \ {u} : Kept(v)
  BY <1>5 DEF Kept, TypeOK, UserManagerTypeOK
<1>7. QueueUsers'
  <2>1. EventSound(d)'
    BY <1>1, <1>2, <1>5 DEF EventSound, NeedNotify
  <2>2. ASSUME NEW e \in Events(queue), e.ptr = u
        PROVE  EventSound(e)'
    <3>1. EventSound(e) /\ e.id = "JOIN"
      BY <1>2, <2>2 DEF QueueUsers
    <3>2. state'[u] = "cleanup" /\ info' = info
      BY <1>5
    <3> QED
      BY <2>2, <3>1, <3>2 DEF EventSound
  <2>3. ASSUME NEW e \in Events(queue), e.ptr # u
        PROVE  EventSound(e)'
    BY <1>k, <2>3, EventKept DEF QueueUsers
  <2> QED
    BY <1>4, <2>1, <2>2, <2>3 DEF QueueUsers
<1>8. UserLife'
  <2>1. \A v \in User : \A id \in {"QUIT", "DESTROY"} : Has(v, id) => Has(v, id)'
    BY <1>4 DEF Has
  <2>2. IF NeedNotify(u) THEN Has(u, "QUIT")' ELSE Has(u, "DESTROY")'
    BY <1>1, <1>4 DEF Has
  <2>3. UserSound(u)'
    <3>1. state'[u] = "cleanup" /\ (u \in list => info'[u] /\ state[u] = "normal")
      BY <1>2, <1>5 DEF UserLife, UserSound
    <3>2. u \in list /\ ~NeedNotify(u) => u \in noquit'
      BY <1>2, <1>5
    <3> QED
      BY <2>2, <3>1, <3>2 DEF UserSound
  <2>4. \A v \in User \ {u} : UserSound(v)'
    BY <1>k, <2>1, UserKept DEF UserLife
  <2> QED
    BY <2>3, <2>4 DEF UserLife
<1>9. DrainPhase' /\ ShutdownDrained'
  BY DEF DrainPhase, ShutdownDrained
<1> QED
  BY <1>6, <1>7, <1>8, <1>9

\* A user becomes logged in: it was connecting and has no event pending.
LEMMA LoginLife ==
  ASSUME TypeOK, UserLife, QueueUsers, NEW u \in User, state[u] \in Connecting, info[u],
         on_login_success(u), pc # "exit", UNCHANGED pc,
         Events(queue') \subseteq Events(queue),
         \A e \in Events(queue') : e.ptr # u,
         \A e \in Events(queue) : e \notin Events(queue') => e.id = "JOIN"
  PROVE  QueueUsers' /\ UserLife'
<1>1. u \notin list /\ u \notin noquit
  BY ConnectedFacts DEF Connecting
<1>2. /\ \A v \in User : state'[v] = IF v = u THEN "normal" ELSE state[v]
      /\ list' = list \cup {u}
      /\ UNCHANGED <<info, noquit, nick>>
  BY DEF on_login_success, uman_add, TypeOK
<1>k. list \subseteq User /\ \A v \in User \ {u} : Kept(v)
  BY <1>2 DEF Kept, TypeOK, UserManagerTypeOK
<1>3. QueueUsers'
  BY <1>k, EventKept DEF QueueUsers
<1>4. UserLife'
  <2>1. \A v \in User : \A id \in {"QUIT", "DESTROY"} : Has(v, id) => Has(v, id)'
    BY DEF Has
  <2>2. UserSound(u)'
    BY <1>1, <1>2 DEF UserSound
  <2>3. \A v \in User \ {u} : UserSound(v)'
    BY <1>k, <2>1, UserKept DEF UserLife
  <2> QED
    BY <2>2, <2>3 DEF UserLife
<1> QED
  BY <1>3, <1>4

\* The login of a connecting user without a ghost: a JOIN event is posted.
LEMMA InfoLife ==
  ASSUME TypeOK, Life, NEW u \in User, NEW n \in Nick, NEW c \in Cid, NEW b \in Share,
         hub_handle_info_login(u, n, c, b), GhostOf(n, c) = {}
  PROVE  Life'
<1> DEFINE j == Join(u, n \in Registered)
<1> USE DEF Life
<1>0. /\ queue \in Seq(Event) /\ j \in Event
      /\ j.id = "JOIN" /\ j.ptr = u /\ j.flags = (n \in Registered)
  <2>1. (n \in Registered) \in BOOLEAN
    OBVIOUS
  <2>2. /\ j \in Event
        /\ j.id = "JOIN" /\ j.ptr = u /\ j.flags = (n \in Registered)
    BY <2>1, JoinFacts, Zenon
  <2> QED
    BY <2>2, Zenon DEF TypeOK
<1> HIDE DEF j
<1>1. /\ pc = "net" /\ state[u] \in Connecting /\ ~info[u]
      /\ queue' = Append(queue, j)
      /\ UNCHANGED <<list, status, pc, left>>
  BY DEF hub_handle_info_login, ExpectsInfo, GhostQueue, j
<1>2. /\ \A v \in User : state'[v] = state[v]
      /\ \A v \in User : info'[v] = IF v = u THEN TRUE ELSE info[v]
      /\ \A v \in User : nick'[v] = IF v = u THEN n ELSE nick[v]
      /\ noquit' = noquit
  BY DEF hub_handle_info_login, hub_disconnect_user, TypeOK, UserManagerTypeOK
<1>3. /\ u \notin list
      /\ \A e \in Events(queue) : e.ptr # u
      /\ state[u] \in {"protocol", "identify"}
  BY <1>1, ConnectedFacts, Zenon DEF Connecting, UserLife, UserSound, QueueUsers, EventSound
<1>4. /\ Len(queue') = Len(queue) + 1
      /\ Events(queue') = Events(queue) \cup {j}
      /\ Ordered(queue')
  <2>1. MayFollow(queue, j) /\ Ordered(queue)
    BY <1>0, <1>3 DEF MayFollow, QueueOrder
  <2> QED
    BY <1>0, <1>1, <2>1, AppendedEvent, Zenon
<1>5. QueueOrder'
  BY <1>0, <1>1, <1>4 DEF QueueOrder, TypeOK
<1>k. list \subseteq User /\ \A v \in User \ {u} : Kept(v)
  BY <1>1, <1>2, Zenon DEF Kept, TypeOK, UserManagerTypeOK
<1>6. QueueUsers'
  <2>1. EventSound(j)'
    BY <1>0, <1>2, <1>3, Zenon DEF EventSound
  <2>2. \A e \in Events(queue) : EventSound(e)'
    BY <1>1, <1>3, <1>k, EventKept DEF QueueUsers
  <2> QED
    BY <1>4, <2>1, <2>2 DEF QueueUsers
<1>7. UserLife'
  <2>1. \A v \in User : \A id \in {"QUIT", "DESTROY"} : Has(v, id) => Has(v, id)'
    BY <1>4 DEF Has
  <2>2. UserSound(u)'
    BY <1>1, <1>2, <1>3 DEF UserLife, UserSound
  <2>3. \A v \in User \ {u} : UserSound(v)'
    BY <1>1, <1>k, <2>1, UserKept DEF UserLife
  <2> QED
    BY <2>2, <2>3 DEF UserLife
<1>8. DrainPhase' /\ ShutdownDrained'
  BY <1>1 DEF DrainPhase, ShutdownDrained
<1> QED
  BY <1>5, <1>6, <1>7, <1>8

\* The same with a ghost: its disconnection is posted first.
LEMMA InfoGhostLife ==
  ASSUME TypeOK, Life, NEW u \in User, NEW n \in Nick, NEW c \in Cid, NEW b \in Share,
         hub_handle_info_login(u, n, c, b), GhostOf(n, c) # {}
  PROVE  Life'
<1> DEFINE j == Join(u, n \in Registered)
<1> USE DEF Life
<1>g. PICK g \in User : g = nickmap[n] /\ GhostOf(n, c) = {g} /\ state[g] = "normal"
  BY GhostFacts DEF Online
<1>0. /\ queue \in Seq(Event) /\ j \in Event
      /\ j.id = "JOIN" /\ j.ptr = u /\ j.flags = (n \in Registered)
  <2>1. (n \in Registered) \in BOOLEAN
    OBVIOUS
  <2>2. /\ j \in Event
        /\ j.id = "JOIN" /\ j.ptr = u /\ j.flags = (n \in Registered)
    BY <2>1, JoinFacts, Zenon
  <2> QED
    BY <2>2, Zenon DEF TypeOK
<1>d. PICK d \in Event :
        /\ d = DisconnectEvent(g) /\ d.ptr = g
        /\ d.id = IF NeedNotify(g) THEN "QUIT" ELSE "DESTROY"
  BY <1>g, EventTypes, Zenon DEF DisconnectEvent, Quit, Destroy
<1> DEFINE q == Append(queue, d)
<1>1. /\ pc = "net" /\ state[u] \in Connecting /\ ~info[u]
      /\ queue' = Append(q, j)
      /\ UNCHANGED <<list, status, pc, left>>
  BY <1>g, <1>d, Zenon DEF hub_handle_info_login, ExpectsInfo, GhostQueue
<1>2. /\ \A v \in User : state'[v] = IF v = g THEN "cleanup" ELSE state[v]
      /\ \A v \in User : info'[v] = IF v = u THEN TRUE ELSE info[v]
      /\ \A v \in User : nick'[v] = IF v = u THEN n ELSE nick[v]
      /\ noquit' = IF NeedNotify(g) THEN noquit ELSE noquit \cup {g}
  BY <1>g DEF hub_handle_info_login, hub_disconnect_user, TypeOK, UserManagerTypeOK
<1> HIDE DEF j
<1>3. /\ u \notin list
      /\ \A e \in Events(queue) : e.ptr # u
      /\ state[u] \in {"protocol", "identify"}
  BY <1>1, ConnectedFacts, Zenon DEF Connecting, UserLife, UserSound, QueueUsers, EventSound
<1>4. /\ g \in list /\ g \notin noquit /\ g # u
      /\ \A e \in Events(queue) : e.ptr # g
  BY <1>g, <1>1, ConnectedFacts, Zenon DEF Connecting, QueueUsers, EventSound
<1>5. /\ q \in Seq(Event) /\ Len(q) = Len(queue) + 1
      /\ Events(q) = Events(queue) \cup {d}
      /\ Ordered(q)
  <2>1. MayFollow(queue, d) /\ Ordered(queue)
    BY <1>d, <1>4 DEF MayFollow, QueueOrder
  <2> QED
    BY <1>0, <1>d, <2>1, AppendedEvent, Zenon
<1> HIDE DEF q
<1>6. /\ Len(queue') = Len(q) + 1
      /\ Events(queue') = Events(q) \cup {j}
      /\ Ordered(queue')
  <2>1. \A e \in Events(q) : e.ptr # u
    BY <1>d, <1>3, <1>4, <1>5
  <2>2. MayFollow(q, j)
    BY <1>0, <2>1 DEF MayFollow
  <2> QED
    BY <1>0, <1>1, <1>5, <2>2, AppendedEvent, Zenon
<1>7. QueueOrder'
  BY <1>0, <1>1, <1>5, <1>6 DEF QueueOrder, TypeOK
<1>k. list \subseteq User /\ \A v \in User \ {g, u} : Kept(v)
  BY <1>1, <1>2, Zenon DEF Kept, TypeOK, UserManagerTypeOK
<1>8. QueueUsers'
  <2>1. EventSound(j)'
    BY <1>0, <1>2, <1>3, <1>4, Zenon DEF EventSound
  <2>2. EventSound(d)'
    BY <1>g, <1>d, <1>1, <1>2, <1>4, Zenon DEF EventSound
  <2>3. \A e \in Events(queue) : EventSound(e)'
    BY <1>1, <1>3, <1>4, <1>k, EventKept, Zenon DEF QueueUsers
  <2> QED
    BY <1>5, <1>6, <2>1, <2>2, <2>3 DEF QueueUsers
<1>9. UserLife'
  <2>1. \A v \in User : \A id \in {"QUIT", "DESTROY"} : Has(v, id) => Has(v, id)'
    BY <1>5, <1>6 DEF Has
  <2>2. IF NeedNotify(g) THEN Has(g, "QUIT")' ELSE Has(g, "DESTROY")'
    BY <1>d, <1>5, <1>6 DEF Has
  <2>3. UserSound(g)'
    <3>1. info[g]
      BY <1>4, Zenon DEF UserLife, UserSound
    <3> QED
      BY <3>1, <1>2, <1>4, <2>2, Zenon DEF UserSound
  <2>4. UserSound(u)'
    BY <1>1, <1>2, <1>3, <1>4 DEF UserLife, UserSound
  <2>5. \A v \in User \ {g, u} : UserSound(v)'
    BY <1>1, <1>k, <2>1, UserKept, Zenon DEF UserLife
  <2> QED
    BY <2>3, <2>4, <2>5 DEF UserLife
<1>10. DrainPhase' /\ ShutdownDrained'
  BY <1>1 DEF DrainPhase, ShutdownDrained
<1> QED
  BY <1>7, <1>8, <1>9, <1>10

\* A refused login that nevertheless drops a ghost: both are disconnected.
LEMMA RefusedLife ==
  ASSUME TypeOK, Life, NEW u \in User, NEW n \in Nick, NEW c \in Cid,
         hub_handle_info_refused(u, n, c)
  PROVE  Life'
<1> USE DEF Life
<1>g. PICK g \in User : g = nickmap[n] /\ GhostOf(n, c) = {g} /\ state[g] = "normal"
  BY GhostFacts, Zenon DEF Online, hub_handle_info_refused
<1>d. PICK d \in Event :
        /\ d = DisconnectEvent(g) /\ d.ptr = g
        /\ d.id = IF NeedNotify(g) THEN "QUIT" ELSE "DESTROY"
  BY <1>g, EventTypes, Zenon DEF DisconnectEvent, Quit, Destroy
<1> DEFINE q == Append(queue, d)
<1>1. /\ pc = "net" /\ state[u] \in Connecting
      /\ queue' = Append(q, DisconnectEvent(u))
      /\ UNCHANGED <<list, status, pc, left, nick, info>>
  BY <1>g, <1>d DEF hub_handle_info_refused, ExpectsInfo, GhostQueue
<1>e. PICK e \in Event : e = DisconnectEvent(u) /\ e.ptr = u /\ e.id = "DESTROY"
  BY <1>1, EventTypes DEF DisconnectEvent, Destroy, NeedNotify, Connecting
<1>2. /\ \A v \in User : state'[v] = IF v \in {g, u} THEN "cleanup" ELSE state[v]
      /\ noquit' = IF NeedNotify(g) THEN noquit ELSE noquit \cup {g}
  BY <1>g, <1>1 DEF hub_handle_info_refused, hub_disconnect_user, TypeOK, Connecting, NeedNotify
<1>3. /\ u \notin list /\ u \notin noquit
      /\ \A f \in Events(queue) : f.ptr = u => f.id = "JOIN"
  BY <1>1, ConnectedFacts DEF Connecting
<1>4. /\ g \in list /\ g \notin noquit /\ g # u
      /\ \A f \in Events(queue) : f.ptr # g
  BY <1>g, <1>1, ConnectedFacts DEF Connecting, QueueUsers, EventSound
<1>5. /\ q \in Seq(Event) /\ Len(q) = Len(queue) + 1
      /\ Events(q) = Events(queue) \cup {d}
      /\ Ordered(q)
  <2>1. queue \in Seq(Event) /\ Ordered(queue)
    BY DEF QueueOrder, TypeOK
  <2>2. MayFollow(queue, d)
    BY <1>d, <1>4 DEF MayFollow
  <2> QED
    BY <2>1, <2>2, <1>d, AppendedEvent, Zenon
<1> HIDE DEF q
<1>6. /\ Len(queue') = Len(q) + 1
      /\ Events(queue') = Events(q) \cup {e}
      /\ Ordered(queue')
  <2>1. MayFollow(q, e)
    BY <1>e, <1>d, <1>3, <1>4, <1>5 DEF MayFollow
  <2> QED
    BY <1>e, <1>1, <1>5, <2>1, AppendedEvent, Zenon
<1>7. QueueOrder'
  BY <1>1, <1>5, <1>6 DEF QueueOrder, TypeOK
<1>k. list \subseteq User /\ \A v \in User \ {g, u} : Kept(v)
  BY <1>1, <1>2 DEF Kept, TypeOK, UserManagerTypeOK
<1>8. QueueUsers'
  <2>1. EventSound(e)'
    BY <1>e, <1>1, <1>2, <1>3 DEF EventSound
  <2>2. EventSound(d)'
    BY <1>g, <1>d, <1>1, <1>2, <1>4 DEF EventSound
  <2>3. ASSUME NEW f \in Events(queue)
        PROVE  EventSound(f)'
    <3>1. EventSound(f) /\ f.ptr # g
      BY <1>4 DEF QueueUsers
    <3>2. CASE f.ptr = u
      BY <3>1, <3>2, <1>1, <1>2, <1>3 DEF EventSound
    <3>3. CASE f.ptr # u
      BY <3>1, <3>3, <1>1, <1>k, EventKept, Zenon
    <3> QED
      BY <3>2, <3>3
  <2> QED
    BY <1>5, <1>6, <2>1, <2>2, <2>3 DEF QueueUsers
<1>9. UserLife'
  <2>1. \A v \in User : \A id \in {"QUIT", "DESTROY"} : Has(v, id) => Has(v, id)'
    BY <1>5, <1>6 DEF Has
  <2>2. IF NeedNotify(g) THEN Has(g, "QUIT")' ELSE Has(g, "DESTROY")'
    BY <1>d, <1>5, <1>6 DEF Has
  <2>3. Has(u, "DESTROY")'
    BY <1>e, <1>6 DEF Has
  <2>4. UserSound(g)'
    <3>1. info[g]
      BY <1>4 DEF UserLife, UserSound
    <3> QED
      BY <3>1, <1>1, <1>2, <1>4, <2>2 DEF UserSound
  <2>5. UserSound(u)'
    BY <1>1, <1>2, <1>3, <1>4, <2>3, Zenon DEF UserSound
  <2>6. \A v \in User \ {g, u} : UserSound(v)'
    BY <1>1, <1>k, <2>1, UserKept DEF UserLife
  <2> QED
    BY <2>4, <2>5, <2>6 DEF UserLife
<1>10. DrainPhase' /\ ShutdownDrained'
  BY <1>1 DEF DrainPhase, ShutdownDrained
<1> QED
  BY <1>7, <1>8, <1>9, <1>10

\* A user connects, or its SUP is answered.
LEMMA ConnectLife ==
  ASSUME TypeOK, Life, pc = "net", NEW u \in User,
         \/ state[u] = "unborn" /\ state'[u] = "protocol"
         \/ state[u] = "protocol" /\ state'[u] = "identify",
         \A v \in User \ {u} : state'[v] = state[v],
         UNCHANGED <<nick, list, status, pc, queue, left, info, noquit>>
  PROVE  QueueUsers' /\ UserLife'
<1> USE DEF Life
<1>k. list \subseteq User /\ \A v \in User \ {u} : Kept(v)
  BY DEF Kept, TypeOK, UserManagerTypeOK
<1>1. ASSUME NEW e \in Events(queue)
      PROVE  EventSound(e)'
  <2>1. EventSound(e)
    BY DEF QueueUsers
  <2>2. CASE e.ptr = u
    BY <2>1, <2>2 DEF EventSound
  <2>3. CASE e.ptr # u
    BY <2>1, <2>3, <1>k, EventKept
  <2> QED
    BY <2>2, <2>3
<1>2. \A v \in User : \A id \in {"QUIT", "DESTROY"} : Has(v, id) => Has(v, id)'
  BY DEF Has
<1>3. UserSound(u)'
  BY <1>2 DEF UserLife, UserSound, Freed
<1>4. \A v \in User \ {u} : UserSound(v)'
  BY <1>k, <1>2, UserKept DEF UserLife
<1> QED
  BY <1>1, <1>3, <1>4 DEF QueueUsers, UserLife

\* A network callback preserves the life cycle of users and events.
LEMMA LifeCallback ==
  ASSUME TypeOK, Life, NEW u \in User, Callback(u)
  PROVE  Life'
<1> USE DEF Life
<1>1. CASE user_create(u)
  <2>1. /\ pc = "net" /\ state[u] = "unborn"
        /\ \A v \in User : state'[v] = IF v = u THEN "protocol" ELSE state[v]
        /\ UNCHANGED <<nick, list, status, pc, queue, left, info, noquit>>
    BY <1>1 DEF user_create, TypeOK
  <2>2. QueueUsers' /\ UserLife'
    BY <2>1, ConnectLife
  <2> QED
    BY <2>1, <2>2, Zenon DEF QueueOrder, DrainPhase, ShutdownDrained
<1>2. CASE hub_handle_support(u)
  <2>1. /\ pc = "net" /\ state[u] = "protocol"
        /\ \A v \in User : state'[v] = IF v = u THEN "identify" ELSE state[v]
        /\ UNCHANGED <<nick, list, status, pc, queue, left, info, noquit>>
    BY <1>2 DEF hub_handle_support, TypeOK
  <2>2. QueueUsers' /\ UserLife'
    BY <2>1, ConnectLife
  <2> QED
    BY <2>1, <2>2 DEF QueueOrder, DrainPhase, ShutdownDrained
<1>3. CASE Drop(u)
  BY <1>3, LeaveLife DEF Drop
<1>4. CASE Timeout(u)
  <2>1. CASE state[u] \in Connecting
    BY <1>4, <2>1, LeaveLife DEF Timeout
  <2>2. CASE state[u] \notin Connecting
    <3>1. /\ pc = "net"
          /\ UNCHANGED <<nick, list, status, pc, queue, left, state, info, noquit>>
      BY <1>4, <2>2 DEF Timeout
    <3> QED
      BY <3>1, LoopKept DEF QueueOrder, DrainPhase, ShutdownDrained
  <2> QED
    BY <2>1, <2>2
<1>5. CASE hub_handle_password(u)
  <2>1. /\ pc = "net" /\ state[u] = "verify" /\ on_login_success(u)
        /\ UNCHANGED <<status, pc, queue, left>>
    BY <1>5 DEF hub_handle_password
  <2>2. info[u] /\ \A e \in Events(queue) : e.ptr # u
    BY <2>1, ConnectedFacts, Zenon DEF UserLife, UserSound, QueueUsers, EventSound, Connecting
  <2>3. QueueUsers' /\ UserLife'
    BY <2>1, <2>2, LoginLife DEF Connecting
  <2> QED
    BY <2>1, <2>3 DEF QueueOrder, DrainPhase, ShutdownDrained
<1>6. ASSUME NEW b \in Share, hub_handle_info_update(u, b)
      PROVE  Life'
  <2>1. CASE Leave(u, queue)
    BY <1>6, <2>1, LeaveLife DEF hub_handle_info_update
  <2>2. CASE UNCHANGED <<queue, userVars, sidVars, noquit>>
    <3>1. /\ pc = "net"
          /\ UNCHANGED <<nick, list, status, pc, queue, left, state, info, noquit>>
      BY <1>6, <2>2 DEF hub_handle_info_update
    <3> QED
      BY <3>1, LoopKept DEF QueueOrder, DrainPhase, ShutdownDrained
  <2> QED
    BY <1>6, <2>1, <2>2 DEF hub_handle_info_update
<1>7. ASSUME NEW n \in Nick, command_kick(u, n)
      PROVE  Life'
  <2>1. nickmap[n] \in User /\ state[nickmap[n]] = "normal"
    BY <1>7, Zenon DEF command_kick, Online
  <2> QED
    BY <1>7, <2>1, LeaveLife, Zenon DEF command_kick
<1>8. ASSUME NEW n \in Nick, NEW c \in Cid, hub_handle_info_refused(u, n, c)
      PROVE  Life'
  BY <1>8, RefusedLife
<1>9. ASSUME NEW n \in Nick, NEW c \in Cid, NEW b \in Share, hub_handle_info_login(u, n, c, b)
      PROVE  Life'
  BY <1>9, InfoLife, InfoGhostLife
<1> QED
  BY <1>1, <1>2, <1>3, <1>4, <1>5, <1>6, <1>7, <1>8, <1>9 DEF Callback
=============================================================================
