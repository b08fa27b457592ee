---------------------------- MODULE HubStepProof ----------------------------
(***************************************************************************)
(* What the steps of the hub do: the event dispatcher and the loops around  *)
(* it preserve the life cycle, and every step has one of a few effects on   *)
(* the register of users and on what the clients know.                      *)
(***************************************************************************)
EXTENDS HubLifeProof

USE DEF idVars, umanVars, userVars, sidVars, loopVars, dataVars, vars,
        uman_send_user_list, route_to_all

-----------------------------------------------------------------------------
(* The life cycle: the event dispatcher, the loops around it, the signals. *)

\* Delivering an event keeps the phases of a drain ...
LEMMA DeliverDrain ==
  ASSUME TypeOK, Life, pc \in Pass, left > 0, left' = left - 1, queue' = Tail(queue),
         UNCHANGED <<status, pc>>, pc = "drain3" => list' = {}
  PROVE  DrainPhase' /\ ShutdownDrained' /\ QueueOrder'
<1> USE DEF Life
<1>1. /\ Len(queue) \in Nat /\ left \in Nat /\ left <= Len(queue) /\ queue \in Seq(Event)
      /\ Len(queue) > 0
  BY DEF TypeOK, QueueOrder
<1>2. /\ Len(queue') = Len(queue) - 1
      /\ \A i \in 1..(Len(queue) - 1) : queue'[i] = queue[i + 1]
      /\ Events(queue') \subseteq Events(queue)
      /\ Ordered(queue')
  BY <1>1, HeadFacts, TailFacts
<1>3. QueueOrder'
  BY <1>1, <1>2 DEF QueueOrder
<1>4. pc = "drain1" => \A i \in (left' + 1)..Len(queue') : queue'[i].id = "DESTROY"
  BY <1>1, <1>2 DEF DrainPhase
<1> QED
  BY <1>1, <1>2, <1>3, <1>4 DEF DrainPhase, ShutdownDrained, Pass

\* ... and so does one whose callback posts an event, which is a DESTROY when
\* the hub is not running.
LEMMA DeliverPostDrain ==
  ASSUME TypeOK, Life, pc \in Pass, left > 0, left' = left - 1, NEW e \in Event,
         queue' = Append(Tail(queue), e),
         Head(queue).id \in {"JOIN", "QUIT"},
         status # "running" => e.id = "DESTROY",
         \A d \in Events(Tail(queue)) : d.ptr = e.ptr => d.id = "JOIN" /\ e.id \in {"QUIT", "DESTROY"},
         UNCHANGED <<status, pc>>
  PROVE  DrainPhase' /\ ShutdownDrained' /\ QueueOrder'
<1> USE DEF Life
<1>1. /\ Len(queue) \in Nat /\ left \in Nat /\ left <= Len(queue) /\ queue \in Seq(Event)
      /\ Len(queue) > 0
  BY DEF TypeOK, QueueOrder
<1>2. /\ Tail(queue) \in Seq(Event)
      /\ Len(Tail(queue)) = Len(queue) - 1
      /\ \A i \in 1..(Len(queue) - 1) : Tail(queue)[i] = queue[i + 1]
      /\ Head(queue) \in Events(queue)
      /\ Ordered(Tail(queue))
  BY <1>1, HeadFacts, TailFacts
<1>3. /\ Len(queue') = Len(queue)
      /\ \A i \in 1..(Len(queue) - 1) : queue'[i] = queue[i + 1]
      /\ queue'[Len(queue)] = e
  BY <1>1, <1>2, AppendFacts
<1>4. Ordered(queue')
  BY <1>2, AppendEvents, Zenon
<1>5. QueueOrder'
  BY <1>1, <1>3, <1>4 DEF QueueOrder
<1>6. pc \notin {"drain2", "drain3"}
  BY <1>2 DEF DrainPhase
<1>7. ASSUME pc = "drain1", NEW i \in (left' + 1)..Len(queue')
      PROVE  queue'[i].id = "DESTROY"
  <2>1. status # "running"
    BY <1>7 DEF DrainPhase
  <2>2. CASE i = Len(queue)
    BY <2>1, <2>2, <1>3
  <2>3. CASE i \in (left' + 1)..(Len(queue) - 1)
    BY <1>1, <1>3, <1>7, <2>3 DEF DrainPhase
  <2> QED
    BY <1>1, <1>3, <1>7, <2>2, <2>3
<1> QED
  BY <1>1, <1>3, <1>5, <1>6, <1>7 DEF DrainPhase, ShutdownDrained, Pass

\* hub_event_dispatcher preserves the life cycle of users and events.
LEMMA LifeDispatch ==
  ASSUME TypeOK, Life, Dispatch
  PROVE  Life'
<1> USE DEF Life
<1>0. left > 0 /\ pc \in Pass /\ UNCHANGED <<status, pc>>
  BY Zenon DEF Dispatch, DispatchJoinGone, DispatchJoinPassword, DispatchJoinGuest,
         DispatchJoinDuplicate, DispatchQuit, DispatchDestroy, DispatchShutdown,
         DispatchShutdownDone, Dispatching, on_login_success
<1>h. /\ Len(queue) > 0
      /\ Head(queue) \in Events(queue) /\ Head(queue) \in Event
      /\ Tail(queue) \in Seq(Event)
      /\ Events(queue) = {Head(queue)} \cup Events(Tail(queue))
      /\ Events(queue) \subseteq Event
      /\ \A d \in Events(Tail(queue)) :
           d.ptr = Head(queue).ptr
             => Head(queue).id = "JOIN" /\ d.id \in {"QUIT", "DESTROY"}
      /\ EventSound(Head(queue))
  BY <1>0, HeadFacts, Zenon DEF QueueUsers
<1>t. list \subseteq User /\ pc # "exit"
  BY <1>0 DEF TypeOK, UserManagerTypeOK, Pass
<1>p. PICK h \in Event : h = Head(queue)
  BY <1>h
<1> DEFINE T == Events(Tail(queue))
<1>d. h.id # "SHUTDOWN" => pc # "drain3"
  BY <1>h, <1>p DEF DrainPhase
<1>1. CASE DispatchJoinGone
  <2>1. /\ h.id = "JOIN" /\ left' = left - 1 /\ queue' = Tail(queue)
        /\ UNCHANGED <<nick, list, state, info, noquit>>
    BY <1>1, <1>p DEF DispatchJoinGone, Dispatching
  <2>2. QueueUsers'
    BY <1>0, <1>h, <1>t, <2>1, AllKept, EventKept DEF QueueUsers
  <2>3. \A v \in User : \A id \in {"QUIT", "DESTROY"} : Has(v, id) => Has(v, id)'
    BY <1>h, <1>p, <2>1 DEF Has
  <2>4. UserLife'
    BY <1>t, <2>1, <2>3, AllKept, UserKept DEF UserLife
  <2> QED
    BY <1>0, <1>d, <2>1, <2>2, <2>4, DeliverDrain
<1>2. CASE DispatchJoinPassword
  <2> DEFINE u == h.ptr
  <2>1. /\ h.id = "JOIN" /\ left' = left - 1 /\ queue' = Tail(queue)
        /\ u \in User /\ info[u] /\ state[u] \in {"protocol", "identify"} /\ nick[u] \in Registered
        /\ \A v \in User : state'[v] = IF v = u THEN "verify" ELSE state[v]
        /\ UNCHANGED <<nick, list, info, noquit>>
    BY <1>2, <1>h, <1>p DEF DispatchJoinPassword, Dispatching, EventSound, TypeOK
  <2>2. \A e \in T : e.ptr # u
    BY <2>1, <1>h, <1>p, ConnectedFacts DEF Connecting
  <2> HIDE DEF u, T
  <2>k. \A v \in User \ {u} : Kept(v)
    BY <2>1 DEF Kept
  <2>3. QueueUsers'
    BY <1>0, <1>h, <1>t, <2>1, <2>2, <2>k, EventKept DEF QueueUsers, T
  <2>4. UserLife'
    <3>1. \A v \in User : \A id \in {"QUIT", "DESTROY"} : Has(v, id) => Has(v, id)'
      BY <1>h, <1>p, <2>1 DEF Has
    <3>2. UserSound(u)'
      BY <2>1, <3>1, Zenon DEF UserLife, UserSound, Freed
    <3>3. \A v \in User \ {u} : UserSound(v)'
      BY <1>t, <2>k, <3>1, UserKept DEF UserLife
    <3> QED
      BY <3>2, <3>3 DEF UserLife
  <2> QED
    BY <1>0, <1>d, <2>1, <2>3, <2>4, DeliverDrain
<1>3. CASE DispatchJoinGuest
  <2> DEFINE u == h.ptr
  <2>1. /\ h.id = "JOIN" /\ left' = left - 1 /\ queue' = Tail(queue)
        /\ u \in User /\ info[u] /\ state[u] \in {"protocol", "identify"}
        /\ on_login_success(u)
    BY <1>3, <1>h, <1>p, Zenon DEF DispatchJoinGuest, Dispatching, EventSound
  <2>2. \A e \in Events(queue) : e.ptr = u => e.id = "JOIN"
    BY <2>1, ConnectedFacts DEF Connecting
  <2>3. /\ Events(queue') \subseteq Events(queue)
        /\ \A e \in Events(queue') : e.ptr # u
        /\ \A e \in Events(queue) : e \notin Events(queue') => e.id = "JOIN"
    BY <1>h, <1>p, <2>1, <2>2, Zenon
  <2>4. QueueUsers' /\ UserLife'
    BY <1>0, <1>t, <2>1, <2>3, LoginLife DEF Connecting
  <2> QED
    BY <1>0, <1>d, <2>1, <2>4, DeliverDrain
<1>4. CASE DispatchJoinDuplicate
  <2> DEFINE u == h.ptr
  <2>1. /\ h.id = "JOIN" /\ left' = left - 1
        /\ u \in User /\ info[u] /\ state[u] \in {"protocol", "identify"}
        /\ Leave(u, Tail(queue))
        /\ UNCHANGED <<nick, list>>
    BY <1>4, <1>h, <1>p DEF DispatchJoinDuplicate, Dispatching, EventSound
  <2>d. PICK d \in Event : d = DisconnectEvent(u) /\ d.ptr = u /\ d.id = "DESTROY"
    BY <2>1, EventTypes, Zenon DEF DisconnectEvent, Destroy, NeedNotify
  <2>2. /\ u \notin list /\ u \notin noquit
        /\ \A e \in Events(queue) : e.ptr = u => e.id = "JOIN"
    BY <2>1, ConnectedFacts DEF Connecting
  <2>3. /\ \A v \in User : state'[v] = IF v = u THEN "cleanup" ELSE state[v]
        /\ UNCHANGED <<noquit, info>>
        /\ queue' = Append(Tail(queue), d)
    BY <2>1, <2>d DEF Leave, hub_disconnect_user, TypeOK
  <2>4. Events(queue') = T \cup {d}
    BY <1>h, <2>3, AppendSet, Zenon
  <2>5. \A e \in T : e.ptr # u
    BY <1>h, <1>p, <2>1, <2>2
  <2> HIDE DEF u, T
  <2>k. \A v \in User \ {u} : Kept(v)
    BY <2>1, <2>3 DEF Kept
  <2>6. QueueUsers'
    <3>1. EventSound(d)'
      BY <2>1, <2>d, <2>2, <2>3 DEF EventSound
    <3>2. \A e \in T : EventSound(e)'
      BY <1>0, <1>h, <1>t, <2>5, <2>k, EventKept, Zenon DEF QueueUsers, T
    <3> QED
      BY <2>4, <3>1, <3>2 DEF QueueUsers
  <2>7. UserLife'
    <3>1. \A v \in User : \A id \in {"QUIT", "DESTROY"} : Has(v, id) => Has(v, id)'
      BY <1>h, <1>p, <2>1, <2>4 DEF Has, T
    <3>2. Has(u, "DESTROY")'
      BY <2>4, <2>d DEF Has
    <3>3. UserSound(u)'
      BY <2>1, <2>2, <2>3, <3>2 DEF UserSound
    <3>4. \A v \in User \ {u} : UserSound(v)'
      BY <1>t, <2>k, <3>1, UserKept DEF UserLife
    <3> QED
      BY <2>1, <3>3, <3>4 DEF UserLife
  <2> QED
    BY <1>0, <1>p, <2>1, <2>3, <2>5, <2>d, <2>6, <2>7, DeliverPostDrain DEF T
<1>5. CASE DispatchQuit
  <2> DEFINE u == h.ptr
  <2>1. /\ h.id = "QUIT" /\ left' = left - 1
        /\ u \in list /\ u \in User /\ state[u] = "cleanup" /\ u \notin noquit
        /\ list' = list \ {u}
        /\ queue' = Append(Tail(queue), Destroy(u))
        /\ UNCHANGED <<nick, state, info, noquit>>
    BY <1>5, <1>h, <1>t, <1>p DEF DispatchQuit, Dispatching, EventSound, uman_remove
  <2>d. PICK d \in Event : d = Destroy(u) /\ d.ptr = u /\ d.id = "DESTROY"
    BY <2>1, EventTypes DEF Destroy
  <2>4. Events(queue') = T \cup {d}
    BY <1>h, <2>1, <2>d, AppendSet, Zenon
  <2>5. \A e \in T : e.ptr # u
    BY <1>h, <1>p, <2>1, Zenon
  <2> HIDE DEF u, T
  <2>k. \A v \in User \ {u} : Kept(v)
    BY <2>1 DEF Kept
  <2>6. QueueUsers'
    <3>1. EventSound(d)'
      BY <2>1, <2>d DEF EventSound
    <3>2. \A e \in T : EventSound(e)'
      BY <1>0, <1>h, <1>t, <2>5, <2>k, EventKept DEF QueueUsers, T
    <3> QED
      BY <2>4, <3>1, <3>2 DEF QueueUsers
  <2>7. UserLife'
    <3>1. \A v \in User \ {u} : \A id \in {"QUIT", "DESTROY"} : Has(v, id) => Has(v, id)'
      BY <1>h, <1>p, <2>4 DEF Has, T, u
    <3>2. Has(u, "DESTROY")'
      BY <2>4, <2>d DEF Has
    <3>3. UserSound(u)'
      BY <2>1, <3>2 DEF UserSound
    <3>4. \A v \in User \ {u} : UserSound(v)'
      BY <1>t, <2>k, <3>1, UserKept DEF UserLife
    <3> QED
      BY <2>1, <3>3, <3>4 DEF UserLife
  <2> QED
    BY <1>0, <1>p, <2>1, <2>5, <2>d, <2>6, <2>7, DeliverPostDrain, Zenon DEF T
<1>6. CASE DispatchDestroy
  <2> DEFINE u == h.ptr
  <2>1. /\ h.id = "DESTROY" /\ left' = left - 1 /\ queue' = Tail(queue)
        /\ u \in User /\ state[u] = "cleanup" /\ (u \in list => u \in noquit)
        /\ UNCHANGED <<nick, list, info, noquit>>
    BY <1>6, <1>h, <1>p, Zenon DEF DispatchDestroy, Dispatching, EventSound
  <2>2. \A v \in User : state'[v] = IF v = u THEN "freed" ELSE state[v]
    BY <1>6, <1>p, <2>1, Zenon DEF DispatchDestroy, user_destroy, Freed
  <2>3. \A e \in T : e.ptr # u
    BY <1>h, <1>p, <2>1
  <2> HIDE DEF u, T
  <2>k. \A v \in User \ {u} : Kept(v)
    BY <2>1, <2>2 DEF Kept
  <2>4. QueueUsers'
    BY <1>0, <1>h, <1>t, <2>1, <2>3, <2>k, EventKept DEF QueueUsers, T
  <2>5. UserLife'
    <3>1. \A v \in User \ {u} : \A id \in {"QUIT", "DESTROY"} : Has(v, id) => Has(v, id)'
      BY <1>h, <1>p, <2>1 DEF Has, T, u
    <3>2. UserSound(u)'
      <4>1. u \in list => info[u]
        BY <2>1 DEF UserLife, UserSound
      <4> QED
        BY <2>1, <2>2, <4>1 DEF UserSound, Freed
    <3>3. \A v \in User \ {u} : UserSound(v)'
      BY <1>t, <2>k, <3>1, UserKept DEF UserLife
    <3> QED
      BY <2>1, <3>2, <3>3 DEF UserLife
  <2> QED
    BY <1>0, <1>d, <2>1, <2>4, <2>5, DeliverDrain
<1>7. CASE DispatchShutdown
  <2>1. PICK u \in list : uman_remove(u) /\ user_destroy({u}, "shut")
    BY <1>7 DEF DispatchShutdown
  <2>2. /\ h.id = "SHUTDOWN" /\ pc = "drain3"
        /\ UNCHANGED <<nick, info, noquit, queue, left>>
    BY <1>7, <1>h, <1>p, Zenon DEF DispatchShutdown, EventSound
  <2>3. \A e \in Events(queue) : e.id = "SHUTDOWN"
    BY <2>2 DEF DrainPhase
  <2>4. u \in User /\ list' = list \ {u}
    BY <1>t, <2>1 DEF uman_remove
  <2>5. \A v \in User : state'[v] = IF v # u THEN state[v]
                                    ELSE IF state[u] \in Freed THEN "double_free" ELSE "shut"
    BY <2>1, <2>4 DEF user_destroy
  <2>6. state[u] = "normal" \/ u \in noquit
    BY <2>1, <2>3, <2>4 DEF UserLife, UserSound, Has
  <2>7. QueueUsers'
    BY <2>2, <2>3, <1>0 DEF QueueUsers, EventSound
  <2>8. UserLife'
    <3>1. \A v \in User : \A id \in {"QUIT", "DESTROY"} : Has(v, id) => Has(v, id)'
      BY <2>2 DEF Has
    <3>2. \A v \in User \ {u} : Kept(v)
      BY <2>2, <2>4, <2>5 DEF Kept
    <3>3. UserSound(u)'
      <4>1. state[u] \in Freed => u \in noquit
        BY <2>6 DEF Freed
      <4>2. state[u] = "normal" => u \notin noquit
        BY <2>4 DEF UserLife, UserSound
      <4> QED
        BY <2>2, <2>4, <2>5, <2>6, <4>1, <4>2, Zenon DEF UserSound, Freed
    <3>4. \A v \in User \ {u} : UserSound(v)'
      BY <1>t, <3>1, <3>2, UserKept DEF UserLife
    <3> QED
      BY <3>3, <3>4 DEF UserLife
  <2>9. QueueOrder'
    BY <2>2, <1>0 DEF QueueOrder
  <2>10. DrainPhase' /\ ShutdownDrained'
    BY <2>1, <2>2, <1>0 DEF DrainPhase, ShutdownDrained
  <2> QED
    BY <2>7, <2>8, <2>9, <2>10
<1>8. CASE DispatchShutdownDone
  <2>1. /\ h.id = "SHUTDOWN" /\ left' = left - 1 /\ queue' = Tail(queue)
        /\ list = {} /\ UNCHANGED <<nick, list, state, info, noquit>>
    BY <1>8, <1>p DEF DispatchShutdownDone, Dispatching
  <2>2. QueueUsers'
    BY <1>0, <1>h, <1>t, <2>1, AllKept, EventKept, Zenon DEF QueueUsers
  <2>3. \A v \in User : \A id \in {"QUIT", "DESTROY"} : Has(v, id) => Has(v, id)'
    BY <1>h, <1>p, <2>1, Zenon DEF Has
  <2>4. UserLife'
    BY <1>t, <2>1, <2>3, AllKept, UserKept DEF UserLife
  <2> QED
    BY <1>0, <2>1, <2>2, <2>4, DeliverDrain
<1> QED
  BY <1>1, <1>2, <1>3, <1>4, <1>5, <1>6, <1>7, <1>8 DEF Dispatch

\* hub_event_loop, main_loop and the signals preserve the life cycle of users
\* and events.
LEMMA LifeLoop ==
  ASSUME TypeOK, Life, Loop \/ hub_handle_signal
  PROVE  Life'
<1> USE DEF Life
<1>t. /\ Len(queue) \in Nat /\ left \in Nat /\ queue \in Seq(Event) /\ left <= Len(queue)
      /\ status \in Status /\ pc \in PC
  BY DEF TypeOK, QueueOrder
<1>1. CASE hub_set_variables
  <2>1. /\ pc # "exit" /\ (pc = "drain3" => pc' = pc)
        /\ UNCHANGED <<nick, list, state, info, noquit, queue>>
    BY <1>1 DEF hub_set_variables
  <2>2. QueueUsers' /\ UserLife'
    BY <2>1, LoopKept
  <2> QED
    BY <1>1, <1>t, <2>2, StatusAssumption DEF hub_set_variables, QueueOrder, DrainPhase, ShutdownDrained, Pass
<1>2. CASE NetDone
  <2>1. /\ pc # "exit" /\ (pc = "drain3" => pc' = pc)
        /\ UNCHANGED <<nick, list, state, info, noquit, queue>>
    BY <1>2 DEF NetDone
  <2>2. QueueUsers' /\ UserLife'
    BY <2>1, LoopKept
  <2> QED
    BY <1>2, <1>t, <2>2 DEF NetDone, QueueOrder, DrainPhase, ShutdownDrained, Pass
<1>3. CASE LoopAgain
  <2>1. /\ pc # "exit" /\ (pc = "drain3" => pc' = pc)
        /\ UNCHANGED <<nick, list, state, info, noquit, queue>>
    BY <1>3 DEF LoopAgain
  <2>2. QueueUsers' /\ UserLife'
    BY <2>1, LoopKept
  <2> QED
    BY <1>3, <1>t, <2>2 DEF LoopAgain, QueueOrder, DrainPhase, ShutdownDrained, Pass, Status
<1>4. CASE LoopLeft
  <2>1. /\ pc # "exit" /\ (pc = "drain3" => pc' = pc)
        /\ UNCHANGED <<nick, list, state, info, noquit, queue>>
    BY <1>4 DEF LoopLeft
  <2>2. QueueUsers' /\ UserLife'
    BY <2>1, LoopKept
  <2> QED
    BY <1>4, <1>t, <2>2 DEF LoopLeft, QueueOrder, DrainPhase, ShutdownDrained, Pass
<1>5. CASE Drained
  <2>1. \A e \in Events(queue) : e.id = "DESTROY"
    BY <1>5, <1>t DEF Drained, DrainPhase, Events
  <2>2. /\ pc # "exit" /\ (pc = "drain3" => pc' = pc)
        /\ UNCHANGED <<nick, list, state, info, noquit, queue>>
    BY <1>5 DEF Drained
  <2>3. QueueUsers' /\ UserLife'
    BY <2>2, LoopKept
  <2> QED
    BY <1>5, <1>t, <2>1, <2>3 DEF Drained, QueueOrder, DrainPhase, ShutdownDrained, Pass
<1>6. CASE hub_disconnect_all
  <2>1. Shutdown \in Event /\ Shutdown.id = "SHUTDOWN" /\ Shutdown.ptr = NoUser
    BY DEF Shutdown, Event
  <2>2. /\ pc = "drain2" /\ pc' = "drain3" /\ left' = Len(queue')
        /\ queue' = Append(queue, Shutdown)
        /\ UNCHANGED <<nick, list, state, info, noquit, status>>
    BY <1>6 DEF hub_disconnect_all
  <2>3. Len(queue) = 0 /\ Events(queue) = {}
    BY <1>6, <1>t DEF hub_disconnect_all, DrainPhase, Events
  <2>4. /\ Len(queue') = Len(queue) + 1
        /\ Events(queue') = Events(queue) \cup {Shutdown}
        /\ Ordered(queue')
    <3>1. Ordered(Append(queue, Shutdown))
      BY <1>t, <2>1, <2>3, AppendEvents, Zenon DEF QueueOrder
    <3> QED
      BY <1>t, <2>1, <2>2, <3>1, AppendFacts, AppendSet
  <2>5. QueueOrder'
    BY <1>t, <2>2, <2>4 DEF QueueOrder, Pass
  <2>6. QueueUsers'
    BY <2>1, <2>2, <2>3, <2>4 DEF QueueUsers, EventSound
  <2>7. UserLife'
    <3>1. \A v \in User : \A id \in {"QUIT", "DESTROY"} : Has(v, id) => Has(v, id)'
      BY <2>3 DEF Has
    <3> QED
      BY <2>2, <3>1, AllKept, UserKept DEF UserLife
  <2>8. DrainPhase' /\ ShutdownDrained'
    BY <1>t, <2>1, <2>2, <2>3, <2>4 DEF DrainPhase, ShutdownDrained
  <2> QED
    BY <2>5, <2>6, <2>7, <2>8
<1>7. CASE DrainDone
  <2>1. queue = <<>> /\ Events(queue) = {} /\ list = {}
    BY <1>7, <1>t DEF DrainDone, DrainPhase, Events
  <2>2. QueueUsers'
    BY <1>7, <2>1 DEF DrainDone, QueueUsers
  <2>3. \A v \in User : \A id \in {"QUIT", "DESTROY"} : Has(v, id) => Has(v, id)'
    BY <2>1 DEF Has
  <2>4. pc # "exit" /\ UNCHANGED <<nick, list, state, info, noquit>>
    BY <1>7 DEF DrainDone
  <2>5. UserLife'
    BY <2>3, <2>4, AllKept, UserKept DEF UserLife
  <2> QED
    BY <1>7, <1>t, <2>1, <2>2, <2>5 DEF DrainDone, QueueOrder, DrainPhase, ShutdownDrained, Pass
<1>8. CASE MainLoop
  <2>1. /\ pc # "exit" /\ (pc = "drain3" => pc' = pc)
        /\ UNCHANGED <<nick, list, state, info, noquit, queue>>
    BY <1>8 DEF MainLoop
  <2>2. QueueUsers' /\ UserLife'
    BY <2>1, LoopKept
  <2> QED
    BY <1>8, <1>t, <2>2 DEF MainLoop, QueueOrder, DrainPhase, ShutdownDrained, Pass
<1>9. CASE hub_shutdown_service
  <2>1. /\ pc' = "exit" /\ queue' = <<>> /\ list' = {} /\ left' = 0
        /\ UNCHANGED <<nick, info, noquit>>
    BY <1>9 DEF hub_shutdown_service
  <2>2. Len(queue') = 0 /\ Events(queue') = {} /\ Ordered(queue')
    BY <2>1 DEF Events, Ordered
  <2>3. \A v \in User : state'[v] = IF v \notin list THEN state[v]
                                    ELSE IF state[v] \in Freed THEN "double_free" ELSE "shut"
    BY <1>9 DEF hub_shutdown_service, user_destroy
  <2>4. \A v \in list : state[v] \in Freed => v \in noquit
    <3> SUFFICES ASSUME NEW v \in list, state[v] \in Freed
                 PROVE  v \in noquit
      OBVIOUS
    <3>1. v \in User
      BY DEF TypeOK, UserManagerTypeOK
    <3>2. ~Has(v, "QUIT")
      BY DEF QueueUsers, EventSound, Has, Freed
    <3> QED
      BY <3>1, <3>2 DEF UserLife, UserSound, Freed
  <2>5. UserLife'
    <3> SUFFICES ASSUME NEW v \in User
                 PROVE  UserSound(v)'
      BY DEF UserLife
    <3>1. UserSound(v)
      BY DEF UserLife
    <3>2. CASE v \in list
      BY <2>1, <2>3, <2>4, <3>1, <3>2 DEF UserSound, Freed
    <3>3. CASE v \notin list
      BY <2>1, <2>3, <3>1, <3>3 DEF UserSound, Freed
    <3> QED
      BY <3>2, <3>3
  <2> QED
    BY <2>1, <2>2, <2>5 DEF QueueOrder, QueueUsers, DrainPhase, ShutdownDrained, Pass
<1>10. CASE hub_handle_signal
  <2>1. /\ pc # "exit" /\ (pc = "drain3" => pc' = pc)
        /\ UNCHANGED <<nick, list, state, info, noquit, queue>>
    BY <1>10 DEF hub_handle_signal
  <2>2. QueueUsers' /\ UserLife'
    BY <2>1, LoopKept
  <2> QED
    BY <1>10, <1>t, <2>2, StatusAssumption DEF hub_handle_signal, QueueOrder, DrainPhase, ShutdownDrained, Pass
<1> QED
  BY <1>1, <1>2, <1>3, <1>4, <1>5, <1>6, <1>7, <1>8, <1>9, <1>10 DEF Loop

-----------------------------------------------------------------------------
(* The register of users: list, indexes and counter; and the effects of a  *)
(* step on the views of the clients, the SIDs and the timers.              *)

Register == <<nick, cid, share, info, list, nickmap, cidmap, count, shared>>

\* The steps that change the register: a first INF, a login, a new share size, a
\* removal and the end of the service.
RegisterLogin(u) ==
  /\ state[u] \in Connecting /\ info[u] /\ u \notin list
  /\ on_login_success(u)
  /\ nick[u] \in Registered \/ Unused(nick[u], cid[u])

RegisterUpdate(u, b) ==
  /\ u \in list
  /\ share' = [share EXCEPT ![u] = b]
  /\ shared' = shared - share[u] + b
  /\ UNCHANGED <<nick, cid, info, list, nickmap, cidmap, count>>

RegisterRemove(u) == u \in list /\ uman_remove(u) /\ UNCHANGED <<nick, cid, share, info>>

\* A network callback changes the register only by storing the identity of a user,
\* by a new share size or by a login after a password.
LEMMA RegisterCallback ==
  ASSUME TypeOK, Life, NEW u \in User, Callback(u)
  PROVE  \/ UNCHANGED Register
         \/ \E n \in Nick, c \in Cid, b \in Share : hub_handle_info_login(u, n, c, b)
         \/ \E b \in Share : RegisterUpdate(u, b)
         \/ RegisterLogin(u)
<1> USE DEF Register
<1>1. CASE user_create(u)
  BY <1>1 DEF user_create
<1>2. CASE hub_handle_support(u)
  BY <1>2 DEF hub_handle_support
<1>3. CASE Drop(u)
  BY <1>3 DEF Drop, Leave
<1>4. CASE Timeout(u)
  BY <1>4 DEF Timeout, Leave
<1>5. CASE hub_handle_password(u)
  <2>1. state[u] \in Connecting /\ info[u] /\ nick[u] \in Registered
    BY <1>5 DEF hub_handle_password, Connecting, Life, UserLife, UserSound
  <2>2. u \notin list
    BY <1>5, ConnectedFacts DEF hub_handle_password, Connecting, Life
  <2> QED
    BY <1>5, <2>1, <2>2 DEF hub_handle_password, RegisterLogin
<1>6. ASSUME NEW b \in Share, hub_handle_info_update(u, b)
      PROVE  RegisterUpdate(u, b)
  <2>1. u \in list
    BY <1>6 DEF hub_handle_info_update, Life, UserLife, UserSound
  <2> QED
    BY <1>6, <2>1 DEF hub_handle_info_update, RegisterUpdate, Leave
<1>7. ASSUME NEW n \in Nick, command_kick(u, n)
      PROVE  UNCHANGED Register
  BY <1>7 DEF command_kick, Leave
<1>8. ASSUME NEW n \in Nick, NEW c \in Cid, hub_handle_info_refused(u, n, c)
      PROVE  UNCHANGED Register
  BY <1>8 DEF hub_handle_info_refused
<1> QED
  BY <1>1, <1>2, <1>3, <1>4, <1>5, <1>6, <1>7, <1>8 DEF Callback

\* hub_event_dispatcher changes the register by a login, a QUIT or a shutdown.
LEMMA RegisterDispatch ==
  ASSUME TypeOK, Life, Dispatch
  PROVE  \/ UNCHANGED Register
         \/ \E u \in User : RegisterLogin(u)
         \/ \E u \in User : RegisterRemove(u)
<1> USE DEF Register, Life
<1>0. ASSUME left > 0, Head(queue).id # "SHUTDOWN"
      PROVE  Head(queue).ptr \in User /\ EventSound(Head(queue))
  BY <1>0, HeadFacts DEF QueueUsers
<1>1. CASE DispatchJoinGone
  BY <1>1 DEF DispatchJoinGone
<1>2. CASE DispatchJoinPassword
  BY <1>2 DEF DispatchJoinPassword
<1>3. CASE DispatchJoinGuest
  <2> DEFINE u == Head(queue).ptr
  <2>1. /\ u \in User /\ info[u] /\ state[u] \in Connecting
        /\ on_login_success(u) /\ Unused(nick[u], cid[u])
    BY <1>3, <1>0 DEF DispatchJoinGuest, Dispatching, EventSound, Connecting
  <2>2. u \notin list
    BY <2>1, ConnectedFacts DEF Connecting
  <2> QED
    BY <2>1, <2>2 DEF RegisterLogin
<1>4. CASE DispatchJoinDuplicate
  BY <1>4 DEF DispatchJoinDuplicate, Leave
<1>5. CASE DispatchQuit
  <2> DEFINE u == Head(queue).ptr
  <2>1. u \in User /\ u \in list /\ uman_remove(u) /\ UNCHANGED <<nick, cid, share, info>>
    BY <1>5, <1>0 DEF DispatchQuit, Dispatching, EventSound
  <2> QED
    BY <2>1 DEF RegisterRemove
<1>6. CASE DispatchDestroy
  BY <1>6 DEF DispatchDestroy
<1>7. CASE DispatchShutdown
  BY <1>7 DEF DispatchShutdown, RegisterRemove, TypeOK, UserManagerTypeOK
<1>8. CASE DispatchShutdownDone
  BY <1>8 DEF DispatchShutdownDone
<1> QED
  BY <1>1, <1>2, <1>3, <1>4, <1>5, <1>6, <1>7, <1>8 DEF Dispatch

\* The loops leave the register alone until hub_shutdown_service.
LEMMA RegisterLoop ==
  ASSUME Loop \/ hub_handle_signal
  PROVE  UNCHANGED Register \/ hub_shutdown_service
BY DEF Register, Loop, hub_handle_signal, hub_set_variables, NetDone, LoopAgain, LoopLeft,
       Drained, hub_disconnect_all, DrainDone, MainLoop

\* Every step of the hub, as far as the register is concerned.
LEMMA RegisterStep ==
  ASSUME TypeOK, Life, [Next]_vars
  PROVE  \/ UNCHANGED Register
         \/ \E u \in User, n \in Nick, c \in Cid, b \in Share : hub_handle_info_login(u, n, c, b)
         \/ \E u \in User, b \in Share : RegisterUpdate(u, b)
         \/ \E u \in User : RegisterLogin(u)
         \/ \E u \in User : RegisterRemove(u)
         \/ hub_shutdown_service
<1>1. CASE UNCHANGED vars \/ Terminated
  BY <1>1 DEF Terminated, Register
<1> QED
  BY <1>1, RegisterCallback, RegisterDispatch, RegisterLoop DEF Next

Indexed == IndexSound /\ GuestIndexed /\ CidIndexed

\* Every step keeps the indexes sound, and complete for guests.
LEMMA IndexedStep ==
  ASSUME TypeOK, Life, Indexed, [Next]_vars
  PROVE  Indexed'
<1> USE DEF Indexed
<1>t. /\ nick \in [User -> Nick] /\ cid \in [User -> Cid] /\ list \subseteq User
      /\ nickmap \in [Nick -> User \cup {NoUser}] /\ cidmap \in [Cid -> User \cup {NoUser}]
  BY DEF TypeOK, UserManagerTypeOK
<1>1. CASE UNCHANGED Register
  BY <1>1 DEF Register, IndexSound, GuestIndexed, CidIndexed
<1>2. ASSUME NEW u \in User, NEW n \in Nick, NEW c \in Cid, NEW b \in Share,
             hub_handle_info_login(u, n, c, b)
      PROVE  Indexed'
  <2>1. /\ u \notin list
        /\ \A v \in User : nick'[v] = IF v = u THEN n ELSE nick[v]
        /\ \A v \in User : cid'[v] = IF v = u THEN c ELSE cid[v]
        /\ \A v \in User : info'[v] = IF v = u THEN TRUE ELSE info[v]
        /\ UNCHANGED <<list, nickmap, cidmap>>
    BY <1>2, <1>t DEF hub_handle_info_login, ExpectsInfo, Life, UserLife, UserSound, TypeOK
  <2>2. IndexSound'
    BY <1>t, <2>1, SMTT(30) DEF IndexSound
  <2>3. GuestIndexed'
    BY <1>t, <2>1 DEF GuestIndexed
  <2>4. CidIndexed'
    <3>1. (\A v \in User : info'[v] => nick'[v] \notin Registered)
            => (\A v \in User : info[v] => nick[v] \notin Registered)
      BY <1>2, <2>1 DEF ExpectsInfo, hub_handle_info_login
    <3> QED
      BY <1>t, <2>1, <3>1 DEF CidIndexed
  <2> QED
    BY <2>2, <2>3, <2>4
<1>3. ASSUME NEW u \in User, RegisterLogin(u)
      PROVE  Indexed'
  <2>1. /\ u \notin list /\ info[u]
        /\ list' = list \cup {u}
        /\ UNCHANGED <<nick, cid, info>>
        /\ nickmap' = Insert(nickmap, nick[u], u)
        /\ cidmap' = Insert(cidmap, cid[u], u)
        /\ nick[u] \in Registered \/ Unused(nick[u], cid[u])
    BY <1>3 DEF RegisterLogin, on_login_success, uman_add
  <2>2. IndexSound'
    BY <1>t, <2>1 DEF IndexSound, Insert
  <2>3. GuestIndexed'
    <3> SUFFICES ASSUME NEW v \in list', nick[v] \notin Registered PROVE nickmap'[nick[v]] = v
      BY <2>1 DEF GuestIndexed
    <3>1. CASE v \in list
      <4>1. nickmap[nick[v]] = v /\ v # NoUser
        BY <1>t, <3>1, UserAssumption DEF GuestIndexed
      <4> QED
        BY <1>t, <2>1, <3>1, <4>1 DEF Insert
    <3>2. CASE v = u
      <4>1. nickmap[nick[u]] = NoUser
        BY <2>1, <3>2 DEF Unused
      <4> QED
        BY <1>t, <2>1, <3>2, <4>1 DEF Insert
    <3> QED
      BY <2>1, <3>1, <3>2
  <2>4. CidIndexed'
    <3> SUFFICES ASSUME \A w \in User : info[w] => nick[w] \notin Registered, NEW v \in list' PROVE cidmap'[cid[v]] = v
      BY <2>1 DEF CidIndexed
    <3>1. CASE v \in list
      <4>1. cidmap[cid[v]] = v /\ v # NoUser
        BY <1>t, <3>1, UserAssumption DEF CidIndexed
      <4> QED
        BY <1>t, <2>1, <3>1, <4>1 DEF Insert
    <3>2. CASE v = u
      <4>1. cidmap[cid[u]] = NoUser
        BY <2>1, <3>2 DEF Unused
      <4> QED
        BY <1>t, <2>1, <3>2, <4>1 DEF Insert
    <3> QED
      BY <2>1, <3>1, <3>2
  <2> QED
    BY <2>2, <2>3, <2>4
<1>4. ASSUME NEW u \in User, RegisterRemove(u)
      PROVE  Indexed'
  <2>1. /\ u \in list
        /\ list' = list \ {u}
        /\ UNCHANGED <<nick, cid, info>>
        /\ \A n \in Nick : nickmap'[n] = IF n = nick[u] THEN NoUser ELSE nickmap[n]
        /\ \A c \in Cid : cidmap'[c] = IF c = cid[u] THEN NoUser ELSE cidmap[c]
    BY <1>4, <1>t DEF RegisterRemove, uman_remove
  <2>2. IndexSound'
    BY <1>t, <2>1 DEF IndexSound
  <2>3. GuestIndexed'
    BY <1>t, <2>1, SMTT(30) DEF GuestIndexed
  <2>4. CidIndexed'
    BY <1>t, <2>1, SMTT(30) DEF CidIndexed
  <2> QED
    BY <2>2, <2>3, <2>4
<1>5. CASE hub_shutdown_service
  BY <1>5 DEF hub_shutdown_service, IndexSound, GuestIndexed, CidIndexed
<1>6. ASSUME NEW u \in User, NEW b \in Share, RegisterUpdate(u, b)
      PROVE  Indexed'
  BY <1>6 DEF RegisterUpdate, IndexSound, GuestIndexed, CidIndexed
<1> QED
  BY <1>1, <1>2, <1>3, <1>4, <1>5, <1>6, RegisterStep

-----------------------------------------------------------------------------
(* What the clients know, SIDs and timers.                                 *)

SameQuits == \A v \in User : Has(v, "QUIT")' <=> Has(v, "QUIT")

\* The effect of a step on these: nothing that matters ...
Quiet ==
  /\ UNCHANGED <<state, sid, sidmap, view, noquit>> /\ SameQuits
  /\ \A v \in User : state[v] \in Connecting /\ timer[v] => timer'[v]

\* ... some connected users are dropped ...
Drops(D) ==
  /\ \A v \in D : v \in User /\ state[v] \in Connecting \cup {"normal"}
  /\ hub_disconnect_user(D)
  /\ UNCHANGED <<sid, view>>
  /\ \A v \in User : Has(v, "QUIT")' <=> Has(v, "QUIT") \/ (v \in D /\ NeedNotify(v))

\* ... a password is asked for ...
Verifies(u) ==
  /\ state[u] \in {"protocol", "identify"}
  /\ \A v \in User : state'[v] = IF v = u THEN "verify" ELSE state[v]
  /\ UNCHANGED <<timer, sid, sidmap, view, noquit>> /\ SameQuits

\* ... a user logs in ...
Enters(u) == state[u] \in Connecting /\ on_login_success(u) /\ SameQuits

\* ... the others are told that one has left ...
Quits(u) ==
  /\ state[u] = "cleanup" /\ Has(u, "QUIT")
  /\ uman_send_quit_message(u, Online)
  /\ sidmap' = sid_free({u})
  /\ UNCHANGED <<state, timer, sid, noquit>>
  /\ \A v \in User : Has(v, "QUIT")' <=> Has(v, "QUIT") /\ v # u

\* ... or a user is freed.
Frees(u) ==
  /\ state[u] = "cleanup" /\ ~Has(u, "QUIT")
  /\ \A v \in User : state'[v] = IF v = u THEN "freed" ELSE state[v]
  /\ UNCHANGED <<timer, sid, sidmap, view, noquit>> /\ SameQuits

Shuts(D) ==
  /\ \A v \in D : v \in User /\ v \in list /\ (state[v] = "normal" \/ Has(v, "QUIT") \/ v \in noquit)
  /\ \A v \in User : Has(v, "QUIT")' => Has(v, "QUIT")
  /\ \A v \in User : Has(v, "QUIT") /\ v \notin D => Has(v, "QUIT")'
  /\ user_destroy(D, "shut")
  /\ \A v \in User : v \notin D /\ timer[v] => timer'[v]
  /\ UNCHANGED <<sid, sidmap, view, noquit>>

UserEffect ==
  \/ Quiet
  \/ \E D \in SUBSET User : Drops(D) \/ Shuts(D)
  \/ \E u \in User : \/ Verifies(u) \/ Enters(u) \/ Quits(u) \/ Frees(u)
                     \/ user_create(u) \/ hub_handle_support(u)

\* The QUIT events of q are those of the queue.
SamePending(q) ==
  \A v \in User : Has(v, "QUIT") <=> \E e \in Events(q) : e.id = "QUIT" /\ e.ptr = v

\* hub_disconnect_user of one user, by its effect.
LEMMA LeaveEffect ==
  ASSUME TypeOK, Life, NEW u \in User, state[u] \in Connecting \cup {"normal"},
         NEW q \in Seq(Event), Leave(u, q), UNCHANGED view, SamePending(q)
  PROVE  UserEffect
<1>d. PICK d \in Event : /\ d = DisconnectEvent(u) /\ d.ptr = u
                         /\ d.id = IF NeedNotify(u) THEN "QUIT" ELSE "DESTROY"
  <2>1. DisconnectEvent(u) \in Event
    BY EventTypes
  <2>2. /\ DisconnectEvent(u).ptr = u
        /\ DisconnectEvent(u).id = IF NeedNotify(u) THEN "QUIT" ELSE "DESTROY"
    BY DEF DisconnectEvent, Quit, Destroy
  <2> QED
    BY <2>1, <2>2
<1>1. Events(queue') = Events(q) \cup {d}
  BY <1>d, AppendSet DEF Leave
<1>2. \A v \in User : Has(v, "QUIT")' <=> \E e \in Events(queue') : e.id = "QUIT" /\ e.ptr = v
  BY DEF Has
<1>3. \A v \in User : Has(v, "QUIT")' <=> Has(v, "QUIT") \/ (v \in {u} /\ NeedNotify(v))
  <2> SUFFICES ASSUME NEW v \in User PROVE Has(v, "QUIT")' <=> Has(v, "QUIT") \/ (v \in {u} /\ NeedNotify(v))
    OBVIOUS
  <2>1. Has(v, "QUIT")' <=> Has(v, "QUIT") \/ (d.id = "QUIT" /\ d.ptr = v)
    <3>1. Has(v, "QUIT") <=> \E e \in Events(q) : e.id = "QUIT" /\ e.ptr = v
      BY Zenon DEF SamePending
    <3>2. Has(v, "QUIT")' <=> \E e \in Events(q) \cup {d} : e.id = "QUIT" /\ e.ptr = v
      BY <1>1, <1>2, Zenon
    <3> QED
      BY <3>1, <3>2
  <2> QED
    BY <1>d, <2>1
<1>4. Drops({u})
  BY <1>3 DEF Drops, Leave
<1> QED
  BY <1>4 DEF UserEffect

\* A ghost is dropped, and possibly the newcomer with it.
LEMMA GhostEffect ==
  ASSUME TypeOK, Life, NEW u \in User, NEW n \in Nick, NEW c \in Cid,
         ExpectsInfo(u), NEW e \in Event, e.ptr = u, e.id # "QUIT",
         queue' = Append(GhostQueue(n, c), e), UNCHANGED <<sid, view>>,
         NEW D, D \in {GhostOf(n, c), GhostOf(n, c) \cup {u}},
         hub_disconnect_user(D)
  PROVE  UserEffect
<1>0. queue \in Seq(Event) /\ state[u] \in Connecting
  BY DEF TypeOK, ExpectsInfo
<1>u. ~NeedNotify(u)
  BY <1>0 DEF NeedNotify, Connecting
<1>1. CASE GhostOf(n, c) = {}
  <2>1. Events(queue') = Events(queue) \cup {e}
    BY <1>0, <1>1, AppendSet DEF GhostQueue
  <2>2. SameQuits
    BY <2>1 DEF SameQuits, Has
  <2>3. \A v \in User : Has(v, "QUIT")' <=> Has(v, "QUIT") \/ (v \in D /\ NeedNotify(v))
    BY <1>1, <1>u, <2>2 DEF SameQuits
  <2>4. Drops(D)
    BY <1>0, <1>1, <2>3 DEF Drops
  <2> QED
    BY <1>0, <1>1, <2>4 DEF UserEffect
<1>2. CASE GhostOf(n, c) # {}
  <2>g. PICK g \in User : g = nickmap[n] /\ GhostOf(n, c) = {g} /\ state[g] = "normal"
    BY <1>2, GhostFacts DEF Online
  <2>d. PICK d \in Event : /\ d = DisconnectEvent(g) /\ d.ptr = g
                           /\ d.id = IF NeedNotify(g) THEN "QUIT" ELSE "DESTROY"
    <3>1. DisconnectEvent(g) \in Event
      BY EventTypes
    <3>2. /\ DisconnectEvent(g).ptr = g
          /\ DisconnectEvent(g).id = IF NeedNotify(g) THEN "QUIT" ELSE "DESTROY"
      BY DEF DisconnectEvent, Quit, Destroy
    <3> QED
      BY <3>1, <3>2
  <2>1. PICK q \in Seq(Event) : q = Append(queue, d) /\ Events(q) = Events(queue) \cup {d}
    <3>1. Append(queue, d) \in Seq(Event)
      BY <1>0, AppendFacts
    <3>2. Events(Append(queue, d)) = Events(queue) \cup {d}
      BY <1>0, AppendSet
    <3> QED
      BY <3>1, <3>2, Zenon
  <2>q. queue' = Append(q, e)
    BY <1>2, <2>g, <2>d, <2>1 DEF GhostQueue
  <2>2. Events(queue') = Events(queue) \cup {d, e}
    <3>1. Events(queue') = Events(q) \cup {e}
      BY <2>q, AppendSet
    <3> QED
      BY <2>1, <3>1
  <2>3. \A v \in User : Has(v, "QUIT")' <=> Has(v, "QUIT") \/ (v = g /\ NeedNotify(g))
    BY <2>2, <2>d DEF Has
  <2>4. \A v \in User : v \in D /\ NeedNotify(v) <=> v = g /\ NeedNotify(g)
    BY <1>u, <2>g
  <2>5. \A v \in D : v \in User /\ state[v] \in Connecting \cup {"normal"}
    BY <1>0, <2>g
  <2>6. Drops(D)
    BY <2>3, <2>4, <2>5 DEF Drops
  <2>7. D \in SUBSET User
    BY <2>5
  <2> QED
    BY <2>6, <2>7 DEF UserEffect
<1> QED
  BY <1>1, <1>2

\* Every network callback has one of the effects.
LEMMA EffectCallback ==
  ASSUME TypeOK, Life, NEW u \in User, Callback(u)
  PROVE  UserEffect
<1>0. queue \in Seq(Event) /\ nickmap \in [Nick -> User \cup {NoUser}]
  BY DEF TypeOK, UserManagerTypeOK
<1>q. SamePending(queue)
  BY DEF SamePending, Has
<1>s. queue' = queue => SameQuits
  BY DEF SameQuits, Has
<1>1. CASE user_create(u)
  BY <1>1 DEF UserEffect
<1>2. CASE hub_handle_support(u)
  BY <1>2 DEF UserEffect
<1>3. CASE Drop(u)
  BY <1>3, <1>0, <1>q, LeaveEffect DEF Drop
<1>4. CASE Timeout(u)
  <2>1. CASE state[u] \in Connecting
    BY <1>4, <2>1, <1>0, <1>q, LeaveEffect DEF Timeout
  <2>2. CASE state[u] \notin Connecting
    <3>1. Quiet
      BY <1>4, <2>2, <1>s DEF Timeout, Quiet, TypeOK
    <3> QED
      BY <3>1 DEF UserEffect
  <2> QED
    BY <2>1, <2>2
<1>5. CASE hub_handle_password(u)
  <2>1. Enters(u)
    BY <1>5, <1>s DEF hub_handle_password, Enters, Connecting
  <2> QED
    BY <2>1 DEF UserEffect
<1>6. ASSUME NEW b \in Share, hub_handle_info_update(u, b)
      PROVE  UserEffect
  <2>0. state[u] = "normal" /\ UNCHANGED view
    BY <1>6 DEF hub_handle_info_update
  <2>1. CASE Leave(u, queue)
    BY <2>0, <2>1, <1>0, <1>q, LeaveEffect
  <2>2. CASE UNCHANGED <<queue, userVars, sidVars, noquit>>
    <3>1. Quiet
      BY <1>6, <2>2, <1>s DEF hub_handle_info_update, Quiet
    <3> QED
      BY <3>1 DEF UserEffect
  <2> QED
    BY <1>6, <2>1, <2>2 DEF hub_handle_info_update
<1>7. ASSUME NEW n \in Nick, command_kick(u, n)
      PROVE  UserEffect
  <2>1. nickmap[n] \in User /\ state[nickmap[n]] = "normal"
    BY <1>7 DEF command_kick, Online
  <2> QED
    BY <1>7, <2>1, <1>0, <1>q, LeaveEffect DEF command_kick
<1>8. ASSUME NEW n \in Nick, NEW c \in Cid, hub_handle_info_refused(u, n, c)
      PROVE  UserEffect
  <2>1. state[u] \in Connecting /\ ExpectsInfo(u)
    BY <1>8 DEF hub_handle_info_refused, ExpectsInfo
  <2>2. DisconnectEvent(u) \in Event /\ DisconnectEvent(u).ptr = u /\ DisconnectEvent(u).id = "DESTROY"
    <3>1. DisconnectEvent(u) = Destroy(u)
      BY <2>1 DEF DisconnectEvent, NeedNotify, Connecting
    <3> QED
      BY <3>1, EventTypes DEF Destroy
  <2> QED
    BY <1>8, <2>1, <2>2, GhostEffect DEF hub_handle_info_refused
<1>9. ASSUME NEW n \in Nick, NEW c \in Cid, NEW b \in Share, hub_handle_info_login(u, n, c, b)
      PROVE  UserEffect
  <2>1. PICK j \in Event : j = Join(u, n \in Registered) /\ j.ptr = u /\ j.id = "JOIN"
    <3>1. Join(u, n \in Registered) \in Event
      BY DEF Join, Event
    <3>2. Join(u, n \in Registered).ptr = u /\ Join(u, n \in Registered).id = "JOIN"
      BY DEF Join
    <3> QED
      BY <3>1, <3>2
  <2> QED
    BY <1>9, <2>1, GhostEffect DEF hub_handle_info_login
<1> QED
  BY <1>1, <1>2, <1>3, <1>4, <1>5, <1>6, <1>7, <1>8, <1>9 DEF Callback

\* Every event that is dispatched has one of the effects.
LEMMA EffectDispatch ==
  ASSUME TypeOK, Life, Dispatch
  PROVE  UserEffect
<1> USE DEF Life
<1>0. left > 0
  BY Zenon DEF Dispatch, DispatchJoinGone, DispatchJoinPassword, DispatchJoinGuest,
         DispatchJoinDuplicate, DispatchQuit, DispatchDestroy, DispatchShutdown,
         DispatchShutdownDone, Dispatching
<1>h. /\ Head(queue) \in Event
      /\ Tail(queue) \in Seq(Event)
      /\ Events(queue) = {Head(queue)} \cup Events(Tail(queue))
      /\ \A d \in Events(Tail(queue)) :
           d.ptr = Head(queue).ptr
             => Head(queue).id = "JOIN" /\ d.id \in {"QUIT", "DESTROY"}
      /\ EventSound(Head(queue))
  BY <1>0, HeadFacts DEF QueueUsers
<1>t. list \subseteq User
  BY DEF TypeOK, UserManagerTypeOK
<1>p. PICK h \in Event : h = Head(queue)
  BY <1>h
<1>q. h.id # "QUIT" => SamePending(Tail(queue))
  BY <1>h, <1>p DEF SamePending, Has
<1>s. h.id # "QUIT" /\ queue' = Tail(queue) => SameQuits
  BY <1>q DEF SameQuits, SamePending, Has
<1> DEFINE u == h.ptr
<1>1. CASE DispatchJoinGone
  <2>1. Quiet
    BY <1>1, <1>p, <1>s DEF DispatchJoinGone, Dispatching, Quiet
  <2> QED
    BY <2>1 DEF UserEffect
<1>2. CASE DispatchJoinPassword
  <2>1. u \in User /\ Verifies(u)
    BY <1>2, <1>h, <1>p, <1>s DEF DispatchJoinPassword, Dispatching, EventSound, Verifies, TypeOK
  <2> QED
    BY <2>1 DEF UserEffect
<1>3. CASE DispatchJoinGuest
  <2>1. u \in User /\ Enters(u)
    BY <1>3, <1>h, <1>p, <1>s DEF DispatchJoinGuest, Dispatching, EventSound, Enters, Connecting
  <2> QED
    BY <2>1 DEF UserEffect
<1>4. CASE DispatchJoinDuplicate
  <2>1. /\ h.id = "JOIN" /\ u \in User /\ state[u] \in Connecting
        /\ Leave(u, Tail(queue)) /\ UNCHANGED view
    BY <1>4, <1>h, <1>p DEF DispatchJoinDuplicate, Dispatching, EventSound, Connecting
  <2> QED
    BY <2>1, <1>q, <1>h, LeaveEffect, Zenon
<1>5. CASE DispatchQuit
  <2>1. /\ h.id = "QUIT" /\ u \in User /\ state[u] = "cleanup"
        /\ uman_send_quit_message(u, Online) /\ sidmap' = sid_free({u})
        /\ UNCHANGED <<state, timer, sid, noquit>>
        /\ queue' = Append(Tail(queue), Destroy(u))
    BY <1>5, <1>h, <1>p, <1>t DEF DispatchQuit, Dispatching, EventSound
  <2>d. PICK d \in Event : d = Destroy(u) /\ d.id = "DESTROY"
    BY <2>1, EventTypes DEF Destroy
  <2>2. Events(queue') = Events(Tail(queue)) \cup {d}
    BY <1>h, <2>1, <2>d, AppendSet, Zenon
  <2>3. \A e \in Events(Tail(queue)) : e.ptr # u
    BY <1>h, <1>p, <2>1
  <2>4. \A v \in User : Has(v, "QUIT")' <=> Has(v, "QUIT") /\ v # u
    BY <1>h, <1>p, <2>1, <2>2, <2>3, <2>d DEF Has
  <2>5. Has(u, "QUIT")
    BY <1>h, <1>p, <2>1 DEF Has
  <2>6. Quits(u)
    BY <2>1, <2>4, <2>5 DEF Quits
  <2> QED
    BY <2>1, <2>6 DEF UserEffect
<1>6. CASE DispatchDestroy
  <2>1. /\ h.id = "DESTROY" /\ u \in User /\ state[u] = "cleanup" /\ queue' = Tail(queue)
        /\ UNCHANGED <<timer, sid, sidmap, view, noquit>>
    BY <1>6, <1>h, <1>p DEF DispatchDestroy, Dispatching, EventSound
  <2>2. \A v \in User : state'[v] = IF v = u THEN "freed" ELSE state[v]
    BY <1>6, <1>p, <2>1 DEF DispatchDestroy, user_destroy, Freed
  <2>3. ~Has(u, "QUIT")
    BY <1>h, <1>p, <2>1 DEF Has
  <2>4. Frees(u)
    BY <2>1, <2>2, <2>3, <1>s DEF Frees
  <2> QED
    BY <2>1, <2>4 DEF UserEffect
<1>7. CASE DispatchShutdown
  <2>1. PICK w \in list : /\ user_destroy({w}, "shut")
                          /\ timer' = [timer EXCEPT ![w] = FALSE]
    BY <1>7, Zenon DEF DispatchShutdown
  <2>2. UNCHANGED <<sid, sidmap, view, noquit, queue>>
    BY <1>7 DEF DispatchShutdown
  <2>3. state[w] = "normal" \/ Has(w, "QUIT") \/ w \in noquit
    BY <1>t, <2>1 DEF UserLife, UserSound
  <2>4. \A v \in User : Has(v, "QUIT")' <=> Has(v, "QUIT")
    BY <2>2 DEF Has
  <2>5. Shuts({w})
    BY <1>t, <2>1, <2>2, <2>3, <2>4 DEF Shuts, TypeOK
  <2> QED
    BY <1>t, <2>1, <2>5 DEF UserEffect
<1>8. CASE DispatchShutdownDone
  <2>1. Quiet
    BY <1>8, <1>p, <1>s DEF DispatchShutdownDone, Dispatching, Quiet
  <2> QED
    BY <2>1 DEF UserEffect
<1> QED
  BY <1>1, <1>2, <1>3, <1>4, <1>5, <1>6, <1>7, <1>8 DEF Dispatch

\* Every step of the loops has one of the effects.
LEMMA EffectLoop ==
  ASSUME TypeOK, Life, Loop \/ hub_handle_signal
  PROVE  UserEffect
<1>1. CASE hub_shutdown_service
  <2>1. /\ user_destroy(list, "shut")
        /\ timer' = [v \in User |-> timer[v] /\ v \notin list]
        /\ UNCHANGED <<sid, sidmap, view, noquit>>
        /\ queue' = <<>>
    BY <1>1 DEF hub_shutdown_service
  <2>2. \A v \in list : v \in User /\ (state[v] = "normal" \/ Has(v, "QUIT") \/ v \in noquit)
    BY DEF Life, UserLife, UserSound, TypeOK, UserManagerTypeOK
  <2>3. \A v \in User : ~Has(v, "QUIT")'
    BY <2>1 DEF Has, Events
  <2>4. \A v \in User : Has(v, "QUIT") => v \in list
    BY DEF Life, QueueUsers, EventSound, Has
  <2>5. Shuts(list)
    BY <2>1, <2>2, <2>3, <2>4, Zenon DEF Shuts
  <2> QED
    BY <2>2, <2>5 DEF UserEffect
<1>2. CASE hub_disconnect_all
  <2>1. /\ UNCHANGED <<state, timer, sid, sidmap, view, noquit>>
        /\ queue' = Append(queue, Shutdown)
    BY <1>2 DEF hub_disconnect_all
  <2>2. Shutdown \in Event /\ Shutdown.id = "SHUTDOWN"
    BY DEF Shutdown, Event
  <2>3. Events(queue') = Events(queue) \cup {Shutdown}
    BY <2>1, <2>2, AppendSet DEF TypeOK
  <2>4. SameQuits
    BY <2>2, <2>3 DEF SameQuits, Has
  <2> QED
    BY <2>1, <2>4 DEF Quiet, UserEffect
<1>3. CASE UNCHANGED <<state, timer, sid, sidmap, view, noquit, queue>>
  BY <1>3 DEF Quiet, SameQuits, Has, UserEffect
<1> QED
  BY <1>1, <1>2, <1>3 DEF Loop, hub_handle_signal, hub_set_variables, NetDone, LoopAgain,
                          LoopLeft, Drained, DrainDone, MainLoop

\* Every step of the hub has one of these effects.
LEMMA EffectStep ==
  ASSUME TypeOK, Life, [Next]_vars
  PROVE  UserEffect
<1>1. CASE UNCHANGED vars \/ Terminated
  BY <1>1 DEF Terminated, Quiet, SameQuits, Has, UserEffect
<1> QED
  BY <1>1, EffectCallback, EffectDispatch, EffectLoop DEF Next
=============================================================================
