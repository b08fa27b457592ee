------------------------------ MODULE HubProps ------------------------------
(***************************************************************************)
(* What the hub's user life cycle guarantees, and the inductive invariant   *)
(* behind it.                                                               *)
(***************************************************************************)
EXTENDS Hub

\* The events in a queue.
Events(q) == {q[i] : i \in 1..Len(q)}

\* An event of this kind for the user is pending.
Has(u, id) == \E e \in Events(queue) : e.id = id /\ e.ptr = u

\* hub_event_dispatcher dereferences the user of every event it takes from the
\* queue: no event outlives its user.
EventsLive ==
  \A e \in Events(queue) :
    e.ptr # NoUser => state[e.ptr] \in Connecting \cup {"normal", "cleanup"}

\* A user that was disconnected is not forgotten: until it is freed, the QUIT or
\* the DESTROY event that leads there is in the queue, and never both, which
\* would free it twice.
CleanupPending ==
  pc # "exit" =>
    \A u \in User : state[u] = "cleanup" => (Has(u, "QUIT") <=> ~Has(u, "DESTROY"))

\* As long as every logged-in user that was disconnected got its QUIT event, the
\* register of users holds no pointer to a freed one (route_to_all, the lookups
\* by nick, CID and SID dereference what they find), and nothing is freed twice.
NoDangling ==
  noquit = {} =>
    /\ \A u \in list : state[u] \in {"normal", "cleanup"}
    /\ \A s \in Sid : sidmap[s] # NoUser => state[sidmap[s]] # "freed"
    /\ \A u \in User : state[u] # "double_free"

\* What is pending, listed or found under a SID is there for as long as somebody may
\* follow it: hub_event_dispatcher, hub_disconnect_user and user_destroy neither free
\* what is in use nor forget what is not.
LifeSound == EventsLive /\ CleanupPending /\ NoDangling

\* An index entry leads to a listed user with that nick or CID, even where two
\* users share one and the indexes drop the wrong entry.
IndexSound ==
  /\ \A n \in Nick : nickmap[n] # NoUser => nickmap[n] \in list /\ nick[nickmap[n]] = n
  /\ \A c \in Cid : cidmap[c] # NoUser => cidmap[c] \in list /\ cid[cidmap[c]] = c

\* Two JOIN events for one unregistered nick may be queued, but one user gets in:
\* every listed guest is the one that its nick leads to.
GuestIndexed ==
  \A u \in list : nick[u] \notin Registered => nickmap[nick[u]] = u

\* The same for CIDs while nobody has identified with a registered nick.
CidIndexed ==
  (\A u \in User : info[u] => nick[u] \notin Registered)
    => \A u \in list : cidmap[cid[u]] = u

\* users->count, which check_is_hub_full reads, is the number of listed users;
\* uman_remove never meets the "negative count!".
CountAgrees == count = Cardinality(list)

\* The list, the two indexes and the counter of usermanager.c agree as far as the code
\* lets them: duplicates of registered users are the only exception.
RegisterSound == IndexSound /\ GuestIndexed /\ CidIndexed /\ CountAgrees

\* The bytes that the users of a set share, one element for each byte.
Bytes(users, size) == UNION {{u} \X (1..size[u]) : u \in users}

\* users->shared_size, shown in the hub's statistics, is the sum over the listed
\* users, whatever updates and limit violations happened on the way: check_limits
\* books a new size before it drops the user, and uman_remove takes off what is
\* booked last.
SharedAgrees == shared = Cardinality(Bytes(list, share))

\* What a client was told: every logged-in user knows all the others, and whom
\* it believes online is, or has a QUIT event on the way that will tell it, or was
\* removed by the shutdown of the whole hub.
ViewComplete == \A u \in Online : Online \subseteq view[u]

ViewSound ==
  noquit = {} =>
    \A u \in Online : \A v \in view[u] : state[v] \in {"normal", "shut"} \/ Has(v, "QUIT")

\* The user list that a client has built from the messages of uman_send_user_list,
\* route_info_message and uman_send_quit_message is the hub's.
ViewsAgree == ViewComplete /\ ViewSound

\* A SID leads to its user from the handshake until the QUIT message that names
\* the SID has been sent; it is not handed to another user meanwhile.
SidOwned ==
  \A u \in User :
    /\ sid[u] # NoSid
    /\ state[u] \in Connecting \cup {"normal"} \/ (state[u] = "cleanup" /\ Has(u, "QUIT"))
    => sidmap[sid[u]] = u

\* A user that has not logged in has a running timer: an idle connection cannot
\* hold its slot for ever.
ConnectingHasTimer == \A u \in User : state[u] \in Connecting => timer[u]

\* After the three passes of a shutdown the queue is empty, as
\* event_queue_shutdown demands, and no user is listed.
ShutdownDrained ==
  status = "stopped" /\ pc # "exit" => queue = <<>> /\ list = {}

\* The user's state only moves forward; a dropped user never comes back.
Rank(st) ==
  CASE st = "unborn" -> 0 [] st = "protocol" -> 1 [] st = "identify" -> 2
    [] st = "verify" -> 3 [] st = "normal" -> 4 [] st = "cleanup" -> 5 [] OTHER -> 6

StateForward == [][\A u \in User : Rank(state'[u]) >= Rank(state[u])]_vars

\* The hub uses its event queue as the FIFO that EventQueue implements, until
\* hub_shutdown_service destroys it: events are taken in order, only in a pass,
\* and only those that were pending when the pass began.
Fifo == INSTANCE EventFifo

QueueIsFifo ==
  Fifo!FifoInit /\ [][Fifo!FifoNext \/ pc' = "exit"]_<<queue, left>>

-----------------------------------------------------------------------------
(* What must happen in the end.                                            *)

\* A connection that does not finish its login is dropped, whatever the peer
\* does or does not send.
HandshakeEnds ==
  \A u \in User : state[u] \in Connecting ~> (state[u] \notin Connecting \/ pc = "exit")

\* A user that was disconnected is freed.
CleanupEnds ==
  \A u \in User : state[u] = "cleanup" ~> (state[u] \in Freed \/ pc = "exit")

\* No connection stays half open or half closed: the timers of net_event and the
\* events of hub_disconnect_user end both phases.
ConnectionsEnd == HandshakeEnds /\ CleanupEnds

\* Who is told that a user has come is told that it has gone, unless it leaves
\* first or the hub was not running when the user was dropped.
DepartureSeen ==
  \A u, v \in User :
    v \in view[u] /\ state[v] = "cleanup"
      ~> (v \notin view[u] \/ state[u] # "normal" \/ v \in noquit \/ pc = "exit")

\* A shutdown request that is not overwritten (by hub_set_variables, or by a
\* reload) ends the process.
ShutdownEnds == status = "shutdown" /\ pc # "set" ~> pc = "exit"

-----------------------------------------------------------------------------
(* What the comments in the code say, and the code does not do.            *)

\* hub.c:553-554, on two logins queued up: "make sure we don't let the second
\* client in".
OneLoginPerNick == \A u, v \in Online : nick[u] = nick[v] => u = v

\* user.h:33, on state_cleanup: "User is disconnected, but other users need to be
\* notified."
CleanupNotifies ==
  \A u \in User :
    state[u] = "cleanup" /\ (\E v \in Online : u \in view[v]) => Has(u, "QUIT")

\* eventqueue.c:57, on event_queue_shutdown: "Should be empty at this point!"
EmptyAtShutdown == pc = "stop" => queue = <<>>

-----------------------------------------------------------------------------
(* The inductive invariant.                                                *)

\* A user has at most one JOIN and at most one QUIT or DESTROY pending, in this
\* order.
Ordered(q) ==
  \A i, j \in 1..Len(q) :
    i < j /\ q[i].ptr = q[j].ptr => q[i].id = "JOIN" /\ q[j].id \in {"QUIT", "DESTROY"}

\* The pass ends within the queue.
QueueOrder ==
  /\ left <= Len(queue)
  /\ pc \notin Pass => left = 0
  /\ Ordered(queue)

\* What a pending event says about its user.
EventSound(e) ==
  /\ e.id = "JOIN" =>
       /\ e.ptr \in User /\ info[e.ptr]
       /\ state[e.ptr] \in {"protocol", "identify", "cleanup"}
       /\ (e.flags <=> nick[e.ptr] \in Registered)
  /\ e.id = "QUIT" => e.ptr \in list /\ state[e.ptr] = "cleanup" /\ e.ptr \notin noquit
  /\ e.id = "DESTROY" =>
       /\ e.ptr \in User /\ state[e.ptr] = "cleanup"
       /\ e.ptr \in list => e.ptr \in noquit
  /\ e.id = "SHUTDOWN" => e.ptr = NoUser /\ pc = "drain3"

QueueUsers == \A e \in Events(queue) : EventSound(e)

\* What the state of a user says about the events and the list.
UserSound(u) ==
  /\ state[u] = "unborn" => ~info[u]
  /\ state[u] = "verify" => info[u] /\ nick[u] \in Registered
  /\ state[u] = "cleanup" /\ pc # "exit" => Has(u, "QUIT") \/ Has(u, "DESTROY")
  /\ state[u] = "normal" => u \in list /\ u \notin noquit
  /\ u \in list => info[u] /\ (state[u] = "normal" \/ Has(u, "QUIT") \/ u \in noquit)
  /\ u \in noquit => state[u] \in {"cleanup"} \cup Freed
  /\ state[u] = "double_free" => u \in noquit

UserLife == \A u \in User : UserSound(u)

\* The passes of a shutdown: nothing is notified any more, so the first leaves
\* only DESTROY events, the second none, and the third works on HUB_SHUTDOWN.
DrainPhase ==
  /\ pc \in {"left", "drain1", "drain2", "drain3"} => status \in {"restart", "shutdown"}
  /\ status = "stopped" => pc \in {"after", "stop", "exit"}
  /\ pc = "drain1" => \A i \in (left + 1)..Len(queue) : queue[i].id = "DESTROY"
  /\ pc = "drain2" => left = Len(queue) /\ \A e \in Events(queue) : e.id = "DESTROY"
  /\ pc = "drain3" => left = Len(queue) /\ \A e \in Events(queue) : e.id = "SHUTDOWN"
  /\ pc = "drain3" /\ left = 0 => list = {}
  /\ pc = "exit" => queue = <<>> /\ list = {}

\* A SID in the pool's map belongs to the user that has it, which is not freed
\* other than by the shutdown of the hub.
SidMap ==
  /\ \A s \in Sid : sidmap[s] # NoUser =>
       /\ sid[sidmap[s]] = s
       /\ sidmap[s] \notin noquit
       /\ \/ state[sidmap[s]] \in {"identify", "verify", "normal", "shut"}
          \/ Has(sidmap[s], "QUIT")
  /\ \A u \in User : state[u] \in {"unborn", "protocol"} => sid[u] = NoSid

\* The shares can be counted, and shared_size counts them.
SharedBooked == IsFiniteSet(Bytes(list, share)) /\ SharedAgrees

IInv ==
  /\ TypeOK
  /\ QueueOrder
  /\ QueueUsers
  /\ UserLife
  /\ DrainPhase
  /\ ShutdownDrained
  /\ IndexSound
  /\ GuestIndexed
  /\ CidIndexed
  /\ CountAgrees
  /\ SharedBooked
  /\ ViewComplete
  /\ ViewSound
  /\ SidOwned
  /\ SidMap
  /\ ConnectingHasTimer
=============================================================================
