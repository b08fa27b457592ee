-------------------------------- MODULE Hub --------------------------------
(***************************************************************************)
(* The life of a hub user, from the first protocol message to the freed     *)
(* object, inside the hub's event loop (src/core/hub.c, hubevent.c, inf.c,  *)
(* netevent.c, user.c, main.c).                                             *)
(*                                                                          *)
(* The hub is one thread.  A round of hub_event_loop first runs the network *)
(* callbacks (pc = "net"), which log users in, drop them and post events,   *)
(* and then one pass of the event queue (pc = "pass"), which carries out    *)
(* what the callbacks must not do while the network backend still holds     *)
(* pointers: joining, leaving and freeing.  Signals change hub->status      *)
(* between any two steps.                                                   *)
(*                                                                          *)
(* An element of User is one struct hub_user, so it is created once.        *)
(***************************************************************************)
EXTENDS UserManager, Sequences

CONSTANTS
  Registered,             \* the nicks that have an account (the ACL)
  Protected,              \* those with a protected account (operators, ...)
  MaxUsers,               \* config max_users
  RegisteredOnly,         \* config registered_users_only
  ReloadStatus,           \* the hub_status that hub_set_variables may set
  Sid,                    \* the session identifiers of the pool
  NoSid,                  \* the SID 0, of the hub itself
  Request,                \* the hub_status that signals and commands may set
  Choke                   \* the values flag_choke may get before login

ASSUME AccountAssumption == Registered \subseteq Nick /\ Protected \subseteq Registered
ASSUME LimitAssumption == MaxUsers \in Nat /\ RegisteredOnly \in BOOLEAN
ASSUME StatusAssumption ==
  /\ ReloadStatus \subseteq {"running", "disabled", "shutdown"}
  /\ ReloadStatus # {}
  /\ Request \subseteq {"restart", "shutdown"}
ASSUME SidAssumption == NoSid \notin Sid
ASSUME ChokeAssumption == Choke \subseteq BOOLEAN /\ Choke # {}

VARIABLES
  status,                 \* hub->status
  pc,                     \* where main_loop and hub_event_loop are
  queue, left,            \* the event queue (EventFifo)
  state,                  \* user->state
  info,                   \* user->info is set: the first INF was accepted
  choke,                  \* flag_choke
  timer,                  \* the connection's timeout is scheduled
  sid,                    \* user->id.sid
  sidmap,                 \* users->sids->map
  noquit                  \* history: users that were logged in when
                          \* hub_disconnect_user decided to post no QUIT

userVars == <<state, info, choke, timer>>
sidVars == <<sid, sidmap>>
loopVars == <<status, pc>>
vars == <<idVars, umanVars, loopVars, queue, left, userVars, sidVars, noquit>>

Connecting == {"protocol", "identify", "verify"}
Freed == {"freed", "shut", "double_free"}
UserState == {"unborn", "normal", "cleanup"} \cup Connecting \cup Freed
Status == {"running", "disabled", "restart", "shutdown", "stopped"}
Pass == {"pass", "drain1", "drain2", "drain3"}
PC == {"set", "net", "left", "after", "stop", "exit"} \cup Pass

Online == {u \in User : state[u] = "normal"}

Event == [id : {"JOIN", "QUIT", "DESTROY", "SHUTDOWN"},
          ptr : User \cup {NoUser}, flags : BOOLEAN]

Join(u, needsPassword) == [id |-> "JOIN", ptr |-> u, flags |-> needsPassword]
Quit(u) == [id |-> "QUIT", ptr |-> u, flags |-> FALSE]
Destroy(u) == [id |-> "DESTROY", ptr |-> u, flags |-> FALSE]
Shutdown == [id |-> "SHUTDOWN", ptr |-> NoUser, flags |-> FALSE]

TypeOK ==
  /\ UserManagerTypeOK
  /\ status \in Status
  /\ pc \in PC
  /\ queue \in Seq(Event)
  /\ left \in Nat
  /\ state \in [User -> UserState]
  /\ info \in [User -> BOOLEAN]
  /\ choke \in [User -> BOOLEAN]
  /\ timer \in [User -> BOOLEAN]
  /\ sid \in [User -> Sid \cup {NoSid}]
  /\ sidmap \in [Sid -> User \cup {NoUser}]
  /\ noquit \subseteq User

\* hub_start_service has run, hub_set_variables has not.
Init ==
  /\ UserManagerInit
  /\ status = "running"
  /\ pc = "set"
  /\ queue = <<>>
  /\ left = 0
  /\ state = [u \in User |-> "unborn"]
  /\ info = [u \in User |-> FALSE]
  /\ choke = [u \in User |-> FALSE]
  /\ timer = [u \in User |-> FALSE]
  /\ sid = [u \in User |-> NoSid]
  /\ sidmap = [s \in Sid |-> NoUser]
  /\ noquit = {}

-----------------------------------------------------------------------------
\* hub_disconnect_user for the users of D, none of which is disconnecting yet:
\* the connection is closed (its timer with it) and the user goes to cleanup.  A
\* logged-in user of a running hub gets a QUIT event; any other user a DESTROY
\* event, and its SID is released at once (hub_schedule_destroy_user).
NeedNotify(u) == state[u] = "normal" /\ status = "running"

DisconnectEvent(u) == IF NeedNotify(u) THEN Quit(u) ELSE Destroy(u)

sid_free(D) == [s \in Sid |-> IF \E u \in D : sid[u] = s THEN NoUser ELSE sidmap[s]]

\* Mutant: the SID is released before the others are told of the departure.
hub_disconnect_user_early(D) ==
  /\ state' = [u \in User |-> IF u \in D THEN "cleanup" ELSE state[u]]
  /\ timer' = [u \in User |-> timer[u] /\ u \notin D]
  /\ sidmap' = sid_free(D)
  /\ noquit' = noquit \cup {u \in D : state[u] = "normal" /\ ~NeedNotify(u)}

hub_disconnect_user(D) ==
  /\ state' = [u \in User |-> IF u \in D THEN "cleanup" ELSE state[u]]
  /\ timer' = [u \in User |-> timer[u] /\ u \notin D]
  /\ sidmap' = sid_free({u \in D : ~NeedNotify(u)})
  /\ noquit' = noquit \cup {u \in D : state[u] = "normal" /\ ~NeedNotify(u)}

\* hub_disconnect_user for one user; q is the queue the event is appended to.
Leave(u, q) ==
  /\ hub_disconnect_user({u})
  /\ queue' = Append(q, DisconnectEvent(u))
  /\ UNCHANGED <<info, choke, sid>>

\* on_login_success: the user list is sent, the user becomes normal, is added
\* to the user manager and announced; the handshake timer is cleared.
on_login_success(u) ==
  /\ state' = [state EXCEPT ![u] = "normal"]
  /\ timer' = [timer EXCEPT ![u] = FALSE]
  /\ uman_add(u, Online)
  /\ UNCHANGED <<idVars, info, choke, sidVars, noquit>>

-----------------------------------------------------------------------------
(* Network callbacks.                                                      *)

\* probe_net_event has seen "HSUP" and hands the connection over to a new user;
\* the timer the probe set on the connection keeps running.
user_create(u) ==
  /\ pc = "net"
  /\ state[u] = "unborn"
  /\ state' = [state EXCEPT ![u] = "protocol"]
  /\ timer' = [timer EXCEPT ![u] = TRUE]
  /\ UNCHANGED <<idVars, umanVars, loopVars, queue, left, info, choke, sidVars, noquit>>

\* uman_get_free_sid: some free SID, or 0 when the pool has none.
FreeSid == {s \in Sid : sidmap[s] = NoUser}

\* Mutant of hub_handle_support: the timeout is cleared, not set again.
hub_handle_support_untimed(u) ==
  /\ pc = "net"
  /\ state[u] = "protocol"
  /\ status # "disabled"
  /\ \E s \in IF FreeSid = {} THEN {NoSid} ELSE FreeSid :
       /\ sid' = [sid EXCEPT ![u] = s]
       /\ sidmap' = [t \in Sid |-> IF t = s THEN u ELSE sidmap[t]]
  /\ \E b \in Choke : choke' = [choke EXCEPT ![u] = b]
  /\ state' = [state EXCEPT ![u] = "identify"]
  /\ timer' = [timer EXCEPT ![u] = FALSE]
  /\ UNCHANGED <<idVars, umanVars, loopVars, queue, left, info, noquit>>

\* HSUP with an acceptable feature list: hub_send_handshake and a new timeout.
\* In any other state HSUP only changes the feature flags.
hub_handle_support(u) ==
  /\ pc = "net"
  /\ state[u] = "protocol"
  /\ status # "disabled"
  /\ \E s \in IF FreeSid = {} THEN {NoSid} ELSE FreeSid :
       /\ sid' = [sid EXCEPT ![u] = s]
       /\ sidmap' = [t \in Sid |-> IF t = s THEN u ELSE sidmap[t]]
  /\ \E b \in Choke : choke' = [choke EXCEPT ![u] = b]
  /\ state' = [state EXCEPT ![u] = "identify"]
  /\ timer' = [timer EXCEPT ![u] = TRUE]
  /\ UNCHANGED <<idVars, umanVars, loopVars, queue, left, info, noquit>>

\* Mutant of Drop: a user that is already disconnecting is dropped again.
Drop_again(u) ==
  /\ pc = "net"
  /\ state[u] \in Connecting \cup {"normal", "cleanup"}
  /\ Leave(u, queue)
  /\ UNCHANGED <<idVars, umanVars, loopVars, left>>

\* Everything that makes the hub drop a user from a network callback: a socket
\* error or a closed connection (net_event), a message hub_handle_message
\* refuses, a bad feature list or any HSUP on a disabled hub
\* (hub_handle_support), a wrong password, a bad or refused INF.
Drop(u) ==
  /\ pc = "net"
  /\ state[u] \in Connecting \cup {"normal"}
  /\ Leave(u, queue)
  /\ UNCHANGED <<idVars, umanVars, loopVars, left>>

\* Mutant of Timeout: a user that was asked for its password is not dropped.
Timeout_verify(u) ==
  /\ pc = "net"
  /\ timer[u]
  /\ IF state[u] \in {"protocol", "identify"}
       THEN Leave(u, queue)
       ELSE /\ timer' = [timer EXCEPT ![u] = FALSE]
            /\ UNCHANGED <<state, info, choke, queue, sidVars, noquit>>
  /\ UNCHANGED <<idVars, umanVars, loopVars, left>>

\* NET_EVENT_TIMEOUT: drops a user that is still connecting.
Timeout(u) ==
  /\ pc = "net"
  /\ timer[u]
  /\ IF state[u] \in Connecting
       THEN Leave(u, queue)
       ELSE /\ timer' = [timer EXCEPT ![u] = FALSE]
            /\ UNCHANGED <<state, info, choke, queue, sidVars, noquit>>
  /\ UNCHANGED <<idVars, umanVars, loopVars, left>>

\* check_logged_in: the nick and CID are unused ...
Unused(n, c) == nickmap[n] = NoUser /\ cidmap[c] = NoUser

\* ... or belong to one user that does not swallow its data, a likely ghost.
Ghost(n, c) ==
  /\ nickmap[n] # NoUser
  /\ nickmap[n] = cidmap[c]
  /\ choke[nickmap[n]]

\* check_is_hub_full and check_registered_users_only let the nick in.
Admitted(n) ==
  /\ MaxUsers = 0 \/ count < MaxUsers \/ n \in Protected
  /\ RegisteredOnly => n \in Registered

\* A connecting user's first INF; user->info makes the hub ignore another one.
\* The user may still be in state_protocol, when handle_net_read dropped its
\* first line for being longer than max_recv_buffer.
ExpectsInfo(u) == pc = "net" /\ state[u] \in Connecting /\ ~info[u]

\* The ghost check_logged_in has to drop, if any, and the queue after that.
GhostOf(n, c) == IF Ghost(n, c) THEN {nickmap[n]} \cap Online ELSE {}

GhostQueue(n, c) ==
  IF GhostOf(n, c) = {} THEN queue ELSE Append(queue, DisconnectEvent(nickmap[n]))

\* hub_handle_info, login accepted: the identity is stored, and a JOIN event is
\* posted whose flags say whether a password is needed (set_credentials).
hub_handle_info_login(u, n, c, b) ==
  /\ ExpectsInfo(u)
  /\ Unused(n, c) \/ Ghost(n, c)
  /\ Admitted(n)
  /\ nick' = [nick EXCEPT ![u] = n]
  /\ cid' = [cid EXCEPT ![u] = c]
  /\ share' = [share EXCEPT ![u] = b]
  /\ info' = [info EXCEPT ![u] = TRUE]
  /\ hub_disconnect_user(GhostOf(n, c))
  /\ queue' = Append(GhostQueue(n, c), Join(u, n \in Registered))
  /\ UNCHANGED <<umanVars, loopVars, left, choke, sid>>

\* hub_handle_info, refused by one of the checks after check_logged_in (the hub
\* is full, registered users only, limits): the ghost is gone all the same.
hub_handle_info_refused(u, n, c) ==
  /\ ExpectsInfo(u)
  /\ GhostOf(n, c) # {}
  /\ hub_disconnect_user(GhostOf(n, c) \cup {u})
  /\ queue' = Append(GhostQueue(n, c), DisconnectEvent(u))
  /\ UNCHANGED <<idVars, umanVars, loopVars, left, info, choke, sid>>

\* Mutant of hub_handle_info_update: the old share stays booked.
hub_handle_info_update_twice(u, b) ==
  /\ pc = "net"
  /\ state[u] = "normal"
  /\ share' = [share EXCEPT ![u] = b]
  /\ shared' = shared + b
  /\ \/ Leave(u, queue)
     \/ UNCHANGED <<queue, userVars, sidVars, noquit>>
  /\ UNCHANGED <<nick, cid, list, nickmap, cidmap, count, view, loopVars, left>>

\* hub_handle_info of a logged-in user: check_limits books the new share size,
\* and then drops the user if a limit is exceeded.
hub_handle_info_update(u, b) ==
  /\ pc = "net"
  /\ state[u] = "normal"
  /\ share' = [share EXCEPT ![u] = b]
  /\ shared' = shared - share[u] + b
  /\ \/ Leave(u, queue)
     \/ UNCHANGED <<queue, userVars, sidVars, noquit>>
  /\ UNCHANGED <<nick, cid, list, nickmap, cidmap, count, view, loopVars, left>>

\* HPAS with the right password (acl_password_verify); a wrong one is a Drop.
hub_handle_password(u) ==
  /\ pc = "net"
  /\ state[u] = "verify"
  /\ on_login_success(u)
  /\ UNCHANGED <<loopVars, queue, left>>

\* The !kick command of a logged-in operator, who names the target by its nick.
command_kick(u, n) ==
  /\ pc = "net"
  /\ state[u] = "normal" /\ nick[u] \in Protected
  /\ nickmap[n] \in Online \ {u}
  /\ Leave(nickmap[n], queue)
  /\ UNCHANGED <<idVars, umanVars, loopVars, left>>

-----------------------------------------------------------------------------
(* hub_event_dispatcher, for the event at the head of the queue.           *)

\* Mutant: the pass goes on until the queue is empty.
Dispatching_endless(id) ==
  /\ pc \in Pass
  /\ queue # <<>>
  /\ Head(queue).id = id
  /\ left' = left - 1

Dispatching(id) ==
  /\ pc \in Pass
  /\ left > 0
  /\ Head(queue).id = id
  /\ left' = left - 1

\* JOIN of a user that was dropped after posting it.
DispatchJoinGone ==
  /\ Dispatching("JOIN")
  /\ state[Head(queue).ptr] = "cleanup"
  /\ queue' = Tail(queue)
  /\ UNCHANGED <<idVars, umanVars, loopVars, userVars, sidVars, noquit>>

\* Mutant of DispatchJoinPassword: the user may have been dropped.
DispatchJoinPassword_gone ==
  LET u == Head(queue).ptr IN
  /\ Dispatching("JOIN")
  /\ Head(queue).flags
  /\ state' = [state EXCEPT ![u] = "verify"]
  /\ \E b \in Choke : choke' = [choke EXCEPT ![u] = b]
  /\ queue' = Tail(queue)
  /\ UNCHANGED <<idVars, umanVars, loopVars, info, timer, sidVars, noquit>>

\* JOIN of a registered nick: hub_send_password_challenge.
DispatchJoinPassword ==
  LET u == Head(queue).ptr IN
  /\ Dispatching("JOIN")
  /\ state[u] # "cleanup"
  /\ Head(queue).flags
  /\ state' = [state EXCEPT ![u] = "verify"]
  /\ \E b \in Choke : choke' = [choke EXCEPT ![u] = b]
  /\ queue' = Tail(queue)
  /\ UNCHANGED <<idVars, umanVars, loopVars, info, timer, sidVars, noquit>>

\* JOIN of a guest: check_duplicate_logins_ok, then on_login_success ...
DispatchJoinGuest ==
  LET u == Head(queue).ptr IN
  /\ Dispatching("JOIN")
  /\ state[u] # "cleanup"
  /\ ~Head(queue).flags
  /\ Unused(nick[u], cid[u])
  /\ on_login_success(u)
  /\ queue' = Tail(queue)
  /\ UNCHANGED loopVars

\* ... or on_login_failure.
DispatchJoinDuplicate ==
  LET u == Head(queue).ptr IN
  /\ Dispatching("JOIN")
  /\ state[u] # "cleanup"
  /\ ~Head(queue).flags
  /\ ~Unused(nick[u], cid[u])
  /\ Leave(u, Tail(queue))
  /\ UNCHANGED <<idVars, umanVars, loopVars>>

\* QUIT: the user leaves the user manager, the others are told, and the user
\* is scheduled for destruction, its SID released.
DispatchQuit ==
  LET u == Head(queue).ptr IN
  /\ Dispatching("QUIT")
  /\ uman_remove(u)
  /\ uman_send_quit_message(u, Online)
  /\ queue' = Append(Tail(queue), Destroy(u))
  /\ sidmap' = sid_free({u})
  /\ UNCHANGED <<idVars, loopVars, userVars, sid, noquit>>

\* user_destroy frees the object; how records who did.
user_destroy(D, how) ==
  state' = [u \in User |-> IF u \notin D THEN state[u]
                           ELSE IF state[u] \in Freed THEN "double_free" ELSE how]

DispatchDestroy ==
  /\ Dispatching("DESTROY")
  /\ user_destroy({Head(queue).ptr}, "freed")
  /\ queue' = Tail(queue)
  /\ UNCHANGED <<idVars, umanVars, loopVars, info, choke, timer, sidVars, noquit>>

\* HUB_SHUTDOWN removes and frees the users of the list one by one ...
DispatchShutdown ==
  /\ pc \in Pass
  /\ left > 0
  /\ Head(queue).id = "SHUTDOWN"
  /\ \E u \in list :
       /\ uman_remove(u)
       /\ user_destroy({u}, "shut")
       /\ timer' = [timer EXCEPT ![u] = FALSE]
  /\ UNCHANGED <<idVars, view, loopVars, queue, left, info, choke, sidVars, noquit>>

\* ... until none is left.
DispatchShutdownDone ==
  /\ Dispatching("SHUTDOWN")
  /\ list = {}
  /\ queue' = Tail(queue)
  /\ UNCHANGED <<idVars, umanVars, loopVars, userVars, sidVars, noquit>>

Dispatch ==
  \/ DispatchJoinGone
  \/ DispatchJoinPassword
  \/ DispatchJoinGuest
  \/ DispatchJoinDuplicate
  \/ DispatchQuit
  \/ DispatchDestroy
  \/ DispatchShutdown
  \/ DispatchShutdownDone

-----------------------------------------------------------------------------
(* main_loop and hub_event_loop.                                           *)

dataVars == <<idVars, umanVars, userVars, sidVars, noquit>>

\* hub_set_variables, after (re)reading the configuration: the status becomes
\* running or disabled, or shutdown when a plugin cannot be loaded.
hub_set_variables ==
  /\ pc = "set"
  /\ status' \in ReloadStatus
  /\ pc' = "net"
  /\ UNCHANGED <<dataVars, queue, left>>

\* net_backend_process returns and event_queue_process begins a pass.
NetDone ==
  /\ pc = "net"
  /\ pc' = "pass"
  /\ left' = Len(queue)
  /\ UNCHANGED <<dataVars, status, queue>>

\* Mutant of LoopAgain: the loop waits for a status that only its end sets.
LoopAgain_stopped ==
  /\ pc = "pass" /\ left = 0
  /\ pc' = IF status # "stopped" THEN "net" ELSE "left"
  /\ UNCHANGED <<dataVars, status, queue, left>>

\* The while condition of hub_event_loop ...
LoopAgain ==
  /\ pc = "pass" /\ left = 0
  /\ pc' = IF status \in {"running", "disabled"} THEN "net" ELSE "left"
  /\ UNCHANGED <<dataVars, status, queue, left>>

\* ... and, the loop left, its if: a shutdown drains the queue twice.
LoopLeft ==
  /\ pc = "left"
  /\ IF status = "shutdown"
       THEN pc' = "drain1" /\ left' = Len(queue)
       ELSE pc' = "after" /\ UNCHANGED left
  /\ UNCHANGED <<dataVars, status, queue>>

Drained ==
  /\ pc = "drain1" /\ left = 0
  /\ pc' = "drain2"
  /\ left' = Len(queue)
  /\ UNCHANGED <<dataVars, status, queue>>

\* Mutant of hub_disconnect_all: HUB_SHUTDOWN misses the last pass.
hub_disconnect_all_late ==
  /\ pc = "drain2" /\ left = 0
  /\ queue' = Append(queue, Shutdown)
  /\ pc' = "drain3"
  /\ left' = Len(queue)
  /\ UNCHANGED <<dataVars, status>>

\* hub_disconnect_all posts HUB_SHUTDOWN, and a third pass begins.
hub_disconnect_all ==
  /\ pc = "drain2" /\ left = 0
  /\ queue' = Append(queue, Shutdown)
  /\ pc' = "drain3"
  /\ left' = Len(queue')
  /\ UNCHANGED <<dataVars, status>>

DrainDone ==
  /\ pc = "drain3" /\ left = 0
  /\ status' = "stopped"
  /\ pc' = "after"
  /\ UNCHANGED <<dataVars, queue, left>>

\* The while condition of main_loop.
MainLoop ==
  /\ pc = "after"
  /\ pc' = IF status = "restart" THEN "set" ELSE "stop"
  /\ UNCHANGED <<dataVars, status, queue, left>>

\* hub_shutdown_service destroys the event queue and the user manager with the
\* users still in its list.
hub_shutdown_service ==
  /\ pc = "stop"
  /\ pc' = "exit"
  /\ status' = "stopped"
  /\ queue' = <<>>
  /\ left' = 0
  /\ user_destroy(list, "shut")
  /\ timer' = [u \in User |-> timer[u] /\ u \notin list]
  /\ list' = {}
  /\ nickmap' = [n \in Nick |-> NoUser]
  /\ cidmap' = [c \in Cid |-> NoUser]
  /\ count' = 0
  /\ shared' = 0
  /\ UNCHANGED <<idVars, view, info, choke, sidVars, noquit>>

\* hub_handle_signal, between any two steps of the program.  The commands
\* !reload and !shutdown do the same from a network callback.
hub_handle_signal ==
  /\ pc # "exit"
  /\ status' \in Request
  /\ UNCHANGED <<dataVars, pc, queue, left>>

Callback(u) ==
  \/ user_create(u)
  \/ hub_handle_support(u)
  \/ Drop(u)
  \/ Timeout(u)
  \/ hub_handle_password(u)
  \/ \E b \in Share : hub_handle_info_update(u, b)
  \/ \E n \in Nick : command_kick(u, n)
  \/ \E n \in Nick, c \in Cid : hub_handle_info_refused(u, n, c)
  \/ \E n \in Nick, c \in Cid, b \in Share : hub_handle_info_login(u, n, c, b)

Loop ==
  \/ hub_set_variables
  \/ NetDone
  \/ LoopAgain
  \/ LoopLeft
  \/ Drained
  \/ hub_disconnect_all
  \/ DrainDone
  \/ MainLoop
  \/ hub_shutdown_service

Terminated == pc = "exit" /\ UNCHANGED vars

Next ==
  \/ \E u \in User : Callback(u)
  \/ Dispatch
  \/ Loop
  \/ hub_handle_signal
  \/ Terminated

Spec == Init /\ [][Next]_vars

\* The process keeps running, and the timer of a connection is served in every
\* net_backend_process once it is due (timeout_queue_process).
Fairness ==
  /\ WF_vars(Loop)
  /\ WF_vars(Dispatch)
  /\ \A u \in User : SF_vars(Timeout(u))

FairSpec == Spec /\ Fairness
=============================================================================
