------------------------------- MODULE NetIo -------------------------------
(***************************************************************************)
(* The hub's event loop over NetBackend: accepting and probing connections    *)
(* (src/core/netevent.c, probe.c), reading from and writing to users          *)
(* (netevent.c, ioqueue.c) and routing messages to them (route.c).  A round   *)
(* of net_backend_process polls, fires timers, hands out the batch of events  *)
(* and frees what was closed.  A message is its length; what a line from a    *)
(* user makes the hub do is one of the inputs below.                          *)
(***************************************************************************)
EXTENDS NetBackend

CONSTANTS
  Listener,        \* stands for the listening connection in a batch
  ChatLen,         \* the length of a chat message; the others have length 1
  MaxSend,         \* max_send_buffer
  SoftSend,        \* max_send_buffer_soft
  MaxSockets,      \* net_get_max_sockets()
  MaxQueue,        \* bound: messages in a send queue when a user logs in
  MaxChat,         \* bound: messages in a send queue when a user chats
  MaxTls           \* bound: TLS connections at a time

VARIABLES
  backend,         \* "epoll", "select" or "kqueue", chosen at start
  net,             \* the network state (NetBackend)
  phase,           \* "poll", "timers", "events" or "accept"
  batch,           \* the events of this round that are not handed out yet
  stale            \* an event of this round went to another connection than it was polled for

vars == <<backend, net, phase, batch, stale>>

Init ==
  /\ backend \in {"epoll", "select", "kqueue"}
  /\ net = NoNet
  /\ phase = "poll" /\ batch = {} /\ stale = FALSE

Open == {c \in Cons : net.con[c].st = "open"}
Bytes(con) == SumFunction(con.q) - con.off
Update(n, c, ev) == net_con_update(backend, n, c, ev)
Close(n, c) == net_con_close(backend, n, c)
IsUser(n, c) == n.con[c].st = "open" /\ n.con[c].kind = "user"
LoggedIn(n) == {c \in Cons : IsUser(n, c) /\ n.con[c].ustate = "normal"}

\* ------------------------------------------------------- ioqueue.c, route.c

ioq_send_add(n, c, len) == [n EXCEPT !.con[c].q = Append(@, len)]

\* Mutant: the offset outlives the message.
ioq_send_remove_offset(n, c) == [n EXCEPT !.con[c].q = Tail(@)]

\* ioq_send_remove
ioq_send_remove(n, c) == [n EXCEPT !.con[c].q = Tail(@), !.con[c].off = 0]

\* ioq_send_send: [net, ret]
ioq_send_send(n, c) ==
  LET con == n.con[c]
      Sent(out) ==
        CASE out.ret <= 0 -> out
          [] out.ret > 0 /\ con.off + out.ret < Head(con.q) ->
               [net |-> [out.net EXCEPT !.con[c].off = @ + out.ret], ret |-> 0]
          [] OTHER -> [net |-> ioq_send_remove(out.net, c), ret |-> 1]
  IN  Sent(net_con_send(backend, n, c, Head(con.q), con.off))

RECURSIVE SendLoop(_, _)
SendLoop(n, c) ==
  LET More(out) == IF out.ret <= 0 THEN out ELSE SendLoop(out.net, c)
  IN  IF Bytes(n.con[c]) = 0 THEN [net |-> n, ret |-> 1] ELSE More(ioq_send_send(n, c))

\* Mutant: write events stay on when the queue is empty.
handle_net_write_hot(n, c) ==
  LET Interest(out) == IF out.ret < 0 THEN out ELSE [net |-> Update(out.net, c, Events), ret |-> 0]
  IN  IF n.con[c].st # "open" THEN [net |-> [n EXCEPT !.fault = c], ret |-> 0]
      ELSE Interest(SendLoop(n, c))

\* handle_net_write: [net, ret], with ret < 0 for quit_socket_error.
handle_net_write(n, c) ==
  LET Interest(out) ==
        IF out.ret < 0 THEN out
        ELSE [net |-> Update(out.net, c, IF Bytes(out.net.con[c]) > 0 THEN Events ELSE {R}), ret |-> 0]
  IN  IF n.con[c].st # "open" THEN [net |-> [n EXCEPT !.fault = c], ret |-> 0]
      ELSE Interest(SendLoop(n, c))

\* check_send_queue: [net, ret]
check_send_queue(n, c, len) ==
  LET size == SumFunction(n.con[c].q)
  IN  CASE n.con[c].ulist -> [net |-> n, ret |-> 1]
        [] ~ n.con[c].ulist /\ size + len > MaxSend -> [net |-> [n EXCEPT !.con[c].choke = TRUE], ret |-> -1]
        [] ~ n.con[c].ulist /\ size + len <= MaxSend /\ size > SoftSend ->
             [net |-> [n EXCEPT !.con[c].choke = TRUE], ret |-> 0]
        [] OTHER -> [net |-> [n EXCEPT !.con[c].choke = FALSE], ret |-> 1]

\* Mutant: a message that is queued behind others does not ask for write events.
route_to_user_unarmed(n, c, len) ==
  IF ~ IsUser(n, c) THEN n
  ELSE IF Bytes(n.con[c]) = 0 /\ ~ n.con[c].pipe
       THEN SendLoop(ioq_send_add(n, c, len), c).net
       ELSE LET Queue(chk) == IF chk.ret < 0 THEN chk.net ELSE ioq_send_add(chk.net, c, len)
            IN  Queue(check_send_queue(n, c, len))

\* route_to_user: the result of the opportunistic write is ignored.
route_to_user(n, c, len) ==
  IF ~ IsUser(n, c) THEN n
  ELSE IF Bytes(n.con[c]) = 0 /\ ~ n.con[c].pipe
       THEN handle_net_write(ioq_send_add(n, c, len), c).net
       ELSE LET Want(m) == IF n.con[c].pipe THEN m ELSE Update(m, c, Events)
                Queue(chk) == IF chk.ret < 0 THEN chk.net ELSE Want(ioq_send_add(chk.net, c, len))
            IN  Queue(check_send_queue(n, c, len))

route_flush_pipeline(n, c) ==
  IF Bytes(n.con[c]) = 0 THEN n ELSE [handle_net_write(n, c).net EXCEPT !.con[c].pipe = FALSE]

RECURSIVE RouteEach(_, _, _)
RouteEach(n, S, len) ==
  IF S = {} THEN n
  ELSE LET c == CHOOSE x \in S : \A y \in S : n.con[x].fd <= n.con[y].fd IN RouteEach(route_to_user(n, c, len), S \ {c}, len)

route_to_all(n, len) == RouteEach(n, LoggedIn(n), len)

\* ------------------------------------------------------------ what users do

hub_disconnect_user(n, c) == Close(n, c)

RECURSIVE SendMany(_, _, _)
SendMany(n, c, k) == IF k = 0 THEN n ELSE SendMany(route_to_user(n, c, 1), c, k - 1)

\* hub_send_handshake: the support, SID and hub information messages in one write.
HandshakeMessages == 2
hub_send_handshake(n, c) ==
  [route_flush_pipeline(SendMany([n EXCEPT !.con[c].pipe = TRUE], c, HandshakeMessages), c)
     EXCEPT !.con[c].ustate = "identify"]

\* uman_send_user_list: one message for each user; flag_user_list stays set.
uman_send_user_list(n, c) == SendMany([n EXCEPT !.con[c].ulist = TRUE], c, Cardinality(LoggedIn(n)))

\* on_login_success
on_login_success(n, c) ==
  net_con_clear_timeout(route_to_all([uman_send_user_list(n, c) EXCEPT !.con[c].ustate = "normal"], 1), c)

\* What a line makes the hub do (hub_handle_message): answer the handshake, let the user
\* in, send a message of some length to everyone, kick another user, drop this one with a
\* result of 0 or of -1, or nothing: [net, ret].
Lines(n, c) ==
  {[do |-> "nothing"], [do |-> "drop"], [do |-> "refuse"]}
  \cup (IF n.con[c].ustate = "protocol" THEN {[do |-> "handshake"]} ELSE {})
  \cup (IF n.con[c].ustate = "identify" THEN {[do |-> "login"]} ELSE {})
  \cup (IF n.con[c].ustate = "normal"
        THEN {[do |-> "chat", len |-> ChatLen]} \cup {[do |-> "kick", who |-> d] : d \in LoggedIn(n) \ {c}}
        ELSE {})

hub_handle_message(n, c, line) ==
  CASE line.do = "nothing"   -> [net |-> n, ret |-> 0]
    [] line.do = "drop"      -> [net |-> hub_disconnect_user(n, c), ret |-> 0]
    [] line.do = "refuse"    -> [net |-> n, ret |-> -1]
    [] line.do = "handshake" -> [net |-> net_con_set_timeout(hub_send_handshake(n, c), c), ret |-> 0]
    [] line.do = "login"     -> [net |-> on_login_success(n, c), ret |-> 0]
    [] line.do = "chat"      -> [net |-> route_to_all(n, line.len), ret |-> 0]
    [] line.do = "kick"      -> [net |-> hub_disconnect_user(n, line.who), ret |-> 0]

\* ------------------------------------------------------ netevent.c, probe.c

\* handle_net_read: [net, ret], with ret # 0 for a reason to quit.
handle_net_read(n, c, in) ==
  LET Got(got) == IF got.ret <= 0 THEN got ELSE hub_handle_message(got.net, c, in.line)
  IN  Got(net_con_recv(backend, n, c, in.recv))

\* net_event for READ and WRITE; the write handler runs even if the read handler has
\* dropped the user and returned 0.
net_event(n, c, ev, in) ==
  LET Quit(out) == IF out.ret # 0 THEN hub_disconnect_user(out.net, c) ELSE out.net
      AfterRead(rd) == IF rd.ret = 0 /\ W \in ev THEN handle_net_write(rd.net, c) ELSE rd
  IN  Quit(AfterRead(IF R \in ev THEN handle_net_read(n, c, in) ELSE [net |-> n, ret |-> 0]))

\* user_create hands the connection over to net_event.
user_create(n, c) == Update([n EXCEPT !.con[c].kind = "user"], c, {R})

\* probe_create: read events and a timer.
probe_create(n, c, fd) == net_con_set_timeout(net_con_initialize(backend, n, c, fd, {R}), c)

\* probe_destroy closes the connection unless a user has taken it over.
probe_destroy(n, c) == IF n.con[c].kind = "probe" THEN Close(n, c) ELSE n

\* A redirect is one attempt to send before the probe goes.
probe_net_event_timeout(n, c) == probe_destroy(n, c)
probe_handle_adc(n, c, tls_require) == IF tls_require THEN n ELSE user_create(n, c)
probe_handle_tls(n, c, accept) ==
  LET Tls(acc) == IF acc.ret < 0 THEN acc.net ELSE user_create(acc.net, c)
  IN  Tls(net_con_ssl_accept(backend, n, c, accept))
probe_handle_http(n, c) == n

\* probe_net_event_read, by the protocol it recognises in what it peeks: "small" for less
\* than four bytes, "plain" for ADC where tls_require forbids it.
probe_net_event_read(n, c, in) ==
  probe_destroy(
    CASE in.probe = "adc"   -> probe_handle_adc(n, c, FALSE)
      [] in.probe = "plain" -> probe_handle_adc(n, c, TRUE)
      [] in.probe = "tls"   -> probe_handle_tls(n, c, in.accept)
      [] in.probe = "http"  -> probe_handle_http(n, c)
      [] in.probe = "small" -> n, c)

\* net_con_callback and net_ssl_callback for socket events on an open connection.
net_con_callback(n, c, ev, in) ==
  LET con == n.con[c]
      more == ev \cup (IF con.sslr \cap ev # {} THEN {R} ELSE {}) \cup (IF con.sslw \cap ev # {} THEN {W} ELSE {})
      Deliver(acc) == IF acc.ret = 0 THEN acc.net
                      ELSE net_event(acc.net, c, IF con.tls = "accepting" THEN {R} ELSE more, in)
  IN  CASE con.kind = "probe" -> IF R \in ev THEN probe_net_event_read(n, c, in) ELSE n
        [] con.kind = "user" /\ con.tls = "error" -> hub_disconnect_user(n, c)
        [] OTHER -> Deliver(IF con.tls = "accepting" THEN net_con_ssl_accept(backend, n, c, in.accept)
                                                     ELSE [net |-> n, ret |-> 1])

Nothing == [probe |-> "small", accept |-> "done", recv |-> "wantr", line |-> [do |-> "nothing"]]

\* What can be read from c: chosen by what the handler of c looks at.
Accepts == {"done", "wantr", "wantw", "zero", "fail"}
Inputs(n, c) ==
  LET con == n.con[c]
      answers == IF con.broken THEN {"fail"} ELSE {"wantr", "zero", "fail"}
      read == {[Nothing EXCEPT !.recv = a] : a \in answers}
              \cup (IF con.broken THEN {} ELSE {[Nothing EXCEPT !.recv = "done", !.line = l] : l \in Lines(n, c)})
  IN  IF con.kind = "probe"
      THEN {[Nothing EXCEPT !.probe = p] : p \in {"small", "adc", "plain", "http"}}
           \cup {[Nothing EXCEPT !.probe = "tls", !.accept = a] :
                   a \in IF Cardinality({d \in Cons : n.con[d].tls # "none"}) < MaxTls THEN Accepts ELSE {}}
      ELSE IF con.tls = "accepting"
           THEN {[i EXCEPT !.accept = a] : i \in read, a \in Accepts}
           ELSE read

\* ------------------------------------------------------------- the event loop

\* The peer reads what it was sent, or resets the connection (one at a time, to keep the
\* instance small).
PeerReads(c) ==
  /\ phase = "poll" /\ c \in Open /\ ~ net.con[c].broken /\ net.con[c].room < MaxRoom
  /\ net' = [net EXCEPT !.con[c].room = MaxRoom]
  /\ UNCHANGED <<backend, phase, batch, stale>>

PeerResets(c) ==
  /\ phase = "poll" /\ c \in Open /\ net.con[c].kind = "user"
  /\ \A d \in Cons : ~ net.con[d].broken
  /\ net' = [net EXCEPT !.con[c].broken = TRUE]
  /\ UNCHANGED <<backend, phase, batch, stale>>

\* The first half of net_backend_process.
Poll ==
  /\ phase = "poll" /\ net.fault = NoCon
  /\ net' = IF backend = "kqueue" THEN create_change_list(net) ELSE net
  /\ \E readers \in SUBSET Open, knock \in BOOLEAN :
       batch' = (CASE backend = "epoll"  -> net_backend_poll_epoll(net, readers)
                   [] backend = "select" -> net_backend_poll_select(net, readers)
                   [] backend = "kqueue" -> net_backend_poll_kqueue(net', readers))
                \cup (IF knock THEN {[fd |-> 0, con |-> Listener, ev |-> {R}]} ELSE {})
  /\ phase' = IF \E c \in Open : net.con[c].timer THEN "timers" ELSE "events"
  /\ UNCHANGED <<backend, stale>>

\* timeout_queue_process: a timer is taken out before its callback.  A probe that times
\* out is dropped (with a redirect for NMDC clients), and so is a user that is connecting.
TimerFires(c) ==
  /\ phase = "timers" /\ c \in Open /\ net.con[c].timer
  /\ LET n == net_con_clear_timeout(net, c)
     IN  net' = IF n.con[c].kind = "probe" THEN probe_net_event_timeout(n, c)
                ELSE IF n.con[c].ustate # "normal" THEN hub_disconnect_user(n, c) ELSE n
  /\ UNCHANGED <<backend, phase, batch, stale>>

TimersEnd ==
  /\ phase = "timers"
  /\ phase' = "events"
  /\ UNCHANGED <<backend, net, batch, stale>>

\* Mutant: kqueue looks the descriptor up as well.
Target_by_fd(e) == net.conns[e.fd]

\* The second half: backend_process.
Target(e) ==
  CASE backend = "epoll"  -> net_backend_process_epoll(net, e)
    [] backend = "select" -> net_backend_process_select(net, e)
    [] backend = "kqueue" -> net_backend_process_kqueue(net, e)

\* select goes through the descriptors in order; the listening ones are the lowest.
IsNext(e) == e \in batch /\ (backend = "select" => \A f \in batch : e.fd <= f.fd)

\* net_backend_process_*: one event.
HandOut(e) ==
  /\ phase = "events" /\ IsNext(e) /\ e.con # Listener
  /\ LET c == Target(e)
     IN  IF c = NoCon
         THEN UNCHANGED <<net, stale>>
         ELSE /\ \E in \in (IF R \in e.ev \/ net.con[c].tls # "none" THEN Inputs(net, c) ELSE {Nothing}) :
                   /\ in.line.do = "login" => \A d \in Cons : Len(net.con[d].q) < MaxQueue
                   /\ in.line.do = "chat" => \A d \in Cons : Len(net.con[d].q) < MaxChat
                   /\ net' = net_con_callback(net, c, e.ev, in)
              /\ stale' = (stale \/ c # e.con)
  /\ batch' = batch \ {e}
  /\ UNCHANGED <<backend, phase>>

\* net_on_accept: accepts until it would block.
AcceptBegin(e) ==
  /\ phase = "events" /\ IsNext(e) /\ e.con = Listener
  /\ batch' = batch \ {e}
  /\ phase' = "accept"
  /\ UNCHANGED <<backend, net, stale>>

\* net_accept: the lowest free descriptor, -1 if there is none.
net_accept(n) ==
  LET free == {fd \in Fds : \A c \in Cons : n.con[c].st = "open" => n.con[c].fd # fd}
  IN  IF free = {} THEN -1 ELSE Min(free)

\* One turn of the loop of net_on_accept.  A connection that plugin_check_ip_early denies
\* is closed again and leaves no trace.
AcceptOne ==
  /\ phase = "accept" /\ net_accept(net) # -1
  /\ \E c \in Cons :
       /\ net.con[c].st = "free"
       /\ net' = probe_create(net, c, net_accept(net))
  /\ UNCHANGED <<backend, phase, batch, stale>>

AcceptEnd ==
  /\ phase = "accept"
  /\ phase' = "events"
  /\ UNCHANGED <<backend, net, batch, stale>>

RoundEnds ==
  /\ phase = "events" /\ batch = {} /\ net.fault = NoCon
  /\ net' = net_cleanup_process(net)
  /\ phase' = "poll" /\ stale' = FALSE
  /\ UNCHANGED <<backend, batch>>

Next ==
  \/ \E c \in Cons : PeerReads(c) \/ PeerResets(c) \/ TimerFires(c)
  \/ \E e \in batch : HandOut(e) \/ AcceptBegin(e)
  \/ Poll \/ TimersEnd \/ AcceptOne \/ AcceptEnd \/ RoundEnds
Spec == Init /\ [][Next]_vars

(***************************************************************************)
(* Properties                                                               *)
(***************************************************************************)

\* What the poller will watch for c in the next round.
Asked(con) == IF con.change # {} THEN con.change \cap Events ELSE con.reg

\* Between two rounds every open connection is watched for reading, for writing as long
\* as its send queue holds anything, and for what its TLS layer waits for, and no message
\* is held back by the pipeline flag.  The exceptions are a socket the peer has reset
\* (the failed opportunistic write arms nothing, the read event will report it), a TLS
\* handshake (its timer is running) and, with kqueue, a request that came while another
\* was pending or that a reused descriptor overwrote.
Armed ==
  phase = "poll" => \A c \in Open :
    LET con == net.con[c]
    IN  \/ con.broken
        \/ backend = "kqueue" /\ con.dropped
        \/ /\ R \in Asked(con)
           /\ Bytes(con) > 0 => W \in Asked(con) /\ ~ con.pipe
           /\ con.sslr \cup con.sslw \subseteq Asked(con) \/ (con.tls = "accepting" /\ con.timer)

\* net_event runs the write handler on a connection that the read handler has closed only
\* with select, which never stops watching for writing, and with epoll for a user that
\* still has output queued: a user that has received everything is safe with epoll, and
\* every user with kqueue, whose events are for one direction.
NullOnlyWithOutput ==
  [][\A c \in Cons : net'.fault = c /\ net.fault # c =>
       backend = "select" \/ (backend = "epoll" /\ Bytes(net.con[c]) > 0)]_vars

\* An event reaches another connection than the one it was polled for only with epoll
\* and select, and only a probe that was accepted in the same round on the descriptor of a
\* connection that a timer or an earlier event closed: never a user, whose stream it could
\* disturb.
FreshProbeOnly ==
  [][\A e \in batch \ batch' :
       e.con # Listener /\ Target(e) \notin {NoCon, e.con} =>
         backend # "kqueue" /\ net.con[Target(e)].kind = "probe" /\ net.con[e.con].st # "open"]_vars

\* The connections closed in one round fit into the queue of net_get_max_sockets()
\* entries that frees them, unless a stale event of the round closed one more.
CleanupFits == net.cleanup <= MaxSockets \/ stale

\* Each user's peer gets the bytes of whole messages in order, whatever the socket takes
\* at a time and whatever is queued in between, and the queue of a user that has not been
\* sent the user list stays within max_send_buffer.
QueueSound ==
  \A c \in Open : LET con == net.con[c]
                  IN  /\ con.whole
                      /\ con.off > 0 => con.q # << >> /\ con.last = <<Head(con.q), con.off>>
                      /\ ~ con.ulist => SumFunction(con.q) <= MaxSend
=============================================================================
