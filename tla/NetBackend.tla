----------------------------- MODULE NetBackend -----------------------------
(***************************************************************************)
(* The connections of src/network/connection.c and openssl.c and the three   *)
(* poll backends (epoll.c, select.c, kqueue.c) behind backend.c, as          *)
(* operators on a record net of the hub's network state:                     *)
(*   con[c]    the connection object c with, once it is a user's, the user's *)
(*             queue and flags;                                              *)
(*   conns[fd] the backend's table of connections by descriptor;             *)
(*   changes   how often each descriptor is in kqueue's change_list;         *)
(*   cleanup   how many connections net_cleanup_process has to free;         *)
(*   fault     a connection that was used after its user had lost it.        *)
(* The kernel's side of a socket is the room left in its send buffer and     *)
(* whether the peer has reset it.                                            *)
(***************************************************************************)
EXTENDS Integers, Sequences, FiniteSets, FiniteSetsExt, Functions

CONSTANTS
  Cons,            \* connection objects
  Fds,             \* the descriptors clients can get, a set of numbers
  NoCon,           \* the empty entry of the backend's table
  MaxRoom          \* bound: bytes a socket takes before it blocks

R == "read"
W == "write"
Events == {R, W}

NewCon == [st |-> "free", fd |-> 0, kind |-> "probe", tls |-> "none", want |-> {}, sslr |-> {},
           sslw |-> {}, reg |-> {}, change |-> {}, timer |-> FALSE, ustate |-> "protocol",
           q |-> << >>, off |-> 0, pipe |-> FALSE, choke |-> FALSE, ulist |-> FALSE,
           room |-> MaxRoom, broken |-> FALSE, last |-> <<1, 1>>, whole |-> TRUE, dropped |-> FALSE]

NoNet == [con |-> [c \in Cons |-> NewCon], conns |-> [fd \in Fds |-> NoCon], changes |-> [fd \in Fds |-> 0],
          cleanup |-> 0, fault |-> NoCon]

\* -------------------------------------------------------------- the backends

\* add_change of kqueue.c: a change is dropped while another one is pending; dropped
\* records that the last one was.
add_change(net, c, ops) ==
  IF net.con[c].change = {}
  THEN [net EXCEPT !.con[c].change = ops, !.con[c].dropped = FALSE, !.changes[net.con[c].fd] = @ + 1]
  ELSE [net EXCEPT !.con[c].dropped = net.con[c].change # ops]

net_con_backend_add_epoll(net, c, ev) ==
  [net EXCEPT !.conns[net.con[c].fd] = c, !.con[c].reg = @ \cup ev]
net_con_backend_add_select(net, c, ev) ==
  [net EXCEPT !.conns[net.con[c].fd] = c, !.con[c].reg = @ \cup ev]
net_con_backend_add_kqueue(net, c, ev) ==
  add_change([net EXCEPT !.conns[net.con[c].fd] = c], c, {"add"} \cup ev)

\* epoll.c replaces the events, select.c only ever adds to them.
net_con_backend_mod_epoll(net, c, ev) == [net EXCEPT !.con[c].reg = ev]
net_con_backend_mod_select(net, c, ev) == [net EXCEPT !.con[c].reg = @ \cup ev]
net_con_backend_mod_kqueue(net, c, ev) == add_change(net, c, {"add"} \cup ev)

net_con_backend_del_epoll(net, c) == [net EXCEPT !.conns[net.con[c].fd] = NoCon]
net_con_backend_del_select(net, c) == [net EXCEPT !.conns[net.con[c].fd] = NoCon]
net_con_backend_del_kqueue(net, c) == [add_change(net, c, {"del"}) EXCEPT !.conns[net.con[c].fd] = NoCon]

\* The handler table of the backend that net_backend_init chose.
con_add(backend, net, c, ev) ==
  CASE backend = "epoll"  -> net_con_backend_add_epoll(net, c, ev)
    [] backend = "select" -> net_con_backend_add_select(net, c, ev)
    [] backend = "kqueue" -> net_con_backend_add_kqueue(net, c, ev)
con_mod(backend, net, c, ev) ==
  CASE backend = "epoll"  -> net_con_backend_mod_epoll(net, c, ev)
    [] backend = "select" -> net_con_backend_mod_select(net, c, ev)
    [] backend = "kqueue" -> net_con_backend_mod_kqueue(net, c, ev)
con_del(backend, net, c) ==
  CASE backend = "epoll"  -> net_con_backend_del_epoll(net, c)
    [] backend = "select" -> net_con_backend_del_select(net, c)
    [] backend = "kqueue" -> net_con_backend_del_kqueue(net, c)

\* create_change_list: a descriptor that was closed and reused within a round is
\* listed twice, and the second entry finds no change left and disables both filters.
create_change_list(net) ==
  LET Apply(con) == [con EXCEPT !.change = {},
                                !.reg = IF net.changes[con.fd] = 1 THEN con.change \cap Events ELSE {},
                                !.dropped = @ \/ net.changes[con.fd] > 1]
  IN  [net EXCEPT !.changes = [fd \in Fds |-> 0],
                  !.con = [c \in Cons |-> IF \E fd \in Fds : net.changes[fd] > 0 /\ net.conns[fd] = c
                                         THEN Apply(net.con[c]) ELSE net.con[c]]]

\* Polling is level-triggered: readers are the connections with something to read.
Ready(net, c, readers) ==
  {e \in net.con[c].reg : IF e = R THEN c \in readers \/ net.con[c].broken
                                   ELSE net.con[c].room > 0 \/ net.con[c].broken}
Entry(net, c, ev) == [fd |-> net.con[c].fd, con |-> c, ev |-> ev]
PolledOnce(net, readers) ==
  {Entry(net, c, Ready(net, c, readers)) :
     c \in {d \in Cons : net.con[d].st = "open" /\ Ready(net, d, readers) # {}}}

\* What a poll returns; kqueue has one event for each filter.
net_backend_poll_epoll(net, readers) == PolledOnce(net, readers)
net_backend_poll_select(net, readers) == PolledOnce(net, readers)
net_backend_poll_kqueue(net, readers) ==
  UNION {{Entry(net, c, {e}) : e \in Ready(net, c, readers)} : c \in {d \in Cons : net.con[d].st = "open"}}

\* The connection that gets event e of a batch, NoCon if there is none any more.  epoll
\* and select look the descriptor up; kqueue has kept the connection, whose sd is -1 once
\* it is closed.
net_backend_process_epoll(net, e) == net.conns[e.fd]
net_backend_process_select(net, e) == net.conns[e.fd]
net_backend_process_kqueue(net, e) == IF net.con[e.con].st = "open" THEN e.con ELSE NoCon

\* ------------------------------------------------------------ the connections

net_con_initialize(backend, net, c, fd, ev) ==
  con_add(backend, [net EXCEPT !.con[c] = [NewCon EXCEPT !.st = "open", !.fd = fd]], c, ev)

\* net_ssl_update asks for what the user of the connection wants and what TLS waits for.
net_ssl_update(backend, net, c, ev) ==
  con_mod(backend, [net EXCEPT !.con[c].want = ev], c, ev \cup net.con[c].sslr \cup net.con[c].sslw)

net_con_update(backend, net, c, ev) ==
  IF net.con[c].tls # "none" THEN net_ssl_update(backend, net, c, ev) ELSE con_mod(backend, net, c, ev)

net_con_set_timeout(net, c) == [net EXCEPT !.con[c].timer = TRUE]
net_con_clear_timeout(net, c) == [net EXCEPT !.con[c].timer = FALSE]

\* net_cleanup_delayed_free.  Nothing is read from a closed connection any more.
net_cleanup_delayed_free(net, c) == [net EXCEPT !.con[c] = [NewCon EXCEPT !.st = "closed"], !.cleanup = @ + 1]

net_con_close(backend, net, c) ==
  IF net.con[c].st # "open" THEN net
  ELSE net_cleanup_delayed_free(con_del(backend, net_con_clear_timeout(net, c), c), c)

\* Mutant: the queue is not emptied.
net_cleanup_process_kept(net) ==
  [net EXCEPT !.con = [c \in Cons |-> IF net.con[c].st = "closed" THEN NewCon ELSE net.con[c]]]

\* net_cleanup_process
net_cleanup_process(net) ==
  [net EXCEPT !.con = [c \in Cons |-> IF net.con[c].st = "closed" THEN NewCon ELSE net.con[c]],
              !.cleanup = 0]

\* A write of n bytes of a message of length len to the socket, as the peer sees it:
\* it must go on where the last one stopped, or start a message after a whole one.
PeerGets(con, len, from, n) ==
  [con EXCEPT !.room = @ - n, !.last = IF from + n = len THEN <<1, 1>> ELSE <<len, from + n>>,
              !.whole = @ /\ \/ from = 0 /\ con.last[1] = con.last[2]
                             \/ con.last = <<len, from>>]

\* net_con_send of what is left of the first message: [net, ret].  SSL_write takes a
\* message whole or asks to be called again.
net_ssl_send(backend, net, c, len, from) ==
  LET con == net.con[c]
      Update(new, ret) == [net |-> net_ssl_update(backend, [net EXCEPT !.con[c] = new], c, con.want), ret |-> ret]
  IN  IF con.tls = "error" THEN [net |-> net, ret |-> -2]
      ELSE IF con.broken THEN Update([con EXCEPT !.tls = "error"], -2)
      ELSE IF con.room < len - from THEN Update([con EXCEPT !.sslw = {W}], 0)
      ELSE Update([PeerGets(con, len, from, len - from) EXCEPT !.sslw = {}], len - from)

net_con_send(backend, net, c, len, from) ==
  LET con == net.con[c]
      n   == Min({len - from, con.room})
  IN  IF con.tls # "none" THEN net_ssl_send(backend, net, c, len, from)
      ELSE IF con.broken THEN [net |-> net, ret |-> -1]
      ELSE IF con.room = 0 THEN [net |-> net, ret |-> 0]
      ELSE [net |-> [net EXCEPT !.con[c] = PeerGets(con, len, from, n)], ret |-> n]

\* handle_openssl_error of an SSL_accept or SSL_read: [con, ret].
handle_openssl_error(con, answer) ==
  CASE answer = "zero"  -> [con |-> con, ret |-> -1]
    [] answer = "wantr" -> [con |-> [con EXCEPT !.sslr = {R}], ret |-> 0]
    [] answer = "wantw" -> [con |-> [con EXCEPT !.sslr = {W}], ret |-> 0]
    [] answer = "fail"  -> [con |-> [con EXCEPT !.tls = "error"], ret |-> -2]

\* net_con_ssl_accept, by what SSL_accept answers: [net, ret].  What an unfinished
\* handshake waits for is not asked of the backend here.
net_con_ssl_accept(backend, net, c, answer) ==
  LET n == [net EXCEPT !.con[c].tls = "accepting"]
      Failed(h) == [net |-> [n EXCEPT !.con[c] = h.con], ret |-> h.ret]
  IN  IF answer = "done"
      THEN [net |-> [net_con_update(backend, n, c, {R}) EXCEPT !.con[c].tls = "connected"], ret |-> 1]
      ELSE Failed(handle_openssl_error(n.con[c], answer))

\* net_con_recv by what the socket or SSL_read answers: "done" for data, "wantr" if there
\* is none, "zero" at the end, or "fail".
net_ssl_recv(backend, net, c, answer) ==
  LET con == net.con[c]
      Update(h) == [net |-> net_ssl_update(backend, [net EXCEPT !.con[c] = h.con], c, con.want), ret |-> h.ret]
  IN  CASE con.tls = "error"     -> [net |-> net, ret |-> -2]
        [] con.tls = "accepting" -> [net |-> net, ret |-> -1]
        [] con.tls = "connected" -> Update(IF answer = "done" THEN [con |-> [con EXCEPT !.sslr = {}], ret |-> 1]
                                                              ELSE handle_openssl_error(con, answer))

net_con_recv(backend, net, c, answer) ==
  IF net.con[c].tls # "none" THEN net_ssl_recv(backend, net, c, answer)
  ELSE [net |-> net, ret |-> CASE answer = "done" -> 1 [] answer = "wantr" -> 0
                               [] answer = "zero" -> -1 [] answer = "fail" -> -2]
=============================================================================
