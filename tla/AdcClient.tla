----------------------------- MODULE AdcClient -----------------------------
(***************************************************************************)
(* The ADC client of src/tools/adcclient.c, driven by the bots of            *)
(* src/tools/adcrush.c, over Connector and Resolver.  One event loop runs    *)
(* all bots; the workers of their lookups run beside it.  What the hub sends *)
(* and when it hangs up is left open.                                        *)
(***************************************************************************)
EXTENDS Connector

CONSTANTS
  MaxOut,                 \* bound: messages in a send queue
  MaxClients              \* bound: clients one bot makes

VARIABLES
  client,                 \* client[b]: the ADC_client of bot b
  logged_in,              \* struct AdcFuzzUser's flag
  main,                   \* "start", "loop", "dns", "stop", "destroy" or "ended"
  unstarted               \* the bots client_connect has not been called for

cliVars == <<client, logged_in, main, unstarted>>
vars == <<dnsVars, conVars, cliVars>>

Bots == Jobs
States == {"none", "conn", "ssl", "protocol", "identify", "normal"}
Connected == {"ssl", "protocol", "identify", "normal"}

\* id counts the clients of a bot; sendq is the length of the send queue, armed
\* whether write events are asked for, broken whether a write has failed.
NoClient == [id |-> 0, live |-> FALSE, state |-> "none", con |-> FALSE, job |-> FALSE,
             sendq |-> 0, armed |-> FALSE, broken |-> FALSE]

Init ==
  /\ DnsInit /\ ConnectorInit
  /\ client = [b \in Bots |-> NoClient]
  /\ logged_in = [b \in Bots |-> FALSE]
  /\ main = "start"
  /\ unstarted = Bots

Running == fault = "none"
Set(b, c) == client' = [client EXCEPT ![b] = c]

\* ADC_client_create
ADC_client_create(b) == [NoClient EXCEPT !.id = client[b].id + 1, !.live = TRUE]

\* ADC_client_parse_address, by what it makes of the address.
ADC_client_parse_address(uri) == uri \in {"adc", "adcs"}

\* ADC_client_connect for a client c that is new.  If there is no thread for the
\* lookup, ADC_client_on_disconnected closes the connection the client has not got.
ADC_client_connect(b, c) ==
  IF ~ ADC_client_parse_address(setup.uri)
  THEN Set(b, c) /\ UNCHANGED <<dnsVars, conVars>>
  ELSE \/ /\ net_dns_gethostbyname(b)
          /\ handle' = [handle EXCEPT ![b] = [NoHandle EXCEPT !.live = TRUE, !.dns = TRUE, !.owner = c.id]]
          /\ Set(b, [c EXCEPT !.state = "conn", !.job = TRUE])
          /\ UNCHANGED <<fault, setup>>
       \/ /\ fault' = "close_null"
          /\ Set(b, [c EXCEPT !.state = "conn"])
          /\ UNCHANGED <<dnsVars, handle, setup>>

\* runloop: client_connect for every bot, while the first lookups already run.
client_connect(b) ==
  /\ Running /\ main = "start" /\ b \in unstarted
  /\ ADC_client_connect(b, ADC_client_create(b))
  /\ logged_in' = [logged_in EXCEPT ![b] = FALSE]
  /\ unstarted' = unstarted \ {b}
  /\ UNCHANGED main

LoopBegin ==
  /\ Running /\ main = "start" /\ unstarted = {}
  /\ main' = "loop"
  /\ UNCHANGED <<dnsVars, conVars, client, logged_in, unstarted>>

Workers ==
  /\ Running
  /\ \E j \in Jobs : Lookup(j) \/ Publish(j) \/ Cancelled(j)
  /\ UNCHANGED <<conVars, cliVars>>
-----------------------------------------------------------------------------
(* Sending.  Pushed(c, k): ADC_client_send_queue writes k messages; fewer than  *)
(* there are means the socket would block.                                      *)

Pushed(c, k) == [c EXCEPT !.sendq = @ - k, !.armed = c.sendq - k > 0]

\* Mutant of ADC_client_send_queue: write events are never asked for.
ADC_client_send_queue_unarmed(c) ==
  {[c EXCEPT !.sendq = @ - k] : k \in 0..c.sendq} \cup {[c EXCEPT !.broken = TRUE]}

ADC_client_send_queue(c) ==
  {Pushed(c, k) : k \in 0..c.sendq} \cup {[c EXCEPT !.broken = TRUE]}

\* ADC_client_send: an opportunistic write if nothing was queued.
ADC_client_send(c) ==
  LET queued == [c EXCEPT !.sendq = @ + 1]
  IN IF c.sendq = 0 THEN ADC_client_send_queue(queued) ELSE {[queued EXCEPT !.armed = TRUE]}

\* ADC_client_send_handshake: HSUP, and the state that awaits the answer.
ADC_client_send_handshake(c) ==
  {[d EXCEPT !.state = "protocol"] : d \in ADC_client_send([c EXCEPT !.armed = FALSE])}

ADC_client_on_disconnected(c) == [c EXCEPT !.con = FALSE, !.state = "none", !.armed = FALSE]

\* ADC_client_on_connected
ADC_client_on_connected(c) ==
  IF setup.uri = "adcs" THEN {[c EXCEPT !.state = "ssl", !.armed = TRUE]}
  ELSE ADC_client_send_handshake(c)

\* connect_callback.  A failure closes the connection if there is one, and the
\* client stays in ps_conn; nobody else is told.
connect_callback(c, told) ==
  IF told = "ok" THEN ADC_client_on_connected([c EXCEPT !.job = FALSE, !.con = TRUE])
  ELSE {[c EXCEPT !.job = FALSE]}

\* What a step r of the connector does to the handle and to its client.
Told(b, r) ==
  /\ handle' = [handle EXCEPT ![b] = r.h]
  /\ fault' = r.fault /\ UNCHANGED setup
  /\ IF r.told = "none" THEN UNCHANGED client
     ELSE \E c \in connect_callback(client[b], r.told) : Set(b, c)
-----------------------------------------------------------------------------
(* The event loop                                                               *)

NotifyEvent ==
  /\ Running /\ main = "loop"
  /\ net_dns_process
  /\ main' = "dns"
  /\ UNCHANGED <<conVars, client, logged_in, unstarted>>

DnsCallback(b) ==
  /\ Running /\ main = "dns"
  /\ Deliver(b)
  /\ \E o6, o4 \in Outcomes : Told(b, net_con_connect_dns_callback(handle[b], answer[b], o6, o4))
  /\ UNCHANGED <<logged_in, main, unstarted>>

NotifyEnd ==
  /\ Running /\ main = "dns"
  /\ DeliverEnd
  /\ main' = "loop"
  /\ UNCHANGED <<conVars, client, logged_in, unstarted>>

JobEvent(b, f) ==
  /\ Running /\ main = "loop"
  /\ handle[b].live /\ handle[b][f].on
  /\ \E o \in Outcomes \ {"wait"} : Told(b, JobWritable(handle[b], f, o))
  /\ UNCHANGED <<dnsVars, logged_in, main, unstarted>>

JobTimer(b, f) ==
  /\ Running /\ main = "loop"
  /\ handle[b].live /\ handle[b][f].on
  /\ Told(b, JobTimeout(handle[b], f))
  /\ UNCHANGED <<dnsVars, logged_in, main, unstarted>>

HasCon(b) == Running /\ main = "loop" /\ client[b].live /\ client[b].con

\* event_callback during the TLS handshake.
TlsEvent(b) ==
  /\ HasCon(b) /\ client[b].state = "ssl"
  /\ \/ Set(b, ADC_client_on_disconnected(client[b]))
     \/ \E c \in ADC_client_send_handshake(client[b]) : Set(b, c)
  /\ UNCHANGED <<dnsVars, conVars, logged_in, main, unstarted>>

\* event_callback: the socket can be written.
WriteEvent(b) ==
  /\ HasCon(b) /\ client[b].state # "ssl" /\ client[b].armed
  /\ \E c \in ADC_client_send_queue(client[b]) : Set(b, c)
  /\ UNCHANGED <<dnsVars, conVars, logged_in, main, unstarted>>

\* event_callback and ADC_client_on_recv_line: an ISID, the client's own BINF, a
\* line without a consequence, or an end: the hub hung up, the socket failed or
\* the line is no message.
ReadEvent(b) ==
  LET c == client[b]
  IN /\ HasCon(b) /\ c.state # "ssl"
     /\ \/ /\ c.state = "protocol" /\ c.sendq < MaxOut
           /\ \E d \in ADC_client_send([c EXCEPT !.state = "identify"]) : Set(b, d)
           /\ UNCHANGED logged_in
        \/ /\ c.state = "identify"
           /\ Set(b, [c EXCEPT !.state = "normal"])
           /\ logged_in' = [logged_in EXCEPT ![b] = TRUE]
        \/ /\ Set(b, ADC_client_on_disconnected(c))
           /\ UNCHANGED logged_in
     /\ UNCHANGED <<dnsVars, conVars, main, unstarted>>

\* timer_callback and perf_normal_action: start again, or send something.  A
\* client whose connection is gone has none to send on.
BotTimer(b) ==
  /\ Running /\ main = "loop" /\ client[b].live /\ logged_in[b]
  /\ \/ /\ client[b].id < MaxClients
        /\ ADC_client_connect(b, ADC_client_create(b))
        /\ logged_in' = [logged_in EXCEPT ![b] = FALSE]
     \/ /\ ~ client[b].con
        /\ fault' = "send_null"
        /\ UNCHANGED <<dnsVars, handle, setup, client, logged_in>>
     \/ /\ client[b].con /\ client[b].sendq < MaxOut
        /\ \E c \in ADC_client_send(client[b]) : Set(b, c)
        /\ UNCHANGED <<dnsVars, conVars, logged_in>>
  /\ UNCHANGED <<main, unstarted>>
-----------------------------------------------------------------------------
(* The end: client_disconnect for every bot, then net_destroy.                  *)

LoopEnd ==
  /\ Running /\ main = "loop"
  /\ main' = "stop"
  /\ client' = [b \in Bots |-> [NoClient EXCEPT !.id = client[b].id]]
  /\ logged_in' = [b \in Bots |-> FALSE]
  /\ UNCHANGED <<dnsVars, conVars, unstarted>>

net_destroy ==
  /\ Running
  /\ \/ main = "stop" /\ DestroyBegin /\ main' = "destroy"
     \/ main = "destroy" /\ (CancelFirst \/ JoinFirst) /\ UNCHANGED main
     \/ main = "destroy" /\ DestroyEnd /\ main' = "ended"
  /\ UNCHANGED <<conVars, client, logged_in, unstarted>>

LoopStep ==
  \/ LoopBegin \/ NotifyEvent \/ NotifyEnd
  \/ \E b \in Bots :
       \/ client_connect(b) \/ DnsCallback(b) \/ TlsEvent(b) \/ WriteEvent(b) \/ ReadEvent(b) \/ BotTimer(b)
       \/ \E f \in {"job6", "job4"} : JobEvent(b, f) \/ JobTimer(b, f)

Next == Workers \/ LoopStep \/ LoopEnd \/ net_destroy

\* getaddrinfo returns, threads run, and the event loop serves the pipe and the
\* timers; it need not ever stop.
Fairness ==
  /\ \A j \in Jobs : WF_vars(Running /\ (Lookup(j) \/ Publish(j)) /\ UNCHANGED <<conVars, cliVars>>)
  /\ WF_vars(LoopBegin) /\ WF_vars(NotifyEvent) /\ WF_vars(NotifyEnd) /\ WF_vars(net_destroy)
  /\ \A b \in Bots : WF_vars(client_connect(b)) /\ WF_vars(DnsCallback(b))
  /\ \A b \in Bots, f \in {"job6", "job4"} : WF_vars(JobTimer(b, f))

Spec == Init /\ [][Next]_vars /\ Fairness
-----------------------------------------------------------------------------
(* Properties                                                                   *)

\* The places of job j in the two lists.
Lookups(j) == {i \in 1..Len(jobs) : jobs[i] = j}
Undelivered(j) == {i \in delivered + 1..Len(results) : results[i] = j}
Once(S) == \E i \in S : S = {i}

\* The worker of job j matches the list the job is in.
Filed(j) ==
  CASE worker[j] = "none" -> Lookups(j) = {} /\ Undelivered(j) = {}
    [] worker[j] \in {"lookup", "found"} -> Once(Lookups(j)) /\ Undelivered(j) = {}
    [] worker[j] = "ended" -> \/ Once(Lookups(j)) /\ Undelivered(j) = {}
                              \/ Lookups(j) = {} /\ Once(Undelivered(j))

\* Until the resolver is shut down every lookup stands in exactly one of its two lists,
\* with a thread to match, and as long as it does its connect handle waits for it.
OneRecord ==
  /\ main \notin {"destroy", "ended"} =>
       \A j \in Jobs :
         /\ Filed(j)
         /\ handle[j].dns <=> worker[j] # "none"
         /\ handle[j].dns => handle[j].live
  /\ holder = "main" <=> main \in {"dns", "destroy"}

\* Handle h is the attempt of client c, whose bot has the logged_in flag in.
Attached(h, c, in) ==
  /\ h.live <=> c.job
  /\ h.live => c.live /\ h.owner = c.id /\ c.state = "conn" /\ ~ c.con
  /\ c.con <=> c.state \in Connected
  /\ c.state = "normal" => in

(***************************************************************************)
(* CallbackSafe: no worker of src/network/dnsresolver.c publishes, and no    *)
(* callback is made, for a job that was freed; and while the event loop runs *)
(* the callback of a connect handle finds the client that asked for it,      *)
(* alive, in ps_conn and without a connection, which it gets in no other way *)
(* (net_dns_process, net_connect_callback, connect_callback and the bots of  *)
(* adcrush).                                                                 *)
(***************************************************************************)
CallbackSafe ==
  /\ OneRecord
  /\ main \in {"start", "loop", "dns"} /\ fault = "none" =>
       \A b \in Bots : Attached(handle[b], client[b], logged_in[b])

\* A client with messages queued has asked for write events.
AwaitsWrite(c) == c.con /\ c.sendq > 0 /\ ~ c.broken => c.armed

(***************************************************************************)
(* WriteArmed: as long as no write failed, a client with messages queued has *)
(* asked for write events, so the queue is taken up again                    *)
(* (ADC_client_send_queue, ADC_client_send).                                 *)
(***************************************************************************)
WriteArmed == \A b \in Bots : AwaitsWrite(client[b])

(***************************************************************************)
(* ConnectEnds: an attempt to connect ends in the callback, with three       *)
(* exceptions that leave the client waiting for good: the lookup failed with *)
(* an error other than EAI_NONAME, no address was usable, or the first       *)
(* address of each family timed out while others are left.  The loop stops   *)
(* or a fault ends the program otherwise.                                    *)
(***************************************************************************)
ConnectEnds ==
  \A b \in Bots :
    handle[b].live ~> (~ handle[b].live \/ Forsaken(b) \/ main \in {"stop", "destroy", "ended"} \/ fault # "none")

\* The event loop holds the mutex and waits for a worker that waits for it.
Deadlocked ==
  main = "destroy" /\ jobs # << >> /\ Head(jobs) \in cancelled /\ worker[Head(jobs)] = "found"

(***************************************************************************)
(* DestroyEnds: net_destroy comes to its end, unless it cancels a worker     *)
(* whose lookup has just come back: that worker waits for the mutex that     *)
(* net_dns_destroy holds while it joins it.                                  *)
(***************************************************************************)
DestroyEnds == main = "destroy" ~> (main = "ended" \/ Deadlocked)
-----------------------------------------------------------------------------
(* The inductive invariant.                                                     *)

JobLists == [n : Int, on : BOOLEAN]
Handles == [live : BOOLEAN, dns : BOOLEAN, job6 : JobLists, job4 : JobLists, owner : Nat]
Clients == [id : Nat, live : BOOLEAN, state : States, con : BOOLEAN, job : BOOLEAN,
            sendq : Nat, armed : BOOLEAN, broken : BOOLEAN]

DnsTypeOK ==
  /\ worker \in [Jobs -> {"none", "lookup", "found", "ended"}]
  /\ jobs \in Seq(Jobs) /\ results \in Seq(Jobs)
  /\ delivered \in Nat /\ delivered <= Len(results)

BotTypeOK ==
  /\ answer \in [Jobs -> [v6 : Nat, v4 : Nat]]
  /\ handle \in [Jobs -> Handles]
  /\ client \in [Bots -> Clients]
  /\ logged_in \in [Bots -> BOOLEAN]
  /\ main \in {"start", "loop", "dns", "stop", "destroy", "ended"}
  /\ unstarted \in SUBSET Bots

\* Nothing is delivered outside net_dns_process, which holds the mutex, and
\* net_dns_destroy leaves no worker behind.
ResolverInv ==
  /\ DnsTypeOK
  /\ main # "dns" => delivered = 0
  /\ holder \in {"none", "main"} /\ (holder = "main" <=> main \in {"dns", "destroy"})
  /\ main \notin {"destroy", "ended"} => \A j \in Jobs : Filed(j)
  /\ main = "ended" => \A j \in Jobs : worker[j] = "none"

\* A handle that waits for its lookup has no jobs; only a client that is or was
\* logged in is done with its handle.
BotOK(b) ==
  /\ AwaitsWrite(client[b])
  /\ handle[b].dns => ~ handle[b].job6.on /\ ~ handle[b].job4.on
  /\ main \notin {"destroy", "ended"} =>
       (handle[b].dns <=> worker[b] # "none") /\ (handle[b].dns => handle[b].live)
  /\ main \in {"start", "loop", "dns"} /\ fault = "none" =>
       /\ Attached(handle[b], client[b], logged_in[b])
       /\ logged_in[b] => client[b].state \in {"normal", "none"}
       /\ b \in unstarted => main = "start" /\ ~ handle[b].live

ClientInv == ResolverInv /\ BotTypeOK /\ \A b \in Bots : BotOK(b)
=============================================================================
