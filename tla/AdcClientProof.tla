-------------------------- MODULE AdcClientProof --------------------------
(***************************************************************************)
(* Proofs for AdcClient, for any number of bots and any lookup results:      *)
(* every callback of the connector finds the client that asked for it, and   *)
(* no client waits with messages queued and without write events.            *)
(***************************************************************************)
EXTENDS AdcClient, TLAPS

\* The places of j in a list.
Places(s, j) == {i \in 1..Len(s) : s[i] = j}
-----------------------------------------------------------------------------
(* The lists of the resolver                                                    *)

\* list_append puts the new job behind all others, and moves none of them.
LEMMA AppendPlaces ==
  ASSUME NEW S, NEW s \in Seq(S), NEW j \in S, NEW k \in S
  PROVE  /\ Append(s, j) \in Seq(S) /\ Len(Append(s, j)) = Len(s) + 1
         /\ Places(Append(s, j), k) = Places(s, k) \cup (IF k = j THEN {Len(s) + 1} ELSE {})
BY DEF Places

\* list_remove of a job that is in the list once leaves no place for it, and
\* every other job that is in the list once or not at all stays so.
LEMMA RemovePlaces ==
  ASSUME NEW S, NEW s \in Seq(S), NEW j \in S, Once(Places(s, j)),
         NEW r, r = list_remove(s, j)
  PROVE  /\ r \in Seq(S)
         /\ Places(r, j) = {}
         /\ \A k \in S \ {j} : /\ Places(s, k) = {} => Places(r, k) = {}
                               /\ Once(Places(s, k)) => Once(Places(r, k))
<1>1. PICK i \in 1..Len(s) : Places(s, j) = {i} /\ s[i] = j
  BY DEF Once, Places
<1>2. {p \in 1..Len(s) : s[p] = j} = {i}
  BY <1>1 DEF Places
<1>3. r = SubSeq(s, 1, i - 1) \o SubSeq(s, i + 1, Len(s))
  <2>1. i = CHOOSE q \in {i} : \A k \in {i} : q <= k
    BY <1>1
  <2> QED
    BY <1>1, <1>2, <2>1, Zenon DEF list_remove
<1>4. /\ r \in Seq(S) /\ Len(r) = Len(s) - 1
      /\ \A p \in 1..Len(r) : r[p] = IF p < i THEN s[p] ELSE s[p + 1]
  <2> DEFINE u == SubSeq(s, 1, i - 1)
             v == SubSeq(s, i + 1, Len(s))
  <2>0. i \in Nat /\ i >= 1 /\ i <= Len(s) /\ Len(s) \in Nat
    BY <1>1
  <2>1. u \in Seq(S) /\ Len(u) = i - 1 /\ \A p \in 1..i - 1 : u[p] = s[p]
    BY <2>0
  <2>2. v \in Seq(S) /\ Len(v) = Len(s) - i /\ \A p \in 1..Len(s) - i : v[p] = s[p + i]
    BY <2>0
  <2>3. r = u \o v
    BY <1>3
  <2> HIDE DEF u, v
  <2>4. r \in Seq(S) /\ Len(r) = Len(s) - 1
    BY <2>0, <2>1, <2>2, <2>3
  <2>5. ASSUME NEW p \in 1..Len(r) PROVE r[p] = IF p < i THEN s[p] ELSE s[p + 1]
    <3>1. CASE p < i
      BY <2>0, <2>1, <2>2, <2>3, <2>4, <3>1
    <3>2. CASE ~ (p < i)
      <4>1. r[p] = v[p - Len(u)] /\ p - Len(u) \in 1..Len(s) - i
        BY <2>0, <2>1, <2>2, <2>3, <2>4, <3>2, SMTT(30)
      <4> QED
        BY <2>0, <2>1, <2>2, <2>4, <3>2, <4>1
    <3> QED
      BY <3>1, <3>2
  <2> QED
    BY <2>4, <2>5
<1>5. \A k \in S, p \in 1..Len(s) : s[p] = k /\ p # i =>
        IF p < i THEN p \in Places(r, k) ELSE p - 1 \in Places(r, k)
  BY <1>1, <1>4 DEF Places
<1>6. \A k \in S : \A p \in Places(r, k) : IF p < i THEN p \in Places(s, k) ELSE p + 1 \in Places(s, k)
  BY <1>1, <1>4 DEF Places
<1>7. Places(r, j) = {}
  <2> SUFFICES ASSUME NEW p \in Places(r, j) PROVE FALSE
    OBVIOUS
  <2> p \in Int
    BY DEF Places
  <2> QED
    BY <1>1, <1>6
<1>8. ASSUME NEW k \in S \ {j}
      PROVE  /\ Places(s, k) = {} => Places(r, k) = {}
             /\ Once(Places(s, k)) => Once(Places(r, k))
  <2>1. Places(s, k) = {} => Places(r, k) = {}
    BY <1>6
  <2>2. ASSUME NEW q \in Places(s, k), Places(s, k) = {q}
        PROVE  \E p \in Places(r, k) : Places(r, k) = {p}
    <3>1. q \in 1..Len(s) /\ s[q] = k /\ q # i /\ i \in Int /\ q \in Int
      BY <1>1, <2>2 DEF Places
    <3> DEFINE p == IF q < i THEN q ELSE q - 1
    <3>2. p \in Places(r, k)
      BY <1>5, <3>1
    <3>3. ASSUME NEW o \in Places(r, k) PROVE o = p
      <4>1. o \in Int
        BY DEF Places
      <4>2. IF o < i THEN o = q ELSE o + 1 = q
        BY <1>6, <2>2
      <4> QED
        BY <3>1, <4>1, <4>2
    <3> QED
      BY <3>2, <3>3
  <2> QED
    BY <2>1, <2>2 DEF Once
<1> QED
  BY <1>4, <1>7, <1>8
-----------------------------------------------------------------------------
(* The worker of every job matches the list the job is in                      *)

\* net_dns_gethostbyname: a new lookup is appended to the list of those that run.
LEMMA StartFiled ==
  ASSUME DnsTypeOK, \A k \in Jobs : Filed(k), NEW j \in Jobs, net_dns_gethostbyname(j)
  PROVE  DnsTypeOK' /\ \A k \in Jobs : Filed(k)'
<1>1. DnsTypeOK'
  BY DEF DnsTypeOK, net_dns_gethostbyname
<1>2. ASSUME NEW k \in Jobs PROVE Filed(k)'
  <2>1. /\ Lookups(k) = Places(jobs, k) /\ Lookups(k)' = Places(jobs', k)
        /\ Undelivered(k)' = Undelivered(k)
    BY DEF Lookups, Undelivered, Places, net_dns_gethostbyname
  <2>2. Lookups(k)' = Lookups(k) \cup (IF k = j THEN {Len(jobs) + 1} ELSE {})
    BY <2>1, AppendPlaces DEF DnsTypeOK, net_dns_gethostbyname
  <2>3. CASE k = j
    <3>1. Lookups(k) = {} /\ Undelivered(k) = {}
      BY <2>3, Zenon DEF Filed, net_dns_gethostbyname
    <3>2. Lookups(k)' = {Len(jobs) + 1} /\ Undelivered(k)' = {} /\ worker'[k] = "lookup"
      BY <2>1, <2>2, <2>3, <3>1 DEF DnsTypeOK, net_dns_gethostbyname
    <3> QED
      BY <3>2 DEF Filed, Once
  <2>4. CASE k # j
    <3>1. Lookups(k)' = Lookups(k) /\ worker'[k] = worker[k]
      BY <2>2, <2>4 DEF DnsTypeOK, net_dns_gethostbyname
    <3> QED
      BY <2>1, <3>1, Zenon DEF Filed, Once
  <2> QED
    BY <2>3, <2>4
<1> QED
  BY <1>1, <1>2

\* getaddrinfo comes back, or its thread is cancelled: the job stays where it is.
LEMMA LookupFiled ==
  ASSUME DnsTypeOK, \A k \in Jobs : Filed(k), NEW j \in Jobs, Lookup(j) \/ Cancelled(j)
  PROVE  DnsTypeOK' /\ \A k \in Jobs : Filed(k)'
<1>1. /\ worker[j] = "lookup" /\ UNCHANGED <<jobs, results, delivered>>
      /\ worker' \in {[worker EXCEPT ![j] = "ended"], [worker EXCEPT ![j] = "found"]}
  BY DEF Lookup, Cancelled
<1>2. DnsTypeOK'
  BY <1>1 DEF DnsTypeOK
<1>3. ASSUME NEW k \in Jobs PROVE Filed(k)'
  <2>1. Lookups(k)' = Lookups(k) /\ Undelivered(k)' = Undelivered(k)
    BY <1>1 DEF Lookups, Undelivered
  <2>2. worker'[k] = worker[k] \/ (worker[k] = "lookup" /\ worker'[k] \in {"ended", "found"})
    BY <1>1 DEF DnsTypeOK
  <2> QED
    BY <2>1, <2>2, ZenonT(30) DEF Filed, Once
<1> QED
  BY <1>2, <1>3

\* job_thread_resolve_name moves its job from one list to the other, while nothing
\* is being delivered.
LEMMA PublishFiled ==
  ASSUME DnsTypeOK, \A k \in Jobs : Filed(k), NEW j \in Jobs, Publish(j), delivered = 0
  PROVE  DnsTypeOK' /\ \A k \in Jobs : Filed(k)'
<1>1. /\ worker[j] = "found" /\ worker' = [worker EXCEPT ![j] = "ended"]
      /\ jobs' = list_remove(jobs, j) /\ results' = Append(results, j) /\ delivered' = 0
  BY DEF Publish
<1>2. \A k \in Jobs : /\ Lookups(k) = Places(jobs, k) /\ Lookups(k)' = Places(jobs', k)
                      /\ Undelivered(k) = Places(results, k) /\ Undelivered(k)' = Places(results', k)
  BY <1>1 DEF Lookups, Undelivered, Places
<1>3. Once(Lookups(j)) /\ Undelivered(j) = {}
  BY <1>1, Zenon DEF Filed
<1>4. /\ jobs' \in Seq(Jobs) /\ Lookups(j)' = {}
      /\ \A k \in Jobs \ {j} : /\ Lookups(k) = {} => Lookups(k)' = {}
                               /\ Once(Lookups(k)) => Once(Lookups(k)')
  <2>1. jobs \in Seq(Jobs) /\ Once(Places(jobs, j))
    BY <1>2, <1>3 DEF DnsTypeOK
  <2>2. /\ jobs' \in Seq(Jobs) /\ Places(jobs', j) = {}
        /\ \A k \in Jobs \ {j} : /\ Places(jobs, k) = {} => Places(jobs', k) = {}
                                 /\ Once(Places(jobs, k)) => Once(Places(jobs', k))
    BY <1>1, <2>1, RemovePlaces
  <2> QED
    BY <1>2, <2>2 DEF Once
<1>5. /\ results' \in Seq(Jobs) /\ Len(results') = Len(results) + 1
      /\ \A k \in Jobs : Undelivered(k)' = Undelivered(k) \cup (IF k = j THEN {Len(results) + 1} ELSE {})
  BY <1>1, <1>2, AppendPlaces DEF DnsTypeOK
<1>6. DnsTypeOK'
  BY <1>1, <1>4, <1>5 DEF DnsTypeOK
<1>7. ASSUME NEW k \in Jobs PROVE Filed(k)'
  <2>1. CASE k = j
    <3>1. worker'[k] = "ended" /\ Lookups(k)' = {} /\ Undelivered(k)' = {Len(results) + 1}
      BY <1>1, <1>3, <1>4, <1>5, <2>1 DEF DnsTypeOK
    <3> QED
      BY <3>1 DEF Filed, Once
  <2>2. CASE k # j
    <3>1. worker'[k] = worker[k] /\ Undelivered(k)' = Undelivered(k)
      BY <1>1, <1>5, <2>2, Zenon DEF DnsTypeOK
    <3>2. /\ Lookups(k) = {} => Lookups(k)' = {}
          /\ Once(Lookups(k)) => Once(Lookups(k)')
      BY <1>4, <2>2
    <3>3. Filed(k)
      OBVIOUS
    <3> DEFINE L == Lookups(k)
               M == Lookups(k)'
    <3>4. /\ L = {} => M = {}
          /\ Once(L) => Once(M)
      BY <3>2
    <3>5. CASE worker[k] = "none"
      BY <3>1, <3>2, <3>3, <3>5 DEF Filed
    <3>6. CASE worker[k] \in {"lookup", "found"}
      <4>1. Once(L) /\ Undelivered(k) = {}
        BY <3>3, <3>6, Zenon DEF Filed
      <4>2. \E i \in M : M = {i}
        BY <3>4, <4>1 DEF Once
      <4> QED
        BY <3>1, <3>6, <4>1, <4>2, Zenon DEF Filed, Once
    <3>7. CASE worker[k] = "ended"
      <4>1. CASE Once(L) /\ Undelivered(k) = {}
        <5>1. \E i \in M : M = {i}
          BY <3>4, <4>1 DEF Once
        <5> QED
          BY <3>1, <3>7, <4>1, <5>1 DEF Filed, Once
      <4>2. CASE L = {} /\ Once(Undelivered(k))
        BY <3>1, <3>4, <3>7, <4>2 DEF Filed, Once
      <4> QED
        BY <3>3, <3>7, <4>1, <4>2, Zenon DEF Filed
    <3> QED
      BY <3>5, <3>6, <3>7 DEF DnsTypeOK
  <2> QED
    BY <2>1, <2>2
<1> QED
  BY <1>6, <1>7

\* net_dns_process: the job of the next result is not in the list of the running
\* ones, and once delivered it is in neither.
LEMMA DeliverFiled ==
  ASSUME DnsTypeOK, \A k \in Jobs : Filed(k), NEW j \in Jobs, Deliver(j)
  PROVE  DnsTypeOK' /\ \A k \in Jobs : Filed(k)'
<1>1. /\ delivered < Len(results) /\ j = results[delivered + 1] /\ worker[j] = "ended"
      /\ worker' = [worker EXCEPT ![j] = "none"] /\ delivered' = delivered + 1
      /\ UNCHANGED <<jobs, results>>
  BY DEF Deliver
<1>2. DnsTypeOK'
  BY <1>1 DEF DnsTypeOK
<1>3. \A k \in Jobs : Lookups(k)' = Lookups(k)
  BY <1>1 DEF Lookups
<1>4. \A k \in Jobs : Undelivered(k)' = Undelivered(k) \ {delivered + 1}
  BY <1>1 DEF Undelivered, DnsTypeOK
<1>5. delivered + 1 \in Undelivered(j)
  BY <1>1 DEF Undelivered, DnsTypeOK
<1>6. Lookups(j) = {} /\ Undelivered(j) = {delivered + 1}
  BY <1>1, <1>5, Zenon DEF Filed, Once
<1>7. ASSUME NEW k \in Jobs PROVE Filed(k)'
  <2>1. CASE k = j
    BY <1>1, <1>3, <1>4, <1>6, <2>1, Zenon DEF Filed, DnsTypeOK
  <2>2. CASE k # j
    <3>1. delivered + 1 \notin Undelivered(k) /\ worker'[k] = worker[k]
      BY <1>1, <2>2 DEF Undelivered, DnsTypeOK
    <3>2. Undelivered(k)' = Undelivered(k)
      BY <1>4, <3>1
    <3>3. Lookups(k)' = Lookups(k) /\ Filed(k)
      BY <1>3
    <3> HIDE DEF Lookups, Undelivered
    <3> QED
      BY <3>1, <3>2, <3>3, Zenon DEF Filed
  <2> QED
    BY <2>1, <2>2
<1> QED
  BY <1>2, <1>7

\* The end of net_dns_process clears a list of delivered results only.
LEMMA DeliverEndFiled ==
  ASSUME DnsTypeOK, \A k \in Jobs : Filed(k), DeliverEnd
  PROVE  DnsTypeOK' /\ \A k \in Jobs : Filed(k)'
<1>1. delivered = Len(results) /\ results' = << >> /\ delivered' = 0 /\ UNCHANGED <<worker, jobs>>
  BY DEF DeliverEnd
<1>2. DnsTypeOK'
  BY <1>1 DEF DnsTypeOK
<1>3. \A k \in Jobs : Lookups(k)' = Lookups(k) /\ Undelivered(k)' = {} /\ Undelivered(k) = {}
  BY <1>1 DEF Lookups, Undelivered, DnsTypeOK
<1> QED
  BY <1>1, <1>2, <1>3, Zenon DEF Filed, Once
-----------------------------------------------------------------------------
(* What sending does to a client                                                *)

\* d is what client c becomes by sending: the same client on the same connection,
\* which waits for a write event if it has to.
SameClient(c, d) ==
  /\ d \in Clients /\ d.id = c.id /\ d.live = c.live /\ d.con = c.con /\ d.job = c.job
  /\ AwaitsWrite(d)

\* ADC_client_send_queue asks for write events exactly when something is left.
LEMMA SendQueueKeeps ==
  ASSUME NEW c \in Clients, NEW d \in ADC_client_send_queue(c)
  PROVE  SameClient(c, d) /\ d.state = c.state
<1>1. CASE d = [c EXCEPT !.broken = TRUE]
  BY <1>1, Zenon DEF SameClient, Clients, AwaitsWrite
<1>2. ASSUME NEW k \in 0..c.sendq, d = Pushed(c, k)
      PROVE  SameClient(c, d) /\ d.state = c.state
  <2>0. PICK n \in Nat : n = c.sendq - k
    <3>1. c.sendq \in Nat
      BY DEF Clients
    <3> QED
      BY <3>1
  <2>1. PICK a \in BOOLEAN : a = (n > 0)
    <3>1. (n > 0) \in BOOLEAN
      BY SMT
    <3> QED
      BY <3>1, Zenon
  <2>2. d = [c EXCEPT !.sendq = n, !.armed = a]
    BY <1>2, <2>0, <2>1 DEF Pushed, Clients
  <2>3. /\ d \in Clients /\ d.id = c.id /\ d.live = c.live /\ d.con = c.con /\ d.job = c.job
        /\ d.state = c.state /\ d.sendq = n /\ d.armed = a
    BY <2>2, Zenon DEF Clients
  <2> QED
    BY <2>1, <2>3, Zenon DEF SameClient, AwaitsWrite
<1> QED
  BY <1>1, <1>2 DEF ADC_client_send_queue

\* ADC_client_send writes at once only if nothing was queued; otherwise it asks
\* for write events.
LEMMA SendKeeps ==
  ASSUME NEW c \in Clients, NEW d \in ADC_client_send(c)
  PROVE  SameClient(c, d) /\ d.state = c.state
<1> DEFINE q == [c EXCEPT !.sendq = c.sendq + 1]
<1>1. /\ q \in Clients /\ q.id = c.id /\ q.live = c.live /\ q.con = c.con /\ q.job = c.job
      /\ q.state = c.state
  BY DEF Clients
<1>2. CASE c.sendq = 0
  <2>1. d \in ADC_client_send_queue(q)
    BY <1>2 DEF ADC_client_send
  <2> HIDE DEF q
  <2>2. SameClient(q, d) /\ d.state = q.state
    BY <1>1, <2>1, SendQueueKeeps
  <2> QED
    BY <1>1, <2>2 DEF SameClient
<1>3. CASE c.sendq # 0
  <2>1. d = [q EXCEPT !.armed = TRUE]
    BY <1>3 DEF ADC_client_send
  <2> HIDE DEF q
  <2> QED
    BY <1>1, <2>1, Zenon DEF SameClient, Clients, AwaitsWrite
<1> QED
  BY <1>2, <1>3

\* ADC_client_send_handshake sends HSUP and goes to ps_protocol.
LEMMA HandshakeKeeps ==
  ASSUME NEW c \in Clients, NEW d \in ADC_client_send_handshake(c)
  PROVE  SameClient(c, d) /\ d.state = "protocol"
<1> DEFINE q == [c EXCEPT !.armed = FALSE]
<1>1. q \in Clients /\ q.id = c.id /\ q.live = c.live /\ q.con = c.con /\ q.job = c.job
  BY Zenon DEF Clients
<1>2. PICK e \in ADC_client_send(q) : d = [e EXCEPT !.state = "protocol"]
  BY Zenon DEF ADC_client_send_handshake
<1> HIDE DEF q
<1>3. SameClient(q, e)
  BY <1>1, SendKeeps
<1> QED
  BY <1>1, <1>2, <1>3 DEF SameClient, Clients, AwaitsWrite, States

\* connect_callback gives the client its connection, or leaves it in ps_conn.
LEMMA CallbackKeeps ==
  ASSUME NEW c \in Clients, NEW told \in {"ok", "fail"}, NEW d \in connect_callback(c, told),
         ~ c.con, AwaitsWrite(c), c.state = "conn"
  PROVE  /\ d \in Clients /\ d.id = c.id /\ d.live = c.live /\ ~ d.job /\ AwaitsWrite(d)
         /\ \/ d.con /\ d.state \in {"ssl", "protocol"}
            \/ ~ d.con /\ d.state = "conn"
<1>1. CASE told # "ok"
  <2>1. d = [c EXCEPT !.job = FALSE]
    BY <1>1 DEF connect_callback
  <2> QED
    BY <2>1, Zenon DEF Clients, AwaitsWrite
<1>2. CASE told = "ok"
  <2> DEFINE q == [c EXCEPT !.job = FALSE, !.con = TRUE]
  <2>1. q \in Clients /\ q.id = c.id /\ q.live = c.live /\ q.con /\ ~ q.job
    BY Zenon DEF Clients
  <2>2. d \in ADC_client_on_connected(q)
    BY <1>2 DEF connect_callback
  <2> HIDE DEF q
  <2>3. CASE setup.uri = "adcs"
    <3>1. d = [q EXCEPT !.state = "ssl", !.armed = TRUE]
      BY <2>2, <2>3 DEF ADC_client_on_connected
    <3> QED
      BY <2>1, <3>1, Zenon DEF Clients, AwaitsWrite, States
  <2>4. CASE setup.uri # "adcs"
    <3>1. d \in ADC_client_send_handshake(q)
      BY <2>2, <2>4 DEF ADC_client_on_connected
    <3>2. SameClient(q, d) /\ d.state = "protocol"
      BY <2>1, <3>1, HandshakeKeeps
    <3> QED
      BY <2>1, <3>2 DEF SameClient
  <2> QED
    BY <2>3, <2>4
<1> QED
  BY <1>1, <1>2
-----------------------------------------------------------------------------
(* The invariant holds initially and says what it is meant to                  *)

\* Before client_connect there are no jobs, handles or clients.
LEMMA ClientInvInit == Init => ClientInv
<1> SUFFICES ASSUME Init PROVE ClientInv
  OBVIOUS
<1>1. NoHandle \in Handles /\ NoClient \in Clients /\ NoAnswer \in [v6 : Nat, v4 : Nat]
  BY DEF NoHandle, Handles, NoList, JobLists, NoClient, Clients, States, NoAnswer
<1>2. ResolverInv
  BY DEF Init, DnsInit, ResolverInv, DnsTypeOK, Filed, Lookups, Undelivered
<1>3. BotTypeOK
  BY <1>1 DEF Init, DnsInit, ConnectorInit, BotTypeOK, Bots
<1>4. ASSUME NEW b \in Bots PROVE BotOK(b)
  BY DEF Init, DnsInit, ConnectorInit, BotOK, Bots, AwaitsWrite, Attached, NoHandle, NoList, NoClient, Connected
<1> QED
  BY <1>2, <1>3, <1>4 DEF ClientInv

\* The invariant contains the two properties.
LEMMA ClientInvImplies == ClientInv => CallbackSafe /\ WriteArmed
BY DEF ClientInv, ResolverInv, BotOK, CallbackSafe, OneRecord, WriteArmed, Bots

\* A bot that a step leaves alone stays as it is.
LEMMA OtherBot ==
  ASSUME NEW k \in Bots, BotOK(k), fault = "none",
         handle'[k] = handle[k], client'[k] = client[k], logged_in'[k] = logged_in[k],
         worker'[k] = "none" <=> worker[k] = "none", k \in unstarted' => k \in unstarted,
         main' = main
  PROVE  BotOK(k)'
BY DEF BotOK
\* A step that leaves the resolver alone leaves its lists matched, while it goes
\* on or between parts of the program that do not hold the mutex.
LEMMA SameResolver ==
  ASSUME ResolverInv, UNCHANGED dnsVars,
         main' = main \/ {main, main'} \subseteq {"start", "loop", "stop"}
  PROVE  ResolverInv'
<1>1. ASSUME NEW k \in Jobs, Filed(k) PROVE Filed(k)'
  <2>1. Lookups(k)' = Lookups(k) /\ Undelivered(k)' = Undelivered(k) /\ worker' = worker
    BY DEF Lookups, Undelivered, dnsVars
  <2> QED
    BY <1>1, <2>1, Zenon DEF Filed, Once
<1>2. DnsTypeOK'
  BY DEF ResolverInv, DnsTypeOK, dnsVars
<1> QED
  BY <1>1, <1>2 DEF ResolverInv, dnsVars

-----------------------------------------------------------------------------
(* The steps preserve the invariant                                            *)

\* ADC_client_connect for a bot that waits for no callback: the new client waits
\* for the new handle, whose lookup runs.
LEMMA ConnectStep ==
  ASSUME ClientInv, Running, main \in {"start", "loop"}, main' = main, NEW b \in Bots,
         ~ handle[b].live, ADC_client_connect(b, ADC_client_create(b)),
         logged_in' = [logged_in EXCEPT ![b] = FALSE],
         unstarted' \in SUBSET unstarted, b \notin unstarted'
  PROVE  ClientInv'
<1> USE DEF Bots
<1> DEFINE c == ADC_client_create(b)
           w == [c EXCEPT !.state = "conn", !.job = TRUE]
           h == [NoHandle EXCEPT !.live = TRUE, !.dns = TRUE, !.owner = c.id]
<1>1. /\ c \in Clients /\ ~ c.con /\ ~ c.job /\ c.live /\ c.state = "none"
      /\ w \in Clients /\ w.live /\ ~ w.con /\ w.job /\ w.state = "conn" /\ w.id = c.id
  <2>1. client[b].id + 1 \in Nat
    BY DEF ClientInv, BotTypeOK, Clients
  <2>2. NoClient \in Clients
    BY DEF NoClient, Clients, States
  <2> QED
    BY <2>1, <2>2, Zenon DEF ADC_client_create, NoClient, Clients, States
<1>2. h \in Handles /\ h.live /\ h.dns /\ ~ h.job6.on /\ ~ h.job4.on /\ h.owner = c.id
  <2>1. NoHandle \in Handles
    BY DEF NoHandle, Handles, NoList, JobLists
  <2>2. c.id \in Nat
    BY <1>1 DEF Clients
  <2> HIDE DEF c
  <2> QED
    BY <2>1, <2>2, Zenon DEF NoHandle, NoList, Handles, JobLists
<1>3. /\ BotTypeOK /\ ResolverInv /\ fault = "none" /\ \A k \in Jobs : Filed(k) /\ BotOK(k)
      /\ ~ handle[b].dns /\ worker[b] = "none"
  BY DEF ClientInv, ResolverInv, BotOK, Running
<1> HIDE DEF c, w, h
<1>4. CASE ~ ADC_client_parse_address(setup.uri)
  <2>1. client' = [client EXCEPT ![b] = c] /\ UNCHANGED <<dnsVars, conVars>>
    BY <1>4 DEF ADC_client_connect, Set, c
  <2>2. BotTypeOK'
    BY <1>1, <1>3, <2>1 DEF BotTypeOK, dnsVars, conVars
  <2>3. ResolverInv'
    BY <1>3, <2>1, SameResolver
  <2>4. ASSUME NEW k \in Bots PROVE BotOK(k)'
    <3>1. CASE k # b
      BY <1>3, <2>1, <3>1, OtherBot, Zenon DEF BotTypeOK, dnsVars, conVars
    <3>2. CASE k = b
      <4>1. client'[b] = c /\ logged_in'[b] = FALSE /\ handle'[b] = handle[b] /\ worker'[b] = "none"
        BY <1>3, <2>1 DEF BotTypeOK, dnsVars, conVars
      <4> QED
        BY <1>1, <1>3, <3>2, <4>1 DEF BotOK, AwaitsWrite, Attached, Connected
    <3> QED
      BY <3>1, <3>2
  <2> QED
    BY <2>2, <2>3, <2>4 DEF ClientInv
<1>5. CASE /\ net_dns_gethostbyname(b) /\ handle' = [handle EXCEPT ![b] = h]
           /\ client' = [client EXCEPT ![b] = w] /\ UNCHANGED <<fault, setup>>
  <2>1. BotTypeOK'
    BY <1>1, <1>2, <1>3, <1>5 DEF BotTypeOK, net_dns_gethostbyname
  <2>2. ResolverInv'
    <3>1. DnsTypeOK' /\ \A k \in Jobs : Filed(k)'
      BY <1>3, <1>5, StartFiled DEF ResolverInv
    <3> QED
      BY <1>3, <1>5, <3>1 DEF ResolverInv, net_dns_gethostbyname
  <2>3. worker' = [worker EXCEPT ![b] = "lookup"]
    BY <1>5 DEF net_dns_gethostbyname
  <2>4. ASSUME NEW k \in Bots PROVE BotOK(k)'
    <3>1. CASE k # b
      BY <1>3, <1>5, <2>3, <3>1, OtherBot, Zenon DEF BotTypeOK, ResolverInv, DnsTypeOK
    <3>2. CASE k = b
      <4>1. /\ client'[b] = w /\ logged_in'[b] = FALSE /\ handle'[b] = h
            /\ worker'[b] = "lookup"
        BY <1>3, <1>5, <2>3 DEF BotTypeOK, ResolverInv, DnsTypeOK
      <4> QED
        BY <1>1, <1>2, <1>3, <3>2, <4>1 DEF BotOK, AwaitsWrite, Attached, Connected
    <3> QED
      BY <3>1, <3>2
  <2> QED
    BY <2>1, <2>2, <2>4 DEF ClientInv
<1>6. CASE /\ fault' = "close_null" /\ client' = [client EXCEPT ![b] = [c EXCEPT !.state = "conn"]]
           /\ UNCHANGED <<dnsVars, handle, setup>>
  <2>1. [c EXCEPT !.state = "conn"] \in Clients /\ [c EXCEPT !.state = "conn"].con = c.con
    BY <1>1 DEF Clients, States
  <2>2. BotTypeOK'
    BY <1>3, <1>6, <2>1 DEF BotTypeOK, dnsVars
  <2>3. ResolverInv'
    BY <1>3, <1>6, SameResolver
  <2>4. ASSUME NEW k \in Bots PROVE BotOK(k)'
    <3>1. AwaitsWrite(client'[k])
      BY <1>1, <1>3, <1>6, <2>1 DEF AwaitsWrite, BotOK, BotTypeOK
    <3> QED
      BY <1>3, <1>6, <3>1 DEF BotOK, dnsVars
  <2> QED
    BY <2>2, <2>3, <2>4 DEF ClientInv
<1> QED
  BY <1>4, <1>5, <1>6 DEF ADC_client_connect, Set, c, w, h

\* What one event of the connection jobs makes of a handle, or of the answer to
\* a lookup: either the handle goes on, or the callback is made and the handle freed.
GoesOn(h, r) ==
  /\ r.told \in {"none", "ok", "fail"}
  /\ r.told # "none" => r.h = NoHandle
  /\ r.told = "none" => r.h \in Handles /\ r.h.live /\ ~ r.h.dns /\ r.h.owner = h.owner

\* connect_callback is made for the client that waits for it, once: after it the
\* handle is gone.
LEMMA ToldStep ==
  ASSUME BotTypeOK, NEW b \in Bots, BotOK(b), Running, main \in {"loop", "dns"}, main' = main,
         handle[b].live, NEW r, Told(b, r), GoesOn(handle[b], r),
         worker'[b] = "none", UNCHANGED <<answer, logged_in, unstarted>>
  PROVE  /\ BotTypeOK' /\ BotOK(b)'
         /\ \A k \in Bots \ {b} : handle'[k] = handle[k] /\ client'[k] = client[k]
<1> USE DEF Bots
<1>0. /\ r.told \in {"none", "ok", "fail"}
      /\ r.told # "none" => r.h = NoHandle
      /\ r.told = "none" => r.h \in Handles /\ r.h.live /\ ~ r.h.dns /\ r.h.owner = handle[b].owner
  BY Zenon DEF GoesOn
<1>1. NoHandle \in Handles /\ ~ NoHandle.live /\ ~ NoHandle.dns
  BY DEF NoHandle, NoList, Handles, JobLists
<1>2. r.h \in Handles /\ ~ r.h.dns
  BY <1>0, <1>1
<1>3. handle' = [handle EXCEPT ![b] = r.h] /\ fault' = r.fault
  BY DEF Told
<1>4. /\ client[b] \in Clients /\ AwaitsWrite(client[b]) /\ Attached(handle[b], client[b], logged_in[b])
      /\ logged_in[b] => client[b].state \in {"normal", "none"}
      /\ b \notin unstarted
  BY DEF BotOK, BotTypeOK, Running
<1>5. /\ client[b].state = "conn" /\ ~ client[b].con /\ client[b].live /\ client[b].job
      /\ handle[b].owner = client[b].id /\ ~ logged_in[b]
  BY <1>4 DEF Attached
<1>6. CASE r.told = "none"
  <2>1. client' = client
    BY <1>6 DEF Told
  <2>2. BotTypeOK'
    BY <1>2, <1>3, <2>1 DEF BotTypeOK
  <2>3. handle'[b] = r.h
    BY <1>3 DEF BotTypeOK
  <2>4. Attached(r.h, client[b], logged_in[b])
    BY <1>0, <1>4, <1>5, <1>6 DEF Attached
  <2> QED
    BY <1>0, <1>2, <1>3, <1>4, <1>6, <2>1, <2>2, <2>3, <2>4 DEF BotOK, BotTypeOK
<1>7. CASE r.told # "none"
  <2>1. PICK d \in connect_callback(client[b], r.told) : client' = [client EXCEPT ![b] = d]
    BY <1>7 DEF Told, Set
  <2>2. /\ d \in Clients /\ d.id = client[b].id /\ d.live = client[b].live /\ ~ d.job /\ AwaitsWrite(d)
        /\ \/ d.con /\ d.state \in {"ssl", "protocol"}
           \/ ~ d.con /\ d.state = "conn"
    BY <1>0, <1>4, <1>5, <1>7, CallbackKeeps, Zenon
  <2>3. BotTypeOK'
    BY <1>2, <1>3, <2>1, <2>2 DEF BotTypeOK
  <2>4. handle'[b] = NoHandle /\ client'[b] = d
    BY <1>0, <1>3, <1>7, <2>1 DEF BotTypeOK
  <2>5. Attached(NoHandle, d, logged_in[b])
    BY <1>1, <2>2 DEF Attached, Connected
  <2> QED
    BY <1>1, <1>3, <1>4, <1>5, <2>1, <2>2, <2>3, <2>4, <2>5 DEF BotOK, BotTypeOK
<1> QED
  BY <1>6, <1>7

\* net_connect_job_internal_cb for a write event.
LEMMA WritableGoesOn ==
  ASSUME NEW h \in Handles, h.live, ~ h.dns, NEW f, NEW o \in Outcomes
  PROVE  GoesOn(h, JobWritable(h, f, o))
BY DEF GoesOn, JobWritable, Outcomes

\* net_connect_job_internal_cb for a timeout.
LEMMA TimeoutGoesOn ==
  ASSUME NEW h \in Handles, h.live, ~ h.dns, NEW f \in {"job6", "job4"}
  PROVE  GoesOn(h, JobTimeout(h, f))
<1> DEFINE g == net_connect_job_stop(h, f)
<1>1. g \in Handles /\ g.live /\ ~ g.dns /\ g.owner = h.owner
  <2>1. CASE f = "job6"
    <3>1. PICK l \in JobLists : l = [n |-> h.job6.n - 1, on |-> FALSE]
      <4>1. [n |-> h.job6.n - 1, on |-> FALSE] \in JobLists
        BY DEF Handles, JobLists
      <4> QED
        BY <4>1, Zenon
    <3>2. g = [h EXCEPT !.job6 = l]
      BY <2>1, <3>1, Zenon DEF net_connect_job_stop
    <3> HIDE DEF g
    <3> QED
      BY <3>2 DEF Handles
  <2>2. CASE f = "job4"
    <3>1. PICK l \in JobLists : l = [n |-> h.job4.n - 1, on |-> FALSE]
      <4>1. [n |-> h.job4.n - 1, on |-> FALSE] \in JobLists
        BY DEF Handles, JobLists
      <4> QED
        BY <4>1, Zenon
    <3>2. g = [h EXCEPT !.job4 = l]
      BY <2>2, <3>1, Zenon DEF net_connect_job_stop
    <3> HIDE DEF g
    <3> QED
      BY <3>2 DEF Handles
  <2> QED
    BY <2>1, <2>2
<1>2. JobTimeout(h, f) = IF net_connect_depleted(g) THEN [h |-> NoHandle, told |-> "fail", fault |-> "none"]
                         ELSE [h |-> g, told |-> "none", fault |-> "none"]
  BY DEF JobTimeout
<1> HIDE DEF g
<1> QED
  BY <1>1, <1>2 DEF GoesOn

\* net_connect_process: the first job of a list gets its connection.
LEMMA StartedGoesOn ==
  ASSUME NEW h \in Handles, NEW f \in {"job6", "job4"}
  PROVE  /\ Started(h, f) \in Handles /\ Started(h, f).live = h.live
         /\ Started(h, f).dns = h.dns /\ Started(h, f).owner = h.owner
<1>1. CASE f = "job6"
  <2>1. PICK l \in JobLists : l = [h.job6 EXCEPT !.on = TRUE]
    <3>1. [h.job6 EXCEPT !.on = TRUE] \in JobLists
      BY Zenon DEF Handles, JobLists
    <3> QED
      BY <3>1, Zenon
  <2>2. Started(h, f) = [h EXCEPT !.job6 = l]
    BY <1>1, <2>1, Zenon DEF Started
  <2> QED
    BY <2>2 DEF Handles
<1>2. CASE f = "job4"
  <2>1. PICK l \in JobLists : l = [h.job4 EXCEPT !.on = TRUE]
    <3>1. [h.job4 EXCEPT !.on = TRUE] \in JobLists
      BY Zenon DEF Handles, JobLists
    <3> QED
      BY <3>1, Zenon
  <2>2. Started(h, f) = [h EXCEPT !.job4 = l]
    BY <1>2, <2>1, Zenon DEF Started
  <2> QED
    BY <2>2 DEF Handles
<1> QED
  BY <1>1, <1>2

\* net_connect_job_schedule: the lookup is over, the jobs are made.
LEMMA ScheduledGoesOn ==
  ASSUME NEW h \in Handles, NEW a \in [v6 : Nat, v4 : Nat]
  PROVE  /\ Scheduled(h, a) \in Handles /\ Scheduled(h, a).live = h.live
         /\ ~ Scheduled(h, a).dns /\ Scheduled(h, a).owner = h.owner
<1>1. PICK l6 \in JobLists : l6 = [n |-> IF setup.ipv6 THEN a.v6 ELSE 0, on |-> FALSE]
  <2>1. [n |-> IF setup.ipv6 THEN a.v6 ELSE 0, on |-> FALSE] \in JobLists
    BY DEF JobLists
  <2> QED
    BY <2>1, Zenon
<1>2. PICK l4 \in JobLists : l4 = [n |-> a.v4, on |-> FALSE]
  <2>1. [n |-> a.v4, on |-> FALSE] \in JobLists
    BY DEF JobLists
  <2> QED
    BY <2>1, Zenon
<1>3. Scheduled(h, a) = [h EXCEPT !.dns = FALSE, !.job6 = l6, !.job4 = l4]
  BY <1>1, <1>2 DEF Scheduled
<1> QED
  BY <1>3, Zenon DEF Handles

\* net_con_connect_dns_callback: no address ends the handle; otherwise it goes on
\* unless one of its first jobs is decided at once.
LEMMA AnswerGoesOn ==
  ASSUME NEW h \in Handles, h.live, NEW a \in [v6 : Nat, v4 : Nat],
         NEW o6 \in Outcomes, NEW o4 \in Outcomes
  PROVE  GoesOn(h, net_con_connect_dns_callback(h, a, o6, o4))
<1>1. CASE a = NoAnswer
  BY <1>1 DEF net_con_connect_dns_callback, GoesOn
<1>2. CASE a # NoAnswer
  <2>1. PICK g \in Handles : g = Scheduled(h, a)
    BY ScheduledGoesOn, Zenon
  <2>2. g.live /\ ~ g.dns /\ g.owner = h.owner
    BY <2>1, ScheduledGoesOn
  <2>3. PICK g6 \in Handles : g6 = IF g.job6.n > 0 THEN Started(g, "job6") ELSE g
    BY StartedGoesOn
  <2>4. g6.live /\ ~ g6.dns /\ g6.owner = h.owner
    BY <2>2, <2>3, StartedGoesOn
  <2>5. PICK g4 \in Handles : g4 = IF g.job4.n > 0 THEN Started(g6, "job4") ELSE g6
    BY StartedGoesOn
  <2>6. g4.live /\ ~ g4.dns /\ g4.owner = h.owner
    BY <2>4, <2>5, StartedGoesOn
  <2>7. net_con_connect_dns_callback(h, a, o6, o4) = net_connect_process(g, o6, o4)
    BY <1>2, <2>1 DEF net_con_connect_dns_callback
  <2>8. \/ /\ net_connect_process(g, o6, o4).told \in {"ok", "fail"}
           /\ net_connect_process(g, o6, o4).h = NoHandle
        \/ /\ net_connect_process(g, o6, o4).told = "none"
           /\ net_connect_process(g, o6, o4).h = g4
    BY <2>3, <2>5 DEF net_connect_process, Outcomes
  <2> QED
    BY <2>6, <2>7, <2>8 DEF GoesOn
<1> QED
  BY <1>1, <1>2

\* The workers of the resolver touch neither handles nor clients.
LEMMA WorkersStep ==
  ASSUME ClientInv, Workers
  PROVE  ClientInv'
<1> USE DEF Bots
<1>1. /\ ResolverInv /\ BotTypeOK /\ \A k \in Jobs : BotOK(k)
      /\ fault = "none" /\ UNCHANGED <<conVars, cliVars>>
  BY DEF ClientInv, Workers, Running
<1>2. PICK j \in Jobs : Lookup(j) \/ Publish(j) \/ Cancelled(j)
  BY DEF Workers
<1>3. BotTypeOK'
  <2>1. answer' \in [Jobs -> [v6 : Nat, v4 : Nat]]
    <3>1. answer \in [Jobs -> [v6 : Nat, v4 : Nat]]
      BY <1>1 DEF BotTypeOK
    <3>2. answer' = answer \/ \E a \in Answers \cup {NoAnswer} : answer' = [answer EXCEPT ![j] = a]
      BY <1>2 DEF Lookup, Publish, Cancelled
    <3>3. \A a \in Answers \cup {NoAnswer} : a \in [v6 : Nat, v4 : Nat]
      BY AnswersAssumption DEF NoAnswer
    <3> QED
      BY <3>1, <3>2, <3>3
  <2> QED
    BY <1>1, <2>1 DEF BotTypeOK, conVars, cliVars
<1>4. DnsTypeOK' /\ (main \notin {"destroy", "ended"} => \A k \in Jobs : Filed(k)')
  <2>1. CASE main \notin {"destroy", "ended"}
    <3>1. DnsTypeOK /\ \A k \in Jobs : Filed(k)
      BY <1>1, <2>1 DEF ResolverInv
    <3>2. CASE Lookup(j) \/ Cancelled(j)
      BY <3>1, <3>2, LookupFiled
    <3>3. CASE Publish(j)
      <4>1. delivered = 0
        BY <1>1, <3>3 DEF ResolverInv, Publish
      <4> QED
        BY <3>1, <3>3, <4>1, PublishFiled
    <3> QED
      BY <1>2, <3>2, <3>3
  <2>2. CASE main \in {"destroy", "ended"}
    <3>1. ~ Publish(j)
      BY <1>1, <2>2 DEF ResolverInv, Publish
    <3> QED
      BY <1>1, <1>2, <2>2, <3>1 DEF ResolverInv, DnsTypeOK, Lookup, Cancelled
  <2> QED
    BY <2>1, <2>2
<1>5. UNCHANGED <<delivered, holder>> /\ main' = main
  BY <1>1, <1>2 DEF Lookup, Publish, Cancelled, cliVars
<1>6. ResolverInv'
  <2>1. main # "ended"
    BY <1>1, <1>2 DEF ResolverInv, Lookup, Publish, Cancelled
  <2> QED
    BY <1>1, <1>4, <1>5, <2>1 DEF ResolverInv
<1>7. ASSUME NEW k \in Bots PROVE BotOK(k)'
  <2>1. worker'[k] = "none" <=> worker[k] = "none"
    BY <1>1, <1>2 DEF Lookup, Publish, Cancelled, ResolverInv, DnsTypeOK
  <2> QED
    BY <1>1, <2>1, OtherBot DEF conVars, cliVars
<1> QED
  BY <1>3, <1>6, <1>7 DEF ClientInv

\* The main thread goes from starting bots to its event loop, locks and unlocks
\* the resolver, and stops.
LEMMA LoopStepOK ==
  ASSUME ClientInv, LoopBegin \/ NotifyEvent \/ NotifyEnd \/ LoopEnd
  PROVE  ClientInv'
<1> USE DEF Bots
<1>1. ResolverInv /\ BotTypeOK /\ (\A k \in Jobs : BotOK(k)) /\ fault = "none"
  BY DEF ClientInv, LoopBegin, NotifyEvent, NotifyEnd, LoopEnd, Running
<1>2. CASE LoopBegin
  <2>1. ResolverInv'
    BY <1>1, <1>2, SameResolver DEF LoopBegin
  <2>2. BotTypeOK' /\ \A k \in Bots : BotOK(k)'
    BY <1>1, <1>2 DEF LoopBegin, BotTypeOK, BotOK, dnsVars, conVars
  <2> QED
    BY <2>1, <2>2 DEF ClientInv
<1>3. CASE NotifyEvent
  <2>1. /\ main = "loop" /\ main' = "dns" /\ holder' = "main"
        /\ UNCHANGED <<worker, answer, jobs, results, delivered>> /\ UNCHANGED <<conVars, client, logged_in, unstarted>>
    BY <1>3 DEF NotifyEvent, net_dns_process
  <2>2. \A k \in Jobs : Filed(k)'
    <3> SUFFICES ASSUME NEW k \in Jobs PROVE Filed(k)'
      OBVIOUS
    <3>1. Lookups(k)' = Lookups(k) /\ Undelivered(k)' = Undelivered(k) /\ Filed(k)
      BY <1>1, <2>1 DEF Lookups, Undelivered, ResolverInv
    <3> QED
      BY <2>1, <3>1, Zenon DEF Filed, Once
  <2>3. ResolverInv'
    BY <1>1, <2>1, <2>2 DEF ResolverInv, DnsTypeOK
  <2>4. BotTypeOK' /\ \A k \in Bots : BotOK(k)'
    BY <1>1, <2>1 DEF BotTypeOK, BotOK, conVars
  <2> QED
    BY <2>3, <2>4 DEF ClientInv
<1>4. CASE NotifyEnd
  <2>1. /\ DeliverEnd /\ main = "dns" /\ main' = "loop" /\ holder' = "none" /\ delivered' = 0
        /\ UNCHANGED <<worker, answer>> /\ UNCHANGED <<conVars, client, logged_in, unstarted>>
    BY <1>4 DEF NotifyEnd, DeliverEnd
  <2>2. DnsTypeOK' /\ \A k \in Jobs : Filed(k)'
    BY <1>1, <2>1, DeliverEndFiled DEF ResolverInv
  <2>3. ResolverInv'
    BY <2>1, <2>2 DEF ResolverInv
  <2>4. BotTypeOK' /\ \A k \in Bots : BotOK(k)'
    BY <1>1, <2>1 DEF BotTypeOK, BotOK, conVars
  <2> QED
    BY <2>3, <2>4 DEF ClientInv
<1>5. CASE LoopEnd
  <2>1. /\ main = "loop" /\ main' = "stop" /\ UNCHANGED <<dnsVars, conVars, unstarted>>
        /\ client' = [b \in Bots |-> [NoClient EXCEPT !.id = client[b].id]]
        /\ logged_in' = [b \in Bots |-> FALSE]
    BY <1>5 DEF LoopEnd
  <2>2. ResolverInv'
    BY <1>1, <2>1, SameResolver
  <2>3. \A b \in Bots : [NoClient EXCEPT !.id = client[b].id] \in Clients /\ ~ [NoClient EXCEPT !.id = client[b].id].con
    <3> SUFFICES ASSUME NEW b \in Bots
                 PROVE  [NoClient EXCEPT !.id = client[b].id] \in Clients /\ ~ [NoClient EXCEPT !.id = client[b].id].con
      BY Zenon
    <3>1. client[b].id \in Nat
      BY <1>1 DEF BotTypeOK, Clients
    <3> QED
      BY <3>1, Zenon DEF NoClient, Clients, States
  <2>4. BotTypeOK'
    BY <1>1, <2>1, <2>3 DEF BotTypeOK, dnsVars, conVars
  <2>5. \A k \in Bots : BotOK(k)'
    BY <1>1, <2>1, <2>3, Zenon DEF BotOK, AwaitsWrite, dnsVars, conVars
  <2> QED
    BY <2>2, <2>4, <2>5 DEF ClientInv
<1> QED
  BY <1>2, <1>3, <1>4, <1>5

\* net_destroy joins the workers of the jobs that still run and leaves none.
LEMMA DestroyStep ==
  ASSUME ClientInv, net_destroy
  PROVE  ClientInv'
<1> USE DEF Bots
<1>1. /\ ResolverInv /\ BotTypeOK /\ (\A k \in Jobs : BotOK(k))
      /\ UNCHANGED <<conVars, client, logged_in, unstarted>> /\ UNCHANGED <<answer, delivered>>
  BY DEF ClientInv, net_destroy, DestroyBegin, CancelFirst, JoinFirst, DestroyEnd
<1>2. main \in {"stop", "destroy"} /\ main' \in {"destroy", "ended"}
  BY DEF net_destroy
<1>3. BotTypeOK'
  BY <1>1, <1>2 DEF BotTypeOK, conVars
<1>4. \A k \in Bots : BotOK(k)'
  BY <1>1, <1>2 DEF BotOK, conVars
<1>5. DnsTypeOK /\ delivered = 0
  BY <1>1, <1>2 DEF ResolverInv
<1>6. CASE main = "destroy" /\ (CancelFirst \/ JoinFirst) /\ main' = main
  <2>1. DnsTypeOK'
    <3>1. CASE CancelFirst
      BY <1>5, <3>1 DEF CancelFirst, DnsTypeOK
    <3>2. CASE JoinFirst
      BY <1>5, <3>2 DEF JoinFirst, DnsTypeOK
    <3> QED
      BY <1>6, <3>1, <3>2
  <2>2. holder' = holder
    BY <1>6 DEF CancelFirst, JoinFirst
  <2> QED
    BY <1>1, <1>3, <1>4, <1>5, <1>6, <2>1, <2>2 DEF ResolverInv, ClientInv
<1>7. CASE main = "destroy" /\ DestroyEnd /\ main' = "ended"
  BY <1>1, <1>3, <1>4, <1>5, <1>7 DEF DestroyEnd, ResolverInv, DnsTypeOK, ClientInv
<1>8. CASE main = "stop" /\ DestroyBegin /\ main' = "destroy"
  BY <1>1, <1>3, <1>4, <1>5, <1>8 DEF DestroyBegin, ResolverInv, DnsTypeOK, ClientInv
<1> QED
  BY <1>6, <1>7, <1>8 DEF net_destroy

\* A step of one bot's client on its connection: the same client, in a state that
\* fits its connection.
LEMMA OneClient ==
  ASSUME ClientInv, Running, main = "loop", main' = main, UNCHANGED <<dnsVars, conVars, unstarted>>,
         NEW b \in Bots, NEW d \in Clients, client' = [client EXCEPT ![b] = d],
         NEW in \in BOOLEAN, logged_in' = [logged_in EXCEPT ![b] = in], client[b].con,
         d.live = client[b].live, d.id = client[b].id, d.job = client[b].job, AwaitsWrite(d),
         d.con <=> d.state \in Connected, d.state = "normal" => in, in => d.state \in {"normal", "none"}
  PROVE  ClientInv'
<1> USE DEF Bots
<1>1. /\ ResolverInv /\ BotTypeOK /\ (\A k \in Jobs : BotOK(k)) /\ fault = "none"
  BY DEF ClientInv, Running
<1>2. ResolverInv'
  BY <1>1, SameResolver
<1>3. BotTypeOK'
  BY <1>1 DEF BotTypeOK, dnsVars, conVars
<1>4. ~ handle[b].live
  BY <1>1 DEF BotOK, Attached
<1>5. BotOK(b)'
  <2>1. client'[b] = d /\ logged_in'[b] = in
    BY <1>1 DEF BotTypeOK
  <2>2. Attached(handle[b], d, in)
    BY <1>1, <1>4 DEF BotOK, Attached
  <2> QED
    BY <1>1, <2>1, <2>2 DEF BotOK, dnsVars, conVars
<1>6. ASSUME NEW k \in Bots, k # b PROVE BotOK(k)'
  BY <1>1, <1>6, OtherBot DEF BotTypeOK, dnsVars, conVars
<1> QED
  BY <1>2, <1>3, <1>5, <1>6 DEF ClientInv

\* event_callback: the socket of a client can be read or written.
LEMMA SocketStep ==
  ASSUME ClientInv, NEW b \in Bots, TlsEvent(b) \/ WriteEvent(b) \/ ReadEvent(b)
  PROVE  ClientInv'
<1> USE DEF Bots
<1> DEFINE c == client[b]
           gone == ADC_client_on_disconnected(c)
<1>1. /\ Running /\ main = "loop" /\ main' = main /\ UNCHANGED <<dnsVars, conVars, unstarted>> /\ c.con
  BY DEF TlsEvent, WriteEvent, ReadEvent, HasCon
<1>2. /\ c \in Clients /\ logged_in[b] \in BOOLEAN /\ logged_in \in [Bots -> BOOLEAN]
      /\ c.state \in Connected /\ AwaitsWrite(c) /\ ~ c.job /\ (c.state = "normal" => logged_in[b])
      /\ logged_in[b] => c.state \in {"normal", "none"}
  BY <1>1 DEF ClientInv, BotTypeOK, BotOK, Attached, Running
<1>3. /\ gone \in Clients /\ gone.live = c.live /\ gone.id = c.id /\ gone.job = c.job
      /\ ~ gone.con /\ gone.state = "none" /\ AwaitsWrite(gone)
  BY <1>2, Zenon DEF ADC_client_on_disconnected, Clients, States, AwaitsWrite
<1>4. logged_in = [logged_in EXCEPT ![b] = logged_in[b]]
  BY <1>2
<1> HIDE DEF c, gone
<1>5. ASSUME Set(b, gone), logged_in' = logged_in PROVE ClientInv'
  <2>1. client' = [client EXCEPT ![b] = gone]
    BY <1>5 DEF Set
  <2> QED
    BY <1>1, <1>2, <1>3, <1>4, <1>5, <2>1, OneClient, Zenon DEF c, Connected
<1>6. ASSUME NEW d, Set(b, d), SameClient(c, d), d.state \in Connected \ {"normal"},
             ~ logged_in[b], logged_in' = logged_in
      PROVE  ClientInv'
  <2>1. client' = [client EXCEPT ![b] = d] /\ ~ (d.state = "normal")
    BY <1>6 DEF Set
  <2> QED
    BY <1>1, <1>2, <1>4, <1>6, <2>1, OneClient, Zenon DEF c, SameClient
<1>7. CASE TlsEvent(b)
  <2>1. logged_in' = logged_in /\ ~ logged_in[b]
    BY <1>2, <1>7 DEF TlsEvent, c
  <2>2. CASE \E d \in ADC_client_send_handshake(c) : Set(b, d)
    <3>1. PICK d \in ADC_client_send_handshake(c) : Set(b, d)
      BY <2>2
    <3>2. SameClient(c, d) /\ d.state = "protocol"
      BY <1>2, HandshakeKeeps
    <3> QED
      BY <1>6, <2>1, <3>1, <3>2 DEF Connected
  <2> QED
    BY <1>5, <1>7, <2>1, <2>2 DEF TlsEvent, c, gone
<1>8. CASE WriteEvent(b)
  <2>1. PICK d \in ADC_client_send_queue(c) : client' = [client EXCEPT ![b] = d]
    BY <1>8, Zenon DEF WriteEvent, Set, c
  <2>2. SameClient(c, d) /\ d.state = c.state /\ logged_in' = logged_in
    BY <1>2, <1>8, SendQueueKeeps DEF WriteEvent
  <2> QED
    BY <1>1, <1>2, <1>4, <2>1, <2>2, OneClient, Zenon DEF c, SameClient
<1>9. CASE ReadEvent(b)
  <2>1. CASE /\ c.state = "protocol" /\ logged_in' = logged_in
             /\ \E d \in ADC_client_send([c EXCEPT !.state = "identify"]) : Set(b, d)
    <3> DEFINE q == [c EXCEPT !.state = "identify"]
    <3>1. q \in Clients /\ q.id = c.id /\ q.live = c.live /\ q.con = c.con /\ q.job = c.job /\ q.state = "identify"
      BY <1>2 DEF Clients, States
    <3>2. PICK d \in ADC_client_send(q) : Set(b, d)
      BY <2>1
    <3> HIDE DEF q
    <3>3. SameClient(q, d) /\ d.state = q.state
      BY <3>1, SendKeeps
    <3>4. SameClient(c, d)
      BY <3>1, <3>3 DEF SameClient
    <3>5. ~ logged_in[b]
      BY <1>2, <2>1
    <3> QED
      BY <1>6, <2>1, <3>1, <3>2, <3>3, <3>4, <3>5 DEF Connected
  <2>2. CASE /\ c.state = "identify" /\ Set(b, [c EXCEPT !.state = "normal"])
             /\ logged_in' = [logged_in EXCEPT ![b] = TRUE]
    <3> DEFINE d == [c EXCEPT !.state = "normal"]
    <3>1. /\ d \in Clients /\ d.id = c.id /\ d.live = c.live /\ d.con = c.con /\ d.job = c.job
          /\ d.state = "normal" /\ AwaitsWrite(d)
      BY <1>2 DEF Clients, States, AwaitsWrite
    <3>2. client' = [client EXCEPT ![b] = d]
      BY <2>2 DEF Set
    <3> HIDE DEF d
    <3>3. d.con <=> d.state \in Connected
      BY <1>1, <3>1 DEF Connected
    <3> QED
      BY <1>1, <2>2, <3>1, <3>2, <3>3, OneClient, Zenon DEF c
  <2> QED
    BY <1>5, <1>9, <2>1, <2>2 DEF ReadEvent, c, gone
<1> QED
  BY <1>7, <1>8, <1>9

\* timer_callback: a bot whose client is or was logged in starts again or sends.
LEMMA BotTimerStep ==
  ASSUME ClientInv, NEW b \in Bots, BotTimer(b)
  PROVE  ClientInv'
<1> USE DEF Bots
<1>1. /\ Running /\ main = "loop" /\ main' = main /\ logged_in[b] /\ unstarted' = unstarted
      /\ ResolverInv /\ BotTypeOK /\ (\A k \in Jobs : BotOK(k)) /\ fault = "none"
  BY DEF BotTimer, ClientInv, Running
<1>2. /\ client[b] \in Clients /\ logged_in \in [Bots -> BOOLEAN]
      /\ client[b].state \in {"normal", "none"} /\ ~ handle[b].live /\ b \notin unstarted
      /\ client[b].con <=> client[b].state \in Connected
  BY <1>1 DEF BotTypeOK, BotOK, Attached
<1>3. CASE /\ ADC_client_connect(b, ADC_client_create(b))
           /\ logged_in' = [logged_in EXCEPT ![b] = FALSE]
  BY <1>1, <1>2, <1>3, ConnectStep, Zenon
<1>4. CASE fault' = "send_null" /\ UNCHANGED <<dnsVars, handle, setup, client, logged_in>>
  <2>1. ResolverInv'
    BY <1>1, <1>4, SameResolver
  <2>2. BotTypeOK' /\ \A k \in Bots : BotOK(k)'
    BY <1>1, <1>4 DEF BotTypeOK, BotOK, dnsVars
  <2> QED
    BY <2>1, <2>2 DEF ClientInv
<1>5. CASE /\ client[b].con /\ (\E c \in ADC_client_send(client[b]) : Set(b, c))
           /\ UNCHANGED <<dnsVars, conVars, logged_in>>
  <2>1. PICK d \in ADC_client_send(client[b]) : client' = [client EXCEPT ![b] = d]
    BY <1>5, Zenon DEF Set
  <2>2. SameClient(client[b], d) /\ d.state = client[b].state
    BY <1>2, SendKeeps
  <2>3. logged_in' = [logged_in EXCEPT ![b] = TRUE]
    BY <1>1, <1>2, <1>5
  <2> QED
    BY <1>1, <1>2, <1>5, <2>1, <2>2, <2>3, OneClient, Zenon DEF SameClient
<1> QED
  BY <1>3, <1>4, <1>5 DEF BotTimer

\* net_connect_job_internal_cb: a write event or a timeout of a connection job.
LEMMA JobStep ==
  ASSUME ClientInv, NEW b \in Bots, NEW f \in {"job6", "job4"}, JobEvent(b, f) \/ JobTimer(b, f)
  PROVE  ClientInv'
<1> USE DEF Bots
<1>1. /\ Running /\ main = "loop" /\ main' = main /\ handle[b].live /\ handle[b][f].on
      /\ UNCHANGED <<dnsVars, logged_in, unstarted>>
      /\ ResolverInv /\ BotTypeOK /\ (\A k \in Jobs : BotOK(k)) /\ fault = "none"
  BY DEF JobEvent, JobTimer, ClientInv, Running
<1>2. handle[b] \in Handles /\ ~ handle[b].dns /\ worker[b] = "none"
  <2>1. handle[b].job6.on \/ handle[b].job4.on
    BY <1>1
  <2> QED
    BY <1>1, <2>1 DEF BotTypeOK, BotOK
<1>3. PICK r : Told(b, r) /\ GoesOn(handle[b], r)
  <2>1. CASE JobEvent(b, f)
    <3>1. PICK o \in Outcomes : Told(b, JobWritable(handle[b], f, o))
      BY <2>1 DEF JobEvent
    <3>2. GoesOn(handle[b], JobWritable(handle[b], f, o))
      BY <1>1, <1>2, WritableGoesOn
    <3> QED
      BY <3>1, <3>2
  <2>2. CASE JobTimer(b, f)
    <3>1. Told(b, JobTimeout(handle[b], f))
      BY <2>2 DEF JobTimer
    <3>2. GoesOn(handle[b], JobTimeout(handle[b], f))
      BY <1>1, <1>2, TimeoutGoesOn
    <3> QED
      BY <3>1, <3>2
  <2> QED
    BY <2>1, <2>2
<1>4. /\ BotTypeOK' /\ BotOK(b)'
      /\ \A k \in Bots \ {b} : handle'[k] = handle[k] /\ client'[k] = client[k]
  <2>1. worker'[b] = "none" /\ UNCHANGED <<answer, logged_in, unstarted>>
    BY <1>1, <1>2 DEF dnsVars
  <2>2. main \in {"loop", "dns"} /\ BotOK(b)
    BY <1>1
  <2> QED
    BY <1>1, <1>3, <2>1, <2>2, ToldStep, Zenon
<1>5. ResolverInv'
  BY <1>1, SameResolver
<1>6. ASSUME NEW k \in Bots, k # b PROVE BotOK(k)'
  BY <1>1, <1>4, <1>6, OtherBot DEF dnsVars
<1> QED
  BY <1>4, <1>5, <1>6 DEF ClientInv

\* net_dns_process calls back for the next result: its handle waits for it.
LEMMA DnsCallbackStep ==
  ASSUME ClientInv, NEW b \in Bots, DnsCallback(b)
  PROVE  ClientInv'
<1> USE DEF Bots
<1>1. /\ Running /\ main = "dns" /\ main' = main /\ Deliver(b) /\ UNCHANGED <<logged_in, unstarted>>
      /\ ResolverInv /\ BotTypeOK /\ (\A k \in Jobs : BotOK(k)) /\ fault = "none"
  BY DEF DnsCallback, ClientInv, Running
<1>2. /\ worker[b] = "ended" /\ worker' = [worker EXCEPT ![b] = "none"]
      /\ UNCHANGED <<answer, holder>>
  BY <1>1 DEF Deliver
<1>3. handle[b] \in Handles /\ handle[b].live /\ answer[b] \in [v6 : Nat, v4 : Nat]
  BY <1>1, <1>2 DEF BotTypeOK, BotOK
<1>4. PICK r : Told(b, r) /\ GoesOn(handle[b], r)
  <2>1. PICK o6 \in Outcomes, o4 \in Outcomes :
          Told(b, net_con_connect_dns_callback(handle[b], answer[b], o6, o4))
    BY DEF DnsCallback
  <2>2. GoesOn(handle[b], net_con_connect_dns_callback(handle[b], answer[b], o6, o4))
    BY <1>3, AnswerGoesOn
  <2> QED
    BY <2>1, <2>2
<1>5. worker'[b] = "none" /\ \A k \in Bots \ {b} : worker'[k] = worker[k]
  BY <1>1, <1>2 DEF ResolverInv, DnsTypeOK
<1>6. /\ BotTypeOK' /\ BotOK(b)'
      /\ \A k \in Bots \ {b} : handle'[k] = handle[k] /\ client'[k] = client[k]
  <2>1. main \in {"loop", "dns"} /\ BotOK(b) /\ UNCHANGED <<answer, logged_in, unstarted>>
    BY <1>1, <1>2
  <2> QED
    BY <1>1, <1>3, <1>4, <1>5, <2>1, ToldStep, Zenon
<1>7. ResolverInv'
  <2>1. DnsTypeOK' /\ \A k \in Jobs : Filed(k)'
    BY <1>1, DeliverFiled DEF ResolverInv
  <2> QED
    BY <1>1, <1>2, <2>1 DEF ResolverInv
<1>8. ASSUME NEW k \in Bots, k # b PROVE BotOK(k)'
  BY <1>1, <1>5, <1>6, <1>8, OtherBot
<1> QED
  BY <1>6, <1>7, <1>8 DEF ClientInv

\* Every step of the program preserves the invariant.
LEMMA ClientStep == ClientInv /\ [Next]_vars => ClientInv'
<1> SUFFICES ASSUME ClientInv, [Next]_vars PROVE ClientInv'
  OBVIOUS
<1>1. CASE Workers
  BY <1>1, WorkersStep
<1>2. CASE LoopBegin \/ NotifyEvent \/ NotifyEnd \/ LoopEnd
  BY <1>2, LoopStepOK
<1>3. CASE net_destroy
  BY <1>3, DestroyStep
<1>4. ASSUME NEW b \in Bots, client_connect(b) PROVE ClientInv'
  <2>1. /\ Running /\ main = "start" /\ main' = main /\ b \in unstarted
        /\ ADC_client_connect(b, ADC_client_create(b)) /\ unstarted' = unstarted \ {b}
        /\ logged_in' = [logged_in EXCEPT ![b] = FALSE]
    BY <1>4 DEF client_connect
  <2>2. ~ handle[b].live
    BY <2>1 DEF ClientInv, BotOK, Running
  <2>3. unstarted' \in SUBSET unstarted /\ b \notin unstarted'
    BY <2>1
  <2> QED
    BY <2>1, <2>2, <2>3, ConnectStep, Zenon
<1>5. ASSUME NEW b \in Bots, DnsCallback(b) PROVE ClientInv'
  BY <1>5, DnsCallbackStep
<1>6. ASSUME NEW b \in Bots, TlsEvent(b) \/ WriteEvent(b) \/ ReadEvent(b) PROVE ClientInv'
  BY <1>6, SocketStep
<1>7. ASSUME NEW b \in Bots, BotTimer(b) PROVE ClientInv'
  BY <1>7, BotTimerStep
<1>8. ASSUME NEW b \in Bots, NEW f \in {"job6", "job4"}, JobEvent(b, f) \/ JobTimer(b, f) PROVE ClientInv'
  BY <1>8, JobStep
<1>9. CASE UNCHANGED vars
  <2>1. UNCHANGED dnsVars /\ UNCHANGED conVars /\ UNCHANGED cliVars
    BY <1>9 DEF vars
  <2>2. ResolverInv'
    BY <2>1, SameResolver DEF ClientInv, cliVars
  <2>3. BotTypeOK'
    BY <2>1 DEF ClientInv, BotTypeOK, dnsVars, conVars, cliVars
  <2>4. \A k \in Bots : BotOK(k)'
    BY <2>1 DEF ClientInv, BotOK, dnsVars, conVars, cliVars
  <2> QED
    BY <2>2, <2>3, <2>4 DEF ClientInv
<1> QED
  BY <1>1, <1>2, <1>3, <1>4, <1>5, <1>6, <1>7, <1>8, <1>9 DEF Next, LoopStep
-----------------------------------------------------------------------------
(* The theorems                                                                 *)

\* The inductive invariant holds in every state: every worker of dnsresolver.c
\* matches the list its job is in, and every connect handle its client.
THEOREM ClientInvariant == Spec => []ClientInv
BY ClientInvInit, ClientStep, PTL DEF Spec

\* No worker publishes and no callback is made for a job that was freed, and every
\* callback of a connect handle finds the client that asked for it, alive, in
\* ps_conn and without a connection (net_dns_process, net_connect_callback,
\* connect_callback), for any number of bots and any lookup results.
THEOREM CallbacksFindTheirClient == Spec => []CallbackSafe
BY ClientInvariant, ClientInvImplies, PTL

\* A client with messages queued and no failed write has asked for write events
\* (ADC_client_send_queue, ADC_client_send).
THEOREM QueuedClientsAwaitWrites == Spec => []WriteArmed
BY ClientInvariant, ClientInvImplies, PTL
=============================================================================
