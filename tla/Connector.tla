----------------------------- MODULE Connector -----------------------------
(***************************************************************************)
(* The outgoing connections of src/network/connection.c.  A handle looks its *)
(* host up, makes a list of jobs for each address family and starts the      *)
(* first of each.  Nothing starts the others.  The caller is told through    *)
(* one callback, after which the handle is freed.                            *)
(***************************************************************************)
EXTENDS Resolver

CONSTANT Setups           \* the addresses on the command line and machines to look at

VARIABLES
  setup,                  \* uri: "adc", "adcs" or "bad"; ipv6: net_is_ipv6_supported()
  handle,                 \* handle[j]: the connect handle whose lookup is job j
  fault                   \* the first use of freed memory or of NULL, or "none"

conVars == <<handle, fault, setup>>

\* job6 and job4: how many jobs are left, and whether the first has a connection.
NoList == [n |-> 0, on |-> FALSE]
NoHandle == [live |-> FALSE, dns |-> FALSE, job6 |-> NoList, job4 |-> NoList, owner |-> 0]

ConnectorInit == handle = [j \in Jobs |-> NoHandle] /\ fault = "none" /\ setup \in Setups

\* What one go of net_connect_job_process comes to.
Outcomes == {"ok", "wait", "fail"}

net_connect_job_stop(h, f) ==
  [h EXCEPT ![f] = [n |-> h[f].n - 1, on |-> FALSE]]

net_connect_depleted(h) == h.job6.n = 0 /\ h.job4.n = 0

\* net_connect_job_schedule for all the addresses of a result.
Scheduled(h, a) ==
  [h EXCEPT !.dns = FALSE,
            !.job6 = [n |-> IF setup.ipv6 THEN a.v6 ELSE 0, on |-> FALSE],
            !.job4 = [n |-> a.v4, on |-> FALSE]]

Started(h, f) == [h EXCEPT ![f].on = TRUE]

\* net_connect_process: the first IPv6 job, then the first IPv4 job.  Returns the
\* handle, what the callback was told, if it was called, and the fault met.  A
\* job that succeeds or fails ends the whole handle: net_connect_callback frees
\* it with everything it has.  After a failure of the IPv6 job its job4 is read
\* all the same; and as the result is freed with the handle, net_dns_process
\* writes to it and frees the job a second time when the callback returns 0.
net_connect_process(h, o6, o4) ==
  LET six == h.job6.n > 0
      four == h.job4.n > 0
      h6 == IF six THEN Started(h, "job6") ELSE h
  IN IF six /\ o6 = "ok" THEN [h |-> NoHandle, told |-> "ok", fault |-> "result_freed"]
     ELSE IF six /\ o6 = "fail" THEN [h |-> NoHandle, told |-> "fail", fault |-> "handle_freed"]
     ELSE IF four /\ o4 # "wait" THEN [h |-> NoHandle, told |-> o4, fault |-> "result_freed"]
     ELSE [h |-> IF four THEN Started(h6, "job4") ELSE h6, told |-> "none", fault |-> "none"]

\* net_con_connect_dns_callback: what becomes of handle h when answer a arrives.
net_con_connect_dns_callback(h, a, o6, o4) ==
  IF a = NoAnswer THEN [h |-> NoHandle, told |-> "fail", fault |-> "none"]
  ELSE net_connect_process(Scheduled(h, a), o6, o4)

\* net_connect_job_internal_cb for a write event of the first job of list f.
JobWritable(h, f, o) ==
  IF o = "wait" THEN [h |-> h, told |-> "none", fault |-> "none"]
  ELSE [h |-> NoHandle, told |-> o, fault |-> "none"]

\* Mutant of JobTimeout: the callback is forgotten.
JobTimeout_silent(h, f) == [h |-> net_connect_job_stop(h, f), told |-> "none", fault |-> "none"]

\* The same for a timeout: the job is stopped, the next one is not started, and
\* the callback is called once both lists are empty.
JobTimeout(h, f) ==
  LET left == net_connect_job_stop(h, f)
  IN IF net_connect_depleted(left) THEN [h |-> NoHandle, told |-> "fail", fault |-> "none"]
     ELSE [h |-> left, told |-> "none", fault |-> "none"]

\* A handle no event will ever come for: its lookup failed, there was no address for it,
\* or its first jobs timed out and others are left.
Forsaken(j) ==
  LET h == handle[j]
      untried == h.job6.n + h.job4.n > 0
      unusable == ~ setup.ipv6 /\ answer[j].v4 = 0
  IN /\ h.live
     /\ IF h.dns THEN worker[j] = "ended" /\ \A i \in 1..Len(results) : results[i] # j
        ELSE ~ h.job6.on /\ ~ h.job4.on /\ (untried \/ unusable)
=============================================================================
