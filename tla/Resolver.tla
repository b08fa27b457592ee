------------------------------ MODULE Resolver ------------------------------
(***************************************************************************)
(* src/network/dnsresolver.c with the threads of src/util/threads.c and the  *)
(* pipe of src/network/notify.c: every lookup has a worker thread, which     *)
(* hands its result to the event loop under a mutex.  The event loop holds   *)
(* the mutex for as long as it delivers results, and while it shuts the      *)
(* resolver down.  A worker's critical section is one step.                  *)
(***************************************************************************)
EXTENDS Integers, Sequences

CONSTANTS
  Jobs,                   \* the lookups there can be, one at a time each
  Answers                 \* what a lookup can come up with: addresses of each family

ASSUME AnswersAssumption == Answers \subseteq [v6 : Nat, v4 : Nat]

VARIABLES
  worker,                 \* worker[j]: where the thread of job j is
  answer,                 \* answer[j]: what it has found
  jobs,                   \* g_dns->jobs: the lookups that run, in order
  results,                \* g_dns->results: the ones to be delivered
  delivered,              \* how many of them LIST_FOREACH has passed
  signals,                \* bytes in the notification pipe
  holder,                 \* who holds g_dns->mutex: "none" or "main"
  cancelled               \* the workers pthread_cancel was called for

dnsVars == <<worker, answer, jobs, results, delivered, signals, holder, cancelled>>

NoAnswer == [v6 |-> 0, v4 |-> 0]      \* EAI_NONAME: an empty address list

DnsInit ==
  /\ worker = [j \in Jobs |-> "none"]
  /\ answer = [j \in Jobs |-> NoAnswer]
  /\ jobs = << >> /\ results = << >> /\ delivered = 0
  /\ signals = 0
  /\ holder = "none"
  /\ cancelled = {}

\* list_remove: the first node of j is unlinked.
list_remove(s, j) ==
  LET at == {i \in 1..Len(s) : s[i] = j}
      first == CHOOSE i \in at : \A k \in at : i <= k
  IN IF at = {} THEN s ELSE SubSeq(s, 1, first - 1) \o SubSeq(s, first + 1, Len(s))

\* net_dns_gethostbyname, called by the event loop; it returns NULL if no thread
\* can be created.
net_dns_gethostbyname(j) ==
  /\ holder = "none" /\ worker[j] = "none"
  /\ worker' = [worker EXCEPT ![j] = "lookup"]
  /\ jobs' = Append(jobs, j)
  /\ UNCHANGED <<answer, results, delivered, signals, holder, cancelled>>

\* job_thread_resolve_name: getaddrinfo comes back.  An error other than
\* EAI_NONAME ends the thread and leaves the job in the list.
Lookup(j) ==
  /\ worker[j] = "lookup"
  /\ \/ /\ worker' = [worker EXCEPT ![j] = "ended"]
        /\ UNCHANGED answer
     \/ \E a \in Answers \cup {NoAnswer} :
          /\ worker' = [worker EXCEPT ![j] = "found"]
          /\ answer' = [answer EXCEPT ![j] = a]
  /\ UNCHANGED <<jobs, results, delivered, signals, holder, cancelled>>

\* Its critical section: the result is queued and the event loop signalled.
\* Waiting for a mutex is no cancellation point.
Publish(j) ==
  /\ worker[j] = "found" /\ holder = "none"
  /\ worker' = [worker EXCEPT ![j] = "ended"]
  /\ jobs' = list_remove(jobs, j)
  /\ results' = Append(results, j)
  /\ signals' = signals + 1
  /\ UNCHANGED <<answer, delivered, holder, cancelled>>

\* A cancelled worker stops at the cancellation point, in getaddrinfo.
Cancelled(j) ==
  /\ worker[j] = "lookup" /\ j \in cancelled
  /\ worker' = [worker EXCEPT ![j] = "ended"]
  /\ UNCHANGED <<answer, jobs, results, delivered, signals, holder, cancelled>>

\* notify_callback reads one byte and calls net_dns_process, which locks.
net_dns_process ==
  /\ signals > 0 /\ holder = "none"
  /\ signals' = signals - 1
  /\ holder' = "main"
  /\ UNCHANGED <<worker, answer, jobs, results, delivered, cancelled>>

\* The loop of net_dns_process: join the worker of the next result, call back,
\* and free the job.  What the callback does is the caller's part.
Deliver(j) ==
  /\ holder = "main" /\ delivered < Len(results)
  /\ j = results[delivered + 1]
  /\ worker[j] = "ended"
  /\ worker' = [worker EXCEPT ![j] = "none"]
  /\ delivered' = delivered + 1
  /\ UNCHANGED <<answer, jobs, results, signals, holder, cancelled>>

\* Mutant of DeliverEnd: the list is cleared before its end is reached.
DeliverEnd_early ==
  /\ holder = "main"
  /\ results' = << >> /\ delivered' = 0 /\ holder' = "none"
  /\ UNCHANGED <<worker, answer, jobs, signals, cancelled>>

\* The end of net_dns_process: list_clear(results), unlock.
DeliverEnd ==
  /\ holder = "main" /\ delivered = Len(results)
  /\ results' = << >> /\ delivered' = 0 /\ holder' = "none"
  /\ UNCHANGED <<worker, answer, jobs, signals, cancelled>>

\* net_dns_destroy: lock; cancel and join every worker that still runs.
DestroyBegin ==
  /\ holder = "none"
  /\ holder' = "main"
  /\ UNCHANGED <<worker, answer, jobs, results, delivered, signals, cancelled>>

\* shutdown_free_jobs
CancelFirst ==
  /\ jobs # << >> /\ Head(jobs) \notin cancelled
  /\ cancelled' = cancelled \cup {Head(jobs)}
  /\ UNCHANGED <<worker, answer, jobs, results, delivered, signals, holder>>

\* Mutant of JoinFirst: the job stays in the list.
JoinFirst_kept ==
  /\ jobs # << >> /\ Head(jobs) \in cancelled
  /\ worker[Head(jobs)] = "ended"
  /\ worker' = [worker EXCEPT ![Head(jobs)] = "none"]
  /\ UNCHANGED <<answer, jobs, results, delivered, signals, holder, cancelled>>

JoinFirst ==
  /\ jobs # << >> /\ Head(jobs) \in cancelled
  /\ worker[Head(jobs)] = "ended"
  /\ worker' = [worker EXCEPT ![Head(jobs)] = "none"]
  /\ jobs' = Tail(jobs)
  /\ UNCHANGED <<answer, results, delivered, signals, holder, cancelled>>

\* shutdown_free_results and the rest of net_dns_destroy.
DestroyEnd ==
  /\ jobs = << >>
  /\ worker' = [j \in Jobs |-> "none"]
  /\ results' = << >> /\ signals' = 0 /\ holder' = "none"
  /\ UNCHANGED <<answer, jobs, delivered, cancelled>>
=============================================================================
