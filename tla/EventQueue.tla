----------------------------- MODULE EventQueue -----------------------------
(***************************************************************************)
(* src/core/eventqueue.c: the two linked lists behind the event queue.      *)
(* event_queue_process locks the primary list q1, walks it calling the      *)
(* callback on each event, clears it, unlocks it and moves the secondary    *)
(* list q2 behind it.  event_queue_post appends to q1, or to q2 while the   *)
(* lock is held, i.e. when a callback posts.                                *)
(*                                                                          *)
(* An element of Event stands for one event_data allocated by a post, so it *)
(* is in the lists at most once.                                            *)
(***************************************************************************)
EXTENDS Naturals, Sequences

CONSTANTS
  Event,                  \* the event_data objects
  MaxPending              \* bound of the model: events in the two lists

ASSUME MaxPendingAssumption == MaxPending \in Nat

VARIABLES
  q1,                     \* the primary list, oldest first
  q2,                     \* the secondary list
  locked,                 \* event_queue.locked
  pos,                    \* position in q1 of the event LIST_FOREACH visits next
  running                 \* a callback is executing

vars == <<q1, q2, locked, pos, running>>

TypeOK ==
  /\ q1 \in Seq(Event)
  /\ q2 \in Seq(Event)
  /\ locked \in BOOLEAN
  /\ pos \in Nat \ {0}
  /\ running \in BOOLEAN

-----------------------------------------------------------------------------
\* event_queue_initialize: both lists empty, unlocked (hub_malloc_zero).
Init ==
  /\ q1 = <<>>
  /\ q2 = <<>>
  /\ locked = FALSE
  /\ pos = 1
  /\ running = FALSE

\* The events still to be delivered, oldest first: what LIST_FOREACH has not
\* visited of the primary list, then the secondary list.
Pending == IF locked THEN SubSeq(q1, pos, Len(q1)) \o q2 ELSE q1 \o q2

IsPending(e) == \E i \in 1..Len(Pending) : Pending[i] = e

\* Mutants of event_queue_post: the lock is not looked at, or taken the wrong
\* way round.
event_queue_post_primary(e) ==
  /\ locked => running
  /\ Len(q1) + Len(q2) < MaxPending
  /\ \A i \in 1..Len(q1) : q1[i] # e
  /\ \A i \in 1..Len(q2) : q2[i] # e
  /\ q1' = Append(q1, e)
  /\ UNCHANGED <<q2, locked, pos, running>>

event_queue_post_secondary(e) ==
  /\ locked => running
  /\ Len(q1) + Len(q2) < MaxPending
  /\ \A i \in 1..Len(q1) : q1[i] # e
  /\ \A i \in 1..Len(q2) : q2[i] # e
  /\ IF locked
       THEN q1' = Append(q1, e) /\ UNCHANGED q2
       ELSE q2' = Append(q2, e) /\ UNCHANGED q1
  /\ UNCHANGED <<locked, pos, running>>

\* event_queue_post, from outside a pass or from a callback.
event_queue_post(e) ==
  /\ locked => running
  /\ Len(q1) + Len(q2) < MaxPending
  /\ \A i \in 1..Len(q1) : q1[i] # e
  /\ \A i \in 1..Len(q2) : q2[i] # e
  /\ IF locked
       THEN q2' = Append(q2, e) /\ UNCHANGED q1
       ELSE q1' = Append(q1, e) /\ UNCHANGED q2
  /\ UNCHANGED <<locked, pos, running>>

\* event_queue_process takes the lock; called while it is held (a callback
\* that processes the queue) it returns at once.
ProcessLock ==
  /\ ~locked
  /\ locked' = TRUE
  /\ pos' = 1
  /\ UNCHANGED <<q1, q2, running>>

\* LIST_FOREACH calls the callback on the next event of q1 ...
CallbackStart ==
  /\ locked /\ ~running
  /\ pos <= Len(q1)
  /\ running' = TRUE
  /\ pos' = pos + 1
  /\ UNCHANGED <<q1, q2, locked>>

\* ... which returns.
CallbackReturn ==
  /\ running
  /\ running' = FALSE
  /\ UNCHANGED <<q1, q2, locked, pos>>

\* Mutant of ProcessUnlock: the secondary list stays where it is.
ProcessUnlock_left ==
  /\ locked /\ ~running
  /\ pos > Len(q1)
  /\ q1' = <<>>
  /\ locked' = FALSE
  /\ pos' = 1
  /\ UNCHANGED <<q2, running>>

\* list_clear(q1), unlock, list_append_list(q1, q2).
ProcessUnlock ==
  /\ locked /\ ~running
  /\ pos > Len(q1)
  /\ q1' = q2
  /\ q2' = <<>>
  /\ locked' = FALSE
  /\ pos' = 1
  /\ UNCHANGED running

Process == ProcessLock \/ CallbackStart \/ CallbackReturn \/ ProcessUnlock

Next == (\E e \in Event : event_queue_post(e)) \/ Process

\* hub_event_loop calls event_queue_process again and again, and a callback
\* (hub_event_dispatcher) always returns.
Fairness ==
  /\ WF_vars(ProcessLock)
  /\ WF_vars(CallbackStart)
  /\ WF_vars(CallbackReturn)
  /\ WF_vars(ProcessUnlock)

Spec == Init /\ [][Next]_vars

FairSpec == Spec /\ Fairness

-----------------------------------------------------------------------------
\* What event_queue_process relies on between its steps: the walk stays within
\* the primary list, a callback runs only under the lock, and the secondary
\* list is used only under it, so that the final list_append_list finds an
\* empty primary list and drops nothing.
QueueInv ==
  /\ pos <= Len(q1) + 1
  /\ ~locked => q2 = <<>> /\ pos = 1 /\ ~running
  /\ running => pos > 1

\* The two lists, the lock and the walk together are one FIFO queue worked off
\* in passes: no event is lost, delivered twice or overtaken, and an event
\* posted by a callback waits for the next pass.
Fifo == INSTANCE EventFifo WITH
          queue <- Pending,
          left  <- IF locked THEN Len(q1) + 1 - pos ELSE 0

ImplementsFifo == Fifo!FifoSpec

\* Every posted event is eventually handed to the callback, however many events
\* the callbacks post meanwhile.
EventuallyDelivered == \A e \in Event : IsPending(e) ~> ~IsPending(e)
=============================================================================
