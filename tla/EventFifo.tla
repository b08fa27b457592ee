----------------------------- MODULE EventFifo -----------------------------
(***************************************************************************)
(* What the hub expects of its event queue (src/core/eventqueue.h): one     *)
(* first-in first-out queue that is worked off in passes.  A pass delivers  *)
(* exactly the events that were pending when it began; an event posted      *)
(* while a pass runs, typically by the callback of another event, waits for *)
(* the next pass.                                                           *)
(***************************************************************************)
EXTENDS Naturals, Sequences

CONSTANT Event            \* what can be posted

VARIABLES
  queue,                  \* the pending events, oldest first
  left                    \* how many of them the running pass still delivers

fifoVars == <<queue, left>>

\* q2 is q1 without its first n events and with any number appended.
Follows(q1, n, q2) ==
  /\ q2 \in Seq(Event)
  /\ Len(q2) >= Len(q1) - n
  /\ \A i \in 1..(Len(q1) - n) : q2[i] = q1[i + n]

FifoInit ==
  /\ queue = <<>>
  /\ left = 0

\* Any number of events are posted, in some order.
FifoPost ==
  /\ Follows(queue, 0, queue')
  /\ UNCHANGED left

\* A pass begins; what is posted in the same step belongs to it.
FifoBegin ==
  /\ left = 0
  /\ Follows(queue, 0, queue')
  /\ left' = Len(queue')

\* The oldest event is delivered; its callback may post others.
FifoDeliver ==
  /\ left > 0
  /\ Len(queue) > 0
  /\ Follows(queue, 1, queue')
  /\ left' = left - 1

FifoNext == FifoPost \/ FifoBegin \/ FifoDeliver

FifoSpec == FifoInit /\ [][FifoNext]_fifoVars
=============================================================================
