---------------------------- MODULE TimeoutQueue ----------------------------
(***************************************************************************)
(* src/network/timeout.c: the timer wheel of the network backend.  A slot   *)
(* is a list of timers linked by next; prev links them backwards, the first *)
(* one to the last.  While timeout_queue_process runs, the queue is locked: *)
(* timers that callbacks insert go to a list of their own, whose elements   *)
(* all have the sentinel &t->lock as prev, and are moved to the wheel by    *)
(* timeout_queue_unlock.                                                    *)
(*                                                                          *)
(* The clock (time(0) in net_backend_process) does not go back.             *)
(***************************************************************************)
EXTENDS Integers, FiniteSets

CONSTANTS
  Timer,                  \* the struct timeout_evt objects
  Null,
  Lock,                   \* the address of t->lock
  Max,                    \* t->max
  MaxTime                 \* bound of the model: the last second of the clock

ASSUME WheelAssumption == Max \in Nat \ {0} /\ MaxTime \in Nat
ASSUME PointerAssumption == Null \notin Timer /\ Lock \notin Timer /\ Lock # Null

VARIABLES
  last,                   \* t->last
  timestamp,              \* evt->timestamp
  q,                      \* the pointers: t->events, evt->prev, evt->next and
                          \* t->lock.next (head), t->lock.prev (tail)
  phase,                  \* "idle", "pass" (t->lock.ptr is set) or "unlock"
  pos,                    \* of timeout_queue_process
  evt,                    \* of timeout_queue_unlock
  running                 \* a timer's callback is executing

vars == <<last, timestamp, q, phase, pos, evt, running>>

Slots == 0..(Max - 1)
Pointer == Timer \cup {Null}

TypeOK ==
  /\ last \in 0..MaxTime
  /\ timestamp \in [Timer -> Nat]
  /\ q \in [events : [Slots -> Pointer], prev : [Timer -> Pointer \cup {Lock}],
            next : [Timer -> Pointer], head : Pointer, tail : Pointer]
  /\ phase \in {"idle", "pass", "unlock"}
  /\ pos \in 0..(MaxTime + 1)
  /\ evt \in Pointer
  /\ running \in BOOLEAN

\* timeout_queue_initialize, and timeout_evt_initialize of every timer.
Init ==
  /\ last = 0
  /\ timestamp = [t \in Timer |-> 0]
  /\ q = [events |-> [s \in Slots |-> Null], prev |-> [t \in Timer |-> Null],
          next |-> [t \in Timer |-> Null], head |-> Null, tail |-> Null]
  /\ phase = "idle"
  /\ pos = 0
  /\ evt = Null
  /\ running = FALSE

-----------------------------------------------------------------------------
(* The list operations, on the pointers p.                                 *)

timeout_evt_is_scheduled(t) == q.prev[t] # Null

timeout_evt_reset(p, t) == [p EXCEPT !.prev[t] = Null, !.next[t] = Null]

\* A timer becomes the last one of slot s.
LinkLast(p, t, s) ==
  LET first == p.events[s]
  IN  IF first = Null
        THEN [p EXCEPT !.events[s] = t, !.prev[t] = t, !.next[t] = Null]
        ELSE [p EXCEPT !.next[p.prev[first]] = t, !.prev[t] = p.prev[first],
                       !.prev[first] = t, !.next[t] = Null]

timeout_queue_insert_locked(p, t) ==
  LET r == [p EXCEPT !.prev[t] = Lock, !.next[t] = Null, !.tail = t]
  IN  IF p.tail = Null THEN [r EXCEPT !.head = t] ELSE [r EXCEPT !.next[p.tail] = t]

\* Mutant: the last waiting timer is removed and the list keeps pointing to it.
timeout_queue_remove_locked_tail(p, t) ==
  LET before == {b \in Timer : p.prev[b] = Lock /\ p.next[b] = t}
      r == IF p.head = t
             THEN [p EXCEPT !.head = p.next[t],
                            !.tail = IF p.tail = t THEN p.next[t] ELSE p.tail]
             ELSE [p EXCEPT !.next = [b \in Timer |->
                                        IF b \in before THEN p.next[t] ELSE p.next[b]]]
  IN  timeout_evt_reset(r, t)

\* A waiting timer is found by walking the list.
timeout_queue_remove_locked(p, t) ==
  LET before == {b \in Timer : p.prev[b] = Lock /\ p.next[b] = t}
      r == IF p.head = t
             THEN [p EXCEPT !.head = p.next[t],
                            !.tail = IF p.tail = t THEN p.next[t] ELSE p.tail]
             ELSE [p EXCEPT !.next = [b \in Timer |->
                                        IF b \in before THEN p.next[t] ELSE p.next[b]],
                            !.tail = IF before # {} /\ p.next[t] = Null
                                       THEN CHOOSE b \in before : TRUE ELSE p.tail]
  IN  timeout_evt_reset(r, t)

\* A timer of the wheel: the only one of its slot, the first, the last, another.
Unlink(p, t, s) ==
  LET first == p.events[s]
  IN  CASE first = t /\ p.prev[t] = t -> [p EXCEPT !.events[s] = Null]
        [] first = t /\ p.prev[t] # t ->
             [p EXCEPT !.events[s] = p.next[t], !.prev[p.next[t]] = p.prev[t]]
        [] first # t /\ p.prev[first] = t ->
             [p EXCEPT !.prev[first] = p.prev[t], !.next[p.prev[t]] = Null]
        [] OTHER ->
             [p EXCEPT !.next[p.prev[t]] = p.next[t], !.prev[p.next[t]] = p.prev[t]]

\* timeout_queue_remove; the slot is found by the timestamp.
Removed(p, t) ==
  LET s == timestamp[t] % Max
  IN  IF p.prev[t] = Lock THEN timeout_queue_remove_locked(p, t)
      ELSE IF p.events[s] = Null \/ p.prev[t] = Null THEN p
      ELSE timeout_evt_reset(Unlink(p, t, s), t)

\* timeout_queue_insert.
Inserted(p, t, seconds) ==
  IF phase = "pass" THEN timeout_queue_insert_locked(p, t)
  ELSE LinkLast(p, t, (last + seconds) % Max)

-----------------------------------------------------------------------------
\* Called by network callbacks, and in a pass by the callback of a timer.
MayCall == phase = "idle" \/ running

\* timeout_queue_insert is this for a timer that is not scheduled.
timeout_queue_reschedule(t, seconds) ==
  /\ MayCall
  /\ q' = Inserted(IF timeout_evt_is_scheduled(t) THEN Removed(q, t) ELSE q, t, seconds)
  /\ timestamp' = [timestamp EXCEPT ![t] = last + seconds]
  /\ UNCHANGED <<last, phase, pos, evt, running>>

timeout_queue_remove(t) ==
  /\ MayCall
  /\ q' = Removed(q, t)
  /\ UNCHANGED <<last, timestamp, phase, pos, evt, running>>

\* Mutant of ProcessLock: the second of the last pass is not looked at again.
ProcessLock_next(now) ==
  /\ phase = "idle"
  /\ phase' = "pass"
  /\ pos' = last + 1
  /\ last' = now
  /\ UNCHANGED <<timestamp, q, evt, running>>

\* timeout_queue_process takes the lock ...
ProcessLock(now) ==
  /\ phase = "idle"
  /\ phase' = "pass"
  /\ pos' = last
  /\ last' = now
  /\ UNCHANGED <<timestamp, q, evt, running>>

\* ... takes the first timer of the slot out and calls its callback ...
ProcessFire ==
  LET t == q.events[pos % Max] IN
  /\ phase = "pass" /\ ~running
  /\ pos <= last
  /\ t # Null
  /\ q' = Removed(q, t)
  /\ running' = TRUE
  /\ UNCHANGED <<last, timestamp, phase, pos, evt>>

CallbackReturn ==
  /\ running
  /\ running' = FALSE
  /\ UNCHANGED <<last, timestamp, q, phase, pos, evt>>

\* ... goes on to the next second when the slot is empty ...
ProcessAdvance ==
  /\ phase = "pass" /\ ~running
  /\ pos <= last
  /\ q.events[pos % Max] = Null
  /\ pos' = pos + 1
  /\ UNCHANGED <<last, timestamp, q, phase, evt, running>>

\* ... and unlocks: the waiting timers are moved to the wheel one by one.
Unlock ==
  /\ phase = "pass" /\ ~running
  /\ pos > last
  /\ phase' = "unlock"
  /\ evt' = q.head
  /\ UNCHANGED <<last, timestamp, q, pos, running>>

UnlockMove ==
  /\ phase = "unlock"
  /\ evt # Null
  /\ q' = LinkLast(q, evt, timestamp[evt] % Max)
  /\ evt' = q.next[evt]
  /\ UNCHANGED <<last, timestamp, phase, pos, running>>

UnlockEnd ==
  /\ phase = "unlock"
  /\ evt = Null
  /\ q' = [q EXCEPT !.head = Null, !.tail = Null]
  /\ phase' = "idle"
  /\ pos' = 0
  /\ UNCHANGED <<last, timestamp, evt, running>>

Next ==
  \/ \E t \in Timer :
       \/ \E seconds \in Slots : timeout_queue_reschedule(t, seconds)
       \/ timeout_queue_remove(t)
  \/ \E now \in last..MaxTime : ProcessLock(now)
  \/ ProcessFire \/ CallbackReturn \/ ProcessAdvance
  \/ Unlock \/ UnlockMove \/ UnlockEnd

Spec == Init /\ [][Next]_vars

\* Mutant: the slots are counted from the first one, not from now.
timeout_queue_get_next_timeout_zero ==
  LET busy == {s \in Slots : q.events[s] # Null}
      first == CHOOSE s \in busy : \A r \in busy : s <= r
  IN  IF busy = {} THEN Max ELSE IF first = 0 THEN 1 ELSE first

\* timeout_queue_get_next_timeout, called with now = t->last.
timeout_queue_get_next_timeout ==
  LET busy == {s \in Slots : q.events[(last + s) % Max] # Null}
      first == CHOOSE s \in busy : \A r \in busy : s <= r
  IN  IF busy = {} THEN Max ELSE IF first = 0 THEN 1 ELSE first

-----------------------------------------------------------------------------
\* The lists implement the wheel.
PlaceOf == [t \in Timer |-> IF q.prev[t] = Null THEN "none"
                           ELSE IF q.prev[t] = Lock THEN "wait" ELSE "wheel"]

Wheel == INSTANCE TimerWheel WITH due <- timestamp, place <- PlaceOf

\* Every operation on the lists does what it should to the set of scheduled
\* timers, in any order of calls, from callbacks too: none is lost, and none
\* comes back after its removal.
ImplementsWheel == Wheel!WheelSpec

FiresOnTime == Wheel!FiresOnTime

\* No scheduled timer is left behind the hand of the wheel, and all timers of a slot
\* are due in one second, as timeout_queue_insert asserts.
TimersKept == Wheel!TimersKept

\* net_backend_process does not sleep in poll beyond the next due timer (or one
\* second).
NoOversleep ==
  phase = "idle" =>
    \A t \in Timer :
      timeout_evt_is_scheduled(t) =>
        \/ timeout_queue_get_next_timeout <= 1
        \/ last + timeout_queue_get_next_timeout <= timestamp[t]
-----------------------------------------------------------------------------
(* The inductive invariant: what the pointers are at every step.            *)

Members(s) == {t \in Timer : q.prev[t] \in Timer /\ timestamp[t] % Max = s}
Waiting == {t \in Timer : q.prev[t] = Lock}

\* next leads from first to every timer of M: a set that has first and is closed
\* under next has them all.
Reached(p, first, M) ==
  \A S \in SUBSET Timer :
    first \in S /\ (\A t \in S \cap M : p.next[t] \in S \cup {Null}) => M \subseteq S

\* The timers M are the list of slot s: next ends in Null, prev is its inverse and
\* leads from the first one to the last.
SlotList(p, s, M) ==
  LET first == p.events[s] IN
  /\ IF first = Null THEN M = {} ELSE first \in M
  /\ \A t \in M :
       /\ p.prev[t] \in M
       /\ p.next[p.prev[t]] = IF t = first THEN Null ELSE t
       /\ IF p.next[t] = Null THEN p.prev[first] = t
          ELSE p.next[t] \in M /\ p.prev[p.next[t]] = t
  /\ Reached(p, first, M)

\* The timers M are a singly linked list that begins with first.
WaitList(p, first, M) ==
  /\ IF first = Null THEN M = {} ELSE first \in M
  /\ \A t \in M : p.next[t] \in (M \ {first}) \cup {Null}
  /\ \A t, u \in M : p.next[t] = p.next[u] /\ p.next[t] # Null => t = u
  /\ Reached(p, first, M)

\* tail is the last of the waiting timers.
TailOf(p, M) ==
  IF p.head = Null THEN p.tail = Null
  ELSE p.tail \in M /\ \A t \in M : p.next[t] = Null <=> t = p.tail

QueueInv ==
  /\ TypeOK
  /\ running => phase = "pass"
  /\ phase = "idle" => q.head = Null
  /\ \A s \in Slots : SlotList(q, s, Members(s))
  /\ WaitList(q, IF phase = "unlock" THEN evt ELSE q.head, Waiting)
  /\ phase # "unlock" => TailOf(q, Waiting)
=============================================================================
