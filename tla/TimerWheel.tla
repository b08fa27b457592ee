----------------------------- MODULE TimerWheel -----------------------------
(***************************************************************************)
(* What src/network/timeout.c promises: a timer that is scheduled for a     *)
(* second fires in the first timeout_queue_process at or after it, in the   *)
(* order of the seconds, and never before; what the callbacks schedule      *)
(* waits until the pass is over.                                            *)
(*                                                                          *)
(* A timer is in the slot of its due time modulo the size of the wheel; the *)
(* order of the timers within a slot is left open.  The linked lists are in *)
(* TimeoutQueue, which implements this specification.                       *)
(***************************************************************************)
EXTENDS Integers

CONSTANTS
  Timer,                  \* the struct timeout_evt objects
  Max                     \* t->max, the number of slots

VARIABLES
  last,                   \* t->last, the time of the latest pass
  due,                    \* evt->timestamp
  place,                  \* where the timer is
  phase,                  \* "idle", "pass" (locked) or "unlock"
  pos,                    \* the second the pass has come to
  running                 \* the callback of a timer is executing

wheelVars == <<last, due, place, phase, pos, running>>

Place == {"none", "wheel", "wait"}
Delay == 0..(Max - 1)
Slot(s) == s % Max

WheelTypeOK ==
  /\ last \in Nat
  /\ due \in [Timer -> Nat]
  /\ place \in [Timer -> Place]
  /\ phase \in {"idle", "pass", "unlock"}
  /\ pos \in Nat
  /\ running \in BOOLEAN

WheelInit ==
  /\ last = 0
  /\ due = [t \in Timer |-> 0]
  /\ place = [t \in Timer |-> "none"]
  /\ phase = "idle"
  /\ pos = 0
  /\ running = FALSE

\* Timers are scheduled and removed by network callbacks, and in a pass by the
\* callback of a timer.
MayCall == phase = "idle" \/ running

\* (Re)scheduling: a timer that is set during a pass waits for its end.
WheelSchedule(t, s) ==
  /\ MayCall
  /\ due' = [due EXCEPT ![t] = last + s]
  /\ place' = [place EXCEPT ![t] = IF phase = "idle" THEN "wheel" ELSE "wait"]
  /\ UNCHANGED <<last, phase, pos, running>>

WheelRemove(t) ==
  /\ MayCall
  /\ place' = [place EXCEPT ![t] = "none"]
  /\ UNCHANGED <<last, due, phase, pos, running>>

\* A pass begins at the second of the one before.
WheelBegin ==
  /\ phase = "idle"
  /\ last' \in Nat /\ last' >= last
  /\ pos' = last
  /\ phase' = "pass"
  /\ UNCHANGED <<due, place, running>>

InHand(t) == place[t] = "wheel" /\ Slot(due[t]) = Slot(pos)

WheelFire(t) ==
  /\ phase = "pass" /\ ~running
  /\ pos <= last
  /\ InHand(t)
  /\ place' = [place EXCEPT ![t] = "none"]
  /\ running' = TRUE
  /\ UNCHANGED <<last, due, phase, pos>>

WheelReturn ==
  /\ running
  /\ running' = FALSE
  /\ UNCHANGED <<last, due, place, phase, pos>>

WheelAdvance ==
  /\ phase = "pass" /\ ~running
  /\ pos <= last
  /\ \A t \in Timer : ~InHand(t)
  /\ pos' = pos + 1
  /\ UNCHANGED <<last, due, place, phase, running>>

WheelUnlock ==
  /\ phase = "pass" /\ ~running
  /\ pos > last
  /\ phase' = "unlock"
  /\ UNCHANGED <<last, due, place, pos, running>>

WheelMove(t) ==
  /\ phase = "unlock"
  /\ place[t] = "wait"
  /\ place' = [place EXCEPT ![t] = "wheel"]
  /\ UNCHANGED <<last, due, phase, pos, running>>

WheelEnd ==
  /\ phase = "unlock"
  /\ \A t \in Timer : place[t] # "wait"
  /\ phase' = "idle"
  /\ pos' = 0
  /\ UNCHANGED <<last, due, place, running>>

WheelNext ==
  \/ \E t \in Timer :
       \/ \E s \in Delay : WheelSchedule(t, s)
       \/ WheelRemove(t)
       \/ WheelFire(t)
       \/ WheelMove(t)
  \/ WheelBegin
  \/ WheelReturn \/ WheelAdvance \/ WheelUnlock \/ WheelEnd

WheelSpec == WheelInit /\ [][WheelNext]_wheelVars

-----------------------------------------------------------------------------
\* A timer fires exactly when the hand has come to its second: not a lap of the
\* wheel early, and not before the clock.
FiresOnTime ==
  [][\A t \in Timer : WheelFire(t) => due[t] = pos /\ due[t] <= last]_wheelVars

\* No timer is left behind the hand, where it would wait for another lap.
NoneMissed ==
  \A t \in Timer :
    /\ phase = "idle" /\ place[t] = "wheel" => due[t] >= last
    /\ phase = "pass" /\ place[t] = "wheel" => due[t] >= pos

\* All timers of a slot are due in the same second (the assertion in
\* timeout_queue_insert).
SlotsAgree ==
  phase = "idle" =>
    \A t, u \in Timer :
      /\ place[t] = "wheel" /\ place[u] = "wheel"
      /\ Slot(due[t]) = Slot(due[u])
      => due[t] = due[u]

\* timeout_queue_process comes past every timer in its second: none is left behind, and
\* none stands in the slot of another second.
TimersKept == NoneMissed /\ SlotsAgree

-----------------------------------------------------------------------------
(* The inductive invariant: where the due times are, seen from the hand.   *)

WheelWindow ==
  /\ running => phase = "pass"
  /\ phase = "unlock" => pos > last
  /\ phase = "pass" /\ running => pos <= last
  /\ \A t \in Timer :
       /\ place[t] # "none" => due[t] < last + Max
       /\ place[t] = "wait" => phase # "idle" /\ due[t] >= last
       /\ place[t] = "wheel" =>
            CASE phase = "idle" -> due[t] >= last
              [] phase = "pass" -> pos <= due[t] /\ due[t] < pos + Max
              [] OTHER -> due[t] >= last

WheelInv == WheelTypeOK /\ WheelWindow
=============================================================================
