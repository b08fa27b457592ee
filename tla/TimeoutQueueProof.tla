------------------------- MODULE TimeoutQueueProof -------------------------
(***************************************************************************)
(* The linked lists of src/network/timeout.c implement the timer wheel, for *)
(* any number of timers and slots.                                          *)
(***************************************************************************)
EXTENDS TimeoutListProof, WellFoundedInduction

-----------------------------------------------------------------------------
(* The invariant and the wheel, step by step.                               *)

\* Every second has a slot.
LEMMA SlotOfSecond == \A n \in Nat : n % Max \in Slots
BY WheelAssumption DEF Slots

\* The timers on the wheel, by their slots.
LEMMA OwnSlot ==
  ASSUME QueueInv, NEW t \in Timer
  PROVE  /\ timestamp[t] % Max \in Slots
         /\ t \in Waiting <=> q.prev[t] = Lock
         /\ \A s \in Slots : t \in Members(s) <=> q.prev[t] \in Timer /\ s = timestamp[t] % Max
<1>1. timestamp[t] \in Nat
  BY DEF QueueInv, TypeOK
<1> QED
  BY <1>1, SlotOfSecond DEF Members, Waiting

\* timeout_queue_remove takes the timer out of the list it is in, if any, and moves no other.
LEMMA RemovedQueue ==
  ASSUME QueueInv, phase # "unlock", NEW t \in Timer
  PROVE  LET r == Removed(q, t) IN
         /\ r \in Pointers
         /\ r.prev[t] = Null
         /\ \A u \in Timer \ {t} :
              /\ r.prev[u] = Null <=> q.prev[u] = Null
              /\ r.prev[u] = Lock <=> q.prev[u] = Lock
              /\ r.prev[u] \in Timer <=> q.prev[u] \in Timer
         /\ \A s \in Slots : SlotList(r, s, Members(s) \ {t})
         /\ WaitList(r, r.head, Waiting \ {t}) /\ TailOf(r, Waiting \ {t})
         /\ q.head = Null => r.head = Null
<1> DEFINE r == Removed(q, t)
           slot == timestamp[t] % Max
<1> USE PointerAssumption
<1>1. /\ q \in Pointers /\ slot \in Slots
      /\ \A s \in Slots : SlotList(q, s, Members(s)) /\ Members(s) \in SUBSET Timer
      /\ WaitList(q, q.head, Waiting) /\ TailOf(q, Waiting) /\ Waiting \in SUBSET Timer
      /\ q.prev[t] \in Timer \cup {Null, Lock}
  BY OwnSlot DEF QueueInv, TypeOK, Pointers, Pointer, Members, Waiting
<1>2. CASE q.prev[t] = Lock
  <2>1. r = timeout_queue_remove_locked(q, t) /\ t \in Waiting
    BY <1>2 DEF Removed, Waiting
  <2>2. /\ r \in Pointers /\ r.events = q.events /\ r.prev[t] = Null
        /\ \A u \in Timer \ {t} : r.prev[u] = q.prev[u]
        /\ \A u \in Timer \ Waiting : r.next[u] = q.next[u]
        /\ WaitList(r, r.head, Waiting \ {t}) /\ TailOf(r, Waiting \ {t})
    <3>1. Waiting = {u \in Timer : q.prev[u] = Lock}
      BY DEF Waiting
    <3> HIDE DEF r
    <3> QED
      BY <1>1, <2>1, <3>1, RemoveLocked
  <2> HIDE DEF r
  <2>3. ASSUME NEW s \in Slots PROVE SlotList(r, s, Members(s) \ {t})
    <3>1. \A u \in Members(s) : u \in Timer /\ u # t /\ u \notin Waiting
      BY <1>2 DEF Members, Waiting
    <3>2. \A u \in Members(s) : r.prev[u] = q.prev[u] /\ r.next[u] = q.next[u]
      BY <2>2, <3>1
    <3>3. SlotList(r, s, Members(s))
      BY <1>1, <2>2, <3>2, SlotFrame
    <3>4. Members(s) \ {t} = Members(s)
      BY <3>1
    <3> QED
      BY <3>3, <3>4
  <2>4. q.head # Null
    BY <1>1, <2>1 DEF WaitList
  <2> QED
    BY <2>2, <2>3, <2>4 DEF r
<1>3. CASE q.prev[t] = Null
  <2>1. r = q
    BY <1>3 DEF Removed
  <2>2. Waiting \ {t} = Waiting /\ \A s \in Slots : Members(s) \ {t} = Members(s)
    BY <1>3 DEF Waiting, Members
  <2> QED
    BY <1>1, <1>3, <2>1, <2>2
<1>4. CASE q.prev[t] \in Timer
  <2>1. t \in Members(slot) /\ t \notin Waiting
    BY <1>4 DEF Members, Waiting
  <2>2. q.events[slot] # Null
    BY <1>1, <2>1 DEF SlotList
  <2>3. r = timeout_evt_reset(Unlink(q, t, slot), t)
    BY <1>4, <2>2 DEF Removed
  <2>4. /\ r \in Pointers
        /\ r.head = q.head /\ r.tail = q.tail
        /\ r.prev[t] = Null
        /\ \A i \in Slots : i # slot => r.events[i] = q.events[i]
        /\ \A u \in Timer \ Members(slot) : r.prev[u] = q.prev[u] /\ r.next[u] = q.next[u]
        /\ \A u \in Members(slot) \ {t} : r.prev[u] \in Timer
    <3> HIDE DEF slot, r
    <3> QED
      BY <1>1, <2>1, <2>3, UnlinkFrame
  <2>5. SlotList(r, slot, Members(slot) \ {t})
    <3> HIDE DEF slot, r
    <3> QED
      BY <1>1, <2>1, <2>3, UnlinkList
  <2> HIDE DEF r
  <2>6. ASSUME NEW s \in Slots PROVE SlotList(r, s, Members(s) \ {t})
    <3>1. CASE s = slot
      BY <3>1, <2>5
    <3>2. CASE s # slot
      <4>1. Members(s) \ {t} = Members(s) /\ \A u \in Members(s) : u \in Timer \ Members(slot)
        BY <3>2 DEF Members
      <4>2. SlotList(r, s, Members(s))
        BY <1>1, <2>4, <3>2, <4>1, SlotFrame
      <4> QED
        BY <4>1, <4>2
    <3> QED
      BY <3>1, <3>2
  <2>7. Waiting \ {t} = Waiting /\ \A u \in Waiting : u \in Timer \ Members(slot)
    BY <2>1 DEF Waiting, Members
  <2>8. WaitList(r, q.head, Waiting)
    BY <1>1, <2>4, <2>7, WaitFrame DEF Pointers
  <2>9. TailOf(r, Waiting)
    BY <1>1, <2>4, <2>7 DEF TailOf
  <2>10. \A u \in Timer \ {t} : /\ r.prev[u] = Null <=> q.prev[u] = Null
                                /\ r.prev[u] = Lock <=> q.prev[u] = Lock
                                /\ r.prev[u] \in Timer <=> q.prev[u] \in Timer
    BY <2>4 DEF Members
  <2> QED
    BY <2>4, <2>6, <2>7, <2>8, <2>9, <2>10, Zenon DEF r
<1> QED
  BY <1>1, <1>2, <1>3, <1>4

\* timeout_queue_initialize: all lists are empty.
LEMMA QueueInvInit == Init => QueueInv
<1> SUFFICES ASSUME Init PROVE QueueInv
  OBVIOUS
<1> USE PointerAssumption, WheelAssumption
<1>1. TypeOK
  <2>1. q \in Pointers
    BY DEF Init, Pointers, Pointer
  <2>2. last \in 0..MaxTime /\ pos \in 0..(MaxTime + 1)
    BY DEF Init
  <2> QED
    BY <2>1, <2>2, Zenon DEF Init, TypeOK, Pointers, Pointer
<1>2. Waiting = {} /\ \A s \in Slots : Members(s) = {} /\ q.events[s] = Null
  BY DEF Init, Waiting, Members
<1>3. q.head = Null /\ q.tail = Null /\ phase = "idle" /\ running = FALSE
  BY DEF Init
<1>4. \A first : Reached(q, first, {})
  BY DEF Reached
<1> QED
  BY <1>1, <1>2, <1>3, <1>4 DEF QueueInv, SlotList, WaitList, TailOf

\* (Re)scheduling a timer keeps the lists and moves this timer only.
LEMMA RescheduleStep ==
  ASSUME QueueInv, NEW t \in Timer, NEW seconds \in Slots, timeout_queue_reschedule(t, seconds)
  PROVE  /\ QueueInv'
         /\ PlaceOf' = [PlaceOf EXCEPT ![t] = IF phase = "idle" THEN "wheel" ELSE "wait"]
<1> DEFINE p == IF timeout_evt_is_scheduled(t) THEN Removed(q, t) ELSE q
           M == [s \in Slots |-> Members(s) \ {t}]
           W == Waiting \ {t}
           slot == (last + seconds) % Max
<1> USE PointerAssumption
<1>1. /\ TypeOK /\ phase \in {"idle", "pass"}
      /\ q' = Inserted(p, t, seconds)
      /\ timestamp' = [timestamp EXCEPT ![t] = last + seconds]
      /\ UNCHANGED <<last, phase, pos, evt, running>>
  BY DEF timeout_queue_reschedule, MayCall, QueueInv, TypeOK
<1>2. /\ last \in Nat /\ slot \in Slots /\ last + seconds \in Nat
      /\ q \in Pointers
  <2>1. last \in Nat /\ seconds \in Nat
    BY <1>1, WheelAssumption DEF TypeOK, Slots
  <2>2. last + seconds \in Nat
    BY <2>1
  <2> QED
    BY <1>1, <2>1, <2>2, SlotOfSecond DEF TypeOK, Pointers
<1>3. /\ p \in Pointers /\ p.prev[t] = Null
      /\ \A u \in Timer \ {t} :
           /\ p.prev[u] = Null <=> q.prev[u] = Null
           /\ p.prev[u] = Lock <=> q.prev[u] = Lock
           /\ p.prev[u] \in Timer <=> q.prev[u] \in Timer
      /\ \A s \in Slots : SlotList(p, s, Members(s) \ {t})
      /\ WaitList(p, p.head, W) /\ TailOf(p, W)
      /\ q.head = Null => p.head = Null
  <2>1. CASE timeout_evt_is_scheduled(t)
    BY <1>1, <2>1, RemovedQueue
  <2>2. CASE ~ timeout_evt_is_scheduled(t)
    <3>1. p = q /\ q.prev[t] = Null
      BY <2>2 DEF timeout_evt_is_scheduled
    <3>2. W = Waiting /\ \A s \in Slots : Members(s) \ {t} = Members(s)
      BY <3>1 DEF Waiting, Members
    <3> QED
      BY <1>1, <1>2, <3>1, <3>2, Zenon DEF QueueInv
  <2> QED
    BY <2>1, <2>2
<1> HIDE DEF p
<1>4. /\ M \in [Slots -> SUBSET Timer]
      /\ \A s \in Slots : M[s] = {u \in Timer \ {t} : p.prev[u] \in Timer /\ timestamp[u] % Max = s}
      /\ \A s \in Slots : SlotList(p, s, M[s])
  BY <1>3 DEF Members
<1>5. W = {u \in Timer \ {t} : p.prev[u] = Lock}
  BY <1>3 DEF Waiting
<1>6. phase = "idle" => p.head = Null
  BY <1>3 DEF QueueInv
<1> DEFINE V == IF phase = "idle" THEN W ELSE W \cup {t}
<1>7. /\ q' \in Pointers
      /\ IF phase = "idle" THEN q'.prev[t] \in Timer ELSE q'.prev[t] = Lock
      /\ \A u \in Timer \ {t} :
           /\ q'.prev[u] = Null <=> p.prev[u] = Null
           /\ q'.prev[u] = Lock <=> p.prev[u] = Lock
           /\ q'.prev[u] \in Timer <=> p.prev[u] \in Timer
      /\ \A s \in Slots : SlotList(q', s, IF phase = "idle" /\ s = slot THEN M[s] \cup {t} ELSE M[s])
      /\ WaitList(q', q'.head, V) /\ TailOf(q', V)
      /\ phase = "idle" => q'.head = Null
  <2>1. slot = (last + seconds) % Max /\ V = IF phase = "idle" THEN W ELSE W \cup {t}
    OBVIOUS
  <2> HIDE DEF M, W, slot, V
  <2>2. /\ slot \in Slots
        /\ W \in SUBSET Timer /\ t \notin W
        /\ \A s \in Slots : M[s] \in SUBSET Timer /\ t \notin M[s]
    BY <1>2, <1>4, <1>5, <2>1
  <2>3. CASE phase = "pass"
    <3>1. q' = timeout_queue_insert_locked(p, t)
      BY <1>1, <2>3 DEF Inserted
    <3>2. /\ q' \in Pointers /\ q'.events = p.events /\ q'.prev[t] = Lock
          /\ \A u \in Timer \ {t} : q'.prev[u] = p.prev[u]
          /\ \A u \in Timer \ (W \cup {t}) : q'.next[u] = p.next[u]
      <4>1. Queued(p, q', W, t)
        <5> HIDE DEF W
        <5> QED
          BY <1>3, <2>2, <3>1, InsertLockedFrame, Zenon
      <4> QED
        BY <4>1, Zenon DEF Queued
    <3>3. WaitList(q', q'.head, W \cup {t}) /\ TailOf(q', W \cup {t})
      BY <1>3, <2>2, <3>1, InsertLockedList
    <3>4. ASSUME NEW s \in Slots PROVE SlotList(q', s, M[s])
      <4>1. \A u \in M[s] : u \in Timer \ (W \cup {t})
        BY <1>4, <1>5, PointerAssumption
      <4>2. \A u \in M[s] : q'.prev[u] = p.prev[u] /\ q'.next[u] = p.next[u]
        BY <3>2, <4>1
      <4> QED
        BY <1>3, <1>4, <2>2, <3>2, <4>2, SlotFrame
    <3> QED
      BY <2>1, <2>3, <3>2, <3>3, <3>4
  <2>4. CASE phase = "idle"
    <3>1. q' = LinkLast(p, t, slot)
      BY <1>1, <2>1, <2>4 DEF Inserted
    <3>2. /\ q' \in Pointers
          /\ q'.head = p.head /\ q'.tail = p.tail
          /\ \A i \in Slots : i # slot => q'.events[i] = p.events[i]
          /\ \A u \in Timer \ (M[slot] \cup {t}) : q'.prev[u] = p.prev[u] /\ q'.next[u] = p.next[u]
          /\ \A u \in M[slot] \cup {t} : q'.prev[u] \in Timer
      <4> HIDE DEF M, W
      <4>1. p \in Pointers /\ slot \in Slots /\ M[slot] \in SUBSET Timer /\ t \notin M[slot] /\ SlotList(p, slot, M[slot])
        BY <1>3, <1>4, <2>2
      <4> HIDE DEF slot
      <4>2. Relinked(p, q', slot, M[slot] \cup {t})
        BY <3>1, <4>1, LinkLastFrame, Zenon
      <4> QED
        BY <4>2, Zenon DEF Relinked
    <3>3. SlotList(q', slot, M[slot] \cup {t})
      BY <1>3, <1>4, <2>2, <3>1, LinkLastList
    <3>4. ASSUME NEW s \in Slots, s # slot PROVE SlotList(q', s, M[s])
      <4>1. \A u \in M[s] : u \in Timer \ (M[slot] \cup {t})
        BY <1>4, <2>2, <3>4
      <4>2. \A u \in M[s] : q'.prev[u] = p.prev[u] /\ q'.next[u] = p.next[u]
        BY <3>2, <4>1
      <4> QED
        BY <1>3, <1>4, <2>2, <3>2, <3>4, <4>2, SlotFrame
    <3>5. W = {} /\ q'.head = Null
      BY <1>3, <1>6, <2>4, <3>2 DEF WaitList
    <3>6. WaitList(q', q'.head, W) /\ TailOf(q', W)
      <4>1. WaitList(q', p.head, W)
        BY <1>3, <2>2, <3>2, <3>5, WaitFrame DEF Pointers
      <4> QED
        BY <1>3, <3>2, <3>5, <4>1 DEF TailOf
    <3>7. \A u \in Timer \ {t} : /\ q'.prev[u] = Null <=> p.prev[u] = Null
                                 /\ q'.prev[u] = Lock <=> p.prev[u] = Lock
                                 /\ q'.prev[u] \in Timer <=> p.prev[u] \in Timer
      BY <1>4, <2>2, <3>2
    <3>8. \A s \in Slots : SlotList(q', s, IF phase = "idle" /\ s = slot THEN M[s] \cup {t} ELSE M[s])
      BY <2>4, <3>3, <3>4
    <3>9. q'.prev[t] \in Timer
      BY <2>2, <3>2
    <3> QED
      BY <2>1, <2>4, <3>2, <3>5, <3>6, <3>7, <3>8, <3>9
  <2> QED
    BY <1>1, <2>3, <2>4
<1>8. Waiting' = V
  BY <1>3, <1>7 DEF Waiting
<1>9. ASSUME NEW s \in Slots
      PROVE  Members(s)' = IF phase = "idle" /\ s = slot THEN M[s] \cup {t} ELSE M[s]
  <2>1. Members(s)' = {u \in Timer : q'.prev[u] \in Timer /\ timestamp'[u] % Max = s}
    BY DEF Members
  <2>2. timestamp'[t] % Max = slot /\ \A u \in Timer \ {t} : timestamp'[u] = timestamp[u]
    BY <1>1 DEF TypeOK
  <2> HIDE DEF M, V, W, slot
  <2>3. \A u \in Timer \ {t} : u \in Members(s)' <=> u \in M[s]
    BY <1>4, <1>7, <2>1, <2>2
  <2>4. t \in Members(s)' <=> phase = "idle" /\ s = slot
    BY <1>7, <2>1, <2>2
  <2> QED
    BY <1>4, <2>1, <2>3, <2>4
<1>10. TypeOK'
  BY <1>1, <1>2, <1>7 DEF TypeOK, Pointers
<1>11. QueueInv'
  <2>1. \A s \in Slots : SlotList(q', s, Members(s)')
    BY <1>7, <1>9, Zenon
  <2>2. WaitList(q', q'.head, Waiting') /\ TailOf(q', Waiting')
    BY <1>7, <1>8
  <2> QED
    BY <1>1, <1>7, <1>10, <2>1, <2>2 DEF QueueInv
<1>12. PlaceOf' = [PlaceOf EXCEPT ![t] = IF phase = "idle" THEN "wheel" ELSE "wait"]
  BY <1>1, <1>3, <1>7, ZenonT(30) DEF PlaceOf
<1> QED
  BY <1>11, <1>12

\* Taking a timer out keeps the lists: timeout_queue_remove, and the pass before a callback.
LEMMA RemoveStep ==
  ASSUME QueueInv, NEW t \in Timer, phase # "unlock", q' = Removed(q, t),
         UNCHANGED <<last, timestamp, phase, pos, evt>>,
         running' \in BOOLEAN, running' => phase = "pass"
  PROVE  QueueInv' /\ PlaceOf' = [PlaceOf EXCEPT ![t] = "none"]
<1> USE PointerAssumption
<1>1. /\ q' \in Pointers
      /\ q'.prev[t] = Null
      /\ \A u \in Timer \ {t} :
           /\ q'.prev[u] = Null <=> q.prev[u] = Null
           /\ q'.prev[u] = Lock <=> q.prev[u] = Lock
           /\ q'.prev[u] \in Timer <=> q.prev[u] \in Timer
      /\ \A s \in Slots : SlotList(q', s, Members(s) \ {t})
      /\ WaitList(q', q'.head, Waiting \ {t}) /\ TailOf(q', Waiting \ {t})
      /\ q.head = Null => q'.head = Null
  BY RemovedQueue
<1>2. Waiting' = Waiting \ {t} /\ \A s \in Slots : Members(s)' = Members(s) \ {t}
  BY <1>1 DEF Waiting, Members
<1>3. TypeOK'
  BY <1>1 DEF QueueInv, TypeOK, Pointers
<1>4. QueueInv'
  <2>1. \A s \in Slots : SlotList(q', s, Members(s)')
    BY <1>1, <1>2
  <2>2. WaitList(q', q'.head, Waiting') /\ TailOf(q', Waiting')
    BY <1>1, <1>2
  <2> QED
    BY <1>1, <1>3, <2>1, <2>2 DEF QueueInv
<1>5. PlaceOf' = [PlaceOf EXCEPT ![t] = "none"]
  BY <1>1, Zenon DEF PlaceOf
<1> QED
  BY <1>4, <1>5

\* timeout_queue_unlock moves one waiting timer to its slot.
LEMMA UnlockMoveStep ==
  ASSUME QueueInv, UnlockMove
  PROVE  QueueInv' /\ evt \in Waiting /\ PlaceOf' = [PlaceOf EXCEPT ![evt] = "wheel"]
<1> USE PointerAssumption
<1>1. PICK slot : slot = timestamp[evt] % Max
  OBVIOUS
<1>2. /\ TypeOK /\ q \in Pointers /\ phase = "unlock" /\ running = FALSE
      /\ WaitList(q, evt, Waiting) /\ Waiting \in SUBSET Timer
      /\ \A s \in Slots : SlotList(q, s, Members(s)) /\ Members(s) \in SUBSET Timer
      /\ q' = LinkLast(q, evt, slot) /\ evt' = q.next[evt]
      /\ UNCHANGED <<last, timestamp, phase, pos, running>>
  BY <1>1 DEF UnlockMove, QueueInv, TypeOK, Pointers, Waiting, Members
<1>3. evt \in Waiting
  BY <1>2 DEF UnlockMove, WaitList
<1>4. slot \in Slots /\ \A s \in Slots : evt \notin Members(s)
  <2>1. evt \in Timer /\ q.prev[evt] = Lock
    BY <1>3 DEF Waiting
  <2> QED
    BY <1>1, <2>1, OwnSlot DEF Members
<1>5. /\ q' \in Pointers
      /\ q'.head = q.head /\ q'.tail = q.tail
      /\ \A i \in Slots : i # slot => q'.events[i] = q.events[i]
      /\ \A u \in Timer \ (Members(slot) \cup {evt}) : q'.prev[u] = q.prev[u] /\ q'.next[u] = q.next[u]
      /\ \A u \in Members(slot) \cup {evt} : q'.prev[u] \in Timer
  <2>1. Relinked(q, q', slot, Members(slot) \cup {evt})
    BY <1>2, <1>3, <1>4, LinkLastFrame, Zenon
  <2> QED
    BY <2>1, Zenon DEF Relinked
<1>6. SlotList(q', slot, Members(slot) \cup {evt})
  BY <1>2, <1>3, <1>4, LinkLastList
<1>7. /\ Members(slot)' = Members(slot) \cup {evt}
      /\ \A s \in Slots \ {slot} : Members(s)' = Members(s)
      /\ Waiting' = Waiting \ {evt}
  <2>1. timestamp' = timestamp
    BY <1>2
  <2> QED
    BY <1>1, <1>3, <1>4, <1>5, <2>1 DEF Members, Waiting
<1>8. ASSUME NEW s \in Slots PROVE SlotList(q', s, Members(s)')
  <2>1. CASE s = slot
    BY <2>1, <1>6, <1>7
  <2>2. CASE s # slot
    <3>1. \A u \in Members(s) : u \in Timer \ (Members(slot) \cup {evt})
      BY <1>4, <2>2 DEF Members
    <3>2. SlotList(q', s, Members(s))
      BY <1>2, <1>5, <2>2, <3>1, SlotFrame
    <3> QED
      BY <1>7, <2>2, <3>2
  <2> QED
    BY <2>1, <2>2
<1>9. WaitList(q', evt', Waiting')
  <2>1. WaitList(q, q.next[evt], Waiting \ {evt})
    BY <1>2, <1>3, WaitRest
  <2>2. \A u \in Waiting \ {evt} : u \in Timer \ (Members(slot) \cup {evt})
    BY DEF Waiting, Members
  <2>3. q.next[evt] \in Pointer
    BY <1>2, <1>3 DEF Pointers
  <2>4. WaitList(q', q.next[evt], Waiting \ {evt})
    BY <1>2, <1>5, <2>1, <2>2, <2>3, WaitFrame
  <2> QED
    BY <1>2, <1>7, <2>4
<1>10. TypeOK'
  <2>1. evt' \in Pointer
    BY <1>2, <1>3 DEF Pointers
  <2> QED
    BY <1>2, <1>5, <2>1 DEF TypeOK, Pointers
<1>11. QueueInv'
  BY <1>2, <1>8, <1>9, <1>10 DEF QueueInv
<1>12. PlaceOf' = [PlaceOf EXCEPT ![evt] = "wheel"]
  <2>1. \A u \in Timer \ {evt} : /\ q'.prev[u] = Null <=> q.prev[u] = Null
                                 /\ q'.prev[u] = Lock <=> q.prev[u] = Lock
    BY <1>5 DEF Members
  <2>2. q'.prev[evt] \in Timer
    BY <1>5
  <2> QED
    BY <2>1, <2>2, Zenon DEF PlaceOf
<1> QED
  BY <1>3, <1>11, <1>12

\* ... until none is left.
LEMMA UnlockEndStep ==
  ASSUME QueueInv, UnlockEnd
  PROVE  QueueInv' /\ Waiting = {} /\ PlaceOf' = PlaceOf
<1> USE PointerAssumption
<1>1. /\ TypeOK /\ q \in Pointers
      /\ WaitList(q, Null, Waiting)
      /\ \A s \in Slots : SlotList(q, s, Members(s)) /\ Members(s) \in SUBSET Timer
      /\ q' = [q EXCEPT !.head = Null, !.tail = Null]
      /\ phase' = "idle" /\ pos' = 0 /\ running = FALSE
      /\ UNCHANGED <<last, timestamp, evt, running>>
  BY DEF UnlockEnd, QueueInv, TypeOK, Pointers, Members
<1>2. Waiting = {}
  BY <1>1 DEF WaitList
<1>3. /\ q'.events = q.events /\ q'.prev = q.prev /\ q'.next = q.next
      /\ q'.head = Null /\ q'.tail = Null
      /\ q' \in Pointers
  BY <1>1, Zenon DEF Pointers, Pointer
<1>4. Waiting' = {} /\ \A s \in Slots : Members(s)' = Members(s)
  BY <1>1, <1>2, <1>3 DEF Waiting, Members
<1>5. \A s \in Slots : SlotList(q', s, Members(s)')
  BY <1>1, <1>3, <1>4, SlotFrame, Zenon
<1>6. WaitList(q', q'.head, Waiting') /\ TailOf(q', Waiting')
  BY <1>3, <1>4 DEF WaitList, TailOf, Reached
<1>7. TypeOK'
  BY <1>1, <1>3, WheelAssumption DEF TypeOK, Pointers
<1>8. PlaceOf' = PlaceOf
  BY <1>3 DEF PlaceOf
<1> QED
  BY <1>1, <1>2, <1>3, <1>5, <1>6, <1>7, <1>8 DEF QueueInv

\* The other steps leave the pointers alone.
LEMMA SamePointers ==
  ASSUME QueueInv, UNCHANGED <<timestamp, q>>, TypeOK', phase # "unlock",
         running' => phase' = "pass", phase' # "idle" \/ phase = "idle",
         phase' = "unlock" => evt' = q.head
  PROVE  QueueInv' /\ PlaceOf' = PlaceOf
<1>1. Waiting' = Waiting /\ PlaceOf' = PlaceOf /\ \A s \in Slots : Members(s)' = Members(s)
  BY DEF Waiting, Members, PlaceOf
<1> QED
  BY <1>1 DEF QueueInv

\* Every step keeps the lists, and is a step of the wheel.
LEMMA QueueStep ==
  ASSUME QueueInv, [Next]_vars
  PROVE  QueueInv' /\ [Wheel!WheelNext]_(Wheel!wheelVars)
<1> USE PointerAssumption
<1>1. /\ TypeOK /\ last \in Nat /\ pos \in Nat /\ q \in Pointers
      /\ PlaceOf \in [Timer -> {"none", "wait", "wheel"}]
      /\ \A t \in Timer : /\ PlaceOf[t] = "none" <=> q.prev[t] = Null
                          /\ PlaceOf[t] = "wait" <=> t \in Waiting
                          /\ PlaceOf[t] = "wheel" <=> q.prev[t] \in Timer
  BY WheelAssumption DEF QueueInv, TypeOK, PlaceOf, Pointers, Pointer, Waiting
<1>2. ASSUME NEW t \in Timer, NEW seconds \in Slots, timeout_queue_reschedule(t, seconds)
      PROVE  QueueInv' /\ Wheel!WheelNext
  <2>1. QueueInv' /\ PlaceOf' = [PlaceOf EXCEPT ![t] = IF phase = "idle" THEN "wheel" ELSE "wait"]
    BY <1>2, RescheduleStep
  <2>2. Wheel!WheelSchedule(t, seconds)
    BY <1>2, <2>1 DEF timeout_queue_reschedule, Wheel!WheelSchedule, MayCall, Wheel!MayCall
  <2> QED
    BY <2>1, <2>2 DEF Wheel!WheelNext, Wheel!Delay, Slots
<1>3. ASSUME NEW t \in Timer, timeout_queue_remove(t) PROVE QueueInv' /\ Wheel!WheelNext
  <2>1. phase # "unlock" /\ running' \in BOOLEAN /\ (running' => phase = "pass")
    BY <1>1, <1>3 DEF timeout_queue_remove, MayCall, QueueInv, TypeOK
  <2>2. QueueInv' /\ PlaceOf' = [PlaceOf EXCEPT ![t] = "none"]
    BY <1>3, <2>1, RemoveStep DEF timeout_queue_remove
  <2>3. Wheel!WheelRemove(t)
    BY <1>3, <2>2 DEF timeout_queue_remove, Wheel!WheelRemove, MayCall, Wheel!MayCall
  <2> QED
    BY <2>2, <2>3 DEF Wheel!WheelNext
<1>4. ASSUME NEW now \in last..MaxTime, ProcessLock(now) PROVE QueueInv' /\ Wheel!WheelNext
  <2>1. TypeOK'
    BY <1>1, <1>4, WheelAssumption DEF ProcessLock, TypeOK
  <2>2. QueueInv' /\ PlaceOf' = PlaceOf
    BY <1>4, <2>1, SamePointers DEF ProcessLock
  <2>3. Wheel!WheelBegin
    BY <1>1, <1>4, <2>2, WheelAssumption DEF ProcessLock, Wheel!WheelBegin
  <2> QED
    BY <2>2, <2>3 DEF Wheel!WheelNext
<1>5. CASE ProcessFire
  <2>1. PICK t : t = q.events[pos % Max]
    OBVIOUS
  <2>2. pos % Max \in Slots
    BY <1>1, SlotOfSecond
  <2>3. t \in Members(pos % Max)
    BY <1>5, <2>1, <2>2 DEF ProcessFire, QueueInv, SlotList
  <2>4. t \in Timer /\ q.prev[t] \in Timer /\ timestamp[t] % Max = pos % Max
    BY <2>3 DEF Members
  <2>5. QueueInv' /\ PlaceOf' = [PlaceOf EXCEPT ![t] = "none"]
    BY <1>5, <2>1, <2>4, RemoveStep DEF ProcessFire
  <2>6. Wheel!WheelFire(t)
    BY <1>1, <1>5, <2>4, <2>5 DEF ProcessFire, Wheel!WheelFire, Wheel!InHand, Wheel!Slot
  <2> QED
    BY <2>4, <2>5, <2>6 DEF Wheel!WheelNext
<1>6. CASE CallbackReturn
  <2>1. TypeOK' /\ phase = "pass"
    BY <1>1, <1>6, Zenon DEF CallbackReturn, TypeOK, QueueInv
  <2>2. QueueInv' /\ PlaceOf' = PlaceOf
    BY <1>6, <2>1, SamePointers DEF CallbackReturn
  <2>3. Wheel!WheelReturn
    BY <1>6, <2>2 DEF CallbackReturn, Wheel!WheelReturn
  <2> QED
    BY <2>2, <2>3 DEF Wheel!WheelNext
<1>7. CASE ProcessAdvance
  <2>1. TypeOK'
    BY <1>1, <1>7, WheelAssumption DEF ProcessAdvance, TypeOK
  <2>2. QueueInv' /\ PlaceOf' = PlaceOf
    BY <1>7, <2>1, SamePointers DEF ProcessAdvance
  <2>3. Members(pos % Max) = {}
    <3>1. pos % Max \in Slots
      BY <1>1, SlotOfSecond
    <3> QED
      BY <1>7, <3>1 DEF ProcessAdvance, QueueInv, SlotList
  <2>4. \A t \in Timer : ~ Wheel!InHand(t)
    BY <1>1, <2>3 DEF Wheel!InHand, Wheel!Slot, Members
  <2>5. Wheel!WheelAdvance
    BY <1>7, <2>2, <2>4 DEF ProcessAdvance, Wheel!WheelAdvance
  <2> QED
    BY <2>2, <2>5 DEF Wheel!WheelNext
<1>8. CASE Unlock
  <2>1. TypeOK'
    BY <1>1, <1>8 DEF Unlock, TypeOK, Pointers
  <2>2. QueueInv' /\ PlaceOf' = PlaceOf
    BY <1>8, <2>1, SamePointers DEF Unlock
  <2>3. Wheel!WheelUnlock
    BY <1>8, <2>2 DEF Unlock, Wheel!WheelUnlock
  <2> QED
    BY <2>2, <2>3 DEF Wheel!WheelNext
<1>9. CASE UnlockMove
  <2>1. QueueInv' /\ evt \in Waiting /\ PlaceOf' = [PlaceOf EXCEPT ![evt] = "wheel"]
    BY <1>9, UnlockMoveStep
  <2>2. evt \in Timer /\ Wheel!WheelMove(evt)
    BY <1>1, <1>9, <2>1 DEF UnlockMove, Wheel!WheelMove, Waiting
  <2> QED
    BY <2>1, <2>2 DEF Wheel!WheelNext
<1>10. CASE UnlockEnd
  <2>1. QueueInv' /\ Waiting = {} /\ PlaceOf' = PlaceOf
    BY <1>10, UnlockEndStep
  <2>2. Wheel!WheelEnd
    BY <1>1, <1>10, <2>1 DEF UnlockEnd, Wheel!WheelEnd
  <2> QED
    BY <2>1, <2>2 DEF Wheel!WheelNext
<1>11. CASE UNCHANGED vars
  <2>1. Waiting' = Waiting /\ PlaceOf' = PlaceOf /\ \A s \in Slots : Members(s)' = Members(s)
    BY <1>11 DEF vars, Waiting, PlaceOf, Members
  <2> QED
    BY <1>11, <2>1 DEF vars, QueueInv, TypeOK, Wheel!wheelVars
<1> QED
  BY <1>2, <1>3, <1>4, <1>5, <1>6, <1>7, <1>8, <1>9, <1>10, <1>11 DEF Next

\* The pointers of timeout.c are lists at every step: each timer is in exactly the list
\* its prev says, next leads to all of them and prev back.
THEOREM QueueInvariant == Spec => []QueueInv
<1>1. QueueInv /\ [Next]_vars => QueueInv'
  BY QueueStep
<1> QED
  BY <1>1, QueueInvInit, PTL DEF Spec

\* The linked lists of timeout.c implement the wheel: no operation loses a timer or brings
\* one back, and the hand passes no timer.
THEOREM ListsImplementWheel == Spec => ImplementsWheel
<1>1. Init => Wheel!WheelInit
  <2> SUFFICES ASSUME Init PROVE Wheel!WheelInit
    OBVIOUS
  <2>1. PlaceOf = [t \in Timer |-> "none"]
    BY DEF Init, PlaceOf
  <2> QED
    BY <2>1 DEF Init, Wheel!WheelInit
<1>2. QueueInv /\ [Next]_vars => [Wheel!WheelNext]_(Wheel!wheelVars)
  BY QueueStep
<1> QED
  BY <1>1, <1>2, QueueInvariant, PTL DEF Spec, ImplementsWheel, Wheel!WheelSpec

-----------------------------------------------------------------------------
(* What the wheel promises holds of the lists.                              *)

\* Two seconds of one slot that are less than a lap apart are the same.
LEMMA SameSecond ==
  ASSUME NEW a \in Nat, NEW b \in Nat,
         a <= b, b < a + Max, Wheel!Slot(a) = Wheel!Slot(b)
  PROVE  a = b
<1> Max \in Nat \ {0}
  BY WheelAssumption
<1>1. PICK i \in Nat, r \in 0..(Max - 1) : a = Max * i + r /\ Wheel!Slot(a) = r
  <2>1. /\ a \div Max \in Nat /\ a % Max \in 0..(Max - 1)
        /\ a = Max * (a \div Max) + (a % Max)
    OBVIOUS
  <2> QED
    BY <2>1 DEF Wheel!Slot
<1>2. PICK j \in Nat, t \in 0..(Max - 1) : b = Max * j + t /\ Wheel!Slot(b) = t
  <2>1. /\ b \div Max \in Nat /\ b % Max \in 0..(Max - 1)
        /\ b = Max * (b \div Max) + (b % Max)
    OBVIOUS
  <2> QED
    BY <2>1 DEF Wheel!Slot
<1>3. b - a = Max * (j - i)
  BY <1>1, <1>2
<1>4. j - i < 1
  <2>1. SUFFICES ASSUME j - i >= 1 PROVE FALSE
    OBVIOUS
  <2>2. Max * (j - i) >= Max * 1
    BY <2>1
  <2> QED
    BY <1>3, <2>2
<1>5. j - i > -1
  <2>1. SUFFICES ASSUME j - i <= -1 PROVE FALSE
    OBVIOUS
  <2>2. Max * (j - i) <= Max * (-1)
    BY <2>1
  <2> QED
    BY <1>3, <2>2
<1>6. i = j
  BY <1>4, <1>5
<1> QED
  BY <1>1, <1>2, <1>6

\* timeout_queue_initialize establishes the invariant.
LEMMA WheelInvInit == Wheel!WheelInit => Wheel!WheelInv
<1> SUFFICES ASSUME Wheel!WheelInit PROVE Wheel!WheelInv
  OBVIOUS
<1>1. Wheel!WheelTypeOK
  BY DEF Wheel!WheelInit, Wheel!WheelTypeOK, Wheel!Place
<1>2. \A t \in Timer : PlaceOf[t] = "none"
  BY DEF Wheel!WheelInit
<1>3. phase = "idle" /\ running = FALSE
  BY DEF Wheel!WheelInit
<1>4. Wheel!WheelWindow
  BY <1>2, <1>3 DEF Wheel!WheelWindow
<1> QED
  BY <1>1, <1>4 DEF Wheel!WheelInv

\* Under the invariant, the timers of the slot at the hand are due now.
LEMMA HandIsDue ==
  ASSUME Wheel!WheelInv, NEW t \in Timer, phase = "pass", Wheel!InHand(t)
  PROVE  timestamp[t] = pos
<1>1. timestamp[t] \in Nat /\ pos \in Nat /\ pos <= timestamp[t] /\ timestamp[t] < pos + Max
  BY WheelAssumption DEF Wheel!WheelInv, Wheel!WheelTypeOK, Wheel!WheelWindow, Wheel!InHand
<1> QED
  BY <1>1, SameSecond DEF Wheel!InHand

\* Every step preserves the invariant.
LEMMA WheelInvStep ==
  ASSUME Wheel!WheelInv, [Wheel!WheelNext]_(Wheel!wheelVars)
  PROVE  Wheel!WheelInv'
<1> Max \in Nat \ {0}
  BY WheelAssumption
<1> USE DEF Wheel!WheelInv, Wheel!WheelTypeOK, Wheel!WheelWindow, Wheel!Place, Wheel!Delay,
           Wheel!MayCall
<1>1. ASSUME NEW t \in Timer, NEW s \in Wheel!Delay, Wheel!WheelSchedule(t, s) PROVE Wheel!WheelInv'
  BY <1>1 DEF Wheel!WheelSchedule
<1>2. ASSUME NEW t \in Timer, Wheel!WheelRemove(t) PROVE Wheel!WheelInv'
  BY <1>2 DEF Wheel!WheelRemove
<1>3. ASSUME NEW t \in Timer, Wheel!WheelFire(t) PROVE Wheel!WheelInv'
  BY <1>3 DEF Wheel!WheelFire
<1>4. ASSUME NEW t \in Timer, Wheel!WheelMove(t) PROVE Wheel!WheelInv'
  BY <1>4 DEF Wheel!WheelMove
<1>5. CASE Wheel!WheelBegin
  BY <1>5 DEF Wheel!WheelBegin
<1>6. CASE Wheel!WheelReturn
  BY <1>6 DEF Wheel!WheelReturn
<1>7. CASE Wheel!WheelAdvance
  <2>1. \A t \in Timer : PlaceOf[t] = "wheel" => timestamp[t] # pos
    BY <1>7 DEF Wheel!WheelAdvance, Wheel!InHand
  <2> QED
    BY <1>7, <2>1 DEF Wheel!WheelAdvance
<1>8. CASE Wheel!WheelUnlock
  BY <1>8 DEF Wheel!WheelUnlock
<1>9. CASE Wheel!WheelEnd
  BY <1>9 DEF Wheel!WheelEnd
<1>10. CASE UNCHANGED Wheel!wheelVars
  BY <1>10 DEF Wheel!wheelVars
<1> QED
  BY <1>1, <1>2, <1>3, <1>4, <1>5, <1>6, <1>7, <1>8, <1>9, <1>10 DEF Wheel!WheelNext

\* The inductive invariant of the wheel: seen from the hand of timeout_queue_process, the
\* timestamps of the timers in the slots lie within one lap.
THEOREM WheelInvariant == Spec => []Wheel!WheelInv
<1>1. Wheel!WheelInv /\ [Wheel!WheelNext]_(Wheel!wheelVars) => Wheel!WheelInv'
  BY WheelInvStep
<1> QED
  BY <1>1, WheelInvInit, ListsImplementWheel, PTL DEF ImplementsWheel, Wheel!WheelSpec

\* timeout_queue_process calls a timer back in its second, neither early nor a lap late.
THEOREM QueueFiresOnTime == Spec => FiresOnTime
<1>1. ASSUME Wheel!WheelInv, [Wheel!WheelNext]_(Wheel!wheelVars)
      PROVE  [\A t \in Timer : Wheel!WheelFire(t) => timestamp[t] = pos /\ timestamp[t] <= last]_(Wheel!wheelVars)
  BY <1>1, HandIsDue DEF Wheel!WheelFire, Wheel!WheelInv, Wheel!WheelTypeOK
<1> QED
  BY <1>1, WheelInvariant, ListsImplementWheel, PTL
     DEF ImplementsWheel, Wheel!WheelSpec, FiresOnTime, Wheel!FiresOnTime

\* A pass of timeout_queue_process leaves no due timer in the slots behind it.
LEMMA NoTimerIsMissed == Wheel!WheelInv => Wheel!NoneMissed
BY DEF Wheel!WheelInv, Wheel!WheelTypeOK, Wheel!WheelWindow, Wheel!NoneMissed

\* The assertion of timeout_queue_insert holds: a slot has one due time.
LEMMA SlotsHaveOneSecond == Wheel!WheelInv => Wheel!SlotsAgree
<1> SUFFICES ASSUME Wheel!WheelInv, phase = "idle", NEW t \in Timer, NEW u \in Timer,
                    PlaceOf[t] = "wheel", PlaceOf[u] = "wheel",
                    Wheel!Slot(timestamp[t]) = Wheel!Slot(timestamp[u])
             PROVE  timestamp[t] = timestamp[u]
  BY DEF Wheel!SlotsAgree
<1>1. /\ timestamp[t] \in Nat /\ timestamp[u] \in Nat /\ last \in Nat
      /\ timestamp[t] >= last /\ timestamp[t] < last + Max
      /\ timestamp[u] >= last /\ timestamp[u] < last + Max
  BY DEF Wheel!WheelInv, Wheel!WheelTypeOK, Wheel!WheelWindow
<1>2. CASE timestamp[t] <= timestamp[u]
  BY <1>1, <1>2, SameSecond, WheelAssumption
<1>3. CASE timestamp[u] <= timestamp[t]
  BY <1>1, <1>3, SameSecond, WheelAssumption
<1> QED
  BY <1>1, <1>2, <1>3

\* No timer is left behind the hand, and the timers of a slot are due in one second: the
\* assertion in timeout_queue_insert.
THEOREM QueueKeepsTimers == Spec => []TimersKept
<1>1. Wheel!WheelInv => TimersKept
  BY NoTimerIsMissed, SlotsHaveOneSecond DEF TimersKept, Wheel!TimersKept
<1> QED
  BY <1>1, WheelInvariant, PTL

\* A set of numbers has a least one.
LEMMA LeastNumber ==
  ASSUME NEW B \in SUBSET Nat, B # {}
  PROVE  \E s \in B : \A r \in B : s <= r
<1>1. IsWellFoundedOn(OpToRel(<, Nat), Nat)
  BY NatLessThanWellFounded, Zenon
<1>2. PICK s \in B : \A r \in B : ~ (<<r, s>> \in OpToRel(<, Nat))
  BY <1>1, WFMin, Zenon
<1>3. \A r \in B : ~ (r < s)
  BY <1>2, Zenon DEF OpToRel
<1> QED
  BY <1>3

\* The sleep of net_backend_process ends before the next timer is due: the slot of every
\* timer is found among the slots ahead, since no timer is a lap away.
THEOREM SleepsInTime == Spec => []NoOversleep
<1>1. ASSUME QueueInv, Wheel!WheelInv PROVE NoOversleep
  <2> SUFFICES ASSUME phase = "idle", NEW t \in Timer, timeout_evt_is_scheduled(t)
               PROVE  \/ timeout_queue_get_next_timeout <= 1
                      \/ last + timeout_queue_get_next_timeout <= timestamp[t]
    BY DEF NoOversleep
  <2> DEFINE busy == {s \in Slots : q.events[(last + s) % Max] # Null}
             ahead == timestamp[t] - last
             first == CHOOSE s \in busy : \A r \in busy : s <= r
  <2>1. q.prev[t] \in Timer /\ last \in Nat /\ timestamp[t] \in Nat
    <3>1. Waiting = {}
      BY <1>1, PointerAssumption DEF QueueInv, WaitList
    <3> QED
      BY <1>1, <3>1, WheelAssumption DEF QueueInv, TypeOK, Waiting, Pointer, timeout_evt_is_scheduled
  <2>2. last <= timestamp[t] /\ timestamp[t] < last + Max
    <3>1. PlaceOf[t] = "wheel"
      BY <2>1, PointerAssumption DEF PlaceOf
    <3> QED
      BY <1>1, <3>1 DEF Wheel!WheelInv, Wheel!WheelWindow
  <2>3. ahead \in Slots /\ last + ahead = timestamp[t]
    BY <2>1, <2>2, WheelAssumption DEF Slots
  <2>4. ahead \in busy
    <3>1. timestamp[t] % Max \in Slots /\ t \in Members(timestamp[t] % Max)
      BY <1>1, <2>1, OwnSlot
    <3>2. q.events[timestamp[t] % Max] # Null
      BY <1>1, <3>1 DEF QueueInv, SlotList
    <3> QED
      BY <2>3, <3>2
  <2>5. busy \in SUBSET Nat /\ busy # {}
    BY <2>4, WheelAssumption DEF Slots
  <2> HIDE DEF busy
  <2>6. first \in busy /\ \A r \in busy : first <= r
    BY <2>5, LeastNumber, Zenon
  <2>7. first \in Nat /\ first <= ahead
    BY <2>4, <2>5, <2>6, Zenon
  <2>8. timeout_queue_get_next_timeout = IF first = 0 THEN 1 ELSE first
    BY <2>5 DEF timeout_queue_get_next_timeout, busy
  <2> HIDE DEF first
  <2> QED
    BY <2>1, <2>3, <2>7, <2>8
<1> QED
  BY <1>1, QueueInvariant, WheelInvariant, PTL
=============================================================================
