-------------------------- MODULE TimeoutListProof --------------------------
(***************************************************************************)
(* The operations on the linked lists of src/network/timeout.c, for any      *)
(* number of timers and slots: what each does to the list it is called for,  *)
(* and that it leaves the others alone.                                      *)
(***************************************************************************)
EXTENDS TimeoutQueue, TLAPS

Pointers == [events : [Slots -> Pointer], prev : [Timer -> Pointer \cup {Lock}],
             next : [Timer -> Pointer], head : Pointer, tail : Pointer]

-----------------------------------------------------------------------------
(* The list operations, one by one.                                         *)

\* Storing a pointer leaves the other fields alone.
LEMMA Stored ==
  ASSUME NEW p \in Pointers, NEW prv \in [Timer -> Pointer \cup {Lock}], NEW nxt \in [Timer -> Pointer],
         NEW r, r = [p EXCEPT !.prev = prv, !.next = nxt]
  PROVE  r \in Pointers
BY Zenon DEF Pointers

\* A slot's list depends on the pointers of its own timers only.
LEMMA SlotFrame ==
  ASSUME NEW p \in Pointers, NEW r \in Pointers, NEW s \in Slots, NEW M \in SUBSET Timer,
         SlotList(p, s, M), r.events[s] = p.events[s],
         \A t \in M : r.prev[t] = p.prev[t] /\ r.next[t] = p.next[t]
  PROVE  SlotList(r, s, M)
<1>1. Reached(r, r.events[s], M)
  BY DEF SlotList, Reached
<1> QED
  BY <1>1 DEF SlotList

\* So does the list of the waiting timers.
LEMMA WaitFrame ==
  ASSUME NEW p \in Pointers, NEW r \in Pointers, NEW first \in Pointer, NEW M \in SUBSET Timer,
         WaitList(p, first, M),
         \A t \in M : r.next[t] = p.next[t]
  PROVE  WaitList(r, first, M)
<1>1. Reached(r, first, M)
  BY DEF WaitList, Reached
<1> QED
  BY <1>1 DEF WaitList

\* The pointers r differ from p in slot s and in those of the timers N only, which
\* are linked in r.
Relinked(p, r, s, N) ==
  /\ r \in Pointers
  /\ r.head = p.head /\ r.tail = p.tail
  /\ \A i \in Slots : i # s => r.events[i] = p.events[i]
  /\ \A u \in Timer \ N : r.prev[u] = p.prev[u] /\ r.next[u] = p.next[u]
  /\ \A u \in N : r.prev[u] \in Timer

\* LinkLast (timeout_queue_insert, timeout_queue_unlock) touches the timer, and the
\* first and the last one of the slot.
LEMMA LinkLastFrame ==
  ASSUME NEW p \in Pointers, NEW s \in Slots, NEW M \in SUBSET Timer, SlotList(p, s, M),
         NEW t \in Timer, t \notin M
  PROVE  Relinked(p, LinkLast(p, t, s), s, M \cup {t})
<1>r. PICK r : r = LinkLast(p, t, s)
  OBVIOUS
<1> SUFFICES Relinked(p, r, s, M \cup {t})
  BY <1>r
<1> USE <1>r DEF Relinked
<1>1. CASE p.events[s] = Null
  <2> DEFINE evs == [p.events EXCEPT ![s] = t]
             prv == [p.prev EXCEPT ![t] = t]
             nxt == [p.next EXCEPT ![t] = Null]
  <2>1. M = {}
    BY <1>1 DEF SlotList
  <2>2. r = [p EXCEPT !.events = evs, !.prev = prv, !.next = nxt]
    BY <1>1, Zenon DEF LinkLast, Pointers
  <2>3. evs \in [Slots -> Pointer] /\ prv \in [Timer -> Pointer \cup {Lock}] /\ nxt \in [Timer -> Pointer]
    BY DEF Pointers, Pointer
  <2>4. r.events = evs /\ r.prev = prv /\ r.next = nxt /\ r.head = p.head /\ r.tail = p.tail
    <3> HIDE DEF evs, prv, nxt
    <3> QED
      BY <2>2 DEF Pointers
  <2>5. r \in Pointers
    <3> HIDE DEF evs, prv, nxt
    <3> QED
      BY <2>2, <2>3, Zenon DEF Pointers
  <2> QED
    BY <2>1, <2>4, <2>5, SMTT(30) DEF Pointers
<1>2. CASE p.events[s] # Null
  <2>1. p.events[s] \in M /\ p.prev[p.events[s]] \in M
    BY <1>2 DEF SlotList
  <2>2. r = [p EXCEPT !.next[p.prev[p.events[s]]] = t, !.prev[t] = p.prev[p.events[s]],
                      !.prev[p.events[s]] = t, !.next[t] = Null]
    BY <1>2 DEF LinkLast
  <2> DEFINE prv == [p.prev EXCEPT ![t] = p.prev[p.events[s]], ![p.events[s]] = t]
             nxt == [p.next EXCEPT ![p.prev[p.events[s]]] = t, ![t] = Null]
  <2>3. r = [p EXCEPT !.prev = prv, !.next = nxt]
    BY <2>1, <2>2, Zenon DEF Pointers
  <2>4. prv \in [Timer -> Pointer \cup {Lock}] /\ nxt \in [Timer -> Pointer]
    BY <2>1 DEF Pointers, Pointer
  <2>5. r \in Pointers
    <3> HIDE DEF prv, nxt
    <3> QED
      BY <2>3, <2>4, Stored, Zenon
  <2>7. \A u \in M : p.prev[u] \in Timer
    BY DEF SlotList
  <2>8. r.events = p.events /\ r.prev = prv /\ r.next = nxt /\ r.head = p.head /\ r.tail = p.tail
    <3> HIDE DEF prv, nxt
    <3> QED
      BY <2>3, Zenon DEF Pointers
  <2> QED
    BY <2>1, <2>5, <2>7, <2>8 DEF Pointers
<1> QED
  BY <1>1, <1>2

\* ... and adds the timer to the slot's list.
LEMMA LinkLastList ==
  ASSUME NEW p \in Pointers, NEW s \in Slots, NEW M \in SUBSET Timer, SlotList(p, s, M),
         NEW t \in Timer, t \notin M
  PROVE  SlotList(LinkLast(p, t, s), s, M \cup {t})
<1> DEFINE r == LinkLast(p, t, s)
           first == p.events[s]
           lst == p.prev[first]
<1> USE PointerAssumption
<1>1. CASE first = Null
  <2>1. M = {} /\ r.events[s] = t /\ r.prev[t] = t /\ r.next[t] = Null
    BY <1>1 DEF LinkLast, SlotList, Pointers, Pointer
  <2>2. Reached(r, t, M \cup {t})
    BY <2>1 DEF Reached
  <2> QED
    BY <2>1, <2>2 DEF SlotList
<1>2. CASE first # Null
  <2>1. first \in M /\ lst \in M /\ p.next[lst] = Null
    BY <1>2 DEF SlotList
  <2>2. r = [p EXCEPT !.next[lst] = t, !.prev[t] = lst, !.prev[first] = t, !.next[t] = Null]
    BY <1>2 DEF LinkLast
  <2>3. /\ r.events[s] = first
        /\ r.prev[first] = t /\ r.prev[t] = lst /\ r.next[lst] = t /\ r.next[t] = Null
        /\ \A u \in M \ {first} : r.prev[u] = p.prev[u]
        /\ \A u \in M \ {lst} : r.next[u] = p.next[u]
    BY <2>1, <2>2 DEF Pointers, Pointer
  <2>4. \A u \in M : u # first => p.prev[u] # lst
    BY <2>1, <1>2 DEF SlotList
  <2>5. Reached(r, first, M \cup {t})
    <3> SUFFICES ASSUME NEW S \in SUBSET Timer, first \in S,
                        \A u \in S \cap (M \cup {t}) : r.next[u] \in S \cup {Null}
                 PROVE  M \cup {t} \subseteq S
      BY DEF Reached
    <3>1. \A u \in S \cap M : p.next[u] \in S \cup {Null}
      BY <2>1, <2>3
    <3>2. M \subseteq S
      BY <3>1 DEF SlotList, Reached
    <3> QED
      BY <2>1, <2>3, <3>2
  <2>6. ASSUME NEW u \in M \cup {t}
        PROVE  /\ r.prev[u] \in M \cup {t}
               /\ r.next[r.prev[u]] = IF u = first THEN Null ELSE u
               /\ IF r.next[u] = Null THEN r.prev[first] = u
                  ELSE r.next[u] \in M \cup {t} /\ r.prev[r.next[u]] = u
    <3>1. CASE u = t
      BY <2>1, <2>3, <3>1
    <3>2. CASE u = first
      <4>1. IF p.next[first] = Null THEN lst = first ELSE p.next[first] \in M /\ p.prev[p.next[first]] = first
        BY <2>1 DEF SlotList
      <4> HIDE DEF r
      <4>2. r.prev[u] = t /\ r.next[t] = Null /\ t \in M \cup {t}
        BY <2>3, <3>2, Zenon
      <4>3. CASE lst = first
        BY <2>1, <2>3, <3>2, <4>2, <4>3, Zenon
      <4>4. CASE lst # first
        <5>1. r.next[u] = p.next[u] /\ u \in M /\ p.next[u] \in M /\ p.prev[p.next[u]] = u /\ r.prev[first] = t
          BY <2>1, <2>3, <3>2, <4>1, <4>4, Zenon
        <5>2. p.next[u] # first /\ p.next[u] # Null
          BY <1>2, <2>1, <3>2, <4>1, <4>4, <5>1 DEF SlotList
        <5>3. r.prev[p.next[u]] = u
          BY <2>3, <5>1, <5>2, Zenon
        <5> QED
          BY <3>2, <4>2, <5>1, <5>2, <5>3, Zenon
      <4> QED
        BY <4>3, <4>4
    <3>3. CASE u \in M \ {first}
      <4>1. /\ r.prev[u] \in M \cup {t}
            /\ r.next[r.prev[u]] = u
        BY <2>1, <2>3, <2>4, <3>3 DEF SlotList
      <4>2. IF r.next[u] = Null THEN r.prev[first] = u
                  ELSE r.next[u] \in M \cup {t} /\ r.prev[r.next[u]] = u
        BY <2>1, <2>3, <3>3 DEF SlotList
      <4> QED
        BY <4>1, <4>2, <3>3
    <3> QED
      BY <3>1, <3>2, <3>3
  <2>7. SlotList(r, s, M \cup {t})
    <3> HIDE DEF r
    <3>1. first # Null /\ M \cup {t} # {} /\ first \in M \cup {t}
      BY <1>2, <2>1, Zenon
    <3> QED
      BY <2>3, <2>5, <2>6, <3>1 DEF SlotList
  <2> QED
    BY <2>7
<1> QED
  BY <1>1, <1>2

\* Unlinking (timeout_queue_remove) touches the timer and its neighbours.
LEMMA UnlinkFrame ==
  ASSUME NEW p \in Pointers, NEW s \in Slots, NEW M \in SUBSET Timer, SlotList(p, s, M),
         NEW t \in M
  PROVE  LET r == timeout_evt_reset(Unlink(p, t, s), t) IN
         /\ r \in Pointers
         /\ r.head = p.head /\ r.tail = p.tail
         /\ r.prev[t] = Null
         /\ \A i \in Slots : i # s => r.events[i] = p.events[i]
         /\ \A u \in Timer \ M : r.prev[u] = p.prev[u] /\ r.next[u] = p.next[u]
         /\ \A u \in M \ {t} : r.prev[u] \in Timer
<1> DEFINE first == p.events[s]
           o == Unlink(p, t, s)
           r == timeout_evt_reset(o, t)
<1> USE PointerAssumption
<1>1. /\ first \in M /\ p.prev[first] \in M /\ p.prev[t] \in M
      /\ \A u \in M : p.prev[u] \in Timer
  BY DEF SlotList
<1>2. p.prev[first] # t => p.next[t] \in M
  BY DEF SlotList
<1>3. /\ o \in Pointers
      /\ o.head = p.head /\ o.tail = p.tail
      /\ \A i \in Slots : i # s => o.events[i] = p.events[i]
      /\ \A u \in Timer \ M : o.prev[u] = p.prev[u] /\ o.next[u] = p.next[u]
      /\ \A u \in M : o.prev[u] \in Timer
  <2>1. CASE first = t /\ p.prev[t] = t
    <3>1. o = [p EXCEPT !.events[s] = Null]
      BY <2>1 DEF Unlink
    <3>3. o \in Pointers
      BY <3>1, <1>1 DEF Pointers, Pointer
    <3> QED
      BY <3>3, <3>1, <1>1 DEF Pointers
  <2>2. CASE first = t /\ p.prev[t] # t
    <3>1. o = [p EXCEPT !.events[s] = p.next[t], !.prev[p.next[t]] = p.prev[t]]
      BY <2>2 DEF Unlink
    <3>2. p.next[t] \in M
      BY <1>2, <2>2
    <3>3. [p EXCEPT !.events[s] = p.next[t]] \in Pointers
      BY DEF Pointers
    <3> DEFINE p1 == [p EXCEPT !.events[s] = p.next[t]]
               prv == [p1.prev EXCEPT ![p.next[t]] = p.prev[t]]
               nxt == p1.next
    <3>4. o = [p1 EXCEPT !.prev = prv, !.next = nxt]
      BY <3>1, <3>2, <3>3, <1>1, Zenon DEF Pointers
    <3>5. prv \in [Timer -> Pointer \cup {Lock}] /\ nxt \in [Timer -> Pointer]
      BY <1>1, <3>2, <3>3 DEF Pointers, Pointer
    <3>6. o \in Pointers
      <4> HIDE DEF prv, nxt
      <4> QED
        BY <3>3, <3>4, <3>5, Stored, Zenon
    <3> QED
      BY <3>6, <3>1, <3>2, <1>1 DEF Pointers
  <2>3. CASE first # t /\ p.prev[first] = t
    <3>1. o = [p EXCEPT !.prev[first] = p.prev[t], !.next[p.prev[t]] = Null]
      BY <2>3 DEF Unlink
    <3> DEFINE prv == [p.prev EXCEPT ![first] = p.prev[t]]
               nxt == [p.next EXCEPT ![p.prev[t]] = Null]
    <3>2. o = [p EXCEPT !.prev = prv, !.next = nxt]
      BY <3>1, <1>1 DEF Pointers
    <3>3. prv \in [Timer -> Pointer \cup {Lock}] /\ nxt \in [Timer -> Pointer]
      BY <1>1 DEF Pointers, Pointer
    <3>4. o \in Pointers
      <4> HIDE DEF prv, nxt
      <4> QED
        BY <3>2, <3>3, Stored, Zenon
    <3> QED
      BY <3>4, <3>1, <1>1 DEF Pointers
  <2>4. CASE first # t /\ p.prev[first] # t
    <3>1. o = [p EXCEPT !.next[p.prev[t]] = p.next[t], !.prev[p.next[t]] = p.prev[t]]
      BY <2>4 DEF Unlink
    <3>2. p.next[t] \in M
      BY <1>2, <2>4
    <3> DEFINE prv == [p.prev EXCEPT ![p.next[t]] = p.prev[t]]
               nxt == [p.next EXCEPT ![p.prev[t]] = p.next[t]]
    <3>3. o = [p EXCEPT !.prev = prv, !.next = nxt]
      BY <3>1, <3>2, <1>1, Zenon DEF Pointers
    <3>4. prv \in [Timer -> Pointer \cup {Lock}] /\ nxt \in [Timer -> Pointer]
      BY <1>1, <3>2 DEF Pointers, Pointer
    <3>5. o \in Pointers
      <4> HIDE DEF prv, nxt
      <4> QED
        BY <3>3, <3>4, Stored, Zenon
    <3> QED
      BY <3>5, <3>1, <3>2, <1>1 DEF Pointers
  <2> QED
    BY <2>1, <2>2, <2>3, <2>4
<1>4. r = [o EXCEPT !.prev[t] = Null, !.next[t] = Null]
  BY DEF timeout_evt_reset
<1> HIDE DEF o
<1>5. r \in Pointers
  <2> DEFINE prv == [o.prev EXCEPT ![t] = Null]
             nxt == [o.next EXCEPT ![t] = Null]
  <2>1. r = [o EXCEPT !.prev = prv, !.next = nxt]
    BY <1>3, <1>4 DEF Pointers
  <2>2. prv \in [Timer -> Pointer \cup {Lock}] /\ nxt \in [Timer -> Pointer]
    BY <1>3 DEF Pointers, Pointer
  <2> HIDE DEF prv, nxt
  <2> QED
    BY <1>3, <2>1, <2>2, Stored, Zenon
<1>6. /\ r.events = o.events /\ r.head = o.head /\ r.tail = o.tail
      /\ r.prev[t] = Null
      /\ \A u \in Timer \ {t} : r.prev[u] = o.prev[u] /\ r.next[u] = o.next[u]
  BY <1>3, <1>4 DEF Pointers
<1> HIDE DEF r
<1>7. /\ r \in Pointers
      /\ r.head = p.head /\ r.tail = p.tail
      /\ r.prev[t] = Null
      /\ \A i \in Slots : i # s => r.events[i] = p.events[i]
      /\ \A u \in Timer \ M : r.prev[u] = p.prev[u] /\ r.next[u] = p.next[u]
      /\ \A u \in M \ {t} : r.prev[u] \in Timer
  BY <1>3, <1>5, <1>6
<1> QED
  BY <1>7 DEF r, o

\* ... and leaves the list of the others.
LEMMA UnlinkList ==
  ASSUME NEW p \in Pointers, NEW s \in Slots, NEW M \in SUBSET Timer, SlotList(p, s, M),
         NEW t \in M
  PROVE  SlotList(timeout_evt_reset(Unlink(p, t, s), t), s, M \ {t})
<1> DEFINE first == p.events[s]
           N == M \ {t}
           r == timeout_evt_reset(Unlink(p, t, s), t)
           Linked(u) == /\ r.prev[u] \in N
                        /\ r.next[r.prev[u]] = IF u = r.events[s] THEN Null ELSE u
                        /\ IF r.next[u] = Null THEN r.prev[r.events[s]] = u
                           ELSE r.next[u] \in N /\ r.prev[r.next[u]] = u
<1> USE PointerAssumption
<1>1. /\ first \in M /\ first # Null /\ p.prev[first] \in M /\ p.prev[t] \in M
      /\ p.next[p.prev[first]] = Null
      /\ Reached(p, first, M)
  BY DEF SlotList
<1>2. \A u \in M : /\ p.prev[u] \in M
                   /\ u # first => p.next[p.prev[u]] = u
                   /\ p.next[u] = Null <=> p.prev[first] = u
                   /\ p.next[u] # Null => p.next[u] \in M \ {first} /\ p.prev[p.next[u]] = u
  BY <1>1 DEF SlotList
<1> DEFINE Closed(S) == first \in S /\ \A u \in S \cap M : p.next[u] \in S \cup {Null}
<1>12. ASSUME NEW S \in SUBSET Timer, Closed(S) PROVE M \subseteq S
  BY <1>12, <1>1 DEF Reached
<1> HIDE DEF Closed
<1>13. ASSUME NEW u \in M, u # first PROVE p.prev[u] # u
  <2> SUFFICES ASSUME p.prev[u] = u PROVE FALSE
    OBVIOUS
  <2>1. Closed(M \ {u})
    BY <1>1, <1>2, <1>13 DEF Closed
  <2>2. M \subseteq M \ {u}
    BY <2>1, <1>12
  <2> QED
    BY <2>2
<1>3. CASE first = t /\ p.prev[t] = t
  <2>1. r = [p EXCEPT !.events[s] = Null, !.prev[t] = Null, !.next[t] = Null]
    BY <1>3, Zenon DEF Unlink, timeout_evt_reset, Pointers
  <2>2. M \subseteq {t}
    <3>1. Closed({t})
      BY <1>1, <1>2, <1>3 DEF Closed
    <3> QED
      BY <3>1, <1>12
  <2>3. r.events[s] = Null /\ N = {}
    BY <2>1, <2>2 DEF Pointers
  <2>4. Reached(r, Null, {})
    BY DEF Reached
  <2> QED
    BY <2>3, <2>4 DEF SlotList
<1>4. CASE first = t /\ p.prev[t] # t
  <2> DEFINE n == p.next[t]
  <2>1. n \in N /\ p.prev[n] = t
    BY <1>1, <1>2, <1>4
  <2>2. r = [p EXCEPT !.events[s] = n, !.prev = [@ EXCEPT ![n] = p.prev[t], ![t] = Null],
                      !.next[t] = Null]
    BY <1>4, <2>1, ZenonT(30) DEF Unlink, timeout_evt_reset, Pointers
  <2>3. /\ r.events[s] = n /\ r.prev[n] = p.prev[t]
        /\ \A u \in N : r.next[u] = p.next[u]
        /\ \A u \in N \ {n} : r.prev[u] = p.prev[u]
    BY <2>1, <2>2 DEF Pointers
  <2>4. Reached(r, n, N)
    <3> SUFFICES ASSUME NEW S \in SUBSET Timer, n \in S,
                        \A u \in S \cap N : r.next[u] \in S \cup {Null}
                 PROVE  N \subseteq S
      BY DEF Reached
    <3>1. Closed(S \cup {t})
      BY <1>4, <2>3 DEF Closed
    <3>2. M \subseteq S \cup {t}
      BY <3>1, <1>12
    <3> QED
      BY <3>2
  <2>5. ASSUME NEW u \in N PROVE Linked(u)
    BY <1>1, <1>2, <1>4, <2>1, <2>3
  <2> QED
    <3>1. SlotList(r, s, N)
      <4> HIDE DEF r, n
      <4> QED
        BY <2>1, <2>3, <2>4, <2>5 DEF SlotList
    <3> QED
      BY <3>1
<1>5. CASE first # t /\ p.prev[first] = t
  <2> DEFINE l == p.prev[t]
  <2>1. l \in N /\ p.next[l] = t /\ p.next[t] = Null
    BY <1>1, <1>2, <1>5
  <2>2. r = [p EXCEPT !.prev = [@ EXCEPT ![first] = l, ![t] = Null],
                      !.next = [@ EXCEPT ![l] = Null, ![t] = Null]]
    BY <1>1, <1>5, <2>1, ZenonT(30) DEF Unlink, timeout_evt_reset, Pointers
  <2>3. /\ r.events[s] = first /\ r.prev[first] = l /\ r.next[l] = Null
        /\ \A u \in N \ {l} : r.next[u] = p.next[u]
        /\ \A u \in N \ {first} : r.prev[u] = p.prev[u]
    BY <1>1, <1>5, <2>1, <2>2 DEF Pointers
  <2>4. Reached(r, first, N)
    <3> SUFFICES ASSUME NEW S \in SUBSET Timer, first \in S,
                        \A u \in S \cap N : r.next[u] \in S \cup {Null}
                 PROVE  N \subseteq S
      BY DEF Reached
    <3>1. Closed(S \cup {t})
      BY <2>1, <2>3 DEF Closed
    <3>2. M \subseteq S \cup {t}
      BY <3>1, <1>12
    <3> QED
      BY <3>2
  <2>5. ASSUME NEW u \in N PROVE Linked(u)
    <3> HIDE DEF r, l
    <3> QED
      BY <1>1, <1>2, <1>5, <2>1, <2>3
  <2>6. SlotList(r, s, N)
    <3> HIDE DEF r, l
    <3>1. first # Null /\ first \in N
      BY <1>1, <1>5
    <3> QED
      BY <2>3, <2>4, <2>5, <3>1 DEF SlotList
  <2> QED
    BY <2>6
<1>6. CASE first # t /\ p.prev[first] # t
  <2> DEFINE l == p.prev[t]
             n == p.next[t]
  <2>1. l \in N /\ n \in N /\ p.next[l] = t /\ p.prev[n] = t /\ n # first
    BY <1>1, <1>2, <1>6, <1>13
  <2>2. r = [p EXCEPT !.prev = [@ EXCEPT ![n] = l, ![t] = Null],
                      !.next = [@ EXCEPT ![l] = n, ![t] = Null]]
    BY <1>1, <1>6, <2>1, Zenon DEF Unlink, timeout_evt_reset, Pointers
  <2>3. /\ r.events[s] = first /\ r.prev[n] = l /\ r.next[l] = n
        /\ \A u \in N \ {l} : r.next[u] = p.next[u]
        /\ \A u \in N \ {n} : r.prev[u] = p.prev[u]
    BY <1>1, <1>6, <2>1, <2>2 DEF Pointers
  <2>4. Reached(r, first, N)
    <3> SUFFICES ASSUME NEW S \in SUBSET Timer, first \in S,
                        \A u \in S \cap N : r.next[u] \in S \cup {Null}
                 PROVE  N \subseteq S
      BY DEF Reached
    <3>1. CASE l \in S
      <4>1. Closed(S \cup {t})
        BY <2>1, <2>3, <3>1 DEF Closed
      <4>2. M \subseteq S \cup {t}
        BY <4>1, <1>12
      <4> QED
        BY <4>2
    <3>2. CASE l \notin S
      <4>1. Closed(S \ {t})
        BY <1>2, <1>6, <2>1, <2>3, <3>2 DEF Closed
      <4>2. M \subseteq S \ {t}
        BY <4>1, <1>12
      <4> QED
        BY <4>2
    <3> QED
      BY <3>1, <3>2
  <2>5. ASSUME NEW u \in N PROVE Linked(u)
    <3> HIDE DEF r, l, n
    <3> QED
      BY <1>1, <1>2, <1>6, <2>1, <2>3
  <2>6. SlotList(r, s, N)
    <3> HIDE DEF r, l, n
    <3>1. first # Null /\ first \in N
      BY <1>1, <1>6
    <3> QED
      BY <2>3, <2>4, <2>5, <3>1 DEF SlotList
  <2> QED
    BY <2>6
<1> QED
  BY <1>3, <1>4, <1>5, <1>6

-----------------------------------------------------------------------------
(* The list of the timers that wait for the end of a pass.                  *)

\* The pointers r differ from p in the waiting list M, to which timer t was added.
Queued(p, r, M, t) ==
  /\ r \in Pointers
  /\ r.events = p.events
  /\ r.prev[t] = Lock
  /\ \A u \in Timer \ {t} : r.prev[u] = p.prev[u]
  /\ \A u \in Timer \ (M \cup {t}) : r.next[u] = p.next[u]

\* timeout_queue_insert_locked touches the timer, the tail and the timer there.
LEMMA InsertLockedFrame ==
  ASSUME NEW p \in Pointers, NEW M \in SUBSET Timer,
         WaitList(p, p.head, M), TailOf(p, M), NEW t \in Timer, t \notin M
  PROVE  Queued(p, timeout_queue_insert_locked(p, t), M, t)
<1> USE DEF Queued
<1> DEFINE r == timeout_queue_insert_locked(p, t)
           prv == [p.prev EXCEPT ![t] = Lock]
           nx1 == [p.next EXCEPT ![t] = Null]
           nx2 == [p.next EXCEPT ![t] = Null, ![p.tail] = t]
<1> USE PointerAssumption
<1>1. p.tail # Null => p.tail \in M
  BY DEF TailOf
<1>2. /\ prv \in [Timer -> Pointer \cup {Lock}]
      /\ nx1 \in [Timer -> Pointer]
      /\ p.tail # Null => nx2 \in [Timer -> Pointer]
  BY <1>1 DEF Pointers, Pointer
<1>3. CASE p.tail = Null
  <2>1. r = [p EXCEPT !.prev = prv, !.next = nx1, !.tail = t, !.head = t]
    BY <1>3 DEF timeout_queue_insert_locked, Pointers
  <2>2. r \in Pointers
    <3> HIDE DEF prv, nx1, r
    <3> QED
      BY <2>1, <1>2, Zenon DEF Pointers, Pointer
  <2> QED
    BY <2>1, <2>2 DEF Pointers
<1>4. CASE p.tail # Null
  <2>1. r = [p EXCEPT !.prev = prv, !.next = nx2, !.tail = t]
    BY <1>4, <1>1, Zenon DEF timeout_queue_insert_locked, Pointers
  <2>2. r \in Pointers
    <3> HIDE DEF prv, nx2, r
    <3> QED
      BY <2>1, <1>2, <1>4, Zenon DEF Pointers, Pointer
  <2> QED
    BY <2>1, <2>2, <1>1, <1>4 DEF Pointers
<1> QED
  BY <1>3, <1>4

\* ... and adds the timer at the end of the list.
LEMMA InsertLockedList ==
  ASSUME NEW p \in Pointers, NEW M \in SUBSET Timer,
         WaitList(p, p.head, M), TailOf(p, M), NEW t \in Timer, t \notin M
  PROVE  LET r == timeout_queue_insert_locked(p, t)
         IN  WaitList(r, r.head, M \cup {t}) /\ TailOf(r, M \cup {t})
<1> DEFINE r == timeout_queue_insert_locked(p, t)
<1> USE PointerAssumption
<1>1. CASE p.tail = Null
  <2>1. M = {}
    BY <1>1 DEF TailOf, WaitList
  <2>2. r.head = t /\ r.tail = t /\ r.next[t] = Null
    BY <1>1 DEF timeout_queue_insert_locked, Pointers
  <2>3. Reached(r, t, M \cup {t})
    BY <2>1 DEF Reached
  <2> HIDE DEF r
  <2>4. WaitList(r, r.head, M \cup {t})
    BY <2>1, <2>2, <2>3 DEF WaitList
  <2>5. TailOf(r, M \cup {t})
    BY <2>1, <2>2 DEF TailOf
  <2> QED
    BY <2>4, <2>5 DEF r
<1>2. CASE p.tail # Null
  <2>1. /\ p.tail \in M /\ p.head \in M
        /\ \A u \in M : p.next[u] = Null <=> u = p.tail
    BY <1>2 DEF TailOf, WaitList
  <2>2. /\ r.head = p.head /\ r.tail = t
        /\ r.next[t] = Null /\ r.next[p.tail] = t
        /\ \A u \in M \ {p.tail} : r.next[u] = p.next[u]
    BY <1>2, <2>1 DEF timeout_queue_insert_locked, Pointers
  <2>3. /\ \A u \in M : p.next[u] \in (M \ {p.head}) \cup {Null}
        /\ \A u, v \in M : p.next[u] = p.next[v] /\ p.next[u] # Null => u = v
        /\ Reached(p, p.head, M)
    BY DEF WaitList
  <2> HIDE DEF r
  <2>4. Reached(r, p.head, M \cup {t})
    <3> SUFFICES ASSUME NEW S \in SUBSET Timer, p.head \in S,
                        \A u \in S \cap (M \cup {t}) : r.next[u] \in S \cup {Null}
                 PROVE  M \cup {t} \subseteq S
      BY DEF Reached
    <3>1. \A u \in S \cap M : p.next[u] \in S \cup {Null}
      BY <2>1, <2>2
    <3>2. M \subseteq S
      BY <3>1, <2>3 DEF Reached
    <3> QED
      BY <2>1, <2>2, <3>2
  <2>5. \A u \in M \cup {t} : r.next[u] \in ((M \cup {t}) \ {p.head}) \cup {Null}
    BY <2>1, <2>2, <2>3
  <2>6. \A u, v \in M \cup {t} : r.next[u] = r.next[v] /\ r.next[u] # Null => u = v
    BY <2>1, <2>2, <2>3
  <2>7. WaitList(r, r.head, M \cup {t})
    BY <2>1, <2>2, <2>4, <2>5, <2>6 DEF WaitList
  <2>8. TailOf(r, M \cup {t})
    BY <2>1, <2>2 DEF TailOf
  <2> QED
    BY <2>7, <2>8 DEF r
<1> QED
  BY <1>1, <1>2

\* The predecessor that timeout_queue_remove_locked walks to exists, and is the only one.
LEMMA OnePredecessor ==
  ASSUME NEW p \in Pointers, NEW M \in SUBSET Timer, NEW first \in Pointer,
         WaitList(p, first, M), NEW t \in M, first # t
  PROVE  \E b \in M : b # t /\ {u \in M : p.next[u] = t} = {b}
<1> USE PointerAssumption
<1>1. PICK b \in M : p.next[b] = t /\ b # t
  <2> SUFFICES ASSUME \A b \in M : p.next[b] = t => b = t PROVE FALSE
    OBVIOUS
  <2>1. /\ first \in M \ {t}
        /\ \A u \in (M \ {t}) \cap M : p.next[u] \in (M \ {t}) \cup {Null}
    BY DEF WaitList
  <2>2. M \ {t} \in SUBSET Timer
    OBVIOUS
  <2>3. M \subseteq M \ {t}
    BY <2>1, <2>2, Zenon DEF WaitList, Reached
  <2> QED
    BY <2>3
<1>2. \A u \in M : p.next[u] = t => u = b
  BY <1>1 DEF WaitList
<1> QED
  BY <1>1, <1>2

\* timeout_queue_remove_locked touches the timer, its predecessor, head and tail, and
\* leaves the list of the others.
LEMMA RemoveLocked ==
  ASSUME NEW p \in Pointers, NEW M \in SUBSET Timer, M = {u \in Timer : p.prev[u] = Lock},
         WaitList(p, p.head, M), TailOf(p, M), NEW t \in M
  PROVE  LET r == timeout_queue_remove_locked(p, t) IN
         /\ r \in Pointers
         /\ r.events = p.events
         /\ r.prev[t] = Null
         /\ \A u \in Timer \ {t} : r.prev[u] = p.prev[u]
         /\ \A u \in Timer \ M : r.next[u] = p.next[u]
         /\ WaitList(r, r.head, M \ {t}) /\ TailOf(r, M \ {t})
<1> DEFINE r == timeout_queue_remove_locked(p, t)
           before == {b \in Timer : p.prev[b] = Lock /\ p.next[b] = t}
           prv == [p.prev EXCEPT ![t] = Null]
           N == M \ {t}
           Closed(S) == p.head \in S /\ \A u \in S \cap M : p.next[u] \in S \cup {Null}
<1> USE PointerAssumption
<1>1. /\ M \in SUBSET Timer /\ p.head \in M /\ p.tail \in M
      /\ \A u \in M : p.next[u] = Null <=> u = p.tail
      /\ \A u \in M : p.next[u] \in (M \ {p.head}) \cup {Null}
      /\ \A u, v \in M : p.next[u] = p.next[v] /\ p.next[u] # Null => u = v
  BY DEF WaitList, TailOf
<1>2. ASSUME NEW S \in SUBSET Timer, Closed(S) PROVE M \subseteq S
  BY <1>2 DEF WaitList, Reached
<1> HIDE DEF Closed
<1>3. prv \in [Timer -> Pointer \cup {Lock}]
  BY DEF Pointers, Pointer
<1>4. CASE p.head = t
  <2> DEFINE nxt == [p.next EXCEPT ![t] = Null]
             tl == IF p.tail = t THEN p.next[t] ELSE p.tail
  <2>1. r = [p EXCEPT !.head = p.next[t], !.tail = tl, !.prev = prv, !.next = nxt]
    BY <1>4 DEF timeout_queue_remove_locked, timeout_evt_reset, Pointers
  <2>2. nxt \in [Timer -> Pointer] /\ tl \in Pointer /\ p.next[t] \in Pointer
    BY <1>1 DEF Pointers, Pointer
  <2>3. r \in Pointers
    <3> HIDE DEF prv, nxt, tl, r
    <3> QED
      BY <2>1, <2>2, <1>3, Zenon DEF Pointers
  <2>4. /\ r.events = p.events /\ r.prev[t] = Null /\ r.head = p.next[t] /\ r.tail = tl
        /\ \A u \in Timer \ {t} : r.prev[u] = p.prev[u] /\ r.next[u] = p.next[u]
    BY <2>1 DEF Pointers
  <2> HIDE DEF r
  <2>5. CASE p.next[t] = Null
    <3>1. M \subseteq {t}
      <4>1. Closed({t})
        BY <1>4, <2>5 DEF Closed
      <4> QED
        BY <1>1, <1>2, <4>1
    <3>2. r.head = Null /\ r.tail = Null /\ N = {}
      BY <1>1, <2>4, <2>5, <3>1
    <3>3. Reached(r, Null, {})
      BY DEF Reached
    <3>4. WaitList(r, r.head, N) /\ TailOf(r, N)
      BY <3>2, <3>3 DEF WaitList, TailOf
    <3> QED
      BY <1>1, <2>3, <2>4, <3>4 DEF r
  <2>6. CASE p.next[t] # Null
    <3>1. r.head \in N /\ r.tail = p.tail /\ r.tail \in N
      BY <1>1, <1>4, <2>4, <2>6
    <3>2. Reached(r, r.head, N)
      <4> SUFFICES ASSUME NEW S \in SUBSET Timer, r.head \in S,
                          \A u \in S \cap N : r.next[u] \in S \cup {Null}
                   PROVE  N \subseteq S
        BY DEF Reached
      <4>1. Closed(S \cup {t})
        BY <1>1, <1>4, <2>4 DEF Closed
      <4>2. M \subseteq S \cup {t}
        BY <1>1, <1>2, <4>1
      <4> QED
        BY <4>2
    <3>3. \A u \in N : r.next[u] \in (N \ {r.head}) \cup {Null}
      <4> SUFFICES ASSUME NEW u \in N PROVE r.next[u] \in (N \ {r.head}) \cup {Null}
        OBVIOUS
      <4>1. u \in M /\ u # t /\ r.next[u] = p.next[u] /\ r.head = p.next[t]
        BY <1>1, <2>4, Zenon
      <4>2. p.next[u] \in M \cup {Null} /\ p.next[u] # t
        BY <1>1, <1>4, <4>1, Zenon
      <4>3. p.next[u] # Null => p.next[u] # p.next[t]
        BY <1>1, <4>1, Zenon
      <4> QED
        BY <4>1, <4>2, <4>3, Zenon
    <3>4. WaitList(r, r.head, N)
      <4>1. \A u, v \in N : r.next[u] = r.next[v] /\ r.next[u] # Null => u = v
        <5>1. \A u \in N : u \in M /\ u \in Timer \ {t}
          BY <1>1, Zenon
        <5>2. \A u \in N : r.next[u] = p.next[u]
          BY <2>4, <5>1, Zenon
        <5>3. \A u, v \in M : p.next[u] = p.next[v] /\ p.next[u] # Null => u = v
          BY <1>1
        <5> QED
          BY <5>1, <5>2, <5>3
      <4>2. r.head # Null
        BY <2>4, <2>6, Zenon
      <4> QED
        BY <3>1, <3>2, <3>3, <4>1, <4>2, Zenon DEF WaitList
    <3>5. TailOf(r, N)
      BY <1>1, <2>4, <3>1 DEF TailOf
    <3> QED
      BY <1>1, <2>3, <2>4, <3>4, <3>5 DEF r
  <2> QED
    BY <2>5, <2>6
<1>5. CASE p.head # t
  <2>1. PICK b \in M : b # t /\ {u \in M : p.next[u] = t} = {b}
    BY <1>1, <1>5, OnePredecessor DEF Pointers
  <2>2. before = {b}
    BY <2>1
  <2> DEFINE nxt == [p.next EXCEPT ![b] = p.next[t], ![t] = Null]
             tl == IF p.next[t] = Null THEN b ELSE p.tail
  <2>3. [p.next EXCEPT ![b] = p.next[t]] = [u \in Timer |-> IF u \in before THEN p.next[t] ELSE p.next[u]]
    BY <1>1, <2>2 DEF Pointers
  <2>4. r = [p EXCEPT !.tail = tl, !.prev = prv, !.next = nxt]
    <3>1. (CHOOSE c \in before : TRUE) = b /\ before # {}
      BY <2>2
    <3> HIDE DEF before
    <3> QED
      BY <1>5, <2>3, <3>1, ZenonT(30) DEF timeout_queue_remove_locked, timeout_evt_reset, Pointers, before
  <2>5. nxt \in [Timer -> Pointer] /\ tl \in Pointer
    BY <1>1, <2>1 DEF Pointers, Pointer
  <2>6. r \in Pointers
    <3> HIDE DEF prv, nxt, tl, r
    <3> QED
      BY <2>4, <2>5, <1>3, Zenon DEF Pointers
  <2>7. /\ r.events = p.events /\ r.prev[t] = Null /\ r.head = p.head /\ r.tail = tl
        /\ r.next[b] = p.next[t]
        /\ \A u \in Timer \ {t} : r.prev[u] = p.prev[u]
        /\ \A u \in Timer \ {t, b} : r.next[u] = p.next[u]
    BY <1>1, <2>1, <2>4 DEF Pointers
  <2> HIDE DEF r
  <2>8. p.next[b] = t /\ \A u \in M : p.next[u] = t => u = b
    BY <2>1
  <2>9. Reached(r, p.head, N)
    <3> SUFFICES ASSUME NEW S \in SUBSET Timer, p.head \in S,
                        \A u \in S \cap N : r.next[u] \in S \cup {Null}
                 PROVE  N \subseteq S
      BY DEF Reached
    <3>1. CASE b \in S
      <4>1. Closed(S \cup {t})
        BY <1>1, <2>1, <2>7, <2>8, <3>1 DEF Closed
      <4>2. M \subseteq S \cup {t}
        BY <1>1, <1>2, <4>1
      <4> QED
        BY <4>2
    <3>2. CASE b \notin S
      <4>1. Closed(S \ {t})
        BY <1>1, <1>5, <2>7, <2>8, <3>2 DEF Closed
      <4>2. M \subseteq S \ {t}
        BY <1>2, <4>1
      <4> QED
        BY <4>2
    <3> QED
      BY <3>1, <3>2
  <2>10. \A u \in N : r.next[u] \in (N \ {p.head}) \cup {Null}
    BY <1>1, <2>1, <2>7, <2>8
  <2>11. \A u, v \in N : r.next[u] = r.next[v] /\ r.next[u] # Null => u = v
    BY <1>1, <2>1, <2>7, <2>8
  <2>12. WaitList(r, r.head, N)
    BY <1>1, <1>5, <2>7, <2>9, <2>10, <2>11 DEF WaitList
  <2>13. TailOf(r, N)
    BY <1>1, <1>5, <2>1, <2>7, <2>8 DEF TailOf
  <2> QED
    BY <1>1, <2>6, <2>7, <2>12, <2>13 DEF r
<1> QED
  BY <1>4, <1>5

\* timeout_queue_unlock goes on to the rest of the list.
LEMMA WaitRest ==
  ASSUME NEW p \in Pointers, NEW M \in SUBSET Timer, NEW e \in M, WaitList(p, e, M)
  PROVE  WaitList(p, p.next[e], M \ {e})
<1> USE PointerAssumption
<1>1. /\ \A u \in M : p.next[u] \in (M \ {e}) \cup {Null}
      /\ \A u, v \in M : p.next[u] = p.next[v] /\ p.next[u] # Null => u = v
  BY DEF WaitList
<1>2. ASSUME NEW S \in SUBSET Timer, p.next[e] \in S \cup {Null},
             \A u \in S \cap (M \ {e}) : p.next[u] \in S \cup {Null}
      PROVE  M \ {e} \subseteq S
  <2>1. /\ e \in S \cup {e} /\ S \cup {e} \in SUBSET Timer
        /\ \A u \in (S \cup {e}) \cap M : p.next[u] \in (S \cup {e}) \cup {Null}
    BY <1>2
  <2>2. M \subseteq S \cup {e}
    BY <2>1, Zenon DEF WaitList, Reached
  <2> QED
    BY <2>2
<1>3. Reached(p, p.next[e], M \ {e})
  BY <1>2 DEF Reached
<1>4. p.next[e] = Null => M \ {e} = {}
  <2>1. {} \in SUBSET Timer
    OBVIOUS
  <2> QED
    BY <2>1, <1>2, Zenon
<1> QED
  BY <1>1, <1>3, <1>4 DEF WaitList
=============================================================================
