---------------------------- MODULE TrafficProof ----------------------------
(***************************************************************************)
(* What the hub takes in, and in which order: flood control bounds what a user *)
(* gets through and refuses nothing without cause, for any limits (FloodUser),  *)
(* and the two lists of src/core/eventqueue.c implement the FIFO queue that     *)
(* the hub expects, for any set of events and any bound (EventQueue).           *)
(***************************************************************************)
EXTENDS EventQueue, FloodUser, SequenceTheorems, FiniteSetTheorems, TLAPS

-----------------------------------------------------------------------------
(* Flood control: one message                                                  *)

\* What flood_control_check answers: it is disabled, or the message starts a
\* window, or is counted in the window and may hit the limit.
LEMMA FloodCheck ==
  ASSUME NEW f \in FloodState, NEW c, c = flood_control_check(f.ctl, f.max, f.delay, f.now)
  PROVE  /\ c.ctl \in [time : Nat, count : Nat] /\ c.hit \in BOOLEAN
         /\ ~ Limiting(f) => c.hit = FALSE
         /\ Limiting(f) =>
              \/ /\ f.ctl.time = 0 \/ f.now - f.ctl.time > f.delay
                 /\ c.ctl.time = f.now /\ c.ctl.count = 1 /\ c.hit = FALSE
              \/ /\ f.ctl.time # 0 /\ f.now - f.ctl.time <= f.delay
                 /\ c.ctl.count = f.ctl.count + 1
                 /\ IF f.ctl.count + 1 < f.max THEN c.hit = FALSE /\ c.ctl.time = f.ctl.time
                    ELSE c.hit = TRUE /\ c.ctl.time = f.now
<1>1. f.ctl = [time |-> f.ctl.time, count |-> f.ctl.count] /\ f.ctl.time \in Nat /\ f.ctl.count \in Nat
      /\ f.max \in Nat /\ f.delay \in Nat /\ f.now \in Nat
  BY DEF FloodState
<1> QED
  BY <1>1 DEF flood_control_check, Limiting

\* A message adds an entry to the log and leaves the others as they are.
Logged(f, g, c, u) ==
  LET n == Len(f.log)
  IN /\ g \in FloodState /\ n \in Nat
     /\ g.max = f.max /\ g.delay = f.delay /\ g.now = f.now
     /\ g.ctl = c.ctl /\ g.warned = (f.warned \/ ~ Passes(c, u))
     /\ DOMAIN f.log = 1..n /\ DOMAIN g.log = 1..(n + 1) /\ Len(g.log) = n + 1
     /\ \A i \in 1..n : g.log[i] = f.log[i]
     /\ LET e == g.log[n + 1]
        IN  e.at = f.now /\ e.free = u /\ e.hit = c.hit /\ e.pass = Passes(c, u) /\ e.count = c.ctl.count

\* CHECK_FLOOD counts the message, and the warning goes out when it is refused.
LEMMA MessageLogged ==
  ASSUME NEW f \in FloodState, NEW u \in BOOLEAN, NEW c,
         c.ctl \in [time : Nat, count : Nat], c.hit \in BOOLEAN
  PROVE  Logged(f, Checked(f, c, u), c, u)
<1> DEFINE n == Len(f.log)
           e == [at |-> f.now, free |-> u, hit |-> c.hit, pass |-> Passes(c, u), count |-> c.ctl.count]
           g == Checked(f, c, u)
           w == f.warned \/ ~ Passes(c, u)
<1>1. Passes(c, u) \in BOOLEAN /\ w \in BOOLEAN
  BY Zenon DEF Passes
<1>2. f.log \in Seq(FloodEntry) /\ f.now \in Nat \ {0}
  BY DEF FloodState
<1>3. e \in FloodEntry
  BY <1>1, <1>2 DEF FloodEntry
<1>4. e.at = f.now /\ e.free = u /\ e.hit = c.hit /\ e.pass = Passes(c, u) /\ e.count = c.ctl.count
  OBVIOUS
<1>5. g = [f EXCEPT !.ctl = c.ctl, !.warned = w, !.log = Append(f.log, e)]
  BY Zenon DEF Checked
<1> HIDE DEF e, w, g
<1>6. /\ n \in Nat /\ DOMAIN f.log = 1..n /\ Append(f.log, e) \in Seq(FloodEntry)
      /\ DOMAIN Append(f.log, e) = 1..(n + 1) /\ Len(Append(f.log, e)) = n + 1
      /\ \A i \in 1..n : Append(f.log, e)[i] = f.log[i]
      /\ Append(f.log, e)[n + 1] = e
  BY <1>2, <1>3
<1>7. /\ g.max = f.max /\ g.delay = f.delay /\ g.now = f.now
      /\ g.ctl = c.ctl /\ g.warned = w /\ g.log = Append(f.log, e)
  BY <1>5, Zenon DEF FloodState
<1>8. g \in FloodState
  BY <1>1, <1>5, <1>6, Zenon DEF FloodState
<1> QED
  BY <1>4, <1>6, <1>7, <1>8, Zenon DEF Logged, w, g

\* What is logged of a message, and what a window lets through.
LEMMA LogFacts ==
  ASSUME NEW f \in FloodState
  PROVE  /\ Len(f.log) \in Nat /\ DOMAIN f.log = 1..Len(f.log)
         /\ f.max \in Nat /\ f.delay \in Nat
         /\ Quota(f) \in Nat \ {0} /\ Quota(f) + 1 >= f.max
         /\ \A j \in DOMAIN f.log : f.log[j].at \in Nat /\ f.log[j].count \in Nat
<1>1. f.log \in Seq(FloodEntry) /\ f.max \in Nat /\ f.delay \in Nat
  BY Zenon DEF FloodState
<1>2. Len(f.log) \in Nat /\ DOMAIN f.log = 1..Len(f.log) /\ \A j \in DOMAIN f.log : f.log[j] \in FloodEntry
  BY <1>1
<1>3. Quota(f) \in Nat \ {0} /\ Quota(f) + 1 >= f.max
  BY <1>1 DEF Quota
<1> QED
  BY <1>1, <1>2, <1>3, Zenon DEF FloodEntry

\* The messages logged before keep their place in their windows.
LEMMA OldMessages ==
  ASSUME NEW f \in FloodState, NEW u, NEW c, NEW g, Logged(f, g, c, u), Counted(f), Timed(f),
         NEW j \in DOMAIN f.log
  PROVE  CountedAt(g, j) /\ TimedAt(g, j)
<1>1. PICK n : n = Len(f.log)
  OBVIOUS
<1>2. /\ n \in Nat /\ DOMAIN f.log = 1..n /\ \A i \in 1..n : g.log[i] = f.log[i]
      /\ g.max = f.max /\ g.delay = f.delay /\ g.now = f.now
  BY <1>1, Zenon DEF Logged
<1>3. (\A i \in 1..j : i \in 1..n) /\ (\A i \in 1..(j - 1) : i \in 1..n) /\ j \in 1..n
  BY <1>2
<1>4. Quota(g) = Quota(f) /\ g.log[j] = f.log[j]
  BY <1>2, <1>3, Zenon DEF Quota
<1>5. \A i \in 1..n : /\ g.log[i] = f.log[i] /\ WindowStart(g, i) = WindowStart(f, i) /\ (Anchor(g, i) <=> Anchor(f, i))
                      /\ Within(g, i, j) <=> Within(f, i, j)
  BY <1>2, <1>4, Zenon DEF WindowStart, Anchor, Within
<1>6. CountedAt(f, j) /\ TimedAt(f, j)
  BY Zenon DEF Counted, Timed
<1>7. CountedAt(g, j)
  BY <1>3, <1>4, <1>5, <1>6, Zenon DEF CountedAt
<1>8. TimedAt(g, j)
  BY <1>2, <1>3, <1>4, <1>5, <1>6, Zenon DEF TimedAt
<1> QED
  BY <1>7, <1>8

\* The last entry of the log.
Latest(f, g, c, n) ==
  /\ n \in Nat /\ n = Len(f.log) /\ DOMAIN f.log = 1..n
  /\ g.now = f.now /\ Quota(g) = Quota(f) /\ g.ctl = c.ctl /\ g.delay = f.delay /\ Len(g.log) = n + 1
  /\ g.log[n + 1].at = f.now /\ g.log[n + 1].hit = c.hit /\ g.log[n + 1].count = c.ctl.count
  /\ \A i \in 1..n : g.log[i] = f.log[i] /\ WindowStart(g, i) = WindowStart(f, i) /\ (Anchor(g, i) <=> Anchor(f, i))
  /\ WindowStart(g, n + 1) = (n + 1) - c.ctl.count + 1
  /\ Anchor(g, n + 1) <=> (c.hit \/ c.ctl.count = 1)
  /\ \A i \in 1..n : Within(g, i, n + 1) <=> f.now - f.log[i].at <= f.delay
  /\ \A i \in 1..(n + 1) : g.log[i].at <= f.now

\* A message is the latest of the log, and no entry is of a later second.
LEMMA LatestMessage ==
  ASSUME NEW f \in FloodState, NEW u, NEW c, NEW g, Logged(f, g, c, u), Timed(f)
  PROVE  Latest(f, g, c, Len(f.log))
<1>1. PICK n : n = Len(f.log)
  OBVIOUS
<1>2. /\ n \in Nat /\ DOMAIN f.log = 1..n /\ \A i \in 1..n : g.log[i] = f.log[i]
      /\ g.max = f.max /\ g.delay = f.delay /\ g.now = f.now /\ g.ctl = c.ctl /\ Len(g.log) = n + 1
      /\ g.log[n + 1].at = f.now /\ g.log[n + 1].hit = c.hit /\ g.log[n + 1].count = c.ctl.count
  BY <1>1, Zenon DEF Logged
<1>3. \A i \in 1..n : g.log[i] = f.log[i] /\ WindowStart(g, i) = WindowStart(f, i) /\ (Anchor(g, i) <=> Anchor(f, i))
  BY <1>2, Zenon DEF WindowStart, Anchor
<1>4. WindowStart(g, n + 1) = (n + 1) - c.ctl.count + 1 /\ (Anchor(g, n + 1) <=> (c.hit \/ c.ctl.count = 1))
  BY <1>2, Zenon DEF WindowStart, Anchor
<1>5. \A i \in 1..n : Within(g, i, n + 1) <=> f.now - f.log[i].at <= f.delay
  BY <1>2, Zenon DEF Within
<1>6. \A i \in 1..n : g.log[i].at <= f.now
  BY <1>2, Zenon DEF Timed, TimedAt
<1>7. f.now <= f.now
  <2>1. f.now \in Nat
    BY Zenon DEF FloodState
  <2> QED
    BY <2>1
<1>8. \A i \in 1..(n + 1) : i \in 1..n \/ i = n + 1
  BY <1>2
<1>9. \A i \in 1..(n + 1) : g.log[i].at <= f.now
  BY <1>2, <1>6, <1>7, <1>8, Zenon
<1>10. Quota(g) = Quota(f)
  BY <1>2, Zenon DEF Quota
<1> QED
  BY <1>1, <1>2, <1>3, <1>4, <1>5, <1>9, <1>10, Zenon DEF Latest

\* The first message of a window counts as one, and is the interval away from every
\* hit and every first message before.
LEMMA WindowBegins ==
  ASSUME NEW f \in FloodState, NEW c, NEW g, NEW n, Latest(f, g, c, n),
         c.ctl.count = 1, c.hit = FALSE,
         \A i \in 1..n : Anchor(f, i) => ~ (f.now - f.log[i].at <= f.delay)
  PROVE  CountedAt(g, n + 1) /\ TimedAt(g, n + 1)
<1>1. PICK d : d = n + 1
  OBVIOUS
<1>2. n \in Nat /\ Quota(g) \in Nat \ {0} /\ f.now = g.now
  BY LogFacts, Zenon DEF Latest
<1>3. g.log[d].count = 1 /\ g.log[d].hit = FALSE /\ g.log[d].at = g.now /\ WindowStart(g, d) = d - 1 + 1
  BY <1>1, Zenon DEF Latest
<1>4. d \in Nat \ {0} /\ WindowStart(g, d) = d /\ 1 \in 1..d /\ ~ (1 > Quota(g)) /\ ~ (1 > 1)
  BY <1>1, <1>2, <1>3
<1>5. \A i \in 1..d : d <= i => i = d
  BY <1>4
<1>6. CountedAt(g, d)
  BY <1>3, <1>4, <1>5, Zenon DEF CountedAt
<1>7. \A i \in 1..(d - 1) : i \in 1..n
  BY <1>1, <1>2
<1>8. \A i \in 1..(d - 1) : Anchor(g, i) => ~ Within(g, i, d)
  BY <1>1, <1>7, Zenon DEF Latest
<1>9. g.log[d].at <= g.now /\ \A i \in 1..d : g.log[i].at <= g.log[d].at
  <2>1. d \in 1..d
    BY <1>4
  <2> QED
    BY <1>1, <1>2, <1>3, <2>1, Zenon DEF Latest
<1>10. TimedAt(g, d)
  BY <1>3, <1>4, <1>8, <1>9, Zenon DEF TimedAt
<1> QED
  BY <1>1, <1>6, <1>10, Zenon

\* Further messages of a window are counted on, and have the last anchor before them.
LEMMA WindowGoesOn ==
  ASSUME NEW f \in FloodState, NEW c, NEW g, NEW n, Latest(f, g, c, n), Counted(f), n # 0,
         c.ctl.count = f.log[n].count + 1, c.hit <=> c.ctl.count > Quota(f),
         NEW a \in 1..n, Anchor(f, a), f.now - f.log[a].at <= f.delay, f.log[a].hit \/ a = WindowStart(f, n)
  PROVE  CountedAt(g, n + 1) /\ TimedAt(g, n + 1)
<1>1. PICK d : d = n + 1
  OBVIOUS
<1>2. n \in Nat /\ f.now = g.now /\ Quota(g) = Quota(f) /\ n \in DOMAIN f.log /\ a \in DOMAIN f.log
  <2>1. n \in Nat /\ f.now = g.now /\ Quota(g) = Quota(f) /\ DOMAIN f.log = 1..n
    BY Zenon DEF Latest
  <2> QED
    BY <2>1
<1>3. f.log[n].count \in 1..n /\ \A i \in 1..n : WindowStart(f, n) <= i => WindowStart(f, i) = WindowStart(f, n)
  BY <1>2, Zenon DEF Counted, CountedAt
<1>4. g.log[d].count = c.ctl.count /\ g.log[d].hit = c.hit /\ g.log[d].at = g.now /\ WindowStart(g, d) = d - c.ctl.count + 1
  BY <1>1, Zenon DEF Latest
<1>5. WindowStart(f, n) = n - f.log[n].count + 1
  BY Zenon DEF WindowStart
<1>6. WindowStart(g, d) = WindowStart(f, n) /\ c.ctl.count \in 1..d /\ c.ctl.count > 1 /\ c.ctl.count # 1
  BY <1>1, <1>2, <1>3, <1>4, <1>5
<1>7. \A i \in 1..d : i \in 1..n \/ i = d
  BY <1>1, <1>2
<1>8. \A i \in 1..n : g.log[i] = f.log[i] /\ WindowStart(g, i) = WindowStart(f, i) /\ (Anchor(g, i) <=> Anchor(f, i))
  BY Zenon DEF Latest
<1>9. \A i \in 1..d : WindowStart(g, d) <= i => WindowStart(g, i) = WindowStart(g, d)
  BY <1>3, <1>6, <1>7, <1>8, Zenon
<1>10. CountedAt(g, d)
  BY <1>2, <1>4, <1>6, <1>9, Zenon DEF CountedAt
<1>11. a \in 1..(d - 1)
  BY <1>1, <1>2
<1>12. Anchor(g, a) /\ Within(g, a, d) /\ (g.log[a].hit \/ a = WindowStart(g, d))
  BY <1>1, <1>6, <1>8, Zenon DEF Latest
<1>13. g.log[d].at <= g.now /\ \A i \in 1..d : g.log[i].at <= g.log[d].at
  <2>1. d \in 1..d
    BY <1>1, <1>2
  <2> QED
    BY <1>1, <1>2, <1>4, <2>1, Zenon DEF Latest
<1>14. TimedAt(g, d)
  BY <1>4, <1>6, <1>11, <1>12, <1>13, Zenon DEF TimedAt
<1> QED
  BY <1>1, <1>10, <1>14, Zenon

\* The control block remembers a message that hits the limit or begins a window.
LEMMA RemembersLatest ==
  ASSUME NEW f \in FloodState, NEW c, NEW g, NEW n, Latest(f, g, c, n),
         c.hit \/ c.ctl.count = 1, c.ctl.time = f.now
  PROVE  Remembered(g)
<1>1. PICK d : d = n + 1
  OBVIOUS
<1>2. n \in Nat /\ f.now \in Nat \ {0}
  BY Zenon DEF Latest, FloodState
<1>3. d # 0 /\ d \in 1..d /\ (\A i \in (d + 1)..d : ~ Anchor(g, i)) /\ f.now > 0
  BY <1>1, <1>2
<1>4. /\ Len(g.log) = d /\ g.ctl.count = g.log[d].count
      /\ Anchor(g, d) /\ g.ctl.time = g.log[d].at /\ g.ctl.time > 0
  BY <1>1, <1>3, Zenon DEF Latest
<1> QED
  BY <1>3, <1>4, Zenon DEF Remembered

\* ... and passes over one that does neither.
LEMMA RemembersAnchor ==
  ASSUME NEW f \in FloodState, NEW c, NEW g, NEW n, Latest(f, g, c, n),
         ~ c.hit, c.ctl.count # 1, c.ctl.time = f.ctl.time,
         NEW a \in 1..n, Anchor(f, a), f.ctl.time = f.log[a].at, f.ctl.time > 0,
         \A i \in (a + 1)..n : ~ Anchor(f, i)
  PROVE  Remembered(g)
<1>1. PICK d : d = n + 1
  OBVIOUS
<1>2. n \in Nat
  BY Zenon DEF Latest
<1>3. d # 0 /\ a \in 1..d /\ \A i \in (a + 1)..d : i = d \/ (i \in (a + 1)..n /\ i \in 1..n)
  BY <1>1, <1>2
<1>4. Len(g.log) = d /\ g.ctl = c.ctl /\ g.ctl.count = g.log[d].count /\ ~ Anchor(g, d)
  BY <1>1, Zenon DEF Latest
<1>5. \A i \in 1..n : g.log[i] = f.log[i] /\ (Anchor(g, i) <=> Anchor(f, i))
  BY Zenon DEF Latest
<1>6. \A i \in (a + 1)..d : ~ Anchor(g, i)
  BY <1>3, <1>4, <1>5, Zenon
<1> QED
  BY <1>3, <1>4, <1>5, <1>6, Zenon DEF Remembered

\* The last anchor is a hit or the first message of the window of the last message.
LEMMA LastAnchor ==
  ASSUME NEW f \in FloodState, Counted(f), NEW n \in Nat \ {0}, DOMAIN f.log = 1..n,
         NEW a \in 1..n, Anchor(f, a), \A i \in (a + 1)..n : ~ Anchor(f, i)
  PROVE  f.log[a].hit \/ a = WindowStart(f, n)
<1> SUFFICES ASSUME f.log[a].count = 1 PROVE a = WindowStart(f, n)
  BY Zenon DEF Anchor
<1>1. \A j \in 1..n : f.log[j].count \in 1..j /\ \A i \in 1..j : WindowStart(f, j) <= i => WindowStart(f, i) = WindowStart(f, j)
  BY Zenon DEF Counted, CountedAt
<1>2. \A j \in 1..n : WindowStart(f, j) = j - f.log[j].count + 1
  BY Zenon DEF WindowStart
<1>3. n \in 1..n /\ WindowStart(f, n) \in 1..n
  BY <1>1, <1>2
<1>4. PICK p \in 1..n : p = WindowStart(f, n)
  BY <1>3, Zenon
<1>5. WindowStart(f, p) = p
  BY <1>1, <1>3, <1>4
<1>6. f.log[p].count = 1
  <2>1. p = p - f.log[p].count + 1 /\ f.log[p].count \in 1..p
    BY <1>1, <1>2, <1>5, Zenon
  <2> QED
    BY <2>1
<1>7. p <= a
  <2>1. Anchor(f, p)
    BY <1>6, Zenon DEF Anchor
  <2> QED
    BY <2>1
<1>8. WindowStart(f, a) = p
  BY <1>1, <1>3, <1>4, <1>7, Zenon
<1>9. WindowStart(f, a) = a - 1 + 1
  BY <1>2, Zenon
<1> QED
  BY <1>4, <1>8, <1>9

\* flood_control_check counts a message in the window it falls in and keeps track of
\* what the next window must be away from.
LEMMA WindowCounts ==
  ASSUME NEW f \in FloodState, NEW u \in BOOLEAN, NEW c, NEW g,
         c = flood_control_check(f.ctl, f.max, f.delay, f.now), Logged(f, g, c, u),
         Limiting(f), Counted(f), Timed(f), Remembered(f)
  PROVE  Counted(g) /\ Timed(g) /\ Remembered(g)
<1>1. PICK n : n = Len(f.log)
  OBVIOUS
<1>2. Latest(f, g, c, n)
  BY <1>1, LatestMessage, Zenon
<1>3. n \in Nat /\ DOMAIN f.log = 1..n /\ DOMAIN g.log = 1..(n + 1)
  BY <1>1, Zenon DEF Logged
<1>4. f.now \in Nat \ {0} /\ f.max \in Nat /\ f.max # 0 /\ f.delay \in Nat /\ f.ctl.time \in Nat /\ f.ctl.count \in Nat
  <2>1. f.ctl \in [time : Nat, count : Nat] /\ f.now \in Nat \ {0} /\ f.max \in Nat /\ f.delay \in Nat
    BY Zenon DEF FloodState
  <2> QED
    BY <2>1 DEF Limiting
<1>5. SUFFICES (CountedAt(g, n + 1) /\ TimedAt(g, n + 1)) /\ Remembered(g)
  <2>1. \A j \in 1..(n + 1) : j \in 1..n \/ j = n + 1
    BY <1>3
  <2>2. \A j \in 1..n : CountedAt(g, j) /\ TimedAt(g, j)
    BY <1>3, OldMessages, Zenon
  <2> QED
    BY <1>3, <1>5, <2>1, <2>2, Zenon DEF Counted, Timed
<1>6. \/ /\ f.ctl.time = 0 \/ f.now - f.ctl.time > f.delay
         /\ c.ctl.time = f.now /\ c.ctl.count = 1 /\ c.hit = FALSE
      \/ /\ f.ctl.time # 0 /\ f.now - f.ctl.time <= f.delay
         /\ c.ctl.count = f.ctl.count + 1
         /\ IF f.ctl.count + 1 < f.max THEN c.hit = FALSE /\ c.ctl.time = f.ctl.time
            ELSE c.hit = TRUE /\ c.ctl.time = f.now
  BY FloodCheck, Zenon
<1>7. CASE n = 0
  <2>1. f.ctl.time = 0
    BY <1>1, <1>7 DEF Remembered, flood_control_reset
  <2>2. c.ctl.time = f.now /\ c.ctl.count = 1 /\ c.hit = FALSE
    BY <1>6, <2>1, Zenon
  <2>3. \A i \in 1..n : Anchor(f, i) => ~ (f.now - f.log[i].at <= f.delay)
    BY <1>7
  <2> QED
    BY <1>2, <2>2, <2>3, WindowBegins, RemembersLatest, Zenon
<1>8. CASE n # 0
  <2>1. PICK a \in 1..n : /\ Anchor(f, a) /\ f.ctl.time = f.log[a].at /\ f.ctl.time > 0
                          /\ \A i \in (a + 1)..n : ~ Anchor(f, i)
    BY <1>1, <1>8, Zenon DEF Remembered
  <2>2. f.ctl.count = f.log[n].count
    BY <1>1, <1>8, Zenon DEF Remembered
  <2>3. f.ctl.time # 0
    BY <2>1, <1>4
  <2>4. CASE f.now - f.ctl.time > f.delay
    <3>1. c.ctl.time = f.now /\ c.ctl.count = 1 /\ c.hit = FALSE
      BY <1>4, <1>6, <2>4
    <3>2. ASSUME NEW i \in 1..n, Anchor(f, i) PROVE ~ (f.now - f.log[i].at <= f.delay)
      <4>1. i \in 1..a /\ i \in DOMAIN f.log /\ a \in DOMAIN f.log
        BY <1>3, <2>1, <3>2
      <4>2. f.log[i].at <= f.log[a].at
        BY <4>1, Zenon DEF Timed, TimedAt
      <4>3. f.log[i].at \in Nat
        BY <4>1, LogFacts, Zenon
      <4> QED
        BY <1>4, <2>1, <2>4, <4>2, <4>3
    <3> QED
      BY <1>2, <3>1, <3>2, WindowBegins, RemembersLatest, Zenon
  <2>5. CASE ~ (f.now - f.ctl.time > f.delay)
    <3>1. /\ c.ctl.count = f.log[n].count + 1 /\ f.now - f.log[a].at <= f.delay
          /\ IF f.ctl.count + 1 < f.max THEN c.hit = FALSE /\ c.ctl.time = f.ctl.time
             ELSE c.hit = TRUE /\ c.ctl.time = f.now
      BY <1>6, <2>1, <2>2, <2>3, <2>5, Zenon
    <3>2. f.ctl.count >= 1
      <4>1. n \in 1..n /\ n \in DOMAIN f.log
        BY <1>3, <1>8
      <4>2. f.ctl.count \in 1..n
        BY <2>2, <4>1, Zenon DEF Counted, CountedAt
      <4> QED
        BY <4>2
    <3>3. (c.hit <=> c.ctl.count > Quota(f)) /\ c.ctl.count # 1
      <4>1. f.ctl.count + 1 < f.max <=> ~ (f.ctl.count + 1 > Quota(f))
        BY <1>4, <3>2 DEF Quota
      <4>2. f.ctl.count + 1 # 1
        BY <1>4, <3>2
      <4> QED
        BY <2>2, <3>1, <4>1, <4>2, Zenon
    <3>4. f.log[a].hit \/ a = WindowStart(f, n)
      BY <1>3, <1>8, <2>1, LastAnchor
    <3>5. CountedAt(g, n + 1) /\ TimedAt(g, n + 1)
      BY <1>2, <1>8, <2>1, <3>1, <3>3, <3>4, WindowGoesOn, Zenon
    <3>6. CASE c.hit
      BY <1>2, <3>1, <3>5, <3>6, RemembersLatest, Zenon
    <3>7. CASE ~ c.hit
      BY <1>2, <2>1, <3>1, <3>3, <3>5, <3>7, RemembersAnchor, Zenon
    <3> QED
      BY <3>6, <3>7, Zenon
  <2> QED
    BY <2>4, <2>5, Zenon
<1> QED
  BY <1>7, <1>8, Zenon

\* hub_send_flood_warning goes out exactly when a message is refused.
LEMMA MessageJudged ==
  ASSUME NEW f \in FloodState, NEW u \in BOOLEAN, NEW c, NEW g,
         c = flood_control_check(f.ctl, f.max, f.delay, f.now), Logged(f, g, c, u), Judged(f)
  PROVE  Judged(g) /\ (Limiting(g) <=> Limiting(f))
<1>1. PICK n : n = Len(f.log)
  OBVIOUS
<1>2. /\ n \in Nat /\ DOMAIN f.log = 1..n /\ DOMAIN g.log = 1..(n + 1)
      /\ \A i \in 1..n : g.log[i] = f.log[i]
      /\ g.max = f.max /\ g.delay = f.delay /\ g.warned = (f.warned \/ ~ Passes(c, u))
      /\ g.log[n + 1].free = u /\ g.log[n + 1].hit = c.hit /\ g.log[n + 1].pass = Passes(c, u)
  BY <1>1, Zenon DEF Logged
<1>3. c.hit \in BOOLEAN /\ (~ Limiting(f) => c.hit = FALSE)
  BY FloodCheck, Zenon
<1>4. Limiting(g) <=> Limiting(f)
  BY <1>2, Zenon DEF Limiting
<1>5. n + 1 \in 1..(n + 1) /\ \A j \in 1..(n + 1) : j \in 1..n \/ j = n + 1
  BY <1>2
<1>6. \A j \in 1..n : j \in 1..(n + 1)
  BY <1>2
<1>7. Passes(c, u) = (~ c.hit \/ u) /\ (~ Passes(c, u) => Limiting(f))
  BY <1>3, Zenon DEF Passes
<1>8. /\ \A j \in DOMAIN f.log : f.log[j].pass = (~ f.log[j].hit \/ f.log[j].free) /\ (~ f.log[j].pass => Limiting(f))
      /\ f.warned <=> \E j \in DOMAIN f.log : ~ f.log[j].pass
  BY Zenon DEF Judged
<1>9. \A j \in 1..(n + 1) : g.log[j].pass = (~ g.log[j].hit \/ g.log[j].free) /\ (~ g.log[j].pass => Limiting(g))
  BY <1>2, <1>4, <1>5, <1>7, <1>8, Zenon
<1>10. g.warned <=> \E j \in 1..(n + 1) : ~ g.log[j].pass
  BY <1>2, <1>5, <1>6, <1>8, Zenon
<1> QED
  BY <1>2, <1>4, <1>9, <1>10, Zenon DEF Judged

\* What flood control remembers of a user accounts for every message of theirs:
\* CHECK_FLOOD, the passing of time and the next user keep FloodInv.
THEOREM FloodInvariant == FloodSpec => []FloodInv
<1>1. FloodInit => FloodInv
  <2> SUFFICES ASSUME NEW l \in FloodLimits,
                      flood = [max |-> l.max, delay |-> l.delay, now |-> 1, ctl |-> flood_control_reset,
                               warned |-> FALSE, log |-> << >>]
               PROVE  FloodInv
    BY Zenon DEF FloodInit
  <2>1. l.max \in Nat /\ l.delay \in Nat
    BY FloodAssumption
  <2>2. flood \in FloodState /\ flood.log = << >> /\ flood.warned = FALSE /\ flood.ctl = flood_control_reset
    BY <2>1 DEF FloodState, flood_control_reset
  <2> QED
    BY <2>2 DEF FloodInv, Judged, Counted, Timed, Remembered
<1>2. FloodInv /\ [FloodNext]_flood => FloodInv'
  <2> SUFFICES ASSUME FloodInv, [FloodNext]_flood PROVE FloodInv'
    OBVIOUS
  <2>0. flood \in FloodState /\ Judged(flood) /\ (Limiting(flood) => Counted(flood) /\ Timed(flood) /\ Remembered(flood))
    BY Zenon DEF FloodInv
  <2> SUFFICES /\ flood' \in FloodState /\ Judged(flood')
               /\ Limiting(flood') => Counted(flood') /\ Timed(flood') /\ Remembered(flood')
    BY Zenon DEF FloodInv
  <2>1. CASE Newcomer
    <3>1. /\ flood' \in FloodState /\ flood'.log = << >> /\ flood'.warned = FALSE
          /\ flood'.ctl = flood_control_reset
      <4>1. << >> \in Seq(FloodEntry) /\ flood_control_reset \in [time : Nat, count : Nat]
        BY DEF flood_control_reset
      <4> QED
        BY <2>0, <2>1, <4>1, Zenon DEF Newcomer, FloodState
    <3> QED
      BY <3>1 DEF Judged, Counted, Timed, Remembered
  <2>2. ASSUME NEW u \in BOOLEAN, Message(u)
        PROVE  /\ flood' \in FloodState /\ Judged(flood')
               /\ Limiting(flood') => Counted(flood') /\ Timed(flood') /\ Remembered(flood')
    <3>1. PICK c : c = flood_control_check(flood.ctl, flood.max, flood.delay, flood.now)
      OBVIOUS
    <3>2. c.ctl \in [time : Nat, count : Nat] /\ c.hit \in BOOLEAN
      BY <2>0, <3>1, FloodCheck, Zenon
    <3>3. Logged(flood, flood', c, u)
      BY <2>0, <2>2, <3>1, <3>2, MessageLogged, Zenon DEF Message
    <3>4. flood' \in FloodState
      BY <3>3, Zenon DEF Logged
    <3>5. Judged(flood') /\ (Limiting(flood') <=> Limiting(flood))
      BY <2>0, <3>1, <3>3, MessageJudged, Zenon
    <3>6. Limiting(flood) => Counted(flood') /\ Timed(flood') /\ Remembered(flood')
      BY <2>0, <3>1, <3>3, WindowCounts, Zenon
    <3> QED
      BY <3>4, <3>5, <3>6, Zenon
  <2>3. CASE Second
    <3>1. /\ flood' \in FloodState /\ flood'.log = flood.log /\ flood'.warned = flood.warned
          /\ flood'.ctl = flood.ctl /\ flood'.max = flood.max /\ flood'.delay = flood.delay
          /\ flood'.now = flood.now + 1 /\ flood.now \in Nat
      BY <2>0, <2>3 DEF Second, FloodState
    <3>2. Judged(flood') /\ (Limiting(flood') <=> Limiting(flood))
      BY <2>0, <3>1, Zenon DEF Judged, Limiting
    <3>3. Limiting(flood) => Counted(flood')
      <4>1. Quota(flood') = Quota(flood) /\ \A j : WindowStart(flood', j) = WindowStart(flood, j)
        BY <3>1, Zenon DEF WindowStart, Quota
      <4> QED
        BY <2>0, <3>1, <4>1, Zenon DEF Counted, CountedAt
    <3>4. Limiting(flood) => Remembered(flood')
      <4>1. \A j : Anchor(flood', j) <=> Anchor(flood, j)
        BY <3>1, Zenon DEF Anchor
      <4> QED
        BY <2>0, <3>1, <4>1, Zenon DEF Remembered
    <3>5. ASSUME Limiting(flood) PROVE Timed(flood')
      <4>1. ASSUME NEW j \in DOMAIN flood.log PROVE flood.log[j].at <= flood'.now
        <5>1. flood.log[j].at \in Nat
          <6>1. flood.log \in Seq(FloodEntry)
            BY <2>0, Zenon DEF FloodState
          <6>2. flood.log[j] \in FloodEntry
            BY <6>1
          <6> QED
            BY <6>2 DEF FloodEntry
        <5>2. flood.log[j].at <= flood.now
          BY <2>0, <3>5, Zenon DEF Timed, TimedAt
        <5> QED
          BY <3>1, <5>1, <5>2
      <4> QED
        BY <2>0, <3>1, <3>5, <4>1, Zenon DEF Timed, TimedAt, Anchor, Within, WindowStart
    <3> QED
      BY <3>1, <3>2, <3>3, <3>4, <3>5, Zenon
  <2>4. CASE UNCHANGED flood
    BY <2>0, <2>4, Zenon
  <2> QED
    BY <2>1, <2>2, <2>3, <2>4, Zenon DEF FloodNext
<1> QED
  BY <1>1, <1>2, PTL DEF FloodSpec

\* A message that flood control refuses comes within the interval of a hit, or
\* after a whole quota of messages.
LEMMA RefusedForCause ==
  ASSUME NEW f \in FloodState, Judged(f), Limiting(f) => Counted(f) /\ Timed(f),
         NEW j \in DOMAIN f.log, ~ f.log[j].pass
  PROVE  \/ \E i \in SentBefore(f, j) : f.log[i].hit
         \/ SentBefore(f, j) # {} /\ Cardinality(SentBefore(f, j)) + 1 >= f.max
<1>1. PICK k \in Nat \ {0} : k = Quota(f) /\ k + 1 >= f.max
  BY LogFacts, Zenon
<1>l. PICK n \in Nat : n = Len(f.log) /\ DOMAIN f.log = 1..n
  BY LogFacts, Zenon
<1>2. f.log[j].hit /\ Limiting(f)
  BY Zenon DEF Judged
<1>3. f.log[j].count > k /\ f.log[j].count \in 1..j
  BY <1>1, <1>2, Zenon DEF Counted, CountedAt
<1>4. f.log[j].count > 1 /\ f.log[j].count \in Nat /\ j \in Nat
  BY <1>1, <1>3, <1>l
<1>5. PICK i \in 1..(j - 1) : Anchor(f, i) /\ Within(f, i, j) /\ (f.log[i].hit \/ i = WindowStart(f, j))
  BY <1>2, <1>4, Zenon DEF Timed, TimedAt
<1>6. i \in SentBefore(f, j)
  BY <1>5, Zenon DEF SentBefore
<1>7. ASSUME i = WindowStart(f, j) PROVE Cardinality(SentBefore(f, j)) + 1 >= f.max
  <2>1. i = j - f.log[j].count + 1 /\ i \in Nat
    BY <1>5, <1>7 DEF WindowStart
  <2>2. ASSUME NEW m \in i..(j - 1) PROVE m \in SentBefore(f, j)
    <3>1. m \in 1..(j - 1) /\ m \in DOMAIN f.log /\ i \in 1..m /\ i \in DOMAIN f.log
      BY <1>5, <1>l, <2>1
    <3>2. f.log[i].at <= f.log[m].at
      BY <1>2, <3>1, Zenon DEF Timed, TimedAt
    <3>3. f.log[i].at \in Nat /\ f.log[m].at \in Nat /\ f.log[j].at \in Nat /\ f.delay \in Nat
      BY <3>1, LogFacts, Zenon
    <3>4. Within(f, m, j)
      BY <1>5, <3>2, <3>3 DEF Within
    <3> QED
      BY <3>1, <3>4, Zenon DEF SentBefore
  <2>3. i..(j - 1) \subseteq SentBefore(f, j) /\ SentBefore(f, j) \subseteq 1..(j - 1)
    BY <2>2, Zenon DEF SentBefore
  <2>4. IsFiniteSet(1..(j - 1)) /\ Cardinality(i..(j - 1)) = j - i
    <3>1. PICK e \in Int : e = j - 1
      BY <1>4
    <3>2. /\ IsFiniteSet(1..e) /\ i \in Int /\ i <= e
          /\ Cardinality(i..e) = IF i > e THEN 0 ELSE e - i + 1
      <4>1. 1 \in Int /\ i \in Int /\ i <= e
        BY <1>5, <2>1, <3>1
      <4> QED
        BY <4>1, FS_Interval, Zenon
    <3>3. Cardinality(i..e) = e - i + 1
      BY <3>2
    <3> QED
      BY <1>4, <3>1, <3>2, <3>3
  <2>5. IsFiniteSet(SentBefore(f, j))
    BY <2>3, <2>4, FS_Subset, Zenon
  <2>6. Cardinality(i..(j - 1)) <= Cardinality(SentBefore(f, j)) /\ Cardinality(SentBefore(f, j)) \in Nat
    BY <2>3, <2>5, FS_Subset, FS_CardinalityType, Zenon
  <2>7. Cardinality(i..(j - 1)) >= k /\ f.max \in Nat
    BY <1>1, <1>3, <1>4, <2>1, <2>4, LogFacts
  <2>8. Cardinality(i..(j - 1)) \in Nat
    BY <1>4, <1>5, <2>1, <2>4
  <2> QED
    BY <1>1, <2>6, <2>7, <2>8
<1> QED
  BY <1>5, <1>6, <1>7, Zenon

\* A message that passes is among the quota of its window.
LEMMA PassedInWindow ==
  ASSUME NEW f \in FloodState, Judged(f), Counted(f), NEW j \in DOMAIN f.log, f.log[j].pass, ~ f.log[j].free
  PROVE  /\ WindowStart(f, j) \in 1..j /\ WindowStart(f, j) \in DOMAIN f.log /\ j \in WindowStart(f, j)..(WindowStart(f, j) + Quota(f) - 1)
         /\ f.log[WindowStart(f, j)].count = 1
<1>1. Quota(f) \in Nat /\ Len(f.log) \in Nat /\ DOMAIN f.log = 1..Len(f.log) /\ f.log[j].count \in Nat
  BY LogFacts, Zenon
<1>2. ~ f.log[j].hit
  BY Zenon DEF Judged
<1>3. f.log[j].count \in 1..j /\ ~ (f.log[j].count > Quota(f))
  BY <1>2, Zenon DEF Counted, CountedAt
<1>4. WindowStart(f, j) = j - f.log[j].count + 1
  BY Zenon DEF WindowStart
<1>5. WindowStart(f, j) \in 1..j /\ WindowStart(f, j) \in DOMAIN f.log /\ j \in WindowStart(f, j)..(WindowStart(f, j) + Quota(f) - 1)
      /\ WindowStart(f, j) <= WindowStart(f, j) /\ WindowStart(f, j) \in Nat
  BY <1>1, <1>3, <1>4
<1>6. WindowStart(f, WindowStart(f, j)) = WindowStart(f, j) /\ f.log[WindowStart(f, j)].count \in Nat
  BY <1>5, LogFacts, Zenon DEF Counted, CountedAt
<1>7. WindowStart(f, WindowStart(f, j)) = WindowStart(f, j) - f.log[WindowStart(f, j)].count + 1
  BY Zenon DEF WindowStart
<1>8. f.log[WindowStart(f, j)].count = 1
  <2>1. PICK p, q : p = WindowStart(f, j) /\ q = f.log[WindowStart(f, j)].count
    OBVIOUS
  <2>2. p \in Nat /\ q \in Nat /\ p = p - q + 1
    BY <1>5, <1>6, <1>7, <2>1, Zenon
  <2> QED
    BY <2>1, <2>2
<1> QED
  BY <1>5, <1>8, Zenon

\* Two windows that begin after message i begin an interval apart, so the messages
\* that pass within the interval from i on are of the window of i and of one more.
LEMMA PassedBounded ==
  ASSUME NEW f \in FloodState, Judged(f), Counted(f), Timed(f), NEW i \in DOMAIN f.log
  PROVE  Cardinality(Passed(f, i)) <= 2 * Quota(f)
<1>k. PICK k \in Nat \ {0} : k = Quota(f)
  BY LogFacts, Zenon
<1>l. PICK n \in Nat : n = Len(f.log) /\ DOMAIN f.log = 1..n
  BY LogFacts, Zenon
<1>1. PICK a \in Int : a = WindowStart(f, i)
  <2>1. f.log[i].count \in Nat /\ i \in Nat
    BY <1>l, LogFacts
  <2> QED
    BY <2>1 DEF WindowStart
<1>2. ASSUME NEW j \in Passed(f, i)
      PROVE  /\ j \in DOMAIN f.log /\ j \in i..n /\ Within(f, i, j)
             /\ WindowStart(f, j) \in 1..j /\ WindowStart(f, j) \in DOMAIN f.log /\ j \in WindowStart(f, j)..(WindowStart(f, j) + k - 1)
             /\ f.log[WindowStart(f, j)].count = 1
  <2>1. j \in i..n /\ Within(f, i, j) /\ f.log[j].pass /\ ~ f.log[j].free
    BY <1>l, Zenon DEF Passed
  <2>2. j \in DOMAIN f.log
    BY <1>l, <2>1
  <2> QED
    BY <1>k, <2>1, <2>2, PassedInWindow, Zenon
<1>3. ASSUME NEW j \in Passed(f, i), WindowStart(f, j) <= i PROVE WindowStart(f, j) = a
  <2>1. i \in 1..j
    BY <1>2, <1>l
  <2> QED
    BY <1>1, <1>2, <1>3, <2>1, Zenon DEF Counted, CountedAt
<1>4. ASSUME NEW j \in Passed(f, i), NEW m \in Passed(f, i), WindowStart(f, j) > i, WindowStart(f, m) > WindowStart(f, j)
      PROVE  FALSE
  <2>1. PICK p \in DOMAIN f.log : p = WindowStart(f, j)
    BY <1>2, Zenon
  <2>2. PICK q \in DOMAIN f.log : q = WindowStart(f, m)
    BY <1>2, Zenon
  <2>3. p \in 1..(q - 1) /\ i \in 1..p /\ q \in 1..m /\ m \in DOMAIN f.log
    BY <1>2, <1>4, <1>l, <2>1, <2>2
  <2>4. Anchor(f, p) /\ f.log[q].count = 1
    BY <1>2, <2>1, <2>2, Zenon DEF Anchor
  <2>5. ~ Within(f, p, q)
    BY <2>3, <2>4, Zenon DEF Timed, TimedAt
  <2>6. f.log[i].at <= f.log[p].at /\ f.log[q].at <= f.log[m].at /\ Within(f, i, m)
    BY <1>2, <2>3, Zenon DEF Timed, TimedAt
  <2>7. f.log[i].at \in Nat /\ f.log[p].at \in Nat /\ f.log[q].at \in Nat /\ f.log[m].at \in Nat /\ f.delay \in Nat
    BY <2>3, LogFacts, Zenon
  <2> QED
    BY <2>5, <2>6, <2>7 DEF Within
<1>5. PICK b \in Int : \A j \in Passed(f, i) : WindowStart(f, j) = a \/ WindowStart(f, j) = b
  <2>1. CASE \A j \in Passed(f, i) : WindowStart(f, j) <= i
    BY <1>1, <1>3, <2>1, Zenon
  <2>2. CASE \E j \in Passed(f, i) : ~ (WindowStart(f, j) <= i)
    <3>1. PICK j \in Passed(f, i) : ~ (WindowStart(f, j) <= i)
      BY <2>2
    <3>2. WindowStart(f, j) \in Int /\ WindowStart(f, j) > i
      BY <1>2, <1>l, <3>1
    <3>3. ASSUME NEW m \in Passed(f, i) PROVE WindowStart(f, m) = a \/ WindowStart(f, m) = WindowStart(f, j)
      <4>1. WindowStart(f, m) \in Int
        BY <1>2
      <4>2. CASE WindowStart(f, m) <= i
        BY <1>3, <4>2, Zenon
      <4>3. CASE ~ (WindowStart(f, m) <= i)
        <5>1. WindowStart(f, m) > i
          BY <1>l, <4>1, <4>3
        <5> QED
          BY <1>4, <3>2, <4>1, <5>1
      <4> QED
        BY <4>2, <4>3, Zenon
    <3> QED
      BY <3>2, <3>3, Zenon
  <2> QED
    BY <2>1, <2>2, Zenon
<1>6. Passed(f, i) \subseteq (a..(a + k - 1)) \cup (b..(b + k - 1))
  BY <1>2, <1>5, Zenon
<1>7. /\ IsFiniteSet(a..(a + k - 1)) /\ Cardinality(a..(a + k - 1)) = k
      /\ IsFiniteSet(b..(b + k - 1)) /\ Cardinality(b..(b + k - 1)) = k
  BY FS_Interval
<1>8. PICK S : S = a..(a + k - 1)
  OBVIOUS
<1>9. PICK T : T = b..(b + k - 1)
  OBVIOUS
<1>10. /\ IsFiniteSet(S) /\ IsFiniteSet(T) /\ Cardinality(S) = k /\ Cardinality(T) = k
       /\ Passed(f, i) \subseteq S \cup T
  BY <1>6, <1>7, <1>8, <1>9, Zenon
<1>11. IsFiniteSet(S \cup T) /\ Cardinality(S \cup T) <= 2 * k /\ Cardinality(S \cup T) \in Nat
  <2>1. IsFiniteSet(S \cup T) /\ Cardinality(S \cup T) = k + k - Cardinality(S \cap T)
    BY <1>10, FS_Union, Zenon
  <2>2. Cardinality(S \cap T) \in Nat
    BY <1>10, FS_Intersection, FS_CardinalityType, Zenon
  <2>3. Cardinality(S \cup T) \in Nat
    BY <2>1, FS_CardinalityType, Zenon
  <2> QED
    BY <2>1, <2>2, <2>3
<1>12. Cardinality(Passed(f, i)) <= Cardinality(S \cup T) /\ Cardinality(Passed(f, i)) \in Nat
  BY <1>10, <1>11, FS_Subset, FS_CardinalityType, Zenon
<1> QED
  BY <1>11, <1>12, <1>k

\* FloodBounded holds of every limit the hub can be configured with, and however
\* many messages the user sends.
THEOREM FloodIsBounded == FloodSpec => []FloodBounded
<1>1. FloodInv => FloodBounded
  <2> SUFFICES ASSUME FloodInv PROVE FloodBounded
    OBVIOUS
  <2>0. flood \in FloodState /\ Judged(flood) /\ (Limiting(flood) => Counted(flood) /\ Timed(flood) /\ Remembered(flood))
    BY Zenon DEF FloodInv
  <2>1. Limiting(flood) => \A i \in DOMAIN flood.log : Cardinality(Passed(flood, i)) <= 2 * Quota(flood)
    BY <2>0, PassedBounded, Zenon
  <2>2. \A j \in DOMAIN flood.log :
          ~ flood.log[j].pass =>
            \/ \E i \in SentBefore(flood, j) : flood.log[i].hit
            \/ SentBefore(flood, j) # {} /\ Cardinality(SentBefore(flood, j)) + 1 >= flood.max
    BY <2>0, RefusedForCause, Zenon
  <2>3. flood.warned <=> \E j \in DOMAIN flood.log : ~ flood.log[j].pass
    BY <2>0, Zenon DEF Judged
  <2> QED
    BY <2>1, <2>2, <2>3, Zenon DEF FloodBounded
<1> QED
  BY <1>1, FloodInvariant, PTL

-----------------------------------------------------------------------------
(* The event queue                                                             *)

\* What the steps of the queue preserve.
QInv == TypeOK /\ QueueInv

\* The queue starts in the invariant.
LEMMA QInvInit == Init => QInv
<1> SUFFICES ASSUME Init PROVE QInv
  OBVIOUS
<1>1. TypeOK
  <2>1. <<>> \in Seq(Event)
    BY EmptySeq
  <2>2. q1 \in Seq(Event) /\ q2 \in Seq(Event)
    BY <2>1, Zenon DEF Init
  <2>3. locked \in BOOLEAN /\ running \in BOOLEAN
    BY Zenon DEF Init
  <2>4. pos \in Nat \ {0}
    BY DEF Init
  <2> QED
    BY <2>2, <2>3, <2>4, Zenon DEF TypeOK
<1>2. QueueInv
  <2>1. Len(q1) = 0
    BY EmptySeq DEF Init
  <2> QED
    BY <2>1 DEF Init, QueueInv
<1> QED
  BY <1>1, <1>2 DEF QInv

\* Every step of event_queue_post and event_queue_process keeps it.
LEMMA QInvStep == QInv /\ [Next]_vars => QInv'
<1> SUFFICES ASSUME QInv, [Next]_vars PROVE QInv'
  OBVIOUS
<1> USE DEF QInv, TypeOK, QueueInv
<1>1. ASSUME NEW e \in Event, event_queue_post(e) PROVE QInv'
  <2>1. Append(q1, e) \in Seq(Event) /\ Append(q2, e) \in Seq(Event)
    BY AppendProperties
  <2>2. Len(Append(q1, e)) = Len(q1) + 1
    BY AppendProperties
  <2>3. Len(q1) \in Nat
    BY LenProperties
  <2>4. TypeOK'
    BY <1>1, <2>1 DEF event_queue_post
  <2>5. QueueInv'
    <3>1. CASE locked
      BY <1>1, <3>1 DEF event_queue_post
    <3>2. CASE ~locked
      BY <1>1, <2>2, <2>3, <3>2 DEF event_queue_post
    <3> QED
      BY <3>1, <3>2
  <2> QED
    BY <2>4, <2>5
<1>2. CASE ProcessLock
  BY <1>2 DEF ProcessLock
<1>3. CASE CallbackStart
  BY <1>3 DEF CallbackStart
<1>4. CASE CallbackReturn
  BY <1>4 DEF CallbackReturn
<1>5. CASE ProcessUnlock
  <2>1. TypeOK'
    <3>1. q2' = <<>> /\ <<>> \in Seq(Event)
      BY <1>5, EmptySeq, Zenon DEF ProcessUnlock
    <3>2. q2' \in Seq(Event)
      BY <3>1, Zenon
    <3>3. q1' \in Seq(Event) /\ locked' \in BOOLEAN /\ running' \in BOOLEAN
      BY <1>5, Zenon DEF ProcessUnlock
    <3>4. pos' \in Nat \ {0}
      BY <1>5 DEF ProcessUnlock
    <3> QED
      BY <3>2, <3>3, <3>4, Zenon
  <2>2. QueueInv'
    <3>1. Len(q2) \in Nat
      BY LenProperties
    <3> QED
      BY <1>5, <3>1 DEF ProcessUnlock
  <2> QED
    BY <2>1, <2>2
<1>6. CASE UNCHANGED vars
  BY <1>6 DEF vars
<1> QED
  BY <1>1, <1>2, <1>3, <1>4, <1>5, <1>6 DEF Next, Process

\* The walk stays in the primary list, and outside a pass the secondary list is
\* empty: the list_append_list that ends event_queue_process drops nothing.
THEOREM QueueInvariant == Spec => []QueueInv
<1>1. QInv => QueueInv
  BY DEF QInv
<1> QED
  BY <1>1, QInvInit, QInvStep, PTL DEF Spec

\* A queue to which an event is appended, or whose first event is taken, follows
\* the queue it was.
LEMMA FollowsFacts ==
  ASSUME NEW q \in Seq(Event), NEW e \in Event
  PROVE  /\ Fifo!Follows(q, 0, q)
         /\ Fifo!Follows(q, 0, Append(q, e))
         /\ Fifo!Follows(<<e>> \o q, 1, q)
<1>1. Len(q) \in Nat
  BY LenProperties
<1>2. Fifo!Follows(q, 0, q)
  BY <1>1 DEF Fifo!Follows
<1>3. Fifo!Follows(q, 0, Append(q, e))
  BY <1>1, AppendProperties DEF Fifo!Follows
<1>4. Fifo!Follows(<<e>> \o q, 1, q)
  <2>1. <<e>> \in Seq(Event) /\ Len(<<e>>) = 1
    OBVIOUS
  <2>2. /\ Len(<<e>> \o q) = Len(q) + 1
        /\ \A i \in 1..(Len(q) + 1) : (<<e>> \o q)[i] = IF i <= 1 THEN <<e>>[i] ELSE q[i - 1]
    BY <2>1, ConcatProperties
  <2> HIDE <2>1
  <2> QED
    BY <1>1, <2>2 DEF Fifo!Follows
<1> QED
  BY <1>2, <1>3, <1>4

\* What the walk still has to visit of the primary list.
LEMMA RestFacts ==
  ASSUME QInv
  PROVE  /\ SubSeq(q1, pos, Len(q1)) \in Seq(Event)
         /\ Pending \in Seq(Event)
         /\ pos > Len(q1) => SubSeq(q1, pos, Len(q1)) = <<>>
<1>1. pos \in Int /\ Len(q1) \in Int /\ \A i \in pos..Len(q1) : q1[i] \in Event
  BY LenProperties, ElementOfSeq DEF QInv, TypeOK
<1>2. SubSeq(q1, pos, Len(q1)) \in Seq(Event)
  BY <1>1, SubSeqProperties
<1>3. pos > Len(q1) => SubSeq(q1, pos, Len(q1)) = <<>>
  BY <1>1, SubSeqEmpty
<1>4. Pending \in Seq(Event)
  BY <1>2, ConcatProperties DEF Pending, QInv, TypeOK
<1> QED
  BY <1>2, <1>3, <1>4

\* Every step of the two lists is a step of the FIFO queue or changes nothing of
\* it.
LEMMA FifoStep ==
  ASSUME QInv, [Next]_vars
  PROVE  [Fifo!FifoNext]_(Fifo!fifoVars)
<1> DEFINE Left == IF locked THEN Len(q1) + 1 - pos ELSE 0
<1>0. /\ q1 \in Seq(Event) /\ q2 \in Seq(Event) /\ Len(q1) \in Nat
      /\ pos \in Nat \ {0} /\ pos <= Len(q1) + 1
      /\ ~locked => q2 = <<>> /\ pos = 1 /\ ~running
  BY LenProperties DEF QInv, TypeOK, QueueInv
<1>1. ASSUME NEW e \in Event, event_queue_post(e) PROVE Fifo!FifoPost
  <2>1. Pending' = Append(Pending, e)
    <3>1. CASE locked
      <4>1. Pending' = SubSeq(q1, pos, Len(q1)) \o Append(q2, e)
        BY <1>1, <3>1 DEF event_queue_post, Pending
      <4>2. Pending = SubSeq(q1, pos, Len(q1)) \o q2
        BY <3>1 DEF Pending
      <4>3. /\ Append(q2, e) = q2 \o <<e>> /\ Append(Pending, e) = Pending \o <<e>>
            /\ <<e>> \in Seq(Event)
        <5>1. Pending \in Seq(Event)
          BY RestFacts
        <5> HIDE DEF Left
        <5> QED
          BY <1>0, <5>1, AppendIsConcat
      <4>4. \A r \in Seq(Event) : (r \o q2) \o <<e>> = r \o (q2 \o <<e>>)
        <5>1. q2 \in Seq(Event) /\ <<e>> \in Seq(Event)
          BY <1>0, <4>3
        <5> TAKE r \in Seq(Event)
        <5> QED
          BY <5>1, ConcatAssociative
      <4>5. SubSeq(q1, pos, Len(q1)) \in Seq(Event)
        BY RestFacts
      <4> QED
        BY <4>1, <4>2, <4>3, <4>4, <4>5, Zenon
    <3>2. CASE ~locked
      <4>1. Pending' = Append(q1, e) \o q2 /\ Pending = q1 \o q2 /\ q2 = <<>>
        BY <1>0, <1>1, <3>2 DEF event_queue_post, Pending
      <4>2. Append(q1, e) \in Seq(Event)
        BY <1>0, AppendProperties
      <4>3. q1 \o <<>> = q1 /\ Append(q1, e) \o <<>> = Append(q1, e)
        BY <1>0, <4>2, ConcatEmptySeq
      <4> QED
        BY <4>1, <4>3, Zenon
    <3> QED
      BY <3>1, <3>2
  <2>2. Left' = Left
    BY <1>1 DEF event_queue_post
  <2> QED
    BY <2>1, <2>2, RestFacts, FollowsFacts DEF Fifo!FifoPost
<1>2. CASE ProcessLock
  <2>1. Pending' = SubSeq(q1, 1, Len(q1)) \o q2 /\ Pending = q1 \o q2 /\ q2 = <<>>
    BY <1>0, <1>2 DEF ProcessLock, Pending
  <2>2. Pending' = Pending
    BY <1>0, <2>1, SubSeqFull
  <2>3. Pending = q1
    BY <1>0, <2>1, ConcatEmptySeq
  <2>4. Left = 0 /\ Left' = Len(Pending')
    BY <1>0, <1>2, <2>2, <2>3 DEF ProcessLock
  <2>5. Fifo!Follows(Pending, 0, Pending')
    BY <1>0, <2>2, RestFacts DEF Fifo!Follows
  <2> QED
    BY <2>4, <2>5 DEF Fifo!FifoNext, Fifo!FifoBegin
<1>3. CASE CallbackStart
  <2>1. /\ locked /\ pos <= Len(q1) /\ pos' = pos + 1
        /\ UNCHANGED <<q1, q2, locked>>
    BY <1>3 DEF CallbackStart
  <2>2. q1[pos] \in Event /\ <<q1[pos]>> \in Seq(Event)
    BY <1>0, <2>1, ElementOfSeq
  <2>3. SubSeq(q1, pos, Len(q1)) = <<q1[pos]>> \o SubSeq(q1, pos + 1, Len(q1))
    BY <1>0, <2>1, SubSeqRecursiveFirst
  <2>4. SubSeq(q1, pos + 1, Len(q1)) \in Seq(Event)
    <3>1. \A i \in (pos + 1)..Len(q1) : q1[i] \in Event
      BY <1>0, ElementOfSeq
    <3> QED
      BY <1>0, <3>1, SubSeqProperties
  <2>5. Pending' = SubSeq(q1, pos + 1, Len(q1)) \o q2 /\ Pending' \in Seq(Event)
    BY <1>0, <2>1, <2>4, ConcatProperties DEF Pending
  <2>6. Pending = <<q1[pos]>> \o Pending'
    <3>1. \A r \in Seq(Event) : (<<q1[pos]>> \o r) \o q2 = <<q1[pos]>> \o (r \o q2)
      BY <1>0, <2>2, ConcatAssociative
    <3>2. Pending = SubSeq(q1, pos, Len(q1)) \o q2
      BY <2>1 DEF Pending
    <3> QED
      BY <2>3, <2>4, <2>5, <3>1, <3>2, Zenon
  <2>7. Fifo!Follows(Pending, 1, Pending')
    BY <2>2, <2>5, <2>6, FollowsFacts
  <2>8. Len(Pending) > 0
    BY <2>2, <2>5, <2>6, ConcatProperties, LenProperties
  <2>9. Left > 0 /\ Left' = Left - 1
    BY <1>0, <2>1
  <2> QED
    BY <2>7, <2>8, <2>9 DEF Fifo!FifoNext, Fifo!FifoDeliver
<1>4. CASE CallbackReturn \/ UNCHANGED vars
  <2>1. Pending' = Pending /\ Left' = Left
    BY <1>4 DEF CallbackReturn, vars, Pending
  <2> QED
    BY <2>1 DEF Fifo!fifoVars
<1>5. CASE ProcessUnlock
  <2>1. Pending' = q2 \o <<>> /\ Pending = SubSeq(q1, pos, Len(q1)) \o q2
    BY <1>5 DEF ProcessUnlock, Pending
  <2>2. Pending' = Pending
    <3>1. SubSeq(q1, pos, Len(q1)) = <<>>
      BY <1>5, RestFacts DEF ProcessUnlock
    <3>2. q2 \o <<>> = q2 /\ <<>> \o q2 = q2
      BY <1>0, ConcatEmptySeq
    <3> QED
      BY <2>1, <3>1, <3>2, Zenon
  <2>3. Left' = 0 /\ Left = 0
    BY <1>0, <1>5 DEF ProcessUnlock
  <2> QED
    BY <2>2, <2>3 DEF Fifo!fifoVars
<1> QED
  BY <1>1, <1>2, <1>3, <1>4, <1>5 DEF Next, Process, Fifo!FifoNext

\* The two lists, the lock and the walk are one FIFO queue worked off in passes:
\* event_queue_process delivers every event once, in the order of the posts, and
\* leaves what a callback posts to the next pass.
THEOREM QueueImplementsFifo == Spec => ImplementsFifo
<1>1. Init => Fifo!FifoInit
  <2> SUFFICES ASSUME Init PROVE Fifo!FifoInit
    OBVIOUS
  <2>1. Pending = <<>> \o <<>> /\ ~locked
    BY DEF Init, Pending
  <2>2. <<>> \o <<>> = <<>>
    BY EmptySeq, ConcatEmptySeq
  <2> QED
    BY <2>1, <2>2, Zenon DEF Fifo!FifoInit
<1>2. QInv /\ [Next]_vars => [Fifo!FifoNext]_(Fifo!fifoVars)
  BY FifoStep
<1> QED
  BY <1>1, <1>2, QInvInit, QInvStep, PTL DEF Spec, ImplementsFifo, Fifo!FifoSpec
=============================================================================
