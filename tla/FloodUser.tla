----------------------------- MODULE FloodUser -----------------------------
(***************************************************************************)
(* One kind of message of one user under flood control: CHECK_FLOOD of        *)
(* src/core/hub.c over time, for the kinds whose refusal is answered with a    *)
(* warning (WARN is 1: chat, search, connect, update).  The user may be given  *)
(* credentials that exempt from it between two messages.  flood.log is history: *)
(* of each message since the user connected when it came, whether the user was *)
(* exempt, whether it hit the limit and whether it passed, and how far its     *)
(* window was counted.                                                         *)
(***************************************************************************)
EXTENDS FloodControl, FiniteSets, Sequences

CONSTANTS
  FloodLimits,     \* the configured limits, [max, delay] records
  MaxMessages,     \* bound of the model: how many messages the user sends
  MaxClock         \* bound of the model: the last second of the clock

ASSUME FloodAssumption == FloodLimits \subseteq [max : Nat, delay : Nat] /\ MaxMessages \in Nat /\ MaxClock \in Nat

VARIABLE flood

FloodInit ==
  \E l \in FloodLimits :
    flood = [max |-> l.max, delay |-> l.delay, now |-> 1, ctl |-> flood_control_reset, warned |-> FALSE, log |-> << >>]

\* A user connects (user_create) in the place of the one before.
Newcomer == flood' = [flood EXCEPT !.ctl = flood_control_reset, !.warned = FALSE, !.log = << >>]

Checked(f, c, unrestricted) ==
  [f EXCEPT !.ctl = c.ctl,
            !.warned = @ \/ ~ Passes(c, unrestricted),
            !.log = Append(@, [at |-> f.now, free |-> unrestricted, hit |-> c.hit,
                               pass |-> Passes(c, unrestricted), count |-> c.ctl.count])]

Message(unrestricted) ==
  /\ Len(flood.log) < MaxMessages
  /\ flood' = Checked(flood, flood_control_check(flood.ctl, flood.max, flood.delay, flood.now), unrestricted)

Second ==
  /\ flood.now < MaxClock
  /\ flood' = [flood EXCEPT !.now = @ + 1]

FloodNext == Newcomer \/ (\E unrestricted \in BOOLEAN : Message(unrestricted)) \/ Second
FloodSpec == FloodInit /\ [][FloodNext]_flood
-----------------------------------------------------------------------------
Limiting(f) == f.max # 0 /\ f.delay # 0
\* How many messages a window lets through.
Quota(f) == IF f.max > 1 THEN f.max - 1 ELSE 1
Within(f, i, j) == f.log[j].at - f.log[i].at <= f.delay
\* Those that passed, without an exemption, in the interval that begins with message i.
Passed(f, i) == {j \in i..Len(f.log) : Within(f, i, j) /\ f.log[j].pass /\ ~ f.log[j].free}
\* The messages sent in the interval before message j.
SentBefore(f, j) == {i \in 1..(j - 1) : Within(f, i, j)}

(***************************************************************************)
(* FloodBounded: in no interval of the configured length do more than two     *)
(* windows' worth of messages pass, max-1 each (one if max is 1), of a user    *)
(* who is not exempt; whoever is refused hit the limit within the interval     *)
(* before, or sent that many messages in it, so after an interval of silence   *)
(* a message passes (floodctl.c:27-53); and exactly those refused anything     *)
(* have been warned (hub.c:25-34 and 499-516).                                 *)
(***************************************************************************)
FloodBounded ==
  LET log == flood.log
  IN /\ Limiting(flood) => \A i \in DOMAIN log : Cardinality(Passed(flood, i)) <= 2 * Quota(flood)
     /\ \A j \in DOMAIN log :
          ~ log[j].pass => \/ \E i \in SentBefore(flood, j) : log[i].hit
                           \/ SentBefore(flood, j) # {} /\ Cardinality(SentBefore(flood, j)) + 1 >= flood.max
     /\ flood.warned <=> \E j \in DOMAIN log : ~ log[j].pass

\* The window of message j began with this one.
WindowStart(f, j) == j - f.log[j].count + 1
\* A message the next window must be the interval away from.
Anchor(f, i) == f.log[i].hit \/ f.log[i].count = 1

FloodEntry == [at : Nat, free : BOOLEAN, hit : BOOLEAN, pass : BOOLEAN, count : Nat]
FloodState ==
  [max : Nat, delay : Nat, now : Nat \ {0}, ctl : [time : Nat, count : Nat], warned : BOOLEAN, log : Seq(FloodEntry)]

\* The messages of a window are counted from its first on, and hit the limit once
\* its quota is used up.
CountedAt(f, j) ==
  /\ f.log[j].count \in 1..j
  /\ f.log[j].hit <=> f.log[j].count > Quota(f)
  /\ \A i \in 1..j : WindowStart(f, j) <= i => WindowStart(f, i) = WindowStart(f, j)
Counted(f) == \A j \in DOMAIN f.log : CountedAt(f, j)

\* The clock does not go back, a window begins only an interval after all that
\* anchors it, and a message that is not the first of its window had such an anchor.
TimedAt(f, j) ==
  /\ f.log[j].at <= f.now
  /\ \A i \in 1..j : f.log[i].at <= f.log[j].at
  /\ f.log[j].count = 1 => \A i \in 1..(j - 1) : Anchor(f, i) => ~ Within(f, i, j)
  /\ f.log[j].count > 1 =>
       \E i \in 1..(j - 1) : Anchor(f, i) /\ Within(f, i, j) /\ (f.log[i].hit \/ i = WindowStart(f, j))
Timed(f) == \A j \in DOMAIN f.log : TimedAt(f, j)

\* The control block remembers the last anchor.
Remembered(f) ==
  LET n == Len(f.log)
  IN IF n = 0 THEN f.ctl = flood_control_reset
     ELSE /\ f.ctl.count = f.log[n].count
          /\ \E i \in 1..n : /\ Anchor(f, i) /\ f.ctl.time = f.log[i].at /\ f.ctl.time > 0
                             /\ \A k \in (i + 1)..n : ~ Anchor(f, k)

Judged(f) ==
  /\ \A j \in DOMAIN f.log : /\ f.log[j].pass = (~ f.log[j].hit \/ f.log[j].free)
                             /\ ~ f.log[j].pass => Limiting(f)
  /\ f.warned <=> \E j \in DOMAIN f.log : ~ f.log[j].pass

\* The inductive invariant behind FloodBounded.
FloodInv == flood \in FloodState /\ Judged(flood) /\ (Limiting(flood) => Counted(flood) /\ Timed(flood) /\ Remembered(flood))
=============================================================================
