------------------------------ MODULE SidPool ------------------------------
(***************************************************************************)
(* src/adc/sid.c: the pool of session identifiers.  The map has one slot    *)
(* per SID; slot 0 is reserved.  sid_alloc counts the new SID first, starts *)
(* looking at the slot with the number of the new count, and wraps around   *)
(* only for reading: it writes to map[n], not to map[n % max].              *)
(*                                                                          *)
(* The steps of the for loop are separate actions; nothing else happens     *)
(* between them.                                                            *)
(***************************************************************************)
EXTENDS Integers, FiniteSets

CONSTANTS
  User,
  NoUser,                 \* NULL
  Pool,                   \* the pointer to the pool itself, the mark of slot 0
  MaxPool,                \* the largest argument of sid_pool_create
                          \* (net_get_max_sockets gives at most 65536)
  HalfLoad                \* TRUE: at most half of the slots are ever in use

ASSUME PoolAssumption ==
  /\ IsFiniteSet(User) /\ NoUser \notin User
  /\ Pool \notin User /\ Pool # NoUser
  /\ MaxPool \in Nat \ {0}
  /\ HalfLoad \in BOOLEAN

\* Four base32 digits can name every SID of the pool.
ASSUME SidFits == MaxPool < 32 * 32 * 32 * 32

VARIABLES
  max, count, map,        \* the fields of struct sid_pool (min is 1)
  sid,                    \* user->id.sid, 0 when it has none
  cur, n                  \* the user in sid_alloc (or NoUser), its loop variable

vars == <<max, count, map, sid, cur, n>>

Slot == 0..(max - 1)

TypeOK ==
  /\ max \in 2..(MaxPool + 1)
  /\ count \in Nat
  /\ map \in [Slot -> User \cup {NoUser, Pool}]
  /\ sid \in [User -> Nat]
  /\ cur \in User \cup {NoUser}
  /\ n \in Nat

\* sid_pool_create, called with the number of sockets the process may open.
sid_pool_create(m) ==
  /\ max = m + 1
  /\ count = 0
  /\ map = [s \in 0..m |-> IF s = 0 THEN Pool ELSE NoUser]

Init ==
  /\ \E m \in 1..MaxPool : sid_pool_create(m)
  /\ sid = [u \in User |-> 0]
  /\ cur = NoUser
  /\ n = 0

\* The load under which the pool is used.
Load == HalfLoad => 2 * (count + 1) <= max

\* sid_alloc on a full pool returns 0.
AllocFull(u) ==
  /\ cur = NoUser /\ sid[u] = 0
  /\ count >= max - 1
  /\ UNCHANGED vars

\* n = (++pool->count)
AllocBegin(u) ==
  /\ cur = NoUser /\ sid[u] = 0
  /\ count < max - 1
  /\ Load
  /\ count' = count + 1
  /\ n' = count + 1
  /\ cur' = u
  /\ UNCHANGED <<max, map, sid>>

\* Mutant of AllocStep: n++ is forgotten.
AllocStep_stuck ==
  /\ cur # NoUser
  /\ map[n % max] # NoUser
  /\ UNCHANGED vars

\* for (; (pool->map[n % pool->max]); n++) ;
AllocStep ==
  /\ cur # NoUser
  /\ map[n % max] # NoUser
  /\ n' = n + 1
  /\ UNCHANGED <<max, count, map, sid, cur>>

\* Mutant of AllocTake: the slot is not looked at.
AllocTake_blind ==
  /\ cur # NoUser
  /\ map' = [s \in Slot |-> IF s = n THEN cur ELSE map[s]]
  /\ sid' = [sid EXCEPT ![cur] = n]
  /\ cur' = NoUser
  /\ n' = 0
  /\ UNCHANGED <<max, count>>

\* pool->map[n] = user; return n.  A write outside the map leaves it alone.
AllocTake ==
  /\ cur # NoUser
  /\ map[n % max] = NoUser
  /\ map' = [s \in Slot |-> IF s = n THEN cur ELSE map[s]]
  /\ sid' = [sid EXCEPT ![cur] = n]
  /\ cur' = NoUser
  /\ n' = 0
  /\ UNCHANGED <<max, count>>

\* sid_free, for a user that has a SID (hub_schedule_destroy_user).
sid_free(u) ==
  /\ cur = NoUser /\ sid[u] # 0
  /\ map' = [s \in Slot |-> IF s = sid[u] THEN NoUser ELSE map[s]]
  /\ count' = count - 1
  /\ sid' = [sid EXCEPT ![u] = 0]
  /\ UNCHANGED <<max, cur, n>>

Next ==
  \/ \E u \in User : AllocFull(u) \/ AllocBegin(u) \/ sid_free(u)
  \/ AllocStep
  \/ AllocTake

Spec == Init /\ [][Next]_vars

\* sid_alloc runs to its end.
FairSpec == Spec /\ WF_vars(AllocStep \/ AllocTake)

\* sid_lookup, of the SIDs found in messages.
sid_lookup(s) == IF s = 0 \/ s >= max THEN NoUser ELSE map[s]

\* sid_to_string: four base32 digits, the most significant first.  A digit
\* stands for its letter of BASE32_ALPHABET.
sid_to_string(s) ==
  LET C == s \div 32
      B == C \div 32
      A == B \div 32
  IN  <<A % 32, B % 32, C % 32, s % 32>>

\* string_to_sid, of four base32 letters.
string_to_sid(t) == ((t[1] * 32 + t[2]) * 32 + t[3]) * 32 + t[4]

-----------------------------------------------------------------------------
\* A user is found under the SID it was given, so the SID is in the pool and no
\* other user has it.
SidFound == \A u \in User : sid[u] # 0 => sid_lookup(sid[u]) = u

\* The same over the wire: the SID that was sent to a user (ISID) leads back to
\* it when a message names it as its target.
SidReachesUser ==
  \A u \in User : sid[u] # 0 => sid_lookup(string_to_sid(sid_to_string(sid[u]))) = u

\* pool->count is the number of SIDs in use, the one being allocated included:
\* the pool is called full exactly when every SID is taken.
Holders == {u \in User : sid[u] # 0}

CountExact == count = Cardinality(Holders) + (IF cur = NoUser THEN 0 ELSE 1)

\* The search never leaves the map.
SearchInPool == cur # NoUser => n < max

\* sid.c keeps its books: SIDs, map, counter and search agree while at most half of
\* the pool is in use.
PoolSound == SidFound /\ SidReachesUser /\ CountExact /\ SearchInPool

\* The search of sid_alloc for a free SID ends.
AllocEnds == cur # NoUser ~> cur = NoUser

\* sid.c:86: "If 'count' is less than the pool size (max-min), then allocate
\* within the pool".
AllocWithinPool == \A u \in User : sid[u] < max

-----------------------------------------------------------------------------
(* The inductive invariant.                                                *)

Occupied == {s \in Slot : map[s] # NoUser}

PoolInv ==
  /\ map[0] = Pool
  /\ \A s \in Slot : s # 0 /\ map[s] # NoUser => map[s] \in User /\ sid[map[s]] = s
  /\ \A u \in User : sid[u] # 0 => sid[u] \in Slot /\ map[sid[u]] = u
  /\ Cardinality(Occupied) = count + (IF cur = NoUser THEN 1 ELSE 0)
  /\ cur # NoUser =>
       /\ sid[cur] = 0
       /\ 2 * count <= max
       /\ count >= 1 /\ n \in count..(max - 1)
       /\ \A s \in count..(n - 1) : map[s] # NoUser

\* Why the search stays in the map: the count - 1 SIDs in use cannot fill the
\* slots count..max-1, of which there are at least as many as count.
IInv == TypeOK /\ PoolInv /\ CountExact
=============================================================================
