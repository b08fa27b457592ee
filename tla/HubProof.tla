------------------------------ MODULE HubProof ------------------------------
(***************************************************************************)
(* The invariants of the hub's user life cycle, proved for any set of       *)
(* users, nicks, CIDs, SIDs and accounts.                                   *)
(***************************************************************************)
EXTENDS HubStepProof, FiniteSetTheorems

USE DEF idVars, umanVars, userVars, sidVars, loopVars, dataVars, vars,
        uman_send_user_list, route_to_all

-----------------------------------------------------------------------------
(* The counter of users and the total of their shares.                     *)

\* Every step keeps users->count the size of the list.
LEMMA CountStep ==
  ASSUME TypeOK, Life, CountAgrees, [Next]_vars
  PROVE  CountAgrees'
<1> USE DEF CountAgrees
<1>t. list \subseteq User /\ IsFiniteSet(list) /\ Cardinality(list) \in Nat
  BY UserAssumption, FS_Subset, FS_CardinalityType DEF TypeOK, UserManagerTypeOK
<1>1. CASE UNCHANGED Register
  BY <1>1 DEF Register
<1>2. ASSUME NEW u \in User, NEW n \in Nick, NEW c \in Cid, NEW b \in Share,
             hub_handle_info_login(u, n, c, b)
      PROVE  CountAgrees'
  BY <1>2 DEF hub_handle_info_login
<1>3. ASSUME NEW u \in User, RegisterLogin(u)
      PROVE  CountAgrees'
  <2>1. u \notin list /\ list' = list \cup {u} /\ count' = count + 1
    BY <1>3 DEF RegisterLogin, on_login_success, uman_add
  <2> QED
    BY <1>t, <2>1, FS_AddElement
<1>4. ASSUME NEW u \in User, RegisterRemove(u)
      PROVE  CountAgrees'
  <2>1. /\ u \in list /\ list' = list \ {u}
        /\ count' = IF count > 0 THEN count - 1 ELSE count
    BY <1>4 DEF RegisterRemove, uman_remove
  <2>2. Cardinality(list \ {u}) = Cardinality(list) - 1 /\ Cardinality(list \ {u}) \in Nat
    BY <1>t, <2>1, FS_RemoveElement, FS_CardinalityType
  <2> QED
    BY <1>t, <2>1, <2>2
<1>5. CASE hub_shutdown_service
  BY <1>5, FS_EmptySet DEF hub_shutdown_service
<1>6. ASSUME NEW u \in User, NEW b \in Share, RegisterUpdate(u, b)
      PROVE  CountAgrees'
  BY <1>6 DEF RegisterUpdate
<1> QED
  BY <1>1, <1>2, <1>3, <1>4, <1>5, <1>6, RegisterStep

\* The bytes of one user are as many as its share size says.
LEMMA UserBytes ==
  ASSUME NEW u, NEW n \in Nat
  PROVE  IsFiniteSet({u} \X (1..n)) /\ Cardinality({u} \X (1..n)) = n
<1>1. IsFiniteSet(1..n) /\ Cardinality(1..n) = n
  BY FS_Interval
<1>2. IsFiniteSet({u}) /\ Cardinality({u}) = 1
  BY FS_Singleton
<1>3. /\ IsFiniteSet({u} \X (1..n))
      /\ Cardinality({u} \X (1..n)) = Cardinality({u}) * Cardinality(1..n)
  BY <1>1, <1>2, FS_Product
<1> QED
  BY <1>1, <1>2, <1>3

\* uman_add books the share of the user it lists.
LEMMA BytesAdded ==
  ASSUME NEW users, NEW size, NEW u, u \notin users, size[u] \in Nat,
         IsFiniteSet(Bytes(users, size))
  PROVE  /\ IsFiniteSet(Bytes(users \cup {u}, size))
         /\ Cardinality(Bytes(users \cup {u}, size)) = Cardinality(Bytes(users, size)) + size[u]
<1> DEFINE old == Bytes(users, size)
           own == {u} \X (1..size[u])
<1>1. IsFiniteSet(own) /\ Cardinality(own) = size[u]
  BY UserBytes
<1>2. Bytes(users \cup {u}, size) = old \cup own
  BY DEF Bytes
<1>3. old \cap own = {}
  BY DEF Bytes
<1>4. /\ IsFiniteSet(old \cup own)
      /\ Cardinality(old \cup own) = Cardinality(old) + Cardinality(own) - Cardinality(old \cap own)
  <2> HIDE DEF old, own
  <2> QED
    BY <1>1, FS_Union DEF old
<1>5. Cardinality(old) \in Nat /\ Cardinality(old \cap own) = 0
  BY <1>3, FS_EmptySet, FS_CardinalityType
<1>6. IsFiniteSet(old \cup own) /\ Cardinality(old \cup own) = Cardinality(old) + size[u]
  <2> HIDE DEF old, own
  <2> QED
    BY <1>1, <1>4, <1>5
<1> QED
  BY <1>2, <1>6, Zenon

\* uman_remove takes it away again.
LEMMA BytesRemoved ==
  ASSUME NEW users, NEW size, NEW u \in users, size[u] \in Nat,
         IsFiniteSet(Bytes(users, size))
  PROVE  /\ IsFiniteSet(Bytes(users \ {u}, size))
         /\ Cardinality(Bytes(users \ {u}, size)) = Cardinality(Bytes(users, size)) - size[u]
<1>1. Bytes(users \ {u}, size) \in SUBSET Bytes(users, size)
  BY DEF Bytes
<1>2. IsFiniteSet(Bytes(users \ {u}, size))
  BY <1>1, FS_Subset
<1>3. u \notin users \ {u} /\ (users \ {u}) \cup {u} = users
  OBVIOUS
<1>4. Cardinality(Bytes(users, size)) = Cardinality(Bytes(users \ {u}, size)) + size[u]
  <2>1. Cardinality(Bytes((users \ {u}) \cup {u}, size)) = Cardinality(Bytes(users \ {u}, size)) + size[u]
    BY <1>2, <1>3, BytesAdded
  <2> QED
    BY <1>3, <2>1, Zenon
<1>5. Cardinality(Bytes(users \ {u}, size)) \in Nat
  BY <1>2, FS_CardinalityType
<1> QED
  BY <1>2, <1>4, <1>5

\* The bytes of a set depend on the sizes of its users only.
LEMMA BytesSame ==
  ASSUME NEW users, NEW size, NEW other, \A v \in users : other[v] = size[v]
  PROVE  Bytes(users, other) = Bytes(users, size)
BY DEF Bytes

\* Every step keeps users->shared_size the sum of the listed shares.
LEMMA SharedStep ==
  ASSUME TypeOK, Life, SharedBooked, [Next]_vars
  PROVE  SharedBooked'
<1> USE DEF SharedBooked, SharedAgrees
<1>t. /\ list \subseteq User /\ share \in [User -> Share]
      /\ \A v \in User : share[v] \in Nat
      /\ Cardinality(Bytes(list, share)) \in Nat
  BY ShareAssumption, FS_CardinalityType DEF TypeOK, UserManagerTypeOK
<1>1. CASE UNCHANGED Register
  BY <1>1 DEF Register
<1>2. ASSUME NEW u \in User, NEW n \in Nick, NEW c \in Cid, NEW b \in Share,
             hub_handle_info_login(u, n, c, b)
      PROVE  SharedBooked'
  <2>1. u \notin list /\ share' = [share EXCEPT ![u] = b] /\ UNCHANGED <<list, shared>>
    BY <1>2 DEF hub_handle_info_login, ExpectsInfo, Life, UserLife, UserSound
  <2>2. Bytes(list, share') = Bytes(list, share)
    BY <1>t, <2>1, BytesSame
  <2> QED
    BY <2>1, <2>2
<1>3. ASSUME NEW u \in User, RegisterLogin(u)
      PROVE  SharedBooked'
  <2>1. u \notin list /\ list' = list \cup {u} /\ shared' = shared + share[u] /\ UNCHANGED share
    BY <1>3 DEF RegisterLogin, on_login_success, uman_add
  <2>2. /\ IsFiniteSet(Bytes(list \cup {u}, share))
        /\ Cardinality(Bytes(list \cup {u}, share)) = Cardinality(Bytes(list, share)) + share[u]
    BY <1>t, <2>1, BytesAdded
  <2> QED
    BY <2>1, <2>2
<1>4. ASSUME NEW u \in User, RegisterRemove(u)
      PROVE  SharedBooked'
  <2>1. u \in list /\ list' = list \ {u} /\ shared' = shared - share[u] /\ UNCHANGED share
    BY <1>4 DEF RegisterRemove, uman_remove
  <2>2. /\ IsFiniteSet(Bytes(list \ {u}, share))
        /\ Cardinality(Bytes(list \ {u}, share)) = Cardinality(Bytes(list, share)) - share[u]
    BY <1>t, <2>1, BytesRemoved
  <2> QED
    BY <2>1, <2>2
<1>5. CASE hub_shutdown_service
  <2>1. list' = {} /\ shared' = 0
    BY <1>5 DEF hub_shutdown_service
  <2>2. Bytes({}, share') = {}
    BY DEF Bytes
  <2> QED
    BY <2>1, <2>2, FS_EmptySet
<1>6. ASSUME NEW u \in User, NEW b \in Share, RegisterUpdate(u, b)
      PROVE  SharedBooked'
  <2> DEFINE rest == list \ {u}
  <2>1. /\ u \in list /\ list' = list /\ share' = [share EXCEPT ![u] = b]
        /\ shared' = shared - share[u] + b
    BY <1>6 DEF RegisterUpdate
  <2>2. /\ IsFiniteSet(Bytes(rest, share))
        /\ Cardinality(Bytes(rest, share)) = Cardinality(Bytes(list, share)) - share[u]
    BY <1>t, <2>1, BytesRemoved
  <2>3. Bytes(rest, share') = Bytes(rest, share)
    BY <1>t, <2>1, BytesSame
  <2>4. u \notin rest /\ rest \cup {u} = list /\ share'[u] = b /\ b \in Nat
    BY <1>t, <2>1, ShareAssumption
  <2> HIDE DEF rest
  <2>5. /\ IsFiniteSet(Bytes(rest \cup {u}, share'))
        /\ Cardinality(Bytes(rest \cup {u}, share')) = Cardinality(Bytes(rest, share')) + b
    <3>1. IsFiniteSet(Bytes(rest, share')) /\ share'[u] \in Nat
      BY <2>2, <2>3, <2>4, Zenon
    <3>2. u \notin rest
      BY <2>4
    <3>3. /\ IsFiniteSet(Bytes(rest \cup {u}, share'))
          /\ Cardinality(Bytes(rest \cup {u}, share')) = Cardinality(Bytes(rest, share')) + share'[u]
      BY <3>1, <3>2, BytesAdded
    <3> QED
      BY <2>4, <3>3, Zenon
  <2>6. /\ IsFiniteSet(Bytes(list, share'))
        /\ Cardinality(Bytes(list, share')) = Cardinality(Bytes(rest, share)) + b
    BY <2>3, <2>4, <2>5, Zenon
  <2> QED
    BY <1>t, <2>1, <2>2, <2>4, <2>6
<1> QED
  BY <1>1, <1>2, <1>3, <1>4, <1>5, <1>6, RegisterStep

-----------------------------------------------------------------------------
(* What the clients know, SIDs and timers.                                 *)

\* Every effect keeps what the clients were told right.
LEMMA ViewStep ==
  ASSUME TypeOK, Life, ViewComplete, ViewSound, UserEffect
  PROVE  ViewComplete' /\ ViewSound'
<1> USE DEF Online
<1>t. /\ view \in [User -> SUBSET User] /\ state \in [User -> UserState] /\ noquit \subseteq User
      /\ \A v \in User : state[v] = "normal" => v \in list
  BY DEF TypeOK, UserManagerTypeOK, Life, UserLife, UserSound
<1>1. CASE Quiet
  BY <1>1, <1>t DEF Quiet, SameQuits, ViewComplete, ViewSound
<1>2. ASSUME NEW D \in SUBSET User, Drops(D)
      PROVE  ViewComplete' /\ ViewSound'
  <2>1. /\ \A v \in User : state'[v] = IF v \in D THEN "cleanup" ELSE state[v]
        /\ view' = view
        /\ noquit' = {} => noquit = {} /\ \A v \in D : state[v] = "normal" => NeedNotify(v)
        /\ \A v \in User : Has(v, "QUIT")' <=> Has(v, "QUIT") \/ (v \in D /\ NeedNotify(v))
    BY <1>2 DEF Drops, hub_disconnect_user
  <2>2. \A v \in D : state[v] # "shut"
    BY <1>2 DEF Drops, Connecting
  <2> QED
    BY <1>t, <2>1, <2>2 DEF ViewComplete, ViewSound
<1>3. ASSUME NEW D \in SUBSET User, Shuts(D)
      PROVE  ViewComplete' /\ ViewSound'
  <2>1. /\ \A v \in User : state'[v] = IF v \notin D THEN state[v]
                                       ELSE IF state[v] \in Freed THEN "double_free" ELSE "shut"
        /\ UNCHANGED <<view, noquit>>
        /\ \A v \in User : Has(v, "QUIT") /\ v \notin D => Has(v, "QUIT")'
        /\ \A v \in D : state[v] = "normal" \/ Has(v, "QUIT") \/ v \in noquit
    BY <1>3 DEF Shuts, user_destroy
  <2>2. \A v \in User : Has(v, "QUIT") => state[v] = "cleanup"
    BY DEF Life, QueueUsers, EventSound, Has
  <2> QED
    BY <1>t, <2>1, <2>2 DEF ViewComplete, ViewSound, Freed
<1>4. ASSUME NEW u \in User, Verifies(u)
      PROVE  ViewComplete' /\ ViewSound'
  BY <1>t, <1>4 DEF Verifies, SameQuits, ViewComplete, ViewSound
<1>5. ASSUME NEW u \in User, Enters(u)
      PROVE  ViewComplete' /\ ViewSound'
  <2>1. /\ \A v \in User : state'[v] = IF v = u THEN "normal" ELSE state[v]
        /\ \A v \in User : view'[v] = IF v = u THEN (list \cap Online) \cup {u}
                                      ELSE IF v \in list \cap Online THEN view[v] \cup {u}
                                      ELSE view[v]
        /\ noquit' = noquit /\ SameQuits
    BY <1>5, <1>t DEF Enters, on_login_success, uman_add
  <2>2. \A v \in User : state'[v] = "normal" => v = u \/ v \in list \cap Online
    BY <1>t, <2>1
  <2>3. ViewComplete'
    BY <1>t, <2>1, <2>2, Zenon DEF ViewComplete
  <2>4. ASSUME noquit' = {}, NEW x \in User, state'[x] = "normal", NEW v \in view'[x]
        PROVE  state'[v] \in {"normal", "shut"} \/ Has(v, "QUIT")'
    <3>1. CASE v = u
      BY <2>1, <3>1
    <3>2. CASE v # u /\ x = u
      BY <2>1, <3>2, Zenon
    <3>3. CASE v # u /\ x # u
      <4>1. v \in User /\ v \in view[x] /\ state[x] = "normal"
        BY <1>t, <2>1, <2>2, <2>4, <3>3, Zenon
      <4> QED
        BY <2>1, <2>4, <3>3, <4>1 DEF ViewSound, SameQuits
    <3> QED
      BY <3>1, <3>2, <3>3
  <2>5. ViewSound'
    BY <2>4 DEF ViewSound
  <2> QED
    BY <2>3, <2>5
<1>6. ASSUME NEW u \in User, Quits(u)
      PROVE  ViewComplete' /\ ViewSound'
  <2>1. /\ \A v \in User : view'[v] = IF v \in (list \cap Online) \ {u} THEN view[v] \ {u}
                                      ELSE view[v]
        /\ UNCHANGED <<state, noquit>> /\ state[u] = "cleanup"
        /\ \A v \in User : Has(v, "QUIT")' <=> Has(v, "QUIT") /\ v # u
    BY <1>6, Zenon DEF Quits, uman_send_quit_message
  <2> QED
    BY <1>t, <2>1, Zenon DEF ViewComplete, ViewSound
<1>7. ASSUME NEW u \in User, Frees(u)
      PROVE  ViewComplete' /\ ViewSound'
  BY <1>t, <1>7 DEF Frees, SameQuits, ViewComplete, ViewSound
<1>8. ASSUME NEW u \in User, user_create(u) \/ hub_handle_support(u)
      PROVE  ViewComplete' /\ ViewSound'
  <2>1. /\ \A v \in User : v # u => state'[v] = state[v]
        /\ state[u] \notin {"normal", "shut"} /\ state'[u] # "normal"
        /\ UNCHANGED <<view, noquit, queue>>
    BY <1>t, <1>8 DEF user_create, hub_handle_support
  <2>2. \A v \in User : Has(v, "QUIT") => Has(v, "QUIT")'
    BY <2>1 DEF Has
  <2> QED
    BY <1>t, <2>1, <2>2 DEF ViewComplete, ViewSound
<1> QED
  BY <1>1, <1>2, <1>3, <1>4, <1>5, <1>6, <1>7, <1>8 DEF UserEffect

\* Every effect leaves a timer running for each connecting user.
LEMMA TimerStep ==
  ASSUME TypeOK, Life, ConnectingHasTimer, UserEffect
  PROVE  ConnectingHasTimer'
<1> USE DEF ConnectingHasTimer
<1>t. timer \in [User -> BOOLEAN] /\ state \in [User -> UserState]
  BY DEF TypeOK
<1>1. CASE Quiet
  BY <1>1 DEF Quiet
<1>2. ASSUME NEW D \in SUBSET User, Drops(D)
      PROVE  ConnectingHasTimer'
  BY <1>2, Zenon DEF Drops, hub_disconnect_user, Connecting
<1>3. ASSUME NEW D \in SUBSET User, Shuts(D)
      PROVE  ConnectingHasTimer'
  BY <1>3 DEF Shuts, user_destroy, Connecting
<1>4. ASSUME NEW u \in User, Verifies(u)
      PROVE  ConnectingHasTimer'
  BY <1>4 DEF Verifies, Connecting
<1>5. ASSUME NEW u \in User, Enters(u)
      PROVE  ConnectingHasTimer'
  BY <1>t, <1>5 DEF Enters, on_login_success, Connecting
<1>6. ASSUME NEW u \in User, Quits(u)
      PROVE  ConnectingHasTimer'
  BY <1>6 DEF Quits
<1>7. ASSUME NEW u \in User, Frees(u)
      PROVE  ConnectingHasTimer'
  BY <1>7 DEF Frees, Connecting
<1>8. ASSUME NEW u \in User, user_create(u) \/ hub_handle_support(u)
      PROVE  ConnectingHasTimer'
  BY <1>t, <1>8 DEF user_create, hub_handle_support
<1> QED
  BY <1>1, <1>2, <1>3, <1>4, <1>5, <1>6, <1>7, <1>8, Zenon DEF UserEffect

\* The SID of a user that still needs it.
SidInUse(u) ==
  state[u] \in Connecting \cup {"normal"} \/ (state[u] = "cleanup" /\ Has(u, "QUIT"))

\* Releasing the SIDs of users that do not need them any more.
LEMMA SidRelease ==
  ASSUME TypeOK, SidOwned, SidMap, NEW D \in SUBSET User, sidmap' = sid_free(D), UNCHANGED sid,
         \A v \in D : SidInUse(v),
         \A v \in User : SidInUse(v)' => SidInUse(v) /\ v \notin D
  PROVE  /\ SidOwned'
         /\ \A s \in Sid : sidmap'[s] # NoUser => sidmap'[s] = sidmap[s] /\ sidmap[s] \notin D
<1>1. \A s \in Sid : sidmap'[s] = IF \E u \in D : sid[u] = s THEN NoUser ELSE sidmap[s]
  BY DEF sid_free
<1>2. sid \in [User -> Sid \cup {NoSid}] /\ sidmap \in [Sid -> User \cup {NoUser}]
  BY DEF TypeOK
<1>3. \A s \in Sid : sidmap'[s] # NoUser => sidmap'[s] = sidmap[s] /\ sidmap[s] \notin D
  BY <1>1, <1>2 DEF SidMap
<1>4. ASSUME NEW v \in User, sid[v] # NoSid, SidInUse(v)'
      PROVE  sidmap'[sid[v]] = v
  <2>1. sidmap[sid[v]] = v /\ sid[v] \in Sid
    BY <1>2, <1>4 DEF SidOwned, SidInUse
  <2>2. \A u \in D : sid[u] # sid[v]
    <3>1. SUFFICES ASSUME NEW u \in D, sid[u] = sid[v]
                   PROVE  FALSE
      OBVIOUS
    <3>2. sidmap[sid[u]] = u
      BY <2>1, <3>1, <1>2, SidAssumption DEF SidOwned, SidInUse
    <3> QED
      BY <1>4, <2>1, <3>1, <3>2
  <2> QED
    BY <1>1, <2>1, <2>2
<1> QED
  BY <1>3, <1>4 DEF SidOwned, SidInUse

\* Every effect leaves each SID with its owner.
LEMMA SidStep ==
  ASSUME TypeOK, Life, SidOwned, SidMap, UserEffect
  PROVE  SidOwned' /\ SidMap'
<1>t. /\ sid \in [User -> Sid \cup {NoSid}] /\ sidmap \in [Sid -> User \cup {NoUser}]
      /\ state \in [User -> UserState]
  BY DEF TypeOK
<1>q. \A v \in User : Has(v, "QUIT") => state[v] = "cleanup"
  BY DEF Life, QueueUsers, EventSound, Has
<1>1. CASE Quiet
  BY <1>1, <1>t DEF Quiet, SameQuits, SidOwned, SidMap
<1>2. ASSUME NEW D \in SUBSET User, Drops(D)
      PROVE  SidOwned' /\ SidMap'
  <2> DEFINE F == {u \in D : ~NeedNotify(u)}
  <2>1. /\ \A v \in User : state'[v] = IF v \in D THEN "cleanup" ELSE state[v]
        /\ \A v \in User : Has(v, "QUIT")' <=> Has(v, "QUIT") \/ (v \in D /\ NeedNotify(v))
        /\ \A v \in D : state[v] \in Connecting \cup {"normal"}
        /\ sidmap' = sid_free(F) /\ sid' = sid
        /\ noquit' = noquit \cup {u \in F : state[u] = "normal"}
    BY <1>2 DEF Drops, hub_disconnect_user
  <2>2. \A v \in D : SidInUse(v)
    BY <2>1 DEF SidInUse
  <2>3. \A v \in User : SidInUse(v)' => SidInUse(v) /\ v \notin F
    BY <1>q, <2>1 DEF SidInUse, Connecting
  <2>4. /\ SidOwned'
        /\ \A s \in Sid : sidmap'[s] # NoUser => sidmap'[s] = sidmap[s] /\ sidmap[s] \notin F
    <3>1. F \in SUBSET User /\ \A v \in F : SidInUse(v)
      BY <2>2
    <3> HIDE DEF F
    <3> QED
      BY <2>1, <2>3, <3>1, SidRelease
  <2>5. SidMap'
    BY <1>t, <2>1, <2>4 DEF SidMap
  <2> QED
    BY <2>4, <2>5
<1>3. ASSUME NEW D \in SUBSET User, Shuts(D)
      PROVE  SidOwned' /\ SidMap'
  <2>1. /\ \A v \in User : state'[v] = IF v \notin D THEN state[v]
                                       ELSE IF state[v] \in Freed THEN "double_free" ELSE "shut"
        /\ UNCHANGED <<sid, sidmap, noquit>>
        /\ \A v \in User : Has(v, "QUIT")' => Has(v, "QUIT")
        /\ \A v \in User : Has(v, "QUIT") /\ v \notin D => Has(v, "QUIT")'
        /\ \A v \in D : state[v] = "normal" \/ Has(v, "QUIT") \/ v \in noquit
    BY <1>3 DEF Shuts, user_destroy
  <2>2. SidOwned'
    BY <1>t, <2>1 DEF SidOwned, Connecting
  <2>3. SidMap'
    BY <1>t, <1>q, <2>1 DEF SidMap, Freed
  <2> QED
    BY <2>2, <2>3
<1>4. ASSUME NEW u \in User, Verifies(u)
      PROVE  SidOwned' /\ SidMap'
  BY <1>t, <1>4 DEF Verifies, SameQuits, SidOwned, SidMap, Connecting
<1>5. ASSUME NEW u \in User, Enters(u)
      PROVE  SidOwned' /\ SidMap'
  <2>1. /\ \A v \in User : state'[v] = IF v = u THEN "normal" ELSE state[v]
        /\ state[u] \in Connecting
        /\ UNCHANGED <<sid, sidmap, noquit>> /\ SameQuits
    BY <1>5, <1>t DEF Enters, on_login_success
  <2> QED
    BY <1>t, <2>1 DEF SameQuits, SidOwned, SidMap, Connecting
<1>6. ASSUME NEW u \in User, Quits(u)
      PROVE  SidOwned' /\ SidMap'
  <2>1. /\ UNCHANGED <<state, sid, noquit>> /\ SidInUse(u) /\ sidmap' = sid_free({u})
        /\ state[u] = "cleanup"
        /\ \A v \in User : Has(v, "QUIT")' <=> Has(v, "QUIT") /\ v # u
    BY <1>6 DEF Quits, SidInUse
  <2>2. \A v \in User : SidInUse(v)' => SidInUse(v) /\ v \notin {u}
    BY <2>1 DEF SidInUse, Connecting
  <2>3. /\ SidOwned'
        /\ \A s \in Sid : sidmap'[s] # NoUser => sidmap'[s] = sidmap[s] /\ sidmap[s] \notin {u}
    BY <2>1, <2>2, SidRelease
  <2>4. SidMap'
    BY <1>t, <2>1, <2>3, Zenon DEF SidMap
  <2> QED
    BY <2>3, <2>4
<1>7. ASSUME NEW u \in User, Frees(u)
      PROVE  SidOwned' /\ SidMap'
  BY <1>t, <1>7 DEF Frees, SameQuits, SidOwned, SidMap, Connecting
<1>8. ASSUME NEW u \in User, user_create(u)
      PROVE  SidOwned' /\ SidMap'
  <2>1. /\ \A v \in User : state'[v] = IF v = u THEN "protocol" ELSE state[v]
        /\ state[u] = "unborn"
        /\ UNCHANGED <<sid, sidmap, noquit, queue>>
    BY <1>8, <1>t DEF user_create
  <2>2. SameQuits
    BY <2>1 DEF SameQuits, Has
  <2> QED
    BY <1>t, <1>q, <2>1, <2>2 DEF SameQuits, SidOwned, SidMap
<1>9. ASSUME NEW u \in User, hub_handle_support(u)
      PROVE  SidOwned' /\ SidMap'
  <2>1. PICK s \in Sid \cup {NoSid} :
          /\ s \in Sid => sidmap[s] = NoUser
          /\ sid' = [sid EXCEPT ![u] = s]
          /\ sidmap' = [t \in Sid |-> IF t = s THEN u ELSE sidmap[t]]
    <3> DEFINE S == IF FreeSid = {} THEN {NoSid} ELSE FreeSid
    <3>1. PICK s \in S : /\ sid' = [sid EXCEPT ![u] = s]
                         /\ sidmap' = [t \in Sid |-> IF t = s THEN u ELSE sidmap[t]]
      BY <1>9, Zenon DEF hub_handle_support
    <3>2. s \in Sid \cup {NoSid} /\ (s \in Sid => sidmap[s] = NoUser)
      BY SidAssumption DEF FreeSid
    <3> QED
      BY <3>1, <3>2, Zenon
  <2>2. /\ \A v \in User : state'[v] = IF v = u THEN "identify" ELSE state[v]
        /\ state[u] = "protocol"
        /\ UNCHANGED <<noquit, queue>>
    BY <1>9, <1>t DEF hub_handle_support
  <2>3. SameQuits
    BY <2>2 DEF SameQuits, Has
  <2>4. u \notin noquit /\ sid[u] = NoSid
    BY <2>2 DEF Life, UserLife, UserSound, Freed, SidMap
  <2>5. SidOwned'
    <3> SUFFICES ASSUME NEW v \in User, sid'[v] # NoSid, SidInUse(v)'
                 PROVE  sidmap'[sid'[v]] = v
      BY DEF SidOwned, SidInUse
    <3>1. CASE v = u
      BY <1>t, <2>1, <3>1
    <3>2. CASE v # u
      <4>1. sid'[v] = sid[v] /\ SidInUse(v)
        BY <1>t, <2>1, <2>2, <2>3, <3>2 DEF SameQuits, SidInUse
      <4>2. sid[v] \in Sid /\ sidmap[sid[v]] = v
        BY <1>t, <4>1 DEF SidOwned, SidInUse
      <4> QED
        BY <2>1, <4>1, <4>2, UserAssumption
    <3> QED
      BY <3>1, <3>2
  <2>6. SidMap'
    BY <1>t, <1>q, <2>1, <2>2, <2>3, <2>4 DEF SameQuits, SidMap
  <2> QED
    BY <2>5, <2>6
<1> QED
  BY <1>1, <1>2, <1>3, <1>4, <1>5, <1>6, <1>7, <1>8, <1>9 DEF UserEffect

-----------------------------------------------------------------------------
(* The theorems.                                                           *)

\* The inductive invariant holds of the hub as hub_start_service leaves it.
LEMMA InvInit == Init => IInv
<1> SUFFICES ASSUME Init PROVE IInv
  OBVIOUS
<1>1. TypeOK
  BY TypeInit
<1>2. Events(queue) = {} /\ Len(queue) = 0
  BY DEF Init, Events
<1>3. QueueOrder /\ QueueUsers /\ DrainPhase /\ ShutdownDrained
  BY <1>2 DEF Init, UserManagerInit, QueueOrder, Ordered, QueueUsers, DrainPhase,
              ShutdownDrained, Pass
<1>4. UserLife
  BY DEF Init, UserManagerInit, UserLife, UserSound
<1>5. Indexed
  BY DEF Init, UserManagerInit, Indexed, IndexSound, GuestIndexed, CidIndexed
<1>6. CountAgrees
  BY FS_EmptySet DEF Init, UserManagerInit, CountAgrees
<1>8. SharedBooked
  <2>1. Bytes({}, share) = {}
    BY DEF Bytes
  <2> QED
    BY <2>1, FS_EmptySet DEF Init, UserManagerInit, SharedBooked, SharedAgrees
<1>7. ViewComplete /\ ViewSound /\ SidOwned /\ SidMap /\ ConnectingHasTimer
  BY DEF Init, UserManagerInit, ViewComplete, ViewSound, Online, SidOwned, SidMap,
         ConnectingHasTimer, Connecting
<1> QED
  BY <1>1, <1>3, <1>4, <1>5, <1>6, <1>7, <1>8 DEF IInv, Indexed

\* Every step of the hub preserves it.
LEMMA InvStep ==
  ASSUME IInv, [Next]_vars
  PROVE  IInv'
<1>0. TypeOK /\ Life /\ Indexed /\ CountAgrees /\ SharedBooked
  BY DEF IInv, Life, Indexed
<1>1. TypeOK'
  <2>1. CASE UNCHANGED vars \/ Terminated
    BY <1>0, <2>1 DEF Terminated, TypeOK, UserManagerTypeOK
  <2> QED
    BY <1>0, <2>1, TypeCallback, TypeDispatch, TypeLoop DEF Next, Life
<1>2. Life'
  <2>1. CASE UNCHANGED vars \/ Terminated
    <3>1. UNCHANGED <<nick, list, status, pc, queue, left, state, info, noquit>>
      BY <2>1 DEF Terminated
    <3>2. QueueOrder' /\ DrainPhase' /\ ShutdownDrained'
      BY <1>0, <3>1 DEF Life, QueueOrder, DrainPhase, ShutdownDrained
    <3>3. QueueUsers'
      BY <1>0, <3>1, Zenon DEF Life, QueueUsers, EventSound
    <3>4. UserLife'
      BY <1>0, <3>1 DEF Life, UserLife, UserSound, Has
    <3> QED
      BY <3>2, <3>3, <3>4 DEF Life
  <2> QED
    BY <1>0, <2>1, LifeCallback, LifeDispatch, LifeLoop DEF Next
<1>3. Indexed' /\ CountAgrees' /\ SharedBooked'
  BY <1>0, IndexedStep, CountStep, SharedStep
<1>4. UserEffect
  BY <1>0, EffectStep
<1>5. ViewComplete' /\ ViewSound' /\ SidOwned' /\ SidMap' /\ ConnectingHasTimer'
  BY <1>0, <1>4, ViewStep, SidStep, TimerStep DEF IInv
<1> QED
  BY <1>1, <1>2, <1>3, <1>5 DEF IInv, Life, Indexed

\* The inductive invariant holds in every state of the hub.
THEOREM HubInvariant == Spec => []IInv
<1>1. IInv /\ [Next]_vars => IInv'
  BY InvStep
<1> QED
  BY InvInit, <1>1, PTL DEF Spec

\* Every variable keeps its type.
THEOREM TypesHold == Spec => []TypeOK
<1>1. IInv => TypeOK
  BY DEF IInv
<1> QED
  BY <1>1, HubInvariant, PTL

\* No event in the queue names a user that hub_event_dispatcher has freed.
THEOREM EventsOutliveNobody == Spec => []EventsLive
<1>1. ASSUME IInv PROVE EventsLive
  <2>1. \A e \in Events(queue) : e \in Event /\ EventSound(e)
    BY <1>1 DEF IInv, TypeOK, Events, QueueUsers
  <2> QED
    BY <1>1, <2>1 DEF EventsLive, EventSound, Event, Connecting
<1> QED
  BY <1>1, HubInvariant, PTL

\* A disconnected user has exactly one of QUIT and DESTROY pending until it is
\* freed: hub_disconnect_user and the QUIT case of hub_event_dispatcher neither
\* forget a user nor free it twice.
THEOREM EveryUserIsCleanedUp == Spec => []CleanupPending
<1>1. ASSUME IInv PROVE CleanupPending
  <2>1. \A u \in User : ~(Has(u, "QUIT") /\ Has(u, "DESTROY"))
    BY <1>1 DEF IInv, QueueUsers, EventSound, Has
  <2> QED
    BY <1>1, <2>1 DEF IInv, UserLife, UserSound, CleanupPending
<1> QED
  BY <1>1, HubInvariant, PTL

\* While every logged-in user that was dropped got its QUIT event, neither the
\* user list nor the SID pool refers to a freed user.
THEOREM RegisterHoldsNoFreedUser == Spec => []NoDangling
<1>1. ASSUME IInv PROVE NoDangling
  <2>1. \A v \in User : Has(v, "QUIT") => state[v] = "cleanup"
    BY <1>1 DEF IInv, QueueUsers, EventSound, Has
  <2>2. list \subseteq User /\ sidmap \in [Sid -> User \cup {NoUser}]
    BY <1>1 DEF IInv, TypeOK, UserManagerTypeOK
  <2> QED
    BY <1>1, <2>1, <2>2 DEF IInv, UserLife, UserSound, SidMap, NoDangling
<1> QED
  BY <1>1, HubInvariant, PTL

\* The life of a user as the queue, the register and the SID pool see it: nothing in use
\* is freed, nothing dropped is forgotten.
THEOREM UserLifeIsSound == Spec => []LifeSound
<1>1. EventsLive /\ CleanupPending /\ NoDangling => LifeSound
  BY DEF LifeSound
<1> QED
  BY <1>1, EventsOutliveNobody, EveryUserIsCleanedUp, RegisterHoldsNoFreedUser, PTL

\* The nick and CID indexes of the user manager lead to listed users with that
\* nick and CID, whatever uman_remove dropped.
THEOREM IndexesAreSound == Spec => []IndexSound
<1>1. IInv => IndexSound
  BY DEF IInv
<1> QED
  BY <1>1, HubInvariant, PTL

\* check_duplicate_logins_ok lets one user per unregistered nick in.
THEOREM GuestNicksAreUnique == Spec => []GuestIndexed
<1>1. IInv => GuestIndexed
  BY DEF IInv
<1> QED
  BY <1>1, HubInvariant, PTL

\* Without registered nicks, two listed users never share a CID.
THEOREM GuestCidsAreUnique == Spec => []CidIndexed
<1>1. IInv => CidIndexed
  BY DEF IInv
<1> QED
  BY <1>1, HubInvariant, PTL

\* uman_add and uman_remove keep users->count equal to the length of the list.
THEOREM CounterAgrees == Spec => []CountAgrees
<1>1. IInv => CountAgrees
  BY DEF IInv
<1> QED
  BY <1>1, HubInvariant, PTL

\* The user register: list, indexes and counter agree.
THEOREM RegisterIsSound == Spec => []RegisterSound
<1>1. IndexSound /\ GuestIndexed /\ CidIndexed /\ CountAgrees => RegisterSound
  BY DEF RegisterSound
<1> QED
  BY <1>1, IndexesAreSound, GuestNicksAreUnique, GuestCidsAreUnique, CounterAgrees, PTL

\* users->shared_size is the sum of the shares of the listed users, through updates, limit
\* violations and removals.
THEOREM SharesAddUp == Spec => []SharedAgrees
<1>1. IInv => SharedAgrees
  BY DEF IInv, SharedBooked
<1> QED
  BY HubInvariant, <1>1, PTL

\* A client that is logged in was told about every other logged-in user
\* (uman_send_user_list and route_info_message leave no gap).
THEOREM ClientsKnowEverybody == Spec => []ViewComplete
<1>1. IInv => ViewComplete
  BY DEF IInv
<1> QED
  BY <1>1, HubInvariant, PTL

\* A client believes nobody online but who is, or whose QUIT is pending.
THEOREM ClientsKnowNobodyElse == Spec => []ViewSound
<1>1. IInv => ViewSound
  BY DEF IInv
<1> QED
  BY <1>1, HubInvariant, PTL

\* The clients' user lists are the hub's.
THEOREM ClientsAgree == Spec => []ViewsAgree
<1>1. ViewComplete /\ ViewSound => ViewsAgree
  BY DEF ViewsAgree
<1> QED
  BY <1>1, ClientsKnowEverybody, ClientsKnowNobodyElse, PTL

\* A SID belongs to its user from hub_send_sid until the QUIT message is sent.
THEOREM SidsAreOwned == Spec => []SidOwned
<1>1. IInv => SidOwned
  BY DEF IInv
<1> QED
  BY <1>1, HubInvariant, PTL

\* A user that has not logged in has a running timeout.
THEOREM ConnectingUsersTimeOut == Spec => []ConnectingHasTimer
<1>1. IInv => ConnectingHasTimer
  BY DEF IInv
<1> QED
  BY <1>1, HubInvariant, PTL

\* Three passes of event_queue_process empty the queue of a hub that shuts down
\* and its list of users.
THEOREM ShutdownDrains == Spec => []ShutdownDrained
<1>1. IInv => ShutdownDrained
  BY DEF IInv
<1> QED
  BY <1>1, HubInvariant, PTL

\* user->state never moves backwards: nothing brings a dropped user back.
THEOREM StatesMoveForward == Spec => StateForward
<1>1. ASSUME IInv, [Next]_vars
      PROVE  [\A u \in User : Rank(state'[u]) >= Rank(state[u])]_vars
  <2>1. UserEffect /\ state \in [User -> UserState]
    BY <1>1, EffectStep DEF IInv, Life, TypeOK
  <2>2. \A u \in User : Rank(state[u]) \in 0..6
    BY DEF Rank
  <2>3. SUFFICES ASSUME NEW v \in User
                 PROVE  Rank(state'[v]) >= Rank(state[v])
    OBVIOUS
  <2>4. CASE state'[v] = state[v]
    BY <2>2, <2>4
  <2>5. CASE state'[v] \in {"cleanup"} /\ state[v] \in Connecting \cup {"normal"}
    BY <2>5 DEF Rank, Connecting
  <2>6. CASE state'[v] \in Freed
    BY <2>2, <2>6 DEF Rank, Freed
  <2>7. CASE state'[v] = "verify" /\ state[v] \in {"protocol", "identify"}
    BY <2>7 DEF Rank
  <2>8. CASE state'[v] = "normal" /\ state[v] \in Connecting
    BY <2>8 DEF Rank, Connecting
  <2>9. CASE state'[v] = "protocol" /\ state[v] = "unborn"
    BY <2>9 DEF Rank
  <2>10. CASE state'[v] = "identify" /\ state[v] = "protocol"
    BY <2>10 DEF Rank
  <2> HIDE <2>2
  <2>11. CASE Quiet \/ \E u \in User : Quits(u)
    BY <2>4, <2>11, Zenon DEF Quiet, Quits
  <2>12. ASSUME NEW D \in SUBSET User, Drops(D) \/ Shuts(D)
         PROVE  Rank(state'[v]) >= Rank(state[v])
    BY <2>4, <2>5, <2>6, <2>12, Zenon DEF Drops, hub_disconnect_user, Shuts, user_destroy, Freed
  <2>13. ASSUME NEW u \in User, Verifies(u) \/ Enters(u) \/ Frees(u) \/ user_create(u)
                                \/ hub_handle_support(u)
         PROVE  Rank(state'[v]) >= Rank(state[v])
    BY <2>1, <2>4, <2>6, <2>7, <2>8, <2>9, <2>10, <2>13
       DEF Verifies, Enters, Frees, user_create, hub_handle_support, on_login_success, Freed
  <2> QED
    BY <2>1, <2>11, <2>12, <2>13 DEF UserEffect
<1> QED
  BY <1>1, HubInvariant, PTL DEF Spec, StateForward

\* Posting one or two events, or none, keeps the order of the others.
LEMMA PostFollows ==
  ASSUME NEW q \in Seq(Event), NEW d \in Event, NEW e \in Event
  PROVE  /\ Fifo!Follows(q, 0, q)
         /\ Fifo!Follows(q, 0, Append(q, e))
         /\ Fifo!Follows(q, 0, Append(Append(q, d), e))
<1>1. Len(q) \in Nat
  OBVIOUS
<1> DEFINE r == Append(q, d)
<1>2. /\ r \in Seq(Event) /\ Len(r) = Len(q) + 1
      /\ \A i \in 1..Len(q) : r[i] = q[i]
  BY AppendFacts
<1>3. Fifo!Follows(q, 0, q) /\ Fifo!Follows(q, 0, Append(q, e))
  BY <1>1, AppendFacts DEF Fifo!Follows
<1> HIDE DEF r
<1>4. Fifo!Follows(q, 0, Append(r, e))
  BY <1>1, <1>2, AppendFacts DEF Fifo!Follows
<1> QED
  BY <1>3, <1>4 DEF r

\* So does taking the oldest one, whether or not its handler posts another.
LEMMA TakeFollows ==
  ASSUME NEW q \in Seq(Event), Len(q) > 0, NEW e \in Event
  PROVE  /\ Fifo!Follows(q, 1, Tail(q))
         /\ Fifo!Follows(q, 1, Append(Tail(q), e))
<1> DEFINE r == Tail(q)
<1>1. Len(q) \in Nat
  OBVIOUS
<1>2. /\ r \in Seq(Event) /\ Len(r) = Len(q) - 1
      /\ \A i \in 1..(Len(q) - 1) : r[i] = q[i + 1]
  BY TailFacts
<1> HIDE DEF r
<1>3. Fifo!Follows(q, 1, r) /\ Fifo!Follows(q, 1, Append(r, e))
  BY <1>1, <1>2, AppendFacts DEF Fifo!Follows
<1> QED
  BY <1>3 DEF r

\* A network callback posts events or leaves the queue alone.
LEMMA CallbackPosts ==
  ASSUME TypeOK, NEW u \in User, Callback(u)
  PROVE  Fifo!FifoPost
<1>0. queue \in Seq(Event) /\ nickmap \in [Nick -> User \cup {NoUser}]
  BY DEF TypeOK, UserManagerTypeOK
<1>1. CASE UNCHANGED <<queue, left>>
  BY <1>0, <1>1, PostFollows, EventTypes DEF Fifo!FifoPost
<1>2. CASE left' = left /\ \E v \in User : queue' = Append(queue, DisconnectEvent(v))
  BY <1>0, <1>2, PostFollows, EventTypes DEF Fifo!FifoPost
<1>3. ASSUME NEW n \in Nick, NEW c \in Cid, NEW e \in Event,
             left' = left, queue' = Append(GhostQueue(n, c), e)
      PROVE  Fifo!FifoPost
  <2>1. CASE GhostOf(n, c) = {}
    BY <1>0, <1>3, <2>1, PostFollows DEF Fifo!FifoPost, GhostQueue
  <2>2. CASE GhostOf(n, c) # {}
    <3>1. nickmap[n] \in User
      BY <2>2 DEF GhostOf, Online
    <3>2. DisconnectEvent(nickmap[n]) \in Event
      BY <3>1, EventTypes
    <3> QED
      BY <1>0, <1>3, <2>2, <3>2, PostFollows DEF Fifo!FifoPost, GhostQueue
  <2> QED
    BY <2>1, <2>2
<1>4. CASE user_create(u) \/ hub_handle_support(u) \/ hub_handle_password(u)
  BY <1>1, <1>4 DEF user_create, hub_handle_support, hub_handle_password
<1>5. CASE Drop(u) \/ Timeout(u)
  BY <1>1, <1>2, <1>5 DEF Drop, Timeout, Leave
<1>6. ASSUME NEW b \in Share, hub_handle_info_update(u, b) PROVE Fifo!FifoPost
  BY <1>1, <1>2, <1>6 DEF hub_handle_info_update, Leave
<1>7. ASSUME NEW n \in Nick, command_kick(u, n) PROVE Fifo!FifoPost
  BY <1>2, <1>7 DEF command_kick, Leave, Online
<1>8. ASSUME NEW n \in Nick, NEW c \in Cid, hub_handle_info_refused(u, n, c)
      PROVE  Fifo!FifoPost
  BY <1>3, <1>8, EventTypes DEF hub_handle_info_refused
<1>9. ASSUME NEW n \in Nick, NEW c \in Cid, NEW b \in Share,
             hub_handle_info_login(u, n, c, b)
      PROVE  Fifo!FifoPost
  <2>1. Join(u, n \in Registered) \in Event
    <3>1. (n \in Registered) \in BOOLEAN
      OBVIOUS
    <3> QED
      BY <3>1, EventTypes, Zenon
  <2> QED
    <3>1. left' = left /\ queue' = Append(GhostQueue(n, c), Join(u, n \in Registered))
      BY <1>9 DEF hub_handle_info_login
    <3> QED
      BY <1>3, <2>1, <3>1
<1> QED
  BY <1>4, <1>5, <1>6, <1>7, <1>8, <1>9 DEF Callback

\* hub_event_dispatcher takes the oldest event of the pass and posts at most one.
LEMMA DispatchDelivers ==
  ASSUME TypeOK, QueueOrder, QueueUsers, Dispatch
  PROVE  Fifo!FifoDeliver \/ UNCHANGED <<queue, left>>
<1>0. queue \in Seq(Event) /\ left \in Nat /\ left <= Len(queue)
  BY DEF TypeOK, QueueOrder
<1>1. CASE DispatchShutdown
  BY <1>1 DEF DispatchShutdown
<1> SUFFICES ASSUME ~DispatchShutdown PROVE Fifo!FifoDeliver
  BY <1>1
<1>2. left > 0 /\ left' = left - 1
  BY Zenon DEF Dispatch, Dispatching, DispatchJoinGone, DispatchJoinPassword, DispatchJoinGuest,
         DispatchJoinDuplicate, DispatchQuit, DispatchDestroy, DispatchShutdownDone
<1>3. Len(queue) > 0
  BY <1>0, <1>2
<1> DEFINE h == Head(queue).ptr
<1>4. queue' = Tail(queue) \/ queue' = Append(Tail(queue), DisconnectEvent(h))
                          \/ queue' = Append(Tail(queue), Destroy(h))
  BY Zenon DEF Dispatch, Leave, DispatchJoinGone, DispatchJoinPassword, DispatchJoinGuest,
         DispatchJoinDuplicate, DispatchQuit, DispatchDestroy, DispatchShutdownDone
<1>5. queue' = Tail(queue) \/ h \in User
  <2>1. Head(queue) \in Events(queue)
    BY <1>0, <1>3 DEF Events
  <2>2. Head(queue).id \in {"JOIN", "QUIT"} => h \in User
    BY <2>1, Zenon DEF QueueUsers, EventSound, TypeOK, UserManagerTypeOK
  <2> QED
    BY <2>2, Zenon DEF Dispatch, Dispatching, Leave, DispatchJoinGone, DispatchJoinPassword,
         DispatchJoinGuest, DispatchJoinDuplicate, DispatchQuit, DispatchDestroy,
         DispatchShutdownDone
<1>6. Fifo!Follows(queue, 1, queue')
  <2>1. Shutdown \in Event
    BY DEF Shutdown, Event
  <2>2. CASE queue' = Tail(queue)
    BY <1>0, <1>3, <2>1, <2>2, TakeFollows
  <2>3. CASE queue' = Append(Tail(queue), DisconnectEvent(h)) /\ h \in User
    <3>1. DisconnectEvent(h) \in Event
      BY <2>3, EventTypes
    <3> QED
      BY <1>0, <1>3, <2>3, <3>1, TakeFollows
  <2>4. CASE queue' = Append(Tail(queue), Destroy(h)) /\ h \in User
    <3>1. Destroy(h) \in Event
      BY <2>4, EventTypes
    <3> QED
      BY <1>0, <1>3, <2>4, <3>1, TakeFollows
  <2> QED
    BY <1>4, <1>5, <2>2, <2>3, <2>4
<1> QED
  BY <1>2, <1>3, <1>6 DEF Fifo!FifoDeliver

\* The hub uses its event queue as the FIFO queue that event_queue_process
\* implements, until hub_shutdown_service destroys it.
THEOREM HubUsesFifo == Spec => QueueIsFifo
<1>1. ASSUME IInv, [Next]_vars
      PROVE  [Fifo!FifoNext \/ pc' = "exit"]_<<queue, left>>
  <2>0. TypeOK /\ QueueOrder /\ QueueUsers /\ queue \in Seq(Event)
    BY <1>1 DEF IInv, TypeOK
  <2>1. ASSUME NEW u \in User, Callback(u) PROVE Fifo!FifoNext
    BY <2>0, <2>1, CallbackPosts DEF Fifo!FifoNext
  <2>2. CASE Dispatch
    BY <2>0, <2>2, DispatchDelivers DEF Fifo!FifoNext
  <2>3. CASE hub_set_variables \/ LoopAgain \/ DrainDone \/ MainLoop \/ hub_handle_signal
             \/ Terminated \/ UNCHANGED vars
    BY <2>3 DEF hub_set_variables, LoopAgain, DrainDone, MainLoop, hub_handle_signal, Terminated
  <2>4. Fifo!Follows(queue, 0, queue) /\ Fifo!Follows(queue, 0, Append(queue, Shutdown))
    <3>1. Shutdown \in Event
      BY DEF Shutdown, Event
    <3> QED
      BY <2>0, <3>1, PostFollows
  <2>5. CASE NetDone \/ LoopLeft \/ Drained \/ hub_disconnect_all
    <3>1. left = 0
      BY <2>0, <2>5 DEF NetDone, LoopLeft, Drained, hub_disconnect_all, QueueOrder, Pass
    <3>2. CASE UNCHANGED <<queue, left>>
      BY <3>2
    <3>3. CASE left' = Len(queue') /\ queue' \in {queue, Append(queue, Shutdown)}
      BY <2>4, <3>1, <3>3, Zenon DEF Fifo!FifoNext, Fifo!FifoBegin
    <3> QED
      BY <2>5, <3>2, <3>3 DEF NetDone, LoopLeft, Drained, hub_disconnect_all
  <2>6. CASE hub_shutdown_service
    BY <2>6 DEF hub_shutdown_service
  <2> QED
    BY <1>1, <2>1, <2>2, <2>3, <2>5, <2>6 DEF Next, Loop
<1>2. Init => Fifo!FifoInit
  BY DEF Init, Fifo!FifoInit
<1> QED
  BY <1>1, <1>2, HubInvariant, PTL DEF Spec, QueueIsFifo
=============================================================================
