---------------------------- MODULE SessionProof ----------------------------
(***************************************************************************)
(* What every session of the hub is given, proved for any nicks, credentials  *)
(* and size of the pool: credentials that follow the accounts, which only     *)
(* rise by the hand of someone who stands as high (Accounts), and a session   *)
(* id of its own as long as at most half of the pool is in use (SidPool).     *)
(***************************************************************************)
EXTENDS SidPool, Accounts, FiniteSetTheorems, WellFoundedInduction, TLAPS

-----------------------------------------------------------------------------
(* The plugin that decides                                                      *)

\* A set of numbers has a least one.
LEMMA LeastPlace ==
  ASSUME NEW B \in SUBSET Nat, B # {}
  PROVE  \E s \in B : \A r \in B : s <= r
<1>1. IsWellFoundedOn(OpToRel(<, Nat), Nat)
  BY NatLessThanWellFounded, Zenon
<1>2. PICK s \in B : \A r \in B : ~ (<<r, s>> \in OpToRel(<, Nat))
  BY <1>1, WFMin, Zenon
<1>3. \A r \in B : ~ (r < s)
  BY <1>2, Zenon DEF OpToRel
<1> QED
  BY <1>3

\* PLUGIN_INVOKE_STATUS: the answer is that of the first plugin that decides, if any.
LEMMA FirstDecides ==
  ASSUME NEW k \in Nat, NEW answers, DOMAIN answers = 1..k, NEW undecided
  PROVE  \/ /\ \A i \in 1..k : answers[i].st = st_default
            /\ Decided(answers, undecided) = undecided
         \/ \E i \in 1..k : /\ answers[i].st # st_default
                            /\ \A j \in 1..k : j < i => answers[j].st = st_default
                            /\ Decided(answers, undecided) = answers[i]
<1> DEFINE given == {i \in DOMAIN answers : answers[i].st # st_default}
<1>1. CASE given = {}
  <2>1. Decided(answers, undecided) = undecided
    BY <1>1 DEF Decided
  <2> QED
    BY <1>1, <2>1
<1>2. CASE given # {}
  <2>1. given \in SUBSET Nat
    OBVIOUS
  <2>2. \E i \in given : \A j \in given : i <= j
    BY <1>2, <2>1, LeastPlace, Zenon
  <2>3. PICK i \in given : i = CHOOSE l \in given : \A j \in given : l <= j
    BY <2>2
  <2>4. \A j \in given : i <= j
    BY <2>2, <2>3
  <2>5. Decided(answers, undecided) = answers[i]
    BY <1>2, <2>3 DEF Decided
  <2>6. ASSUME NEW j \in 1..k, j < i PROVE answers[j].st = st_default
    <3>1. j \notin given
      BY <2>1, <2>4, <2>6
    <3> QED
      BY <3>1
  <2> QED
    BY <2>5, <2>6
<1> QED
  BY <1>1, <1>2

\* What is asked and what comes of it, with the type of every part.
Known(a) ==
  /\ a.chain \in Seq(Plugin) /\ Answerable(a.chain)
  /\ a.file \in [Nicks -> auth_credentials] /\ a.db \in [Nicks -> auth_credentials]

\* acl_get_access_info finds credentials.
LEMMA AccessType ==
  ASSUME NEW a, Known(a), NEW who \in Nicks
  PROVE  acl_get_access_info(a, who) \in auth_credentials
<1> DEFINE k == Len(a.chain)
           answers == [i \in DOMAIN a.chain |-> get_user(a.chain[i], a, who)]
           undecided == [st |-> st_default, cred |-> auth_cred_none]
<1>1. k \in Nat /\ DOMAIN answers = 1..k
  BY DEF Known
<1>2. \A i \in 1..k : answers[i].cred \in auth_credentials
  <2> SUFFICES ASSUME NEW i \in 1..k PROVE answers[i].cred \in auth_credentials
    OBVIOUS
  <2>1. a.chain[i] \in Plugin /\ answers[i] = get_user(a.chain[i], a, who)
    BY <1>1 DEF Known
  <2>2. a.db[who] \in auth_credentials /\ a.file[who] \in auth_credentials
    BY DEF Known
  <2>3. auth_cred_none \in auth_credentials /\ auth_cred_guest \in auth_credentials
    BY DEF auth_credentials, auth_cred_none, auth_cred_guest, auth_cred_admin
  <2>4. PICK p \in Plugin : p = a.chain[i]
    BY <2>1
  <2>5. p.type \in {"sqlite", "simple", "guest"}
    BY DEF Plugin
  <2>6. get_user(p, a, who).cred \in auth_credentials
    BY <2>2, <2>3, <2>5 DEF get_user, sqlite_get_user, simple_get_user, guest_get_user
  <2> QED
    BY <2>1, <2>4, <2>6
<1>3. undecided.cred \in auth_credentials /\ auth_cred_none \in auth_credentials
  BY DEF auth_credentials, auth_cred_none, auth_cred_admin
<1>4. acl_get_access_info(a, who) = LET r == Decided(answers, undecided)
                                  IN IF r.st = st_allow THEN r.cred ELSE auth_cred_none
  BY DEF acl_get_access_info, plugin_auth_get_user
<1> HIDE DEF k, answers, undecided
<1>5. Decided(answers, undecided) = undecided \/ \E i \in 1..k : Decided(answers, undecided) = answers[i]
  BY <1>1, FirstDecides
<1> QED
  BY <1>2, <1>3, <1>4, <1>5

\* The account of a nick is a matter of that nick alone.
LEMMA OneNick ==
  ASSUME NEW a, NEW b, Known(a), a.chain = b.chain, a.file = b.file, NEW who \in Nicks, a.db[who] = b.db[who]
  PROVE  acl_get_access_info(a, who) = acl_get_access_info(b, who)
<1>1. \A i \in DOMAIN a.chain : get_user(a.chain[i], a, who) = get_user(b.chain[i], b, who)
  BY DEF get_user, sqlite_get_user, simple_get_user
<1>2. [i \in DOMAIN a.chain |-> get_user(a.chain[i], a, who)] = [i \in DOMAIN b.chain |-> get_user(b.chain[i], b, who)]
  BY <1>1
<1>3. plugin_auth_get_user(a, who) = plugin_auth_get_user(b, who)
  BY <1>2 DEF plugin_auth_get_user
<1> QED
  BY <1>3 DEF acl_get_access_info

\* A database that lets a change through: mod_auth_sqlite, not read-only, which
\* no plugin before it has an answer for.
Changes(a, i) ==
  /\ i \in 1..Len(a.chain) /\ a.chain[i].type = "sqlite" /\ ~ a.chain[i].readonly
  /\ \A j \in 1..Len(a.chain) : j < i => a.chain[j].type \in {"sqlite", "guest"} \/ ~ a.chain[j].exclusive

\* The accounts of register_user, update_user and delete_user: one account changes,
\* from none, to another, or to none.
Becomes(change, old, new, cred) ==
  CASE change = "register" -> old = auth_cred_none /\ new = cred /\ cred >= auth_cred_user
    [] change = "update" -> old # auth_cred_none /\ new = cred /\ cred >= auth_cred_user
    [] change = "delete" -> old # auth_cred_none /\ new = auth_cred_none

\* mod_auth_simple changes no account.
LEMMA FileRefuses ==
  ASSUME NEW p, p.type = "simple", NEW db, NEW change, NEW who, NEW cred
  PROVE  ChangeBy(p, db, change, who, cred).st = Fail(p)
<1>1. ChangeBy(p, db, change, who, cred) = simple_change_user(p, db)
  BY DEF ChangeBy
<1> QED
  BY <1>1 DEF simple_change_user, Refuses

\* A change is allowed by a database only, and is what was asked for.
LEMMA AllowedChange ==
  ASSUME NEW a, Known(a), NEW who \in Nicks, NEW change \in {"register", "update", "delete"},
         NEW cred \in auth_credentials, plugin_auth_change(a, change, who, cred).st = st_allow
  PROVE  /\ \E i \in 1..Len(a.chain) : Changes(a, i)
         /\ \E new \in auth_credentials :
              /\ plugin_auth_change(a, change, who, cred).db = [a.db EXCEPT ![who] = new]
              /\ Becomes(change, a.db[who], new, cred)
<1> DEFINE k == Len(a.chain)
           answers == [i \in DOMAIN a.chain |-> ChangeBy(a.chain[i], a.db, change, who, cred)]
           undecided == [st |-> st_default, db |-> a.db]
<1> USE DEF st_default, st_allow, st_deny
<1>1. k \in Nat /\ DOMAIN answers = 1..k
  BY DEF Known
<1>2. plugin_auth_change(a, change, who, cred) = Decided(answers, undecided)
  BY DEF plugin_auth_change
<1>3. undecided.st # st_allow
  OBVIOUS
<1>4. \A i \in 1..k : a.chain[i] \in Plugin /\ answers[i] = ChangeBy(a.chain[i], a.db, change, who, cred)
  BY <1>1 DEF Known
<1>5. \A i \in 1..k : a.chain[i].type \in {"sqlite", "simple", "guest"} /\ a.chain[i].exclusive \in BOOLEAN
  BY <1>4, Zenon DEF Plugin
<1>5a. \A i \in 1..k : a.chain[i].type = "simple" => answers[i].st = Fail(a.chain[i])
  <2> HIDE DEF answers
  <2> QED
    BY <1>4, FileRefuses
<1> HIDE DEF answers, undecided
<1>6. PICK i \in 1..k : /\ answers[i].st # st_default
                        /\ \A j \in 1..k : j < i => answers[j].st = st_default
                        /\ Decided(answers, undecided) = answers[i]
  BY <1>1, <1>2, <1>3, FirstDecides
<1>7. \A j \in 1..k : j < i /\ a.chain[j].type = "simple" => ~ a.chain[j].exclusive
  <2> SUFFICES ASSUME NEW j \in 1..k, j < i, a.chain[j].type = "simple", a.chain[j].exclusive PROVE FALSE
    OBVIOUS
  <2>1. answers[j].st = st_deny
    BY <1>5a DEF Fail
  <2> QED
    BY <1>6, <2>1
<1>8. answers[i].st = st_allow
  BY <1>2, <1>6
<1>9. a.chain[i].type = "sqlite"
  <2>1. a.chain[i].type # "simple"
    BY <1>5a, <1>8 DEF Fail
  <2>2. a.chain[i].type # "guest"
    BY <1>4, <1>8 DEF ChangeBy, guest_change_user
  <2> QED
    BY <1>5, <2>1, <2>2
<1>10. Refuses(a.chain[i], a.db).st # st_allow
  BY DEF Refuses, Fail
<1>11. /\ ~ a.chain[i].readonly
       /\ \E new \in auth_credentials : /\ answers[i] = Changed(a.db, who, new)
                                        /\ Becomes(change, a.db[who], new, cred)
  <2>1. CASE change = "register"
    <3>1. answers[i] = sqlite_register_user(a.chain[i], a.db, who, cred)
      BY <1>4, <1>9, <2>1 DEF ChangeBy
    <3>2. /\ ~ a.chain[i].readonly /\ ~ (cred < auth_cred_user) /\ answers[i] = Changed(a.db, who, cred)
          /\ a.db[who] = auth_cred_none
      BY <1>8, <1>10, <3>1 DEF sqlite_register_user
    <3>3. cred >= auth_cred_user
      BY <3>2 DEF auth_cred_user, auth_credentials, auth_cred_none, auth_cred_admin
    <3> QED
      BY <3>2, <3>3, <2>1 DEF Becomes
  <2>2. CASE change = "update"
    <3>1. answers[i] = sqlite_update_user(a.chain[i], a.db, who, cred)
      BY <1>4, <1>9, <2>2 DEF ChangeBy
    <3>2. /\ ~ a.chain[i].readonly /\ ~ (cred < auth_cred_user) /\ answers[i] = Changed(a.db, who, cred)
          /\ a.db[who] # auth_cred_none
      BY <1>8, <1>10, <3>1 DEF sqlite_update_user
    <3>3. cred >= auth_cred_user
      BY <3>2 DEF auth_cred_user, auth_credentials, auth_cred_none, auth_cred_admin
    <3> QED
      BY <3>2, <3>3, <2>2 DEF Becomes
  <2>3. CASE change = "delete"
    <3>1. auth_cred_none \in auth_credentials
      BY DEF auth_credentials, auth_cred_none, auth_cred_admin
    <3> QED
      BY <1>4, <1>8, <1>9, <1>10, <2>3, <3>1 DEF ChangeBy, sqlite_delete_user, Becomes
  <2> QED
    BY <2>1, <2>2, <2>3
<1>12. Changes(a, i)
  BY <1>5, <1>7, <1>9, <1>11 DEF Changes
<1> QED
  BY <1>2, <1>6, <1>11, <1>12 DEF Changed

\* Where a database lets changes through, it is also the one that is asked: what it
\* has for a nick is the account, unless the text file hides it.
LEMMA ChangedIsAsked ==
  ASSUME NEW a, Known(a), NEW s, Changes(a, s), NEW who \in Nicks,
         a.db[who] # auth_cred_none, ~ Shadowed(a, who)
  PROVE  acl_get_access_info(a, who) = a.db[who]
<1> DEFINE k == Len(a.chain)
           answers == [i \in DOMAIN a.chain |-> get_user(a.chain[i], a, who)]
           undecided == [st |-> st_default, cred |-> auth_cred_none]
<1> USE DEF st_default, st_allow, st_deny
<1>1. k \in Nat /\ DOMAIN answers = 1..k /\ s \in 1..k
  BY DEF Known, Changes
<1>2. \A i \in 1..k : a.chain[i] \in Plugin /\ answers[i] = get_user(a.chain[i], a, who)
  BY <1>1 DEF Known
<1>3. \A i \in 1..k : a.chain[i].type \in {"sqlite", "simple", "guest"}
  BY <1>2, Zenon DEF Plugin
<1>4. \A i \in 1..k : a.chain[i].type = "sqlite" => answers[i] = [st |-> st_allow, cred |-> a.db[who]]
  BY <1>2 DEF get_user, sqlite_get_user
<1>5. acl_get_access_info(a, who) = LET r == Decided(answers, undecided)
                                  IN IF r.st = st_allow THEN r.cred ELSE auth_cred_none
  BY DEF acl_get_access_info, plugin_auth_get_user
<1> HIDE DEF answers, undecided
<1>6. answers[s].st # st_default
  BY <1>1, <1>4 DEF Changes
<1>7. PICK i \in 1..k : /\ answers[i].st # st_default
                        /\ \A j \in 1..k : j < i => answers[j].st = st_default
                        /\ Decided(answers, undecided) = answers[i]
  BY <1>1, <1>6, FirstDecides
<1>8. i <= s
  BY <1>1, <1>6, <1>7
<1>9. a.chain[i].type # "guest"
  <2>1. a.chain[i].type = "guest" => i < s
    BY <1>1, <1>8 DEF Changes
  <2> QED
    BY <1>1, <2>1 DEF Changes, Known, Answerable
<1>10. a.chain[i].type # "simple"
  <2> SUFFICES ASSUME a.chain[i].type = "simple" PROVE FALSE
    OBVIOUS
  <2>1. i < s /\ ~ a.chain[i].exclusive
    BY <1>1, <1>8 DEF Changes
  <2>2. a.file[who] # auth_cred_none
    <3>1. answers[i] = simple_get_user(a.chain[i], a.file, who)
      BY <1>2 DEF get_user
    <3>2. Fail(a.chain[i]) = st_default
      BY <2>1 DEF Fail
    <3> QED
      BY <1>7, <3>1, <3>2 DEF simple_get_user
  <2>3. 1 \in 1..k /\ 1 < s
    BY <1>1, <2>1
  <2>4. a.chain[1].type # "guest"
    BY <1>1, <2>3 DEF Known, Answerable, Changes
  <2>5. a.chain[1].type # "sqlite"
    <3>1. CASE i = 1
      BY <3>1
    <3>2. CASE i # 1
      <4>1. answers[1].st = st_default
        BY <1>7, <2>3, <3>2
      <4> QED
        BY <1>4, <2>3, <4>1
    <3> QED
      BY <3>1, <3>2
  <2> QED
    BY <1>3, <2>2, <2>3, <2>4, <2>5 DEF Shadowed
<1> QED
  BY <1>3, <1>4, <1>5, <1>7, <1>9, <1>10
-----------------------------------------------------------------------------
(* The invariant holds initially, and for the nicks a step leaves alone         *)

Sessions == [state : SessionStates, cred : auth_credentials, need : BOOLEAN]

\* acc' is acc with other accounts, history and session of n.
Moves(who, db, changed, session) ==
  /\ acc' = [chain |-> acc.chain, file |-> acc.file, self |-> acc.self, changed |-> changed,
             db |-> db, session |-> [acc.session EXCEPT ![who] = session]]
  /\ db \in [Nicks -> auth_credentials] /\ changed \in SUBSET Nicks /\ session \in Sessions

\* Such a step keeps the types.
LEMMA MovesType ==
  ASSUME AccTypeOK, NEW who \in Nicks, NEW db, NEW changed, NEW session, Moves(who, db, changed, session)
  PROVE  /\ AccTypeOK' /\ Known(acc) /\ Known(acc') /\ acc'.chain = acc.chain /\ acc'.file = acc.file
         /\ acc'.db = db /\ acc'.changed = changed
         /\ acc'.session[who] = session /\ \A m \in Nicks \ {who} : acc'.session[m] = acc.session[m]
BY DEF AccTypeOK, Moves, Known, Sessions

\* A nick whose account and session stay the same stays as it should be.
LEMMA OtherNick ==
  ASSUME AccTypeOK, NEW who \in Nicks, NEW db, NEW changed, NEW session, Moves(who, db, changed, session),
         NEW m \in Nicks \ {who}, db[m] = acc.db[m], m \in changed <=> m \in acc.changed, SessionOK(acc, m)
  PROVE  SessionOK(acc, m)'
<1>1. /\ Known(acc) /\ acc'.chain = acc.chain /\ acc'.file = acc.file /\ acc'.db = db
      /\ acc'.changed = changed /\ acc'.session[m] = acc.session[m]
  BY MovesType
<1>2. acl_get_access_info(acc', m) = acl_get_access_info(acc, m)
  BY <1>1, OneNick, Zenon
<1>3. Shadowed(acc', m) = Shadowed(acc, m)
  BY <1>1 DEF Shadowed
<1> QED
  BY <1>1, <1>2, <1>3 DEF SessionOK, Stale

\* At the start there is one account and nobody is logged in.
LEMMA AccInvInit == AccInit /\ Answerable(acc.chain) => AccInv
<1> SUFFICES ASSUME AccInit, Answerable(acc.chain) PROVE AccInv
  OBVIOUS
<1> USE DEF auth_credentials, auth_cred_none, auth_cred_super, auth_cred_admin
<1>1. PICK c \in Chains, root \in Nicks :
        acc = [chain |-> c.chain, file |-> c.file, self |-> c.self, changed |-> {},
               db |-> [who \in Nicks |-> IF who = root THEN auth_cred_super ELSE auth_cred_none],
               session |-> [who \in Nicks |-> NoSession]]
  BY DEF AccInit
<1>2. NoSession \in Sessions
  BY DEF NoSession, Sessions, SessionStates
<1>3. AccTypeOK
  BY <1>1, <1>2, ChainsAssumption DEF AccTypeOK, Sessions
<1>4. ASSUME NEW who \in Nicks PROVE SessionOK(acc, who)
  BY <1>1 DEF SessionOK, NoSession
<1> QED
  BY <1>3, <1>4 DEF AccInv
-----------------------------------------------------------------------------
(* Logging in and out                                                          *)

\* hub_handle_info, the join, hub_handle_password and the end of a session.
LEMMA LoginStep ==
  ASSUME AccInv, NEW who \in Nicks, Info(who) \/ Join(who) \/ Leave(who) \/ (\E right \in BOOLEAN : Password(who, right))
         \/ (\E u \in Nicks : command_kick(u, who))
  PROVE  AccInv' /\ acc'.db = acc.db
<1> DEFINE access == acl_get_access_info(acc, who)
           old == acc.session[who]
           In(state) == [old EXCEPT !.state = state]
<1>1. AccTypeOK /\ Known(acc) /\ old \in Sessions /\ SessionOK(acc, who) /\ \A m \in Nicks : SessionOK(acc, m)
  BY DEF AccInv, AccTypeOK, Known, Sessions
<1>2. access \in auth_credentials
  BY <1>1, AccessType
<1>3. ASSUME NEW session, Moves(who, acc.db, acc.changed, session),
             session.state = "none" => who \notin acc.changed,
             session.state \in {"identify", "verify"} /\ who \notin acc.changed =>
               /\ session.cred = IF access = auth_cred_none THEN auth_cred_guest ELSE access
               /\ session.need = (access # auth_cred_none),
             session.state = "normal" /\ session.cred >= auth_cred_user /\ who \notin acc.changed =>
               access = session.cred
      PROVE  AccInv' /\ acc'.db = acc.db
  <2>1. /\ AccTypeOK' /\ acc'.chain = acc.chain /\ acc'.file = acc.file /\ acc'.db = acc.db
        /\ acc'.changed = acc.changed /\ acc'.session[who] = session
    BY <1>1, <1>3, MovesType
  <2>2. acl_get_access_info(acc', who) = access
    BY <1>1, <2>1, OneNick
  <2>3. SessionOK(acc, who)'
    BY <1>3, <2>1, <2>2 DEF SessionOK, Stale
  <2>4. ASSUME NEW m \in Nicks, m # who PROVE SessionOK(acc, m)'
    BY <1>1, <1>3, <2>4, OtherNick
  <2> QED
    BY <2>1, <2>3, <2>4 DEF AccInv
<1>4. CASE acc' = Closed(acc, who)
  <2>1. NoSession \in Sessions
    BY DEF NoSession, Sessions, SessionStates, auth_credentials, auth_cred_none, auth_cred_admin
  <2>2. Moves(who, acc.db, acc.changed \ {who}, NoSession)
    BY <1>1, <1>4, <2>1, Zenon DEF Closed, Moves, AccTypeOK
  <2>3. AccTypeOK' /\ acc'.db = acc.db /\ acc'.changed = acc.changed \ {who} /\ acc'.session[who] = NoSession
    BY <1>1, <2>2, MovesType
  <2>4. SessionOK(acc, who)'
    BY <2>3 DEF SessionOK, NoSession
  <2>5. ASSUME NEW m \in Nicks, m # who PROVE SessionOK(acc, m)'
    <3>1. m \in acc.changed \ {who} <=> m \in acc.changed
      BY <2>5
    <3> QED
      BY <1>1, <2>2, <2>5, <3>1, OtherNick
  <2> QED
    BY <2>3, <2>4, <2>5 DEF AccInv
<1>5. CASE Info(who)
  <2> DEFINE new == Session(who, "identify", IF access = auth_cred_none THEN auth_cred_guest ELSE access,
                            access # auth_cred_none)
  <2>1. new \in Sessions
    BY <1>2 DEF Session, Sessions, SessionStates, auth_credentials, auth_cred_none, auth_cred_guest, auth_cred_admin
  <2>2. Moves(who, acc.db, acc.changed, new)
    BY <1>1, <1>5, <2>1, Zenon DEF Info, Moves, AccTypeOK
  <2>3. new.state = "identify" /\ new.cred = (IF access = auth_cred_none THEN auth_cred_guest ELSE access)
        /\ new.need = (access # auth_cred_none)
    BY DEF Session
  <2> HIDE DEF new
  <2> QED
    BY <1>3, <2>2, <2>3
<1>6. CASE Join(who)
  <2>1. PICK state \in {"verify", "normal"} : state = IF old.need THEN "verify" ELSE "normal"
    OBVIOUS
  <2>2. In(state) \in Sessions /\ In(state).state = state /\ In(state).cred = old.cred /\ In(state).need = old.need
    BY <1>1, <2>1 DEF Sessions, SessionStates
  <2>3. Moves(who, acc.db, acc.changed, In(state))
    BY <1>1, <1>6, <2>1, <2>2, Zenon DEF Join, Moves, AccTypeOK
  <2>4. old.state = "identify"
    BY <1>6 DEF Join
  <2>5. who \notin acc.changed =>
          /\ old.cred = IF access = auth_cred_none THEN auth_cred_guest ELSE access
          /\ old.need = (access # auth_cred_none)
    BY <1>1, <2>4 DEF SessionOK
  <2>6. state = "normal" /\ who \notin acc.changed => ~ (old.cred >= auth_cred_user)
    BY <1>1, <2>1, <2>5 DEF Sessions, auth_cred_guest, auth_cred_user
  <2> HIDE DEF In
  <2> QED
    BY <1>3, <2>1, <2>2, <2>3, <2>5, <2>6
<1>7. ASSUME NEW right \in BOOLEAN, Password(who, right) PROVE AccInv' /\ acc'.db = acc.db
  <2>1. old.state = "verify"
    BY <1>7 DEF Password
  <2>2. CASE access # auth_cred_none /\ right
    <3>1. In("normal") \in Sessions /\ In("normal").state = "normal" /\ In("normal").cred = old.cred
      BY <1>1 DEF Sessions, SessionStates
    <3>2. Moves(who, acc.db, acc.changed, In("normal"))
      BY <1>1, <1>7, <2>2, <3>1, Zenon DEF Password, Moves, AccTypeOK
    <3>3. who \notin acc.changed => old.cred = access
      BY <1>1, <2>1, <2>2 DEF SessionOK
    <3> HIDE DEF In
    <3> QED
      BY <1>3, <3>1, <3>2, <3>3
  <2>3. CASE ~ (access # auth_cred_none /\ right)
    BY <1>4, <1>7, <2>3 DEF Password
  <2> QED
    BY <2>2, <2>3
<1> QED
  BY <1>4, <1>5, <1>6, <1>7 DEF Leave, command_kick
-----------------------------------------------------------------------------
(* The commands                                                                 *)

\* The account of n becomes new, and its session gets the credentials after.
Changing(who, change, cred, new, after) ==
  /\ new \in auth_credentials /\ after \in auth_credentials
  /\ Becomes(change, acc.db[who], new, cred)
  /\ \E i \in 1..Len(acc.chain) : Changes(acc, i)
  /\ Moves(who, [acc.db EXCEPT ![who] = new],
           IF InLogin(who) /\ new # acc.db[who] THEN acc.changed \cup {who} ELSE acc.changed,
           [acc.session[who] EXCEPT !.cred = after])

\* plugin_auth_register_user, plugin_auth_update_user or plugin_auth_delete_user
\* said yes, and the session of the nick follows where the command makes it.
LEMMA ChangeMoves ==
  ASSUME AccTypeOK, NEW who \in Nicks, NEW change \in {"register", "update", "delete"},
         NEW cred \in auth_credentials, NEW sess, ChangeAccount(change, who, cred, sess),
         sess # << >> => sess[1] \in auth_credentials
  PROVE  \E new \in auth_credentials :
           Changing(who, change, cred, new, IF sess = << >> THEN Cred(who) ELSE sess[1])
<1> DEFINE r == plugin_auth_change(acc, change, who, cred)
           after == IF sess = << >> THEN Cred(who) ELSE sess[1]
<1>1. Known(acc) /\ acc.session[who] \in Sessions /\ acc.db \in [Nicks -> auth_credentials]
  BY DEF AccTypeOK, Known, Sessions
<1>2. /\ r.st = st_allow
      /\ acc' = [acc EXCEPT !.db = r.db, !.changed = IF InLogin(who) /\ r.db # acc.db THEN @ \cup {who} ELSE @,
                            !.session[who].cred = IF sess = << >> THEN @ ELSE sess[1]]
  BY DEF ChangeAccount
<1>3. /\ \E i \in 1..Len(acc.chain) : Changes(acc, i)
      /\ \E new \in auth_credentials : r.db = [acc.db EXCEPT ![who] = new] /\ Becomes(change, acc.db[who], new, cred)
  BY <1>1, <1>2, AllowedChange
<1>4. PICK new \in auth_credentials : r.db = [acc.db EXCEPT ![who] = new] /\ Becomes(change, acc.db[who], new, cred)
  BY <1>3
<1> DEFINE db == [acc.db EXCEPT ![who] = new]
           changed == IF InLogin(who) /\ new # acc.db[who] THEN acc.changed \cup {who} ELSE acc.changed
           session == [acc.session[who] EXCEPT !.cred = after]
<1>5. after \in auth_credentials
  BY <1>1 DEF Cred, Sessions
<1>6. r.db # acc.db <=> new # acc.db[who]
  BY <1>1, <1>4
<1>7. acc' = [acc EXCEPT !.db = r.db, !.changed = changed, !.session[who].cred = after]
  BY <1>2, <1>6, Zenon DEF AccTypeOK, Cred
<1>8. db \in [Nicks -> auth_credentials] /\ changed \in SUBSET Nicks /\ session \in Sessions
  <2>1. db \in [Nicks -> auth_credentials]
    BY <1>1
  <2>2. changed \in SUBSET Nicks
    BY DEF AccTypeOK
  <2> HIDE DEF after
  <2>3. session \in Sessions
    BY <1>1, <1>5 DEF Sessions
  <2> QED
    BY <2>1, <2>2, <2>3
<1>9. Moves(who, db, changed, session)
  <2> HIDE DEF after, changed, r
  <2> QED
    BY <1>4, <1>7, <1>8, Zenon DEF Moves, AccTypeOK
<1> QED
  BY <1>3, <1>4, <1>5, <1>9 DEF Changing

\* Such a change keeps the invariant if a session that is left with the rights of a
\* registered user has those of the new account.
LEMMA ChangeKeeps ==
  ASSUME AccInv, NEW who \in Nicks, NEW change \in {"register", "update", "delete"},
         NEW cred \in auth_credentials, NEW new, NEW after, Changing(who, change, cred, new, after),
         InLogin(who) => after = Cred(who),
         Normal(who) /\ after >= auth_cred_user /\ ~ Stale(acc', who) => new = after
  PROVE  AccInv'
<1> DEFINE db == [acc.db EXCEPT ![who] = new]
           changed == IF InLogin(who) /\ new # acc.db[who] THEN acc.changed \cup {who} ELSE acc.changed
           session == [acc.session[who] EXCEPT !.cred = after]
<1>1. /\ AccTypeOK /\ acc.session[who] \in Sessions /\ SessionOK(acc, who) /\ \A m \in Nicks : SessionOK(acc, m)
      /\ acc.db \in [Nicks -> auth_credentials]
  BY DEF AccInv, AccTypeOK, Sessions
<1>2. Moves(who, db, changed, session) /\ new \in auth_credentials /\ after \in auth_credentials
  BY DEF Changing
<1>3. /\ session.state = acc.session[who].state /\ session.need = acc.session[who].need /\ session.cred = after
      /\ db[who] = new /\ \A m \in Nicks \ {who} : db[m] = acc.db[m] /\ (m \in changed <=> m \in acc.changed)
  BY <1>1, <1>2 DEF Sessions
<1>4. acc.session[who].state = "none" => who \notin acc.changed /\ changed = acc.changed
  BY <1>1 DEF SessionOK, InLogin
<1>5. InLogin(who) /\ who \notin changed => new = acc.db[who] /\ who \notin acc.changed
  OBVIOUS
<1> HIDE DEF db, changed, session
<1>6. /\ AccTypeOK' /\ Known(acc) /\ Known(acc') /\ acc'.chain = acc.chain /\ acc'.file = acc.file
      /\ acc'.db = db /\ acc'.changed = changed /\ acc'.session[who] = session
  BY <1>1, <1>2, MovesType
<1>7. ASSUME NEW m \in Nicks, m # who PROVE SessionOK(acc, m)'
  BY <1>1, <1>2, <1>3, <1>7, OtherNick
<1>8. SessionOK(acc, who)'
  <2>1. session.state = "none" => who \notin changed
    BY <1>3, <1>4
  <2>2. ASSUME session.state \in {"identify", "verify"}, who \notin changed
        PROVE  /\ session.cred = IF acl_get_access_info(acc', who) = auth_cred_none THEN auth_cred_guest
                                 ELSE acl_get_access_info(acc', who)
               /\ session.need = (acl_get_access_info(acc', who) # auth_cred_none)
    <3>1. InLogin(who) /\ acc.db[who] = new /\ who \notin acc.changed /\ after = Cred(who)
      BY <1>3, <1>5, <2>2 DEF InLogin
    <3>2. acl_get_access_info(acc', who) = acl_get_access_info(acc, who)
      BY <1>3, <1>6, <3>1, OneNick
    <3> QED
      BY <1>1, <1>3, <3>1, <3>2 DEF SessionOK, InLogin, Cred
  <2>3. ASSUME session.state = "normal", session.cred >= auth_cred_user, ~ Stale(acc', who)
        PROVE  acl_get_access_info(acc', who) = session.cred
    <3>1. new = after
      BY <1>3, <2>3 DEF Normal
    <3>2. db[who] # auth_cred_none
      BY <1>3, <2>3, <3>1 DEF auth_cred_user, auth_cred_none
    <3>3. PICK i \in 1..Len(acc.chain) : Changes(acc, i)
      BY DEF Changing
    <3>4. Changes(acc', i)
      BY <1>6, <3>3 DEF Changes
    <3>5. ~ Shadowed(acc', who)
      BY <2>3 DEF Stale
    <3> QED
      BY <1>3, <1>6, <3>1, <3>2, <3>4, <3>5, ChangedIsAsked
  <2> QED
    BY <1>6, <2>1, <2>2, <2>3 DEF SessionOK
<1> QED
  BY <1>6, <1>7, <1>8 DEF AccInv

\* Someone other than n who is logged in and stands as high as cred.
Grants(who, cred) ==
  \E m \in Nicks \ {who} : Normal(m) /\ (Stale(acc, m) \/ acl_get_access_info(acc, m) >= cred)

\* Only the account that changes can rise.
LEMMA OneRises ==
  ASSUME AccTypeOK, NEW who \in Nicks, NEW change, NEW cred, NEW new, NEW after,
         Changing(who, change, cred, new, after),
         new > acc.db[who] /\ new > auth_cred_user => Stale(acc, who) \/ Grants(who, new)
  PROVE  RiseGranted
<1>1. acc.db \in [Nicks -> auth_credentials]
  BY DEF AccTypeOK
<1>2. acc'.db = [acc.db EXCEPT ![who] = new]
  BY MovesType DEF Changing
<1>3. \A m \in Nicks \ {who} : acc'.db[m] = acc.db[m] /\ acc.db[m] \in Int
  BY <1>1, <1>2 DEF auth_credentials, auth_cred_none, auth_cred_admin
<1>4. acc'.db[who] = new
  BY <1>1, <1>2
<1> QED
  BY <1>3, <1>4 DEF RiseGranted, Grants

\* A logged-in user with rights has those of the account, unless it is stale.
LEMMA HasAccount ==
  ASSUME AccInv, NEW u \in Nicks, Normal(u), Cred(u) >= auth_cred_user
  PROVE  Stale(acc, u) \/ acl_get_access_info(acc, u) = Cred(u)
BY DEF AccInv, SessionOK, Normal, Cred

\* What a database has for a nick is the account, unless it is stale.
LEMMA DatabaseAccount ==
  ASSUME AccTypeOK, NEW who \in Nicks, NEW change, NEW cred, NEW new, NEW after,
         Changing(who, change, cred, new, after), acc.db[who] # auth_cred_none
  PROVE  Stale(acc, who) \/ acl_get_access_info(acc, who) = acc.db[who]
<1>1. Known(acc)
  BY DEF AccTypeOK, Known
<1>2. PICK i \in 1..Len(acc.chain) : Changes(acc, i)
  BY DEF Changing
<1> QED
  BY <1>1, <1>2, ChangedIsAsked DEF Stale

\* !register and !password: the user's own account.
LEMMA OwnAccountStep ==
  ASSUME AccInv, NEW u \in Nicks, command_register(u) \/ command_password(u)
  PROVE  AccInv' /\ RiseGranted
<1> USE DEF auth_credentials, auth_cred_none, auth_cred_user, auth_cred_admin
<1>1. AccTypeOK /\ Normal(u) /\ ~ InLogin(u) /\ Cred(u) \in auth_credentials /\ acc.db[u] \in auth_credentials
  BY DEF AccInv, AccTypeOK, command_register, command_password, Available, Normal, InLogin, Cred
<1>2. CASE command_register(u)
  <2>1. ChangeAccount("register", u, auth_cred_user, <<auth_cred_user>>)
    BY <1>2 DEF command_register
  <2>2. PICK new \in auth_credentials : Changing(u, "register", auth_cred_user, new, auth_cred_user)
    <3>1. PICK sess : sess = <<auth_cred_user>>
      BY Zenon
    <3>2. sess # << >> /\ sess[1] = auth_cred_user
      BY <3>1
    <3>3. auth_cred_user \in auth_credentials
      OBVIOUS
    <3>4. ChangeAccount("register", u, auth_cred_user, sess)
      BY <2>1, <3>1
    <3> QED
      BY <1>1, <3>2, <3>3, <3>4, ChangeMoves
  <2>3. new = auth_cred_user
    BY <2>2 DEF Changing, Becomes
  <2>4. AccInv'
    BY <1>1, <2>2, <2>3, ChangeKeeps
  <2> QED
    BY <1>1, <2>2, <2>3, <2>4, OneRises
<1>3. CASE command_password(u)
  <2>1. ChangeAccount("update", u, Cred(u), << >>) /\ Cred(u) >= auth_cred_user
    BY <1>3 DEF command_password
  <2>2. PICK new \in auth_credentials : Changing(u, "update", Cred(u), new, Cred(u))
    BY <1>1, <2>1, ChangeMoves
  <2>3. new = Cred(u) /\ acc.db[u] # auth_cred_none
    BY <2>2 DEF Changing, Becomes
  <2>4. AccInv'
    BY <1>1, <2>2, <2>3, ChangeKeeps
  <2>5. Stale(acc, u) \/ new = acc.db[u]
    <3>1. Stale(acc, u) \/ acl_get_access_info(acc, u) = Cred(u)
      BY <1>1, <2>1, HasAccount
    <3>2. Stale(acc, u) \/ acl_get_access_info(acc, u) = acc.db[u]
      BY <1>1, <2>2, <2>3, DatabaseAccount
    <3> QED
      BY <2>3, <3>1, <3>2
  <2> QED
    BY <1>1, <2>2, <2>4, <2>5, OneRises
<1> QED
  BY <1>2, <1>3

\* !useradd: the nick has no account yet.
LEMMA UseraddStep ==
  ASSUME AccInv, NEW u \in Nicks, NEW who \in Nicks, NEW cred \in Levels, command_useradd(u, who, cred)
  PROVE  AccInv' /\ RiseGranted
<1> USE DEF auth_credentials, auth_cred_none, auth_cred_user, auth_cred_admin
<1>1. /\ AccTypeOK /\ Normal(u) /\ Cred(u) \in auth_credentials /\ acc.db[who] \in auth_credentials
      /\ cred \in auth_credentials /\ cred >= auth_cred_user /\ cred <= Cred(u)
  BY LevelsAssumption DEF AccInv, AccTypeOK, command_useradd, Available, Normal, Cred, copy_credentials
<1>2. ChangeAccount("register", who, cred, << >>) /\ ~ (acl_get_access_info(acc, who) >= auth_cred_user)
  BY DEF command_useradd, nick_is_registered
<1>3. PICK new \in auth_credentials : Changing(who, "register", cred, new, Cred(who))
  BY <1>1, <1>2, ChangeMoves
<1>4. new = cred /\ acc.db[who] = auth_cred_none
  BY <1>3 DEF Changing, Becomes
<1>5. Normal(who) /\ Cred(who) >= auth_cred_user => who \in acc.changed
  <2> SUFFICES ASSUME Normal(who), Cred(who) >= auth_cred_user PROVE who \in acc.changed
    OBVIOUS
  <2>1. ~ Shadowed(acc, who)
    BY <1>4 DEF Shadowed
  <2> QED
    BY <1>2, <2>1, HasAccount DEF Stale
<1>6. acc.changed \subseteq acc'.changed
  BY <1>1, <1>3, MovesType DEF Changing
<1>7. AccInv'
  <2>1. ~ (Normal(who) /\ Cred(who) >= auth_cred_user /\ ~ Stale(acc', who))
    BY <1>5, <1>6 DEF Stale
  <2> QED
    BY <1>1, <1>3, <2>1, ChangeKeeps
<1>8. Stale(acc, who) \/ Grants(who, new)
  <2>1. CASE u = who
    BY <1>1, <1>5, <2>1 DEF Stale
  <2>2. CASE u # who
    <3>1. Stale(acc, u) \/ acl_get_access_info(acc, u) >= new
      BY <1>1, <1>4, HasAccount
    <3> QED
      BY <1>1, <2>2, <3>1 DEF Grants
  <2> QED
    BY <2>1, <2>2
<1> QED
  BY <1>1, <1>3, <1>7, <1>8, OneRises

\* The target of !userdel and !usermod has an account, and its session follows if it
\* is logged in as a registered user.
LEMMA FollowsCases ==
  ASSUME AccTypeOK, NEW who \in Nicks, NEW cred \in auth_credentials, NEW sess, sess = Follows(who, cred)
  PROVE  /\ sess # << >> => sess[1] \in auth_credentials
         /\ (IF sess = << >> THEN Cred(who) ELSE sess[1]) =
              IF Normal(who) /\ Cred(who) >= auth_cred_user THEN cred ELSE Cred(who)
<1>1. CASE Normal(who) /\ Cred(who) >= auth_cred_user
  <2>1. sess = <<cred>>
    BY <1>1 DEF Follows
  <2> QED
    BY <1>1, <2>1
<1>2. CASE ~ (Normal(who) /\ Cred(who) >= auth_cred_user)
  BY <1>2 DEF Follows
<1> QED
  BY <1>1, <1>2

\* !userdel: the session of the nick goes back to a guest's.
LEMMA UserdelStep ==
  ASSUME AccInv, NEW u \in Nicks, NEW who \in Nicks, command_userdel(u, who)
  PROVE  AccInv' /\ RiseGranted
<1> USE DEF auth_credentials, auth_cred_none, auth_cred_guest, auth_cred_user, auth_cred_admin
<1>1. AccTypeOK /\ acc.db[who] \in auth_credentials /\ Cred(who) \in auth_credentials
  BY DEF AccInv, AccTypeOK, Cred
<1>2. PICK sess : sess = Follows(who, auth_cred_guest)
  OBVIOUS
<1>3. ChangeAccount("delete", who, auth_cred_none, sess)
  BY <1>2 DEF command_userdel
<1>4. PICK after : after = IF sess = << >> THEN Cred(who) ELSE sess[1]
  OBVIOUS
<1>5. /\ sess # << >> => sess[1] \in auth_credentials
      /\ after = IF Normal(who) /\ Cred(who) >= auth_cred_user THEN auth_cred_guest ELSE Cred(who)
  BY <1>1, <1>2, <1>4, FollowsCases
<1>6. PICK new \in auth_credentials : Changing(who, "delete", auth_cred_none, new, after)
  <2>1. auth_cred_none \in auth_credentials
    OBVIOUS
  <2> HIDE DEF auth_credentials, auth_cred_none, auth_cred_guest, auth_cred_user, auth_cred_admin
  <2>2. \E new \in auth_credentials :
          Changing(who, "delete", auth_cred_none, new, IF sess = << >> THEN Cred(who) ELSE sess[1])
    BY <1>1, <1>3, <1>5, <2>1, ChangeMoves, Zenon
  <2> QED
    BY <1>4, <2>2, Zenon
<1>7. new = auth_cred_none
  BY <1>6 DEF Changing, Becomes
<1>8. ~ (Normal(who) /\ after >= auth_cred_user) /\ (InLogin(who) => after = Cred(who))
  BY <1>1, <1>5 DEF Normal, InLogin
<1>9. AccInv'
  <2>1. auth_cred_none \in auth_credentials
    OBVIOUS
  <2> HIDE DEF auth_credentials, auth_cred_none, auth_cred_guest, auth_cred_user, auth_cred_admin
  <2> QED
    BY <1>1, <1>6, <1>8, <2>1, ChangeKeeps, Zenon
<1> QED
  BY <1>1, <1>6, <1>7, <1>9, OneRises

\* !usermod: account and session get the same credentials, not above the giver's.
LEMMA UsermodStep ==
  ASSUME AccInv, NEW u \in Nicks, NEW who \in Nicks, NEW cred \in Levels, command_usermod(u, who, cred)
  PROVE  AccInv' /\ RiseGranted
<1> USE DEF auth_credentials, auth_cred_none, auth_cred_user, auth_cred_admin
<1>1. /\ AccTypeOK /\ acc.db[who] \in auth_credentials /\ Cred(who) \in auth_credentials
      /\ Normal(u) /\ Cred(u) \in auth_credentials
      /\ cred \in auth_credentials /\ cred >= auth_cred_user /\ cred <= Cred(u) /\ u # who
  BY LevelsAssumption DEF AccInv, AccTypeOK, Cred, command_usermod, Available, Normal, copy_credentials
<1>2. PICK sess : sess = Follows(who, cred)
  OBVIOUS
<1>3. ChangeAccount("update", who, cred, sess)
  BY <1>2 DEF command_usermod
<1>4. PICK after : after = IF sess = << >> THEN Cred(who) ELSE sess[1]
  OBVIOUS
<1>5. /\ sess # << >> => sess[1] \in auth_credentials
      /\ after = IF Normal(who) /\ Cred(who) >= auth_cred_user THEN cred ELSE Cred(who)
  BY <1>1, <1>2, <1>4, FollowsCases
<1>6. PICK new \in auth_credentials : Changing(who, "update", cred, new, after)
  <2> HIDE DEF auth_credentials, auth_cred_none, auth_cred_user, auth_cred_admin
  <2>2. \E new \in auth_credentials :
          Changing(who, "update", cred, new, IF sess = << >> THEN Cred(who) ELSE sess[1])
    BY <1>1, <1>3, <1>5, ChangeMoves, Zenon
  <2> QED
    BY <1>4, <2>2, Zenon
<1>7. new = cred
  BY <1>6 DEF Changing, Becomes
<1>8. (Normal(who) /\ after >= auth_cred_user => new = after) /\ (InLogin(who) => after = Cred(who))
  BY <1>1, <1>5, <1>7 DEF Normal, InLogin
<1>9. AccInv'
  <2> HIDE DEF auth_credentials, auth_cred_none, auth_cred_user, auth_cred_admin
  <2> QED
    BY <1>1, <1>6, <1>8, ChangeKeeps, Zenon
<1>10. Grants(who, new)
  <2>1. Stale(acc, u) \/ acl_get_access_info(acc, u) >= new
    BY <1>1, <1>7, HasAccount
  <2> QED
    BY <1>1, <2>1 DEF Grants
<1> QED
  BY <1>1, <1>6, <1>9, <1>10, OneRises

\* !userpass: the account is written back as it was found.
LEMMA UserpassStep ==
  ASSUME AccInv, NEW u \in Nicks, NEW who \in Nicks, command_userpass(u, who)
  PROVE  AccInv' /\ RiseGranted
<1> USE DEF auth_credentials, auth_cred_none, auth_cred_user, auth_cred_admin
<1>1. AccTypeOK /\ Known(acc) /\ acc.db[who] \in auth_credentials /\ Cred(who) \in auth_credentials
  BY DEF AccInv, AccTypeOK, Known, Cred
<1>2. PICK access \in auth_credentials : access = acl_get_access_info(acc, who)
  BY <1>1, AccessType
<1>3. ChangeAccount("update", who, access, << >>)
  BY <1>2 DEF command_userpass
<1>4. PICK new \in auth_credentials : Changing(who, "update", access, new, Cred(who))
  BY <1>1, <1>3, ChangeMoves
<1>5. new = access /\ new >= auth_cred_user /\ acc.db[who] # auth_cred_none
  BY <1>4 DEF Changing, Becomes
<1>6. Stale(acc, who) => Stale(acc', who)
  <2>1. /\ acc'.chain = acc.chain /\ acc'.file = acc.file /\ acc'.db[who] = new
        /\ acc.changed \subseteq acc'.changed
    BY <1>1, <1>4, MovesType DEF Changing, AccTypeOK
  <2> QED
    BY <1>5, <2>1 DEF Stale, Shadowed
<1>7. Normal(who) /\ Cred(who) >= auth_cred_user /\ ~ Stale(acc', who) => new = Cred(who)
  BY <1>2, <1>5, <1>6, HasAccount
<1>8. AccInv'
  BY <1>1, <1>4, <1>7, ChangeKeeps
<1>9. Stale(acc, who) \/ new = acc.db[who]
  BY <1>1, <1>2, <1>4, <1>5, DatabaseAccount
<1> QED
  BY <1>1, <1>4, <1>8, <1>9, OneRises
-----------------------------------------------------------------------------
(* The theorems                                                                 *)

\* The invariant is inductive.
LEMMA AccStep == AccInv /\ [AccNext]_acc => AccInv' /\ (RiseGranted \/ UNCHANGED acc)
<1> SUFFICES ASSUME AccInv, [AccNext]_acc PROVE AccInv' /\ (RiseGranted \/ UNCHANGED acc)
  OBVIOUS
<1>1. ASSUME NEW who \in Nicks, \/ Info(who) \/ Join(who) \/ Leave(who) \/ (\E right \in BOOLEAN : Password(who, right))
                              \/ (\E u \in Nicks : command_kick(u, who))
      PROVE  AccInv' /\ RiseGranted
  <2>1. AccInv' /\ acc'.db = acc.db
    BY <1>1, LoginStep
  <2>2. \A m \in Nicks : acc.db[m] \in Int
    BY SMTT(30) DEF AccInv, AccTypeOK, auth_credentials, auth_cred_none, auth_cred_admin
  <2> QED
    BY <2>1, <2>2 DEF RiseGranted
<1>2. ASSUME NEW u \in Nicks, command_register(u) \/ command_password(u) PROVE AccInv' /\ RiseGranted
  BY <1>2, OwnAccountStep
<1>3. ASSUME NEW u \in Nicks, NEW who \in Nicks, NEW cred \in Levels, command_useradd(u, who, cred)
      PROVE  AccInv' /\ RiseGranted
  BY <1>3, UseraddStep
<1>4. ASSUME NEW u \in Nicks, NEW who \in Nicks, NEW cred \in Levels, command_usermod(u, who, cred)
      PROVE  AccInv' /\ RiseGranted
  BY <1>4, UsermodStep
<1>5. ASSUME NEW u \in Nicks, NEW who \in Nicks, command_userdel(u, who) PROVE AccInv' /\ RiseGranted
  BY <1>5, UserdelStep
<1>6. ASSUME NEW u \in Nicks, NEW who \in Nicks, command_userpass(u, who) PROVE AccInv' /\ RiseGranted
  BY <1>6, UserpassStep
<1>7. CASE UNCHANGED acc
  BY <1>7 DEF AccInv, AccTypeOK
<1> QED
  BY <1>1, <1>2, <1>3, <1>4, <1>5, <1>6, <1>7 DEF AccNext

\* A login keeps what it read, a logged-in user what the account says now
\* (hub.c, inf.c and mod_users.c), in every state.
THEOREM AccountsInvariant == AccSpec /\ Answerable(acc.chain) => []AccInv
BY AccInvInit, AccStep, PTL DEF AccSpec

\* A logged-in user who is more than a guest has the credentials of the account as
\* it is now, for any plugins in any order that does not hide the database behind
\* mod_guest_passwd (mod_users.c).
THEOREM CredentialsStayCurrent == AccSpec /\ Answerable(acc.chain) => []CredsCurrent
<1>1. AccInv => CredsCurrent
  BY DEF AccInv, SessionOK, CredsCurrent, Normal, Cred
<1> QED
  BY <1>1, AccountsInvariant, PTL

\* An account rises above a user's only by the hand of another logged-in user whose
\* own account stands as high (copy_credentials, find_user), for the same chains.
THEOREM RisesAreGranted == AccSpec /\ Answerable(acc.chain) => RisesGranted
<1>1. AccInv /\ [AccNext]_acc => [RiseGranted]_acc
  BY AccStep
<1> QED
  BY <1>1, AccountsInvariant, PTL DEF AccSpec, RisesGranted

-----------------------------------------------------------------------------
(* Session ids                                                                 *)

USE PoolAssumption

\* The slots of the pool are finite in number.
LEMMA SlotFacts ==
  ASSUME TypeOK
  PROVE  /\ max \in Nat /\ max >= 2 /\ IsFiniteSet(Occupied) /\ IsFiniteSet(Holders)
         /\ Cardinality(Occupied) \in Nat /\ Cardinality(Holders) \in Nat
<1>1. max \in Nat /\ max >= 2
  BY DEF TypeOK
<1>2. IsFiniteSet(Slot)
  BY <1>1, FS_Interval DEF Slot
<1>3. IsFiniteSet(Occupied) /\ IsFiniteSet(Holders)
  BY <1>2, FS_Subset DEF Occupied, Holders
<1> QED
  BY <1>1, <1>3, FS_CardinalityType

\* sid_pool_create establishes the invariant.
LEMMA InvInit == Init => IInv
<1> SUFFICES ASSUME Init PROVE IInv
  OBVIOUS
<1>1. PICK m \in 1..MaxPool : sid_pool_create(m)
  BY DEF Init
<1>2. TypeOK
  BY <1>1 DEF Init, sid_pool_create, TypeOK, Slot
<1>3. Occupied = {0} /\ Holders = {}
  BY <1>1 DEF Occupied, Holders, Init, sid_pool_create, Slot
<1>4. PoolInv
  <2>1. Cardinality(Occupied) = 1
    BY <1>3, FS_Singleton
  <2> QED
    BY <1>1, <2>1 DEF PoolInv, Init, sid_pool_create, Slot
<1>5. CountExact
  BY <1>1, <1>3, FS_EmptySet DEF CountExact, Init, sid_pool_create
<1> QED
  BY <1>2, <1>4, <1>5 DEF IInv

\* Counting the new SID and starting the search preserves the invariant.
LEMMA InvAllocBegin ==
  ASSUME IInv, HalfLoad, NEW u \in User, AllocBegin(u)
  PROVE  IInv'
<1>1. /\ count \in Nat /\ count' = count + 1 /\ n' = count + 1 /\ cur = NoUser /\ cur' = u
      /\ count < max - 1 /\ 2 * (count + 1) <= max /\ sid[u] = 0
      /\ UNCHANGED <<max, map, sid>>
  BY DEF AllocBegin, IInv, TypeOK, Load
<1>2. TypeOK'
  BY <1>1 DEF IInv, TypeOK, Slot
<1>3. Occupied' = Occupied /\ Holders' = Holders
  BY <1>1 DEF Occupied, Slot, Holders
<1>4. PoolInv'
  <2>1. Cardinality(Occupied') = count'
    <3>1. Cardinality(Occupied) = count + 1
      BY <1>1, Zenon DEF IInv, PoolInv
    <3> QED
      BY <1>1, <1>3, <3>1
  <2>2. 2 * count' <= max' /\ count' >= 1 /\ n' \in count'..(max' - 1) /\ \A s \in count'..(n' - 1) : map'[s] # NoUser
    BY <1>1, SlotFacts DEF IInv
  <2>3. Slot' = Slot
    BY <1>1, Zenon DEF Slot
  <2>4. /\ map'[0] = Pool /\ sid'[cur'] = 0
        /\ \A s \in Slot : s # 0 /\ map'[s] # NoUser => map'[s] \in User /\ sid'[map'[s]] = s
        /\ \A v \in User : sid'[v] # 0 => sid'[v] \in Slot /\ map'[sid'[v]] = v
    BY <1>1, Zenon DEF IInv, PoolInv
  <2>5. cur' # NoUser /\ count' + 0 = count'
    BY <1>1
  <2> QED
    BY <2>1, <2>2, <2>3, <2>4, <2>5, Zenon DEF PoolInv
<1>5. CountExact'
  BY <1>1, <1>3, SlotFacts DEF IInv, CountExact
<1> QED
  BY <1>2, <1>4, <1>5 DEF IInv

\* The pigeonhole: were the slots count..max-1 all taken, more SIDs than count - 1
\* would be in use.
LEMMA FreeSlotAhead ==
  ASSUME IInv, cur # NoUser
  PROVE  \E s \in count..(max - 1) : map[s] = NoUser
<1>0. /\ max \in Nat /\ count \in Nat /\ IsFiniteSet(Occupied)
      /\ 2 * count <= max /\ count >= 1
      /\ Cardinality(Occupied) = count
      /\ map[0] = Pool
  BY SlotFacts DEF IInv, TypeOK, PoolInv
<1> SUFFICES ASSUME \A s \in count..(max - 1) : map[s] # NoUser
             PROVE  FALSE
  OBVIOUS
<1>1. count..(max - 1) \subseteq Occupied \ {0}
  BY <1>0 DEF Occupied, Slot
<1>2. 0 \in Occupied
  BY <1>0 DEF Occupied, Slot
<1>3. IsFiniteSet(Occupied \ {0}) /\ Cardinality(Occupied \ {0}) = count - 1
  BY <1>0, <1>2, FS_RemoveElement
<1>4. Cardinality(count..(max - 1)) = max - count
  BY <1>0, FS_Interval
<1>5. Cardinality(count..(max - 1)) <= Cardinality(Occupied \ {0})
  BY <1>1, <1>3, FS_Subset, Zenon
<1> QED
  BY <1>0, <1>3, <1>4, <1>5

\* Looking at the next slot preserves the invariant.
LEMMA InvAllocStep ==
  ASSUME IInv, AllocStep
  PROVE  IInv'
<1>1. /\ n' = n + 1 /\ cur # NoUser /\ map[n % max] # NoUser
      /\ UNCHANGED <<max, count, map, sid, cur>>
      /\ count \in Nat /\ max \in Nat /\ n \in count..(max - 1)
      /\ \A s \in count..(n - 1) : map[s] # NoUser
  BY DEF AllocStep, IInv, TypeOK, PoolInv
<1>2. n % max = n
  BY <1>1
<1>3. \A s \in count..n : map[s] # NoUser
  <2>1. \A s \in count..n : s = n \/ s \in count..(n - 1)
    BY <1>1
  <2> QED
    BY <1>1, <1>2, <2>1
<1>4. n + 1 \in count..(max - 1)
  <2>1. PICK s \in count..(max - 1) : map[s] = NoUser
    BY <1>1, FreeSlotAhead
  <2>2. s > n
    BY <1>1, <1>3, <2>1
  <2> QED
    BY <1>1, <2>1, <2>2
<1>5. TypeOK'
  BY <1>1 DEF IInv, TypeOK, Slot
<1>6. Occupied' = Occupied /\ Holders' = Holders
  BY <1>1 DEF Occupied, Slot, Holders
<1>7. PoolInv'
  <2>1. \A s \in count..(n' - 1) : map[s] # NoUser
    BY <1>1, <1>3
  <2> QED
    BY <1>1, <1>4, <1>6, <2>1 DEF IInv, PoolInv, Slot
<1>8. CountExact'
  BY <1>1, <1>6 DEF IInv, CountExact
<1> QED
  BY <1>5, <1>7, <1>8 DEF IInv

\* Taking the free slot preserves the invariant.
LEMMA InvAllocTake ==
  ASSUME IInv, AllocTake
  PROVE  IInv'
<1>1. /\ cur \in User /\ cur' = NoUser /\ n' = 0 /\ UNCHANGED <<max, count>>
      /\ count \in Nat /\ max \in Nat /\ n \in count..(max - 1) /\ count >= 1
      /\ sid[cur] = 0 /\ map[n % max] = NoUser
      /\ map' = [s \in Slot |-> IF s = n THEN cur ELSE map[s]]
      /\ sid' = [sid EXCEPT ![cur] = n]
      /\ sid \in [User -> Nat] /\ map \in [Slot -> User \cup {NoUser, Pool}]
  BY DEF AllocTake, IInv, TypeOK, PoolInv
<1>2. n \in Slot /\ n # 0 /\ map[n] = NoUser
  <2>1. n % max = n
    BY <1>1
  <2> QED
    BY <1>1, <2>1, SMTT(30) DEF Slot
<1>3. TypeOK'
  BY <1>1, <1>2 DEF IInv, TypeOK, Slot
<1>4. /\ \A s \in Slot : map'[s] = IF s = n THEN cur ELSE map[s]
      /\ \A v \in User : sid'[v] = IF v = cur THEN n ELSE sid[v]
      /\ Slot' = Slot
  BY <1>1 DEF Slot
<1>5. Occupied' = Occupied \cup {n} /\ n \notin Occupied
  BY <1>1, <1>2, <1>4 DEF Occupied
<1>6. Holders' = Holders \cup {cur} /\ cur \notin Holders
  BY <1>1, <1>2, <1>4 DEF Holders
<1>7. Cardinality(Occupied') = Cardinality(Occupied) + 1
  BY <1>5, SlotFacts, FS_AddElement, Zenon DEF IInv
<1>8. Cardinality(Holders') = Cardinality(Holders) + 1
  BY <1>6, SlotFacts, FS_AddElement, Zenon DEF IInv
<1>9. PoolInv'
  <2>1. map'[0] = Pool
    BY <1>1, <1>2, <1>4 DEF IInv, PoolInv, Slot
  <2>2. \A s \in Slot : s # 0 /\ map'[s] # NoUser => map'[s] \in User /\ sid'[map'[s]] = s
    BY <1>1, <1>2, <1>4 DEF IInv, PoolInv
  <2>3. \A v \in User : sid'[v] # 0 => sid'[v] \in Slot /\ map'[sid'[v]] = v
    BY <1>1, <1>2, <1>4 DEF IInv, PoolInv
  <2>4. Cardinality(Occupied') = count' + 1
    <3>1. Cardinality(Occupied) = count + 0 /\ count \in Nat
      BY <1>1, Zenon DEF IInv, PoolInv, TypeOK
    <3> QED
      BY <1>1, <1>7, <3>1
  <2>5. cur' = NoUser /\ Slot' = Slot
    BY <1>1, <1>4
  <2> QED
    BY <2>1, <2>2, <2>3, <2>4, <2>5, Zenon DEF PoolInv
<1>10. CountExact'
  BY <1>1, <1>8, SlotFacts DEF IInv, CountExact
<1> QED
  BY <1>3, <1>9, <1>10 DEF IInv

\* sid_free preserves the invariant.
LEMMA InvFree ==
  ASSUME IInv, NEW u \in User, sid_free(u)
  PROVE  IInv'
<1>1. /\ cur = NoUser /\ sid[u] # 0 /\ count' = count - 1 /\ UNCHANGED <<max, cur, n>>
      /\ map' = [s \in Slot |-> IF s = sid[u] THEN NoUser ELSE map[s]]
      /\ sid' = [sid EXCEPT ![u] = 0]
      /\ count \in Nat /\ max \in Nat
      /\ sid \in [User -> Nat] /\ map \in [Slot -> User \cup {NoUser, Pool}]
      /\ sid[u] \in Slot /\ map[sid[u]] = u
  BY DEF sid_free, IInv, TypeOK, PoolInv
<1>2. /\ \A s \in Slot : map'[s] = IF s = sid[u] THEN NoUser ELSE map[s]
      /\ \A v \in User : sid'[v] = IF v = u THEN 0 ELSE sid[v]
      /\ Slot' = Slot
  BY <1>1 DEF Slot
<1>3. Occupied' = Occupied \ {sid[u]} /\ sid[u] \in Occupied
  BY <1>1, <1>2 DEF Occupied
<1>4. Holders' = Holders \ {u} /\ u \in Holders
  BY <1>1, <1>2 DEF Holders
<1>5. Cardinality(Occupied') = Cardinality(Occupied) - 1
  BY <1>3, SlotFacts, FS_RemoveElement, Zenon DEF IInv
<1>6. Cardinality(Holders') = Cardinality(Holders) - 1 /\ Cardinality(Holders') \in Nat
  BY <1>4, SlotFacts, FS_RemoveElement, FS_CardinalityType DEF IInv
<1>7. count = Cardinality(Holders)
  BY <1>1, SlotFacts DEF IInv, CountExact
<1>8. TypeOK'
  BY <1>1, <1>2, <1>6, <1>7, SlotFacts DEF IInv, TypeOK, Slot
<1>9. PoolInv'
  <2>1. map'[0] = Pool
    BY <1>1, <1>2 DEF IInv, PoolInv, Slot
  <2>2. \A s \in Slot : s # 0 /\ map'[s] # NoUser => map'[s] \in User /\ sid'[map'[s]] = s
    BY <1>1, <1>2 DEF IInv, PoolInv
  <2>3. \A v \in User : sid'[v] # 0 => sid'[v] \in Slot /\ map'[sid'[v]] = v
    BY <1>1, <1>2 DEF IInv, PoolInv
  <2> QED
    <3>1. Cardinality(Occupied') = count' + 1
      <4>1. Cardinality(Occupied) = count + 1
        BY <1>1, Zenon DEF IInv, PoolInv
      <4> QED
        BY <1>1, <1>5, <4>1
    <3>2. cur' = NoUser
      BY <1>1
    <3> QED
      BY <1>2, <2>1, <2>2, <2>3, <3>1, <3>2, Zenon DEF PoolInv
<1>10. CountExact'
  BY <1>1, <1>6, <1>7 DEF CountExact
<1> QED
  BY <1>8, <1>9, <1>10 DEF IInv

\* The inductive invariant of a pool that is at most half used.
THEOREM PoolInvariant == ASSUME HalfLoad PROVE Spec => []IInv
<1>1. IInv /\ [Next]_vars => IInv'
  <2> SUFFICES ASSUME IInv, [Next]_vars PROVE IInv'
    OBVIOUS
  <2>1. CASE UNCHANGED vars \/ \E u \in User : AllocFull(u)
    <3>1. UNCHANGED vars
      BY <2>1 DEF AllocFull
    <3> QED
      BY <3>1 DEF vars, IInv, TypeOK, PoolInv, CountExact, Occupied, Slot, Holders
  <2> QED
    BY <2>1, InvAllocBegin, InvAllocStep, InvAllocTake, InvFree DEF Next
<1> QED
  BY <1>1, InvInit, PTL DEF Spec

\* sid_lookup finds every user under the SID that sid_alloc gave it.
THEOREM SidsLeadToTheirUsers == ASSUME HalfLoad PROVE Spec => []SidFound
<1>1. IInv => SidFound
  BY DEF IInv, TypeOK, PoolInv, SidFound, sid_lookup, Slot
<1> QED
  BY <1>1, PoolInvariant, PTL

\* Four base32 digits hold any SID of the pool: string_to_sid undoes
\* sid_to_string.
LEMMA RoundTrip ==
  ASSUME NEW s \in Nat, s < 32 * 32 * 32 * 32
  PROVE  string_to_sid(sid_to_string(s)) = s
<1> DEFINE C == s \div 32
           B == C \div 32
           A == B \div 32
<1>1. string_to_sid(sid_to_string(s)) = (((A % 32) * 32 + (B % 32)) * 32 + (C % 32)) * 32 + (s % 32)
  BY DEF string_to_sid, sid_to_string
<1>2. C \in Nat /\ s = C * 32 + (s % 32) /\ s % 32 \in 0..31 /\ C < 32 * 32 * 32
  BY SMT
<1> HIDE DEF C
<1>3. B \in Nat /\ C = B * 32 + (C % 32) /\ C % 32 \in 0..31 /\ B < 32 * 32
  BY <1>2, SMT
<1> HIDE DEF B
<1>4. A \in Nat /\ B = A * 32 + (B % 32) /\ B % 32 \in 0..31 /\ A < 32
  BY <1>3, SMT
<1> HIDE DEF A
<1>5. A % 32 = A
  BY <1>4, SMT
<1> QED
  BY <1>1, <1>2, <1>3, <1>4, <1>5

\* A message that names a user's SID as the hub sent it reaches the user.
THEOREM SidStringsLeadToTheirUsers == ASSUME HalfLoad PROVE Spec => []SidReachesUser
<1>1. ASSUME IInv PROVE SidReachesUser
  <2> SUFFICES ASSUME NEW u \in User, sid[u] # 0
               PROVE  sid_lookup(string_to_sid(sid_to_string(sid[u]))) = u
    BY DEF SidReachesUser
  <2>1. sid[u] \in Nat /\ sid[u] <= MaxPool /\ sid_lookup(sid[u]) = u
    BY <1>1 DEF IInv, TypeOK, PoolInv, sid_lookup, Slot
  <2>2. sid[u] < 32 * 32 * 32 * 32
    BY <2>1, SidFits
  <2> QED
    BY <2>1, <2>2, RoundTrip
<1> QED
  BY <1>1, PoolInvariant, PTL

\* The counter of the pool is exact: sid_alloc refuses only when every SID of
\* the pool is taken.
THEOREM PoolCounterExact == ASSUME HalfLoad PROVE Spec => []CountExact
<1>1. IInv => CountExact
  BY DEF IInv
<1> QED
  BY <1>1, PoolInvariant, PTL

\* The for loop of sid_alloc never leaves the map.
THEOREM SearchStaysInPool == ASSUME HalfLoad PROVE Spec => []SearchInPool
<1>1. IInv => SearchInPool
  BY DEF IInv, TypeOK, PoolInv, SearchInPool
<1> QED
  BY <1>1, PoolInvariant, PTL

\* The pool of SIDs is sound as long as it is at most half used.
THEOREM PoolIsSound == ASSUME HalfLoad PROVE Spec => []PoolSound
<1>1. SidFound /\ SidReachesUser /\ CountExact /\ SearchInPool => PoolSound
  BY DEF PoolSound
<1> QED
  BY <1>1, SidsLeadToTheirUsers, SidStringsLeadToTheirUsers, PoolCounterExact, SearchStaysInPool, PTL
=============================================================================
