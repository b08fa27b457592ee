------------------------------ MODULE Accounts ------------------------------
(***************************************************************************)
(* Accounts and the credentials of sessions: a login reads the account when   *)
(* INF arrives and again when the password does, and the commands of          *)
(* mod_users change accounts and sessions while others log in                 *)
(* (src/core/inf.c, hub.c, auth.c, src/plugins/mod_users.c,                   *)
(* mod_auth_sqlite.c, mod_auth_simple.c, mod_guest_passwd.c).                 *)
(*                                                                           *)
(* acc.db and acc.file are the accounts of the database and of the text file, *)
(* auth_cred_none where there is none; acc.chain the plugins in the order they *)
(* are asked; acc.session the one connection of each nick.  acc.changed are    *)
(* the nicks whose account changed between the two reads of a login: history.  *)
(***************************************************************************)
EXTENDS Credentials, FiniteSets

CONSTANTS
  Nicks,
  Levels,        \* the credentials accounts are given
  Chains         \* the configurations: [chain, file, self] records

Plugin == [type : {"sqlite", "simple", "guest"}, exclusive : BOOLEAN, readonly : BOOLEAN]

\* mod_guest_passwd knows every nick: a database behind it would be changed and
\* never asked, and nothing below is promised of it.
Answerable(chain) ==
  \A i, j \in DOMAIN chain : i < j => ~ (chain[i].type = "guest" /\ chain[j].type = "sqlite")

ASSUME LevelsAssumption == Levels \subseteq auth_credentials
ASSUME ChainsAssumption ==
  \A c \in Chains : c.chain \in Seq(Plugin) /\ c.file \in [Nicks -> auth_credentials]

VARIABLE acc

NoSession == [state |-> "none", cred |-> auth_cred_none, need |-> FALSE]
Fail(p) == IF p.exclusive THEN st_deny ELSE st_default
-----------------------------------------------------------------------------
(* The plugins.  An answer is [st, cred] for a query, [st, db] for a change.     *)

sqlite_get_user(p, db, n) ==
  IF db[n] # auth_cred_none THEN [st |-> st_allow, cred |-> db[n]] ELSE [st |-> Fail(p), cred |-> auth_cred_none]
simple_get_user(p, file, n) ==
  IF file[n] # auth_cred_none THEN [st |-> st_allow, cred |-> file[n]] ELSE [st |-> Fail(p), cred |-> auth_cred_none]
guest_get_user == [st |-> st_allow, cred |-> auth_cred_guest]

get_user(p, a, n) ==
  CASE p.type = "sqlite" -> sqlite_get_user(p, a.db, n)
    [] p.type = "simple" -> simple_get_user(p, a.file, n)
    [] p.type = "guest" -> guest_get_user

Changed(db, n, cred) == [st |-> st_allow, db |-> [db EXCEPT ![n] = cred]]
Refuses(p, db) == [st |-> Fail(p), db |-> db]

\* INSERT fails on a nick that is there, UPDATE and DELETE on one that is not.
sqlite_register_user(p, db, n, cred) ==
  IF p.readonly \/ cred < auth_cred_user \/ db[n] # auth_cred_none THEN Refuses(p, db) ELSE Changed(db, n, cred)
sqlite_update_user(p, db, n, cred) ==
  IF p.readonly \/ cred < auth_cred_user \/ db[n] = auth_cred_none THEN Refuses(p, db) ELSE Changed(db, n, cred)
sqlite_delete_user(p, db, n) ==
  IF p.readonly \/ db[n] = auth_cred_none THEN Refuses(p, db) ELSE Changed(db, n, auth_cred_none)

\* mod_auth_simple only says no; mod_guest_passwd has no such hook.
simple_change_user(p, db) == Refuses(p, db)
guest_change_user(db) == [st |-> st_default, db |-> db]

ChangeBy(p, db, change, n, cred) ==
  CASE p.type = "simple" -> simple_change_user(p, db)
    [] p.type = "guest" -> guest_change_user(db)
    [] p.type = "sqlite" /\ change = "register" -> sqlite_register_user(p, db, n, cred)
    [] p.type = "sqlite" /\ change = "update" -> sqlite_update_user(p, db, n, cred)
    [] p.type = "sqlite" /\ change = "delete" -> sqlite_delete_user(p, db, n)

\* PLUGIN_INVOKE_STATUS: the first answer that is not st_default.
Decided(answers, undecided) ==
  LET given == {i \in DOMAIN answers : answers[i].st # st_default}
  IN  IF given = {} THEN undecided ELSE answers[CHOOSE i \in given : \A j \in given : i <= j]

plugin_auth_get_user(a, n) ==
  Decided([i \in DOMAIN a.chain |-> get_user(a.chain[i], a, n)], [st |-> st_default, cred |-> auth_cred_none])
plugin_auth_change(a, change, n, cred) ==
  Decided([i \in DOMAIN a.chain |-> ChangeBy(a.chain[i], a.db, change, n, cred)], [st |-> st_default, db |-> a.db])

\* auth_cred_none when there is no access info.
acl_get_access_info(a, n) ==
  LET Answer(r) == IF r.st = st_allow THEN r.cred ELSE auth_cred_none IN Answer(plugin_auth_get_user(a, n))
-----------------------------------------------------------------------------
(* Logging in and out                                                          *)

AccInit ==
  \E c \in Chains, root \in Nicks :
    acc = [chain |-> c.chain, file |-> c.file, self |-> c.self, changed |-> {},
           db |-> [n \in Nicks |-> IF n = root THEN auth_cred_super ELSE auth_cred_none],
           session |-> [n \in Nicks |-> NoSession]]

Session(n, state, cred, need) == [state |-> state, cred |-> cred, need |-> need]

\* set_credentials and the join event of hub_handle_info.
Info(n) ==
  /\ acc.session[n].state = "none"
  /\ LET Read(access) ==
           acc' = [acc EXCEPT !.session[n] =
             Session(n, "identify", IF access = auth_cred_none THEN auth_cred_guest ELSE access,
                     access # auth_cred_none)]
     IN  Read(acl_get_access_info(acc, n))

\* hub_event_dispatcher for the join: a password is asked for, or the user is in.
Join(n) ==
  /\ acc.session[n].state = "identify"
  /\ acc' = [acc EXCEPT !.session[n].state = IF acc.session[n].need THEN "verify" ELSE "normal"]

Closed(a, n) == [a EXCEPT !.session[n] = NoSession, !.changed = @ \ {n}]

\* hub_handle_password: the account is read again; right says that the password
\* answers the challenge.
Password(n, right) ==
  /\ acc.session[n].state = "verify"
  /\ acc' = IF acl_get_access_info(acc, n) # auth_cred_none /\ right
            THEN [acc EXCEPT !.session[n].state = "normal"]
            ELSE Closed(acc, n)

Leave(n) ==
  /\ acc.session[n].state # "none"
  /\ acc' = Closed(acc, n)
-----------------------------------------------------------------------------
(* The commands of mod_users, sent by the logged-in user u                      *)

Normal(n) == acc.session[n].state = "normal"
Cred(n) == acc.session[n].cred
InLogin(n) == acc.session[n].state \in {"identify", "verify"}
Available(u, prefix) ==
  Normal(u) /\ \A h \in PluginCommands["users"] : h.prefix = prefix => command_is_available(h, Cred(u))

\* Mutant: any credentials may be given.
copy_credentials_any(u, cred) == cred >= auth_cred_user

copy_credentials(u, cred) == cred >= auth_cred_user /\ cred <= Cred(u)

nick_is_registered(n) == acl_get_access_info(acc, n) >= auth_cred_user
find_user(u, n) == acl_get_access_info(acc, n) \in auth_cred_user..Cred(u)

\* The change the plugins make of n's account; when they allow it, the session of
\* n gets the credentials sess[1], if any.
ChangeAccount(change, n, cred, sess) ==
  LET Allowed(r) ==
        /\ r.st = st_allow
        /\ acc' = [acc EXCEPT !.db = r.db, !.changed = IF InLogin(n) /\ r.db # acc.db THEN @ \cup {n} ELSE @,
                              !.session[n].cred = IF sess = << >> THEN @ ELSE sess[1]]
  IN  Allowed(plugin_auth_change(acc, change, n, cred))

\* The target's session follows if it is logged in as a registered user.
Follows(n, cred) == IF Normal(n) /\ Cred(n) >= auth_cred_user THEN <<cred>> ELSE << >>

command_register(u) ==
  /\ acc.self /\ Available(u, "register")
  /\ ~ nick_is_registered(u)
  /\ ChangeAccount("register", u, auth_cred_user, <<auth_cred_user>>)

\* The session's credentials are written with the password.
command_password(u) ==
  /\ Available(u, "password") /\ Cred(u) >= auth_cred_user
  /\ ChangeAccount("update", u, Cred(u), << >>)

command_useradd(u, n, cred) ==
  /\ Available(u, "useradd")
  /\ copy_credentials(u, cred)
  /\ ~ nick_is_registered(n)
  /\ ChangeAccount("register", n, cred, << >>)

command_userdel(u, n) ==
  /\ Available(u, "userdel")
  /\ find_user(u, n) /\ u # n
  /\ ChangeAccount("delete", n, auth_cred_none, Follows(n, auth_cred_guest))

\* Mutant: only the account changes.
command_usermod_account(u, n, cred) ==
  /\ Available(u, "usermod")
  /\ find_user(u, n) /\ acl_get_access_info(acc, n) # cred
  /\ copy_credentials(u, cred) /\ u # n
  /\ ChangeAccount("update", n, cred, << >>)

command_usermod(u, n, cred) ==
  /\ Available(u, "usermod")
  /\ find_user(u, n) /\ acl_get_access_info(acc, n) # cred
  /\ copy_credentials(u, cred) /\ u # n
  /\ ChangeAccount("update", n, cred, Follows(n, cred))

\* The credentials that were found are written with the password.
command_userpass(u, n) ==
  /\ Available(u, "userpass")
  /\ find_user(u, n)
  /\ ChangeAccount("update", n, acl_get_access_info(acc, n), << >>)

command_kick(u, n) ==
  /\ Normal(u) /\ Cred(u) >= auth_cred_operator
  /\ Normal(n) /\ u # n /\ Cred(u) >= Cred(n)
  /\ acc' = Closed(acc, n)

AccNext ==
  \/ \E n \in Nicks : Info(n) \/ Join(n) \/ Leave(n)
  \/ \E n \in Nicks, right \in BOOLEAN : Password(n, right)
  \/ \E u \in Nicks : command_register(u) \/ command_password(u)
  \/ \E u, n \in Nicks, cred \in Levels : command_useradd(u, n, cred) \/ command_usermod(u, n, cred)
  \/ \E u, n \in Nicks : command_userdel(u, n) \/ command_userpass(u, n) \/ command_kick(u, n)

AccSpec == AccInit /\ [][AccNext]_acc
-----------------------------------------------------------------------------
\* Both the file, which is asked first, and the database have the nick: changes go
\* to the database, answers come from the file.
Shadowed(a, n) == a.chain[1].type = "simple" /\ a.file[n] # auth_cred_none /\ a.db[n] # auth_cred_none
Stale(a, n) == n \in a.changed \/ Shadowed(a, n)

(***************************************************************************)
(* CredsCurrent: a logged-in user who is more than a guest has the           *)
(* credentials the account has now: mod_users keeps the session and the       *)
(* account together, whatever the commands and logins that came between.      *)
(* The exceptions are a change between INF and the password (hub.c:265 reads  *)
(* the account again but keeps the credentials inf.c:584 took) and an account *)
(* the text file hides.                                                       *)
(***************************************************************************)
CredsCurrent ==
  \A n \in Nicks :
    Normal(n) /\ Cred(n) >= auth_cred_user /\ ~ Stale(acc, n) => acl_get_access_info(acc, n) = Cred(n)

(***************************************************************************)
(* RisesGranted: an account of the database gets higher credentials than it   *)
(* had, and than a user's, only from another logged-in user whose own account *)
(* has at least these; the exceptions are those of CredsCurrent, for either   *)
(* of the two (mod_users.c, copy_credentials and find_user).                  *)
(***************************************************************************)
RiseGranted ==
  \A n \in Nicks :
    acc'.db[n] > acc.db[n] /\ acc'.db[n] > auth_cred_user
      => \/ Stale(acc, n)
         \/ \E m \in Nicks \ {n} :
              Normal(m) /\ (Stale(acc, m) \/ acl_get_access_info(acc, m) >= acc'.db[n])
RisesGranted == [][RiseGranted]_acc
-----------------------------------------------------------------------------
(* The inductive invariant: a login keeps what it read when INF arrived, a user  *)
(* who is logged in what the account says now.                                  *)

SessionStates == {"none", "identify", "verify", "normal"}

AccTypeOK ==
  /\ acc = [chain |-> acc.chain, file |-> acc.file, self |-> acc.self, changed |-> acc.changed,
            db |-> acc.db, session |-> acc.session]
  /\ acc.chain \in Seq(Plugin) /\ Answerable(acc.chain)
  /\ acc.file \in [Nicks -> auth_credentials] /\ acc.db \in [Nicks -> auth_credentials]
  /\ acc.changed \in SUBSET Nicks
  /\ acc.session \in [Nicks -> [state : SessionStates, cred : auth_credentials, need : BOOLEAN]]

SessionOK(a, n) ==
  /\ a.session[n].state = "none" => n \notin a.changed
  /\ a.session[n].state \in {"identify", "verify"} /\ n \notin a.changed =>
       LET access == acl_get_access_info(a, n)
       IN  /\ a.session[n].cred = IF access = auth_cred_none THEN auth_cred_guest ELSE access
           /\ a.session[n].need = (access # auth_cred_none)
  /\ a.session[n].state = "normal" /\ a.session[n].cred >= auth_cred_user /\ ~ Stale(a, n) =>
       acl_get_access_info(a, n) = a.session[n].cred

AccInv == AccTypeOK /\ \A n \in Nicks : SessionOK(acc, n)
=============================================================================
