---------------------------- MODULE UserManager ----------------------------
(***************************************************************************)
(* src/core/usermanager.c: the hub's register of logged-in users.  Five     *)
(* pieces of state say who is logged in -- the list, the nick index, the    *)
(* CID index, the counter and the total shared size -- and each is updated  *)
(* on its own.  What the clients have been told is a sixth.                 *)
(***************************************************************************)
EXTENDS Integers, FiniteSets

CONSTANTS
  User,                   \* the struct hub_user objects
  Nick, Cid,              \* nicknames and client identifiers
  Share,                  \* the share sizes a client can report
  NoUser                  \* NULL

ASSUME UserAssumption == IsFiniteSet(User) /\ NoUser \notin User
ASSUME ShareAssumption == Share \subseteq Nat /\ Share # {}
ASSUME NameAssumption == Nick # {} /\ Cid # {}

VARIABLES
  nick, cid, share,       \* user->id.nick, user->id.cid, user->limits.shared_size
  list,                   \* users->list
  nickmap, cidmap,        \* users->nickmap, users->cidmap: NoUser where no entry
  count,                  \* users->count
  shared,                 \* users->shared_size
  view                    \* view[v]: the users v's client was told are online

idVars == <<nick, cid, share>>
umanVars == <<list, nickmap, cidmap, count, shared, view>>

UserManagerTypeOK ==
  /\ nick \in [User -> Nick]
  /\ cid \in [User -> Cid]
  /\ share \in [User -> Share]
  /\ list \subseteq User
  /\ nickmap \in [Nick -> User \cup {NoUser}]
  /\ cidmap \in [Cid -> User \cup {NoUser}]
  /\ count \in Nat
  /\ shared \in Int
  /\ view \in [User -> SUBSET User]

\* uman_init.  The identity of a user that has not identified is never read.
UserManagerInit ==
  /\ nick = [u \in User |-> CHOOSE n \in Nick : TRUE]
  /\ cid = [u \in User |-> CHOOSE c \in Cid : TRUE]
  /\ share = [u \in User |-> CHOOSE s \in Share : TRUE]
  /\ list = {}
  /\ nickmap = [n \in Nick |-> NoUser]
  /\ cidmap = [c \in Cid |-> NoUser]
  /\ count = 0
  /\ shared = 0
  /\ view = [u \in User |-> {}]

\* rb_tree_insert leaves an existing entry of the key in place.
Insert(map, key, u) ==
  IF map[key] = NoUser THEN [map EXCEPT ![key] = u] ELSE map

\* uman_send_user_list: whom a new user is told about.  online is the set of
\* logged-in users.
uman_send_user_list(online) == list \cap online

\* route_to_all, route_info_message: whom a message to all reaches; route_to_user
\* skips a user that is disconnecting.
route_to_all(online) == list \cap online

\* uman_add, between uman_send_user_list and route_info_message, which tells
\* every connected user of the list, u itself included, about u.
uman_add(u, online) ==
  /\ list' = list \cup {u}
  /\ nickmap' = Insert(nickmap, nick[u], u)
  /\ cidmap' = Insert(cidmap, cid[u], u)
  /\ count' = count + 1
  /\ shared' = shared + share[u]
  /\ view' = [v \in User |-> IF v = u THEN uman_send_user_list(online) \cup {u}
                             ELSE IF v \in route_to_all(online) THEN view[v] \cup {u}
                             ELSE view[v]]

\* Mutant of uman_remove: the nick index keeps its entry.
uman_remove_indexed(u) ==
  /\ list' = list \ {u}
  /\ UNCHANGED nickmap
  /\ cidmap' = [cidmap EXCEPT ![cid[u]] = NoUser]
  /\ count' = IF count > 0 THEN count - 1 ELSE count
  /\ shared' = shared - share[u]

\* uman_remove.  The indexes drop whatever entry the user's nick and CID have.
uman_remove(u) ==
  /\ list' = list \ {u}
  /\ nickmap' = [nickmap EXCEPT ![nick[u]] = NoUser]
  /\ cidmap' = [cidmap EXCEPT ![cid[u]] = NoUser]
  /\ count' = IF count > 0 THEN count - 1 ELSE count
  /\ shared' = shared - share[u]

\* Mutant of uman_send_quit_message: the message is not routed.
uman_send_quit_message_lost(u, online) == UNCHANGED view

\* uman_send_quit_message, after uman_remove: every connected user of the list
\* is told that u has left.
uman_send_quit_message(u, online) ==
  view' = [v \in User |-> IF v \in route_to_all(online) \ {u} THEN view[v] \ {u}
                          ELSE view[v]]
=============================================================================
