---------------------------- MODULE Credentials ----------------------------
(***************************************************************************)
(* Credentials (src/util/credentials.c), the answers of plugins, and the      *)
(* hub's table of chat commands (src/core/commands.c and the plugins).        *)
(***************************************************************************)
EXTENDS Integers, Sequences

\* What a plugin answers.
st_default == 0
st_allow == 1
st_deny == -1

auth_cred_none == 0
auth_cred_guest == 1
auth_cred_user == 2
auth_cred_bot == 3
auth_cred_ubot == 4
auth_cred_operator == 5
auth_cred_opbot == 6
auth_cred_opubot == 7
auth_cred_super == 8
auth_cred_link == 9
auth_cred_admin == 10
auth_credentials == auth_cred_none..auth_cred_admin

auth_cred_is_unrestricted(c) == c \in {auth_cred_ubot, auth_cred_opubot}
auth_cred_is_protected(c) == c \notin {auth_cred_none, auth_cred_guest, auth_cred_user}
auth_cred_is_registered(c) == c \notin {auth_cred_none, auth_cred_guest}

auth_cred_to_string(c) ==
  <<"none", "guest", "user", "bot", "ubot", "operator", "opbot", "opubot", "super", "link", "admin">>[c + 1]

\* -1 for a text that names no credentials.
auth_string_to_cred(s) ==
  CASE s = "op" -> auth_cred_operator
    [] s = "reg" -> auth_cred_user
    [] \E c \in auth_credentials : auth_cred_to_string(c) = s ->
         CHOOSE c \in auth_credentials : auth_cred_to_string(c) = s
    [] OTHER -> -1
-----------------------------------------------------------------------------
(* The table                                                                   *)

Handle(prefix, args, cred) == [prefix |-> prefix, args |-> args, cred |-> cred]

commands_builtin_add ==
  {Handle("broadcast", <<"+", "m">>, auth_cred_operator), Handle("getip", <<"u">>, auth_cred_operator),
   Handle("help", <<"?", "c">>, auth_cred_guest), Handle("info", <<"u">>, auth_cred_operator),
   Handle("kick", <<"u", "?", "m">>, auth_cred_operator), Handle("loglevel", <<"?", "m">>, auth_cred_admin),
   Handle("me", << >>, auth_cred_guest), Handle("myip", << >>, auth_cred_guest),
   Handle("reload", << >>, auth_cred_admin), Handle("shutdown", << >>, auth_cred_admin),
   Handle("stats", << >>, auth_cred_super), Handle("uptime", << >>, auth_cred_guest),
   Handle("version", << >>, auth_cred_guest), Handle("whoip", <<"r">>, auth_cred_operator)}

\* The commands of mod_users, mod_chat_history and mod_topic.
PluginCommands ==
  [users |-> {Handle("password", <<"+", "p">>, auth_cred_user), Handle("useradd", <<"n", "p", "?", "C">>, auth_cred_operator),
              Handle("userdel", <<"+", "n">>, auth_cred_operator), Handle("userlist", <<"?", "+", "n">>, auth_cred_operator),
              Handle("usermod", <<"n", "C">>, auth_cred_super), Handle("userpass", <<"n", "+", "p">>, auth_cred_operator),
              Handle("register", <<"p">>, auth_cred_guest)},
   history |-> {Handle("history", <<"?", "N">>, auth_cred_guest)},
   topic |-> {Handle("topic", <<"+", "m">>, auth_cred_operator), Handle("resettopic", << >>, auth_cred_operator),
              Handle("showtopic", << >>, auth_cred_guest)}]

command_is_available(handle, cred) == handle.cred <= cred

\* {} or the one handler with that prefix.
command_handler_lookup(table, prefix) == {h \in table : h.prefix = prefix}
=============================================================================
