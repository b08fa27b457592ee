------------------------------ MODULE Settings ------------------------------
(***************************************************************************)
(* The configuration of the plugins (parse_config in src/plugins/mod_*.c),    *)
(* the access control file (src/core/auth.c) and the message templates of     *)
(* mod_welcome and mod_joins.                                                *)
(*                                                                           *)
(* A configuration is a sequence of settings as cfg_settings_split returns     *)
(* them, the key "" standing for a token without '='.  A value is a record of  *)
(* what it reads as: bool (-1 if string_to_boolean refuses it), num, cred (-1 *)
(* if it names none), its length, and whether a file of that name opens.      *)
(***************************************************************************)
EXTENDS Integers, Sequences, SequencesExt

CONSTANTS
  SizeMax,                \* SIZE_MAX
  MAX_PASS_LEN,           \* the longest password
  JournalSize             \* the buffer for the journal mode, 16

Failed == [failed |-> TRUE]
NULL == [text |-> "NULL"]
Put(d, k, v) == [d EXCEPT ![k] = v]
Flag_(v) == IF v.bool = -1 THEN 1 ELSE v.bool
SizeT(n) == n % (SizeMax + 1)

\* The loop of every parse_config.
ReadSettings(q, defaults, Apply(_, _, _)) ==
  FoldLeft(LAMBDA d, s : IF d = Failed \/ s.key = "" THEN Failed ELSE Apply(d, s.key, s.value), defaults, q)

Opens(file) == file # NULL /\ file.opens

users_parse_config(q) ==
  ReadSettings(q, [register_self |-> 0, allow_spaces |-> 0, notify |-> 1, password_length |-> 6],
    LAMBDA d, k, v :
      CASE k \in {"register_self", "allow_spaces", "notify"} -> Put(d, k, Flag_(v))
        [] k = "password_length" -> Put(d, k, IF SizeT(v.num) > MAX_PASS_LEN THEN MAX_PASS_LEN ELSE SizeT(v.num))
        [] OTHER -> Failed)

sqlite_parse_config(q) ==
  LET Opened(d) == IF d = Failed \/ ~ Opens(d.file) THEN Failed
                   ELSE IF d.readonly = 1 THEN Put(d, "update_activity", 0) ELSE d
  IN Opened(ReadSettings(q, [file |-> NULL, journal |-> NULL, exclusive |-> 0, readonly |-> 0, update_activity |-> 2],
       LAMBDA d, k, v :
         CASE k = "file" -> IF d.file # NULL THEN Failed ELSE Put(d, k, v)
           [] k = "journal" -> IF v.len >= JournalSize THEN Failed ELSE Put(d, k, v)
           [] k \in {"exclusive", "readonly", "update_activity"} -> Put(d, k, Flag_(v))
           [] OTHER -> Failed))

\* With load_acl.  A file with a bad line leaves the users before it and is no error.
simple_parse_config(q) ==
  LET Loaded(d) == IF d = Failed \/ d.file = NULL \/ d.file.len = 0 THEN Failed ELSE d
  IN Loaded(ReadSettings(q, [file |-> NULL, exclusive |-> 0],
       LAMBDA d, k, v :
         CASE k = "file" -> IF d.file # NULL THEN Failed ELSE Put(d, k, v)
           [] k = "exclusive" -> Put(d, k, Flag_(v))
           [] OTHER -> Failed))

guest_parse_config(q) ==
  LET Given_(d) == IF d = Failed \/ d.password = NULL \/ d.password.len = 0 THEN Failed ELSE d
  IN Given_(ReadSettings(q, [password |-> NULL],
       LAMBDA d, k, v : IF k # "password" \/ v.len > MAX_PASS_LEN THEN Failed ELSE Put(d, k, v)))

restrict_parse_config(q) ==
  ReadSettings(q, [download |-> 1, chat |-> 1, op_msg |-> 1, priv_msg |-> 1],
    LAMBDA d, k, v : IF k \notin DOMAIN d \/ v.cred = -1 THEN Failed ELSE Put(d, k, v.cred))

history_parse_config(q) ==
  LET Opened(d) == IF d = Failed \/ (d.file # NULL /\ ~ Opens(d.file)) THEN Failed ELSE d
  IN Opened(ReadSettings(q, [file |-> NULL, history_max |-> 200, history_default |-> 10, history_connect |-> 5],
       LAMBDA d, k, v :
         CASE k = "file" -> Put(d, k, v)
           [] k \in {"history_max", "history_default", "history_connect"} -> Put(d, k, SizeT(v.num))
           [] OTHER -> Failed))

history_sqlite_parse_config(q) ==
  ReadSettings(q, [file |-> NULL, history_max |-> 200, history_default |-> 10, history_connect |-> 5],
    LAMBDA d, k, v :
      CASE k = "file" -> IF d.file # NULL \/ ~ v.opens THEN Failed ELSE Put(d, k, v)
        [] k \in {"history_max", "history_default", "history_connect"} -> Put(d, k, v.num)
        [] OTHER -> Failed)

welcome_parse_config(q) ==
  ReadSettings(q, [motd |-> NULL, rules |-> NULL],
    LAMBDA d, k, v : IF k \notin DOMAIN d \/ ~ v.opens THEN Failed ELSE Put(d, k, v))

joins_parse_config(q) ==
  ReadSettings(q, [join |-> NULL, leave |-> NULL, min_notify |-> 1],
    LAMBDA d, k, v :
      CASE k \in {"join", "leave"} -> IF v.opens THEN Put(d, k, v) ELSE Failed
        [] k = "min_notify" -> IF v.cred = -1 THEN Failed ELSE Put(d, k, v.cred)
        [] OTHER -> Failed)

\* syslog=no also means a file; an unreadable value changes nothing.
logging_syslog(d, v) ==
  CASE v.bool = -1 -> d
    [] v.bool = 0 -> Put(d, "logmode", "file")
    [] v.bool = 1 /\ d.file # NULL -> Failed
    [] OTHER -> Put(d, "logmode", "syslog")

logging_parse_config(q) ==
  LET Opened(d) == IF d = Failed \/ (d.logmode = "file" /\ ~ Opens(d.file)) THEN Failed ELSE d
  IN Opened(ReadSettings(q, [file |-> NULL, logmode |-> "mem", max_log_entries |-> 200],
       LAMBDA d, k, v :
         CASE k = "file" -> Put(Put(d, k, v), "logmode", "file")
           [] k = "syslog" -> logging_syslog(d, v)
           [] k = "max_log_entries" -> Put(d, k, IF SizeT(v.num) = 0 THEN SizeMax ELSE SizeT(v.num))
           [] OTHER -> Failed))

parse_config(plugin, q) ==
  CASE plugin = "users" -> users_parse_config(q)
    [] plugin = "sqlite" -> sqlite_parse_config(q)
    [] plugin = "simple" -> simple_parse_config(q)
    [] plugin = "guest" -> guest_parse_config(q)
    [] plugin = "restrict" -> restrict_parse_config(q)
    [] plugin = "history" -> history_parse_config(q)
    [] plugin = "history_sqlite" -> history_sqlite_parse_config(q)
    [] plugin = "welcome" -> welcome_parse_config(q)
    [] plugin = "joins" -> joins_parse_config(q)
    [] plugin = "logging" -> logging_parse_config(q)
-----------------------------------------------------------------------------
(* The access control file.  A line is [cmd, arg], with arg "" where the line   *)
(* is the bare keyword and cmd "#" where it is a comment.  Each check compares  *)
(* the whole line with the keyword, so it succeeds only for a bare one, and     *)
(* takes for the argument what lies behind the line: the lines that follow.  An address among    *)
(* them is no keyword, so such a file fails one line later.                     *)

AclUsers == {"bot", "ubot", "opbot", "opubot", "user_admin", "user_super", "user_op", "user_reg", "link"}
AclNames == [deny_nick |-> "users_denied", ban_nick |-> "users_banned", ban_cid |-> "cids"]
AclAddrs == {"deny_ip", "nat_ip"}
NoAcl == [status |-> "ok", users |-> << >>, users_denied |-> << >>, users_banned |-> << >>, cids |-> << >>]

\* Behind the last line there is memory that is not the file's.
Behind(acl, list, rest) ==
  IF rest = << >> THEN [acl EXCEPT !.status = "overrun"] ELSE [acl EXCEPT ![list] = Append(@, rest)]

check_cmd_user(acl, rest) == Behind(acl, "users", rest)
check_cmd_bool(acl, cmd, rest) == Behind(acl, AclNames[cmd], rest)
check_cmd_addr(acl, rest) == [acl EXCEPT !.status = IF rest = << >> THEN "overrun" ELSE "failed"]

acl_parse_line(acl, line, rest) ==
  IF acl.status # "ok" \/ line.cmd = "#" THEN acl
  ELSE CASE line.arg = "" /\ line.cmd \in AclUsers -> check_cmd_user(acl, rest)
         [] line.arg = "" /\ line.cmd \in DOMAIN AclNames -> check_cmd_bool(acl, line.cmd, rest)
         [] line.arg = "" /\ line.cmd \in AclAddrs -> check_cmd_addr(acl, rest)
         [] OTHER -> [acl EXCEPT !.status = "failed"]

acl_initialize(lines) ==
  FoldLeft(LAMBDA acl, i : acl_parse_line(acl, lines[i], SubSeq(lines, i + 1, Len(lines))), NoAcl, [i \in DOMAIN lines |-> i])
-----------------------------------------------------------------------------
(* Templates: a '%' and a letter stand for something, the user's nick say; an   *)
(* unknown letter for nothing.                                                 *)

WelcomeCodes == {"n", "a", "c", "%", "H", "I", "M", "S", "P", "p", "Z", "z"}
JoinsCodes == WelcomeCodes \cup {"r"}
Meaning(codes, c) == IF c = "%" THEN <<"%">> ELSE IF c \in codes THEN <<"%" \o c>> ELSE << >>

\* A '%' at the very end: the text goes on behind its terminating NUL.
RECURSIVE Expand(_, _, _)
Expand(s, codes, out) ==
  LET at == SelectInSeq(s, LAMBDA c : c = "%")
  IN CASE at = 0 -> out \o s
       [] at = Len(s) -> <<"overrun">>
       [] OTHER -> Expand(SubSeq(s, at + 2, Len(s)), codes, out \o SubSeq(s, 1, at - 1) \o Meaning(codes, s[at + 1]))

welcome_parse_message(msg) == Expand(msg, WelcomeCodes, << >>)
joins_parse_message(msg) ==
  LET Chomp(s) == IF s # << >> /\ Last(s) = " " THEN Front(s) ELSE s IN Chomp(Expand(msg, JoinsCodes, << >>))
=============================================================================
