-------------------------------- MODULE Room --------------------------------
(***************************************************************************)
(* What becomes of the messages users send: flood control, the plugins that   *)
(* may refuse them, and what the plugins remember (hub_handle_message in      *)
(* src/core/hub.c, src/util/floodctl.c, src/core/plugininvoke.c,              *)
(* pluginloader.c, src/plugins/mod_restrict.c, mod_chat_only.c,               *)
(* mod_chat_history.c and mod_chat_history_sqlite.c).                         *)
(*                                                                           *)
(* room.warn and room.told are the flags of mod_restrict and mod_chat_only,   *)
(* per SID; size and told_size how far their tables reach.  hist and file are *)
(* the chat history and its log, each entry the lines of a message; rows the   *)
(* table of mod_chat_history_sqlite, of each message the second it was sent.  *)
(* History, for the properties: earned[s], the permissions the user of s got   *)
(* since logging in; seen[s], what s was told since the slot was last emptied;      *)
(* grown, whether the table of mod_chat_only grew; heard and said, what was   *)
(* logged by either history; failed, whether plugins could not be loaded.     *)
(***************************************************************************)
EXTENDS Commands, FloodControl, FiniteSets

CONSTANTS
  RoomSids, MaxRoom,            \* the SIDs that act; how many at a time
  RestrictStart, RestrictStep,  \* the table of mod_restrict: 128 and 32 slots
  ToldStart, ToldEntry,         \* that of mod_chat_only: 512 slots of 8 bytes
  HistoryMax, MaxHeard,         \* history_max; how many messages are logged
  MaxTime, MaxCount,            \* how long the clock runs, and how far flood control counts
  Setups                        \* the configurations, with the messages to try

VARIABLE room

FloodTypes == {"chat", "search", "connect"}
NoFlood == [t \in FloodTypes |-> flood_control_reset]
NoUser == [state |-> "free", cred |-> auth_cred_none, flood |-> NoFlood, warned |-> FALSE]
NoTarget == -1
Uses(r, p) == \E i \in DOMAIN r.loaded : r.loaded[i] = p
CredOf(r, s) == r.user[s].cred
Default(r) == [st |-> st_default, r |-> r]
Deny(r) == [st |-> st_deny, r |-> r]
-----------------------------------------------------------------------------
(* Flood control                                                               *)

\* hub_send_flood_warning: once per user.
hub_send_flood_warning(r, s) == [r EXCEPT !.user[s].warned = TRUE]

\* CHECK_FLOOD: [pass, r]; unrestricted users are counted and let through.
CHECK_FLOOD(r, s, type) ==
  LET Checked(c) ==
        LET pass == Passes(c, auth_cred_is_unrestricted(CredOf(r, s)))
            r1 == [r EXCEPT !.user[s].flood[type] = c.ctl]
        IN  [pass |-> pass, r |-> IF pass THEN r1 ELSE hub_send_flood_warning(r1, s)]
  IN  Checked(flood_control_check(r.user[s].flood[type], r.setup.flood, r.setup.delay, r.now))
-----------------------------------------------------------------------------
(* mod_restrict                                                                *)

Masked(n) == IF (n \div RestrictStep) % 2 = 1 THEN n - RestrictStep ELSE n

\* The table with a slot for the SID; one past the end is a fault.
restrict_get_user_info(r, s) ==
  IF s < r.size THEN r
  ELSE [r EXCEPT !.size = Masked(s + RestrictStep),
                 !.fault = IF s < Masked(s + RestrictStep) THEN @ ELSE "slot"]

Flag(r, s, flag) == [restrict_get_user_info(r, s) EXCEPT !.warn[s] = @ \cup {flag}]
send_warning(r, s, flag) == Flag(r, s, flag)

restrict_on_search(r, s) ==
  IF CredOf(r, s) >= r.setup.download THEN Default(r) ELSE Deny(send_warning(r, s, "search"))

restrict_on_search_result(r, s, to) ==
  CASE to = NoTarget -> Deny([r EXCEPT !.fault = "target"])
    [] to # NoTarget /\ CredOf(r, to) >= r.setup.download -> Default(r)
    [] OTHER -> Deny(r)

restrict_on_p2p_connect(r, s, to) ==
  LET Slot(r1) == IF "allow_revconnect" \in r1.warn[to] THEN Default(r1) ELSE Deny(send_warning(r1, s, "connect"))
  IN CASE CredOf(r, s) >= r.setup.download -> Default(r)
       [] CredOf(r, s) < r.setup.download /\ to = NoTarget -> Deny([r EXCEPT !.fault = "target"])
       [] OTHER -> Slot(restrict_get_user_info(r, to))

restrict_on_p2p_revconnect(r, s) ==
  IF CredOf(r, s) >= r.setup.download THEN Default(Flag(r, s, "allow_revconnect"))
  ELSE Deny(send_warning(r, s, "connect"))

restrict_on_chat_msg(r, s) ==
  IF CredOf(r, s) >= r.setup.chat THEN Default(r) ELSE Deny(send_warning(r, s, "chat"))

restrict_on_private_msg(r, s, to) ==
  LET Slot(r1) == IF "allow_reply" \in r1.warn[s] THEN Default(r1) ELSE Deny(send_warning(r1, s, "op_pm"))
      toOp == CredOf(r, to) >= auth_cred_operator
  IN CASE toOp /\ CredOf(r, s) >= r.setup.opmsg -> Default(r)
       [] toOp /\ CredOf(r, s) < r.setup.opmsg -> Slot(restrict_get_user_info(r, s))
       [] ~ toOp /\ CredOf(r, s) < r.setup.privmsg -> Deny(send_warning(r, s, "pm"))
       [] OTHER -> Default(IF CredOf(r, s) >= auth_cred_operator /\ CredOf(r, to) < r.setup.opmsg
                           THEN Flag(r, to, "allow_reply") ELSE r)

\* Mutant: a slot keeps what the last user of the SID left.
restrict_on_user_login_kept(r, s) == restrict_get_user_info(r, s)

restrict_on_user_login(r, s) == [restrict_get_user_info(r, s) EXCEPT !.warn[s] = {}]
restrict_on_user_logout(r, s) == [restrict_get_user_info(r, s) EXCEPT !.warn[s] = {}]

\* plugin_register: the hooks there are, by what is restricted.
restrict_hooks(setup) ==
  LET download == setup.download > auth_cred_guest
      chat == setup.chat > auth_cred_guest
      private == setup.privmsg > auth_cred_guest \/ setup.opmsg > auth_cred_guest
  IN  (IF download THEN {"search", "result", "connect", "revconnect"} ELSE {})
        \cup (IF chat THEN {"chat"} ELSE {}) \cup (IF private THEN {"private"} ELSE {})
        \cup (IF download \/ chat \/ private THEN {"login", "logout"} ELSE {})
-----------------------------------------------------------------------------
(* mod_chat_only.  Growing copies as many bytes as there were slots, so only    *)
(* the warnings in the first of them survive; num_users is read nowhere.        *)

chat_only_get_user_info(r, s) ==
  IF s < r.told_size THEN r
  ELSE [r EXCEPT !.told_size = s + 1, !.grown = TRUE,
                 !.told = [i \in RoomSids |->
                   IF ToldEntry * i + ToldEntry \div 2 < r.told_size THEN r.told[i] ELSE {}]]

Tell(r, s, flag) == [chat_only_get_user_info(r, s) EXCEPT !.told[s] = @ \cup {flag}, !.seen[s] = @ \cup {flag}]
chat_only_on_search_result(r) == Deny(r)
chat_only_on_search(r, s) == Deny(Tell(r, s, "search"))
chat_only_on_p2p_connect(r, s) == Deny(Tell(r, s, "connect"))
chat_only_on_user_login(r, s) == chat_only_get_user_info(r, s)
chat_only_on_user_logout(r, s) == [chat_only_get_user_info(r, s) EXCEPT !.told[s] = {}, !.seen[s] = {}]
-----------------------------------------------------------------------------
(* mod_chat_history                                                            *)

LastOf(q, n) == IF Len(q) <= n THEN q ELSE SubSeq(q, Len(q) - n + 1, Len(q))

\* Mutant: the list is cut before the message is added.
history_add_late(r, entry) ==
  [r EXCEPT !.hist = Append(LastOf(@, HistoryMax), entry), !.file = IF r.setup.file THEN @ \o entry ELSE @,
            !.heard = Append(@, entry)]

history_add(r, entry) ==
  [r EXCEPT !.hist = LastOf(Append(@, entry), HistoryMax), !.file = IF r.setup.file THEN @ \o entry ELSE @,
            !.heard = Append(@, entry)]

\* One step per message, with the lines still to skip.
get_messages(hist, num) ==
  LET total == Len(hist)
      wanted == IF num <= 0 \/ num > total THEN total ELSE num
      skip == IF wanted # total THEN total - wanted ELSE 0
  IN  SelectSeq([i \in 1..total |-> IF skip - i < 0 THEN hist[i] ELSE << >>], LAMBDA e : e # << >>)

\* mod_chat_history_sqlite: the row before the last HistoryMax goes, and with it every
\* row that is not younger, in seconds.
history_sqlite_add(r) ==
  LET Kept(rows) ==
        IF Len(rows) <= HistoryMax THEN rows
        ELSE SelectSeq(rows, LAMBDA at : at > rows[Len(rows) - HistoryMax])
  IN  [r EXCEPT !.rows = Kept(Append(@, r.now)), !.said = Append(@, r.now)]

\* Every line of the log is an entry of its own; trimmed after each read.
read_log_file(file) == LastOf([i \in DOMAIN file |-> <<file[i]>>], HistoryMax)
-----------------------------------------------------------------------------
(* The plugin host: PLUGIN_INVOKE_STATUS asks until one decides, PLUGIN_INVOKE   *)
(* tells all.                                                                   *)

Hook(p, kind, r, s, to) ==
  CASE p = "restrict" /\ kind \in restrict_hooks(r.setup) ->
         (CASE kind = "search" -> restrict_on_search(r, s)
            [] kind = "result" -> restrict_on_search_result(r, s, to)
            [] kind = "connect" -> restrict_on_p2p_connect(r, s, to)
            [] kind = "revconnect" -> restrict_on_p2p_revconnect(r, s)
            [] kind = "chat" -> restrict_on_chat_msg(r, s)
            [] kind = "private" -> restrict_on_private_msg(r, s, to)
            [] kind = "login" -> Default(restrict_on_user_login(r, s))
            [] kind = "logout" -> Default(restrict_on_user_logout(r, s)))
    [] p = "chat_only" ->
         (CASE kind = "search" -> chat_only_on_search(r, s)
            [] kind = "result" -> chat_only_on_search_result(r)
            [] kind \in {"connect", "revconnect"} -> chat_only_on_p2p_connect(r, s)
            [] kind = "login" -> Default(chat_only_on_user_login(r, s))
            [] kind = "logout" -> Default(chat_only_on_user_logout(r, s))
            [] OTHER -> Default(r))
    [] OTHER -> Default(r)

RECURSIVE InvokeFrom(_, _, _, _, _)
InvokeFrom(i, kind, r, s, to) ==
  LET Answer(a) == IF a.st # st_default \/ a.r.fault # "none" THEN a ELSE InvokeFrom(i + 1, kind, a.r, s, to)
  IN  IF i > Len(r.loaded) THEN Default(r) ELSE Answer(Hook(r.loaded[i], kind, r, s, to))
PLUGIN_INVOKE(kind, r, s, to) == InvokeFrom(1, kind, r, s, to)
-----------------------------------------------------------------------------
(* The hub                                                                     *)

NoFlags == [s \in RoomSids |-> {}]
NoPlugins(setup) ==
  [setup |-> setup, user |-> [s \in RoomSids |-> NoUser], now |-> 1, status |-> "running", fault |-> "none", failed |-> FALSE,
   loaded |-> << >>, commands |-> {}, stale |-> {}, size |-> RestrictStart, warn |-> NoFlags, earned |-> NoFlags,
   told_size |-> ToldStart, told |-> NoFlags, seen |-> NoFlags, grown |-> FALSE,
   hist |-> << >>, file |-> << >>, heard |-> << >>, rows |-> << >>, said |-> << >>]

\* What plugin_register of the plugin sets up; cbfunc_command_add for the last.
restrict_register(r) == [r EXCEPT !.size = RestrictStart, !.warn = NoFlags, !.earned = NoFlags]
co_initialize(r) == [r EXCEPT !.told_size = ToldStart, !.told = NoFlags, !.seen = NoFlags, !.grown = FALSE]
history_register(r) ==
  [r EXCEPT !.commands = @ \cup {"history"},
            !.hist = IF r.setup.file THEN read_log_file(r.file) ELSE << >>,
            !.heard = IF r.setup.file THEN [i \in DOMAIN r.file |-> <<r.file[i]>>] ELSE << >>]
history_sqlite_register(r) == [r EXCEPT !.commands = @ \cup {"history_sqlite"}]

plugin_load(r, p) ==
  LET Registered(r1) == [r1 EXCEPT !.loaded = Append(@, p)]
  IN  Registered(CASE p = "restrict" -> restrict_register(r)
                   [] p = "chat_only" -> co_initialize(r)
                   [] p = "history" -> history_register(r)
                   [] p = "history_sqlite" -> history_sqlite_register(r))

\* The first n lines of the plugin file are read; if the next is bad the handles are
\* freed without plugin_unload, so their commands stay in the hub's table.
plugin_initialize(r, n, ok) ==
  LET Read(r1) == IF ok THEN r1
                  ELSE [r1 EXCEPT !.loaded = << >>, !.commands = {}, !.stale = @ \cup r1.commands, !.failed = TRUE]
  IN  Read(FoldLeft(plugin_load, r, SubSeq(r.setup.plugins, 1, n)))

\* plugin_unload of every plugin: plugin_unregister takes its command back.
hub_plugins_unload(r) == [r EXCEPT !.loaded = << >>, !.commands = @ \ ToSet(r.loaded)]

\* hub_set_variables; a hub whose plugins cannot be loaded is to shut down.
hub_set_variables(r, n, ok) ==
  [plugin_initialize(r, n, ok) EXCEPT !.status = IF ok THEN "running" ELSE "shutdown"]

Fresh(setup) == hub_set_variables(NoPlugins(setup), Len(setup.plugins), TRUE)

RoomInit == \E setup \in Setups : room = Fresh(setup)

\* The event loop has another round after the status became shutdown.
Running == room.status \in {"running", "shutdown"} /\ room.fault = "none"
InRoom(r) == {s \in RoomSids : r.user[s].state # "free"}

Connect(s) ==
  /\ Running /\ s \in room.setup.sids
  /\ room.user[s].state = "free" /\ Cardinality(InRoom(room)) < MaxRoom
  /\ room' = [room EXCEPT !.user[s] = [NoUser EXCEPT !.state = "connecting"]]

\* INF was accepted: the user has credentials but is not logged in yet.
Identify(s, cred) ==
  /\ Running
  /\ room.user[s].state = "connecting" /\ CredOf(room, s) = auth_cred_none
  /\ room' = [room EXCEPT !.user[s].cred = cred]

\* on_login_success tells the plugins.
Login(s) ==
  /\ Running
  /\ room.user[s].state = "connecting" /\ CredOf(room, s) # auth_cred_none
  /\ LET Told(a) == room' = [a.r EXCEPT !.earned[s] = {}]
     IN  Told(PLUGIN_INVOKE("login", [room EXCEPT !.user[s].state = "normal"], s, NoTarget))

\* on_logout_user tells the plugins of those that were logged in.
Gone(r, s) ==
  LET Told(a) == IF a.r.fault # "none" THEN a.r ELSE [a.r EXCEPT !.user[s] = NoUser, !.earned[s] = {}]
  IN  IF r.user[s].state = "normal" THEN Told(PLUGIN_INVOKE("logout", r, s, NoTarget))
      ELSE [r EXCEPT !.user[s] = NoUser, !.earned[s] = {}]
LeaveRoom(s) ==
  /\ Running
  /\ room.user[s].state # "free"
  /\ room' = Gone(room, s)

\* ROUTE_MSG: a user who is not logged in is disconnected.
ROUTE_MSG(r, s) == IF r.user[s].state = "normal" THEN r ELSE Gone(r, s)

\* The permissions that follow from a message: to be connected to by those who may
\* not download, and to answer an operator.
Earned(r, s, kind, to) ==
  IF ~ Uses(r, "restrict") \/ kind \notin restrict_hooks(r.setup) THEN r.earned
  ELSE IF kind = "revconnect" /\ CredOf(r, s) >= r.setup.download
    THEN [r.earned EXCEPT ![s] = @ \cup {"allow_revconnect"}]
  ELSE IF /\ kind = "private" /\ to # NoTarget /\ r.user[s].state = "normal"
          /\ CredOf(r, s) >= auth_cred_operator /\ CredOf(r, s) >= r.setup.privmsg
          /\ CredOf(r, to) < auth_cred_operator /\ CredOf(r, to) < r.setup.opmsg
    THEN [r.earned EXCEPT ![to] = @ \cup {"allow_reply"}]
  ELSE r.earned

\* Searches, results and connection requests: plugins, flood control, routing.
HandlePeer(r, s, kind, to) ==
  LET Flooded(c) == IF c.pass THEN ROUTE_MSG(c.r, s) ELSE c.r
      Answer(a) ==
        CASE a.st = st_deny \/ a.r.fault # "none" -> a.r
          [] a.st # st_deny /\ a.r.fault = "none" /\ kind = "result" -> ROUTE_MSG(a.r, s)
          [] OTHER -> Flooded(CHECK_FLOOD(a.r, s, IF kind = "search" THEN "search" ELSE "connect"))
  IN  Answer(PLUGIN_INVOKE(kind, r, s, to))

\* The command is !history: the first of that name in the table runs, on the handle
\* of the plugin that added it.
plugin_command_dispatch(r) == IF r.stale # {} THEN [r EXCEPT !.fault = "command"] ELSE r

\* hub_handle_chat_message.  A doubled prefix is relayed without the first of the
\* two and logged with both; a command is not relayed.
hub_handle_chat_message(r, s, kind, to, text) ==
  LET LoggedRow(r1) == IF Uses(r1, "history_sqlite") THEN history_sqlite_add(r1) ELSE r1
      Logged(r1) == LoggedRow(IF Uses(r1, "history") THEN history_add(r1, text.lines) ELSE r1)
      Answer(a) == IF a.st = st_deny \/ a.r.fault # "none" \/ kind # "chat" THEN a.r ELSE Logged(a.r)
  IN CASE r.user[s].state # "normal" \/ (kind = "private" /\ to = NoTarget) -> r
       [] r.user[s].state = "normal" /\ kind = "chat" /\ text.command -> plugin_command_dispatch(r)
       [] r.user[s].state = "normal" /\ kind = "feature" -> r
       [] OTHER -> Answer(PLUGIN_INVOKE(kind, r, s, to))

HandleChat(r, s, kind, to, text) ==
  LET Flooded(c) == IF c.pass THEN hub_handle_chat_message(c.r, s, kind, to, text) ELSE c.r
  IN  Flooded(CHECK_FLOOD(r, s, "chat"))

\* uman_get_user_by_sid finds users who are still logging in, too.
Targets(kind) ==
  IF kind \in {"result", "connect", "revconnect", "private"}
  THEN {s \in room.setup.sids : room.user[s].state # "free"} \cup {NoTarget} ELSE {NoTarget}

hub_handle_message(s, kind, to, text) ==
  /\ Running /\ room.user[s].state # "free"
  /\ Len(room.heard) < MaxHeard /\ Len(room.said) <= MaxHeard
  /\ \A type \in FloodTypes : room.user[s].flood[type].count < MaxCount
  /\ LET r == [room EXCEPT !.earned = Earned(room, s, kind, to)]
     IN room' = IF kind \in {"chat", "private", "feature"} THEN HandleChat(r, s, kind, to, text)
                ELSE HandlePeer(r, s, kind, to)

Tick ==
  /\ Running /\ (room.setup.flood # 0 \/ Uses(room, "history_sqlite")) /\ room.now < MaxTime
  /\ room' = [room EXCEPT !.now = @ + 1]

\* hub_free_variables and hub_set_variables; the users stay.
Reload(n, ok) ==
  /\ Running
  /\ ok => n = Len(room.setup.plugins)
  /\ room' = hub_set_variables(hub_plugins_unload(room), n, ok)

\* hub_shutdown_service: command_shutdown drops every command.
Stop ==
  /\ room.status = "shutdown"
  /\ room' = [room EXCEPT !.status = "stopped", !.commands = {}, !.stale = {}]

RoomNext ==
  \/ \E s \in RoomSids : Connect(s) \/ Login(s) \/ LeaveRoom(s)
  \/ \E s \in RoomSids, cred \in room.setup.creds : Identify(s, cred)
  \/ \E s \in RoomSids, kind \in room.setup.kinds, text \in room.setup.texts :
       \E to \in Targets(kind) : to # s /\ hub_handle_message(s, kind, to, text)
  \/ \E n \in 0..Len(room.setup.plugins), ok \in BOOLEAN : Reload(n, ok)
  \/ Tick \/ Stop
-----------------------------------------------------------------------------
Permissions == {"allow_revconnect", "allow_reply"}

(***************************************************************************)
(* PluginsSound: what the plugins keep by SID belongs to the user who has the *)
(* SID now.  A logged-in user has exactly the permissions of mod_restrict     *)
(* earned since logging in, also when someone searched, asked for a           *)
(* connection or left under the same SID before; mod_chat_only remembers what *)
(* it told a user unless its table grew (mod_chat_only.c:70 copies too        *)
(* little).  The command of a plugin is in the hub's table exactly while the  *)
(* plugin is loaded, unless a line of the plugin file could not be read       *)
(* (pluginloader.c:243); then it may even run, on a freed handle.  The        *)
(* table of mod_restrict is left only for a SID whose bit of RestrictStep is  *)
(* clear (mod_restrict.c:173 clears that bit instead of rounding up), and a   *)
(* user that has gone is looked at only where downloads are restricted        *)
(* (mod_restrict.c:236 and 261, hub.c:113).                                   *)
(***************************************************************************)
PluginsSound ==
  /\ room.fault = "none" =>
       \A s \in RoomSids :
         /\ Uses(room, "restrict") /\ room.user[s].state = "normal"
              => room.warn[s] \cap Permissions = room.earned[s]
         /\ room.told[s] \subseteq room.seen[s] /\ (~ room.grown => room.told[s] = room.seen[s])
  /\ room.fault = "slot" => \E s \in InRoom(room) : s >= RestrictStart /\ (s \div RestrictStep) % 2 = 0
  /\ room.fault = "target" => Uses(room, "restrict") /\ room.setup.download > auth_cred_guest
  /\ room.status # "stopped" => room.commands = {p \in {"history", "history_sqlite"} : Uses(room, p)}
  /\ room.fault = "command" \/ room.stale # {} => room.failed

(***************************************************************************)
(* HistoryExact: the chat history is the last HistoryMax messages that were   *)
(* logged, and !history shows the last of them in order; after a reload it is *)
(* the last lines of the log, which has every message since it was created    *)
(* (mod_chat_history.c: history_add, get_messages, read_log_file).  The table  *)
(* of mod_chat_history_sqlite has the last of its messages, HistoryMax unless  *)
(* some of these were sent in the same second (mod_chat_history_sqlite.c:98). *)
(***************************************************************************)
HistoryExact ==
  /\ room.status = "running" => room.hist = LastOf(room.heard, HistoryMax)
  /\ room.setup.file => room.file = FlattenSeq(room.heard)
  /\ \A n \in 0..(HistoryMax + 1) :
       get_messages(room.hist, n) = IF n = 0 THEN room.hist ELSE LastOf(room.hist, n)
  /\ Len(room.rows) <= HistoryMax /\ room.rows = LastOf(room.said, Len(room.rows))
  /\ Len(room.rows) < HistoryMax /\ Len(room.rows) < Len(room.said) =>
       \E i \in 2..Len(room.said) : i >= Len(room.said) - HistoryMax + 1 /\ room.said[i - 1] = room.said[i]
=============================================================================
