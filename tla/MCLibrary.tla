----------------------------- MODULE MCLibrary -----------------------------
EXTENDS Library, Accounts, Room, FloodUser

B == <<"A", "A", "A", "B">>

MCBadLines == {<<"b">>}

Seqs(S, lo, hi) == UNION {[1..n -> S] : n \in lo..hi}

\* Bytes at the edges of every range is_valid_utf8_str tells apart.
Edge == {65, 128, 143, 144, 159, 160, 191, 192, 193, 194, 224, 237, 239, 240, 244, 245, 248}
Utf8Inputs ==
  Seqs(Edge, 1, 2) \cup {<<a, b, c>> : a, b \in Edge, c \in {65, 128, 194}}
    \cup {<<a, b, c, d>> : a, b \in Edge, c, d \in {65, 191}}

Lines ==
  {<<t>> \o <<"I", "N", "F">> \o s1 \o s2 \o f \o tail :
     t \in {"B", "I", "D", "F", "U"},
     s1 \in {<< >>, <<" ">> \o B, <<"x">> \o B, <<" ", "A", "1">>},
     s2 \in {<< >>, <<" ">> \o B, <<" ", "B", "B", "a", "B">>},
     f \in {<< >>, <<" ", "+", "T", "C", "P", "4">>, <<" ", "+", "T", "C", "P", "4", "-", "N", "A", "T", "0">>,
            <<" ", "+", "T">>},
     tail \in {<< >>, <<"\n">>, <<" ", "x", "\n">>, <<"x">>, <<" ", "\\", "s">>, <<" ", "\\", "\\", "\\", "\n">>}}

Ranges ==
  LET V4 == {a \in Addr : a.af = "inet"}
      V6 == {a \in Addr : a.af = "inet6"}
      T(a, sep, m, b) == [addr |-> a, sep |-> sep, mask |-> m, addr2 |-> b]
      Masks == {<< >>, <<"0">>, <<"1">>, <<"2">>, <<"3">>, <<"5">>}
      Texts(V) == {T(a, "/", m, a) : a \in V, m \in Masks} \cup {T(a, "-", << >>, b) : a, b \in V}
                    \cup {T(a, "", << >>, a) : a \in V}
      Mixed == {T(a, "-", << >>, b) : a \in V4, b \in V6}
  IN {[text |-> t, probe |-> p] : t \in Texts(V4), p \in V4}
       \cup {[text |-> t, probe |-> p] : t \in Texts(V6), p \in V6}
       \cup {[text |-> t, probe |-> p] : t \in Mixed, p \in {CHOOSE a \in V4 : TRUE}}
       \cup {[text |-> t, probe |-> p] : t \in Texts(V4), p \in {CHOOSE a \in V6 : TRUE}}

Words == Seqs({"k", " ", "#", "\\", "\""}, 1, 2)
Plain == {<<"k">>, <<"k", "1">>, <<"v", "=", "w">>}

-----------------------------------------------------------------------------
\* Every command with up to three words, by four kinds of user.
MCReads == [u |-> {<<"ann">>}, i |-> {}, a |-> {}, r |-> {<<"7">>}, c |-> {<<"op">>}, C |-> {<<"op">>}, N |-> {<<"7">>}]
CommandInputs ==
  [cred : {auth_cred_guest, auth_cred_user, auth_cred_operator, auth_cred_admin},
   line : {[named |-> TRUE, name |-> h.prefix, words |-> w] : h \in AllCommands, w \in Seqs({"ann", "op", "7"}, 0, 3)}
            \cup {[named |-> TRUE, name |-> "nosuch", words |-> << >>], [named |-> FALSE, name |-> "", words |-> << >>]}]

\* A login in order, and what may be different about one or two of its fields.
Pid(name, full, bad) == [name |-> name, full |-> full, bad |-> bad]
Cid(of, full, bad) == [of |-> of, full |-> full, bad |-> bad]
Nick(name, len, space, control, utf8) ==
  [name |-> name, len |-> len, space |-> space, control |-> control, utf8 |-> utf8]
GoodCid == Cid("p", TRUE, 0)
GoodPid == Pid("p", TRUE, 0)
GoodNick == Nick("ann", "ok", FALSE, FALSE, TRUE)
NoInf == [f \in Fields |-> << >>]
GoodInf == [NoInf EXCEPT !["ID"] = <<GoodCid>>, !["PD"] = <<GoodPid>>, !["NI"] = <<GoodNick>>, !["SS"] = <<5>>,
                         !["SL"] = <<2>>, !["HN"] = <<1>>]
Alternatives == [
  ID |-> {<< >>, <<GoodCid, GoodCid>>, <<Cid("p", FALSE, 0)>>, <<Cid("p", TRUE, 1)>>, <<Cid("p", TRUE, 2)>>, <<Cid("q", TRUE, 0)>>},
  PD |-> {<< >>, <<GoodPid, GoodPid>>, <<Pid("p", FALSE, 0)>>, <<Pid("p", TRUE, 1)>>, <<Pid("p", TRUE, 2)>>},
  NI |-> {<< >>, <<GoodNick, GoodNick>>, <<Nick("ann", "short", FALSE, FALSE, TRUE)>>, <<Nick("ann", "long", FALSE, FALSE, TRUE)>>,
          <<Nick("ann", "ok", TRUE, TRUE, TRUE)>>, <<Nick("ann", "ok", FALSE, TRUE, TRUE)>>,
          <<Nick("ann", "ok", FALSE, FALSE, FALSE)>>, <<Nick("bob", "ok", FALSE, FALSE, TRUE)>>},
  I4 |-> {<<"0.0.0.0">>, <<"9.9.9.9">>, <<"9.9.9.9", "8.8.8.8">>},
  I6 |-> {<<"9::9">>}, U6 |-> {<<"1">>},
  SS |-> {<< >>, <<-1>>, <<50>>, <<4, 50>>}, SL |-> {<< >>, <<9>>}, HN |-> {<< >>, <<9>>}, HR |-> {<<1>>, <<9>>}, HO |-> {<<-1>>},
  CT |-> {<<"admin">>}, OP |-> {<<"1">>}, RF |-> {<<"x">>}, SU |-> {<<{"TCP4"}>>}, AP |-> {<<3>>, <<4>>, <<5>>, <<9>>}, VE |-> {<<1>>, <<9>>}]
Changes == UNION {{<<f, v>> : v \in Alternatives[f]} : f \in DOMAIN Alternatives}
Changed1(inf, c) == [inf EXCEPT ![c[1]] = c[2]]
OneChange(inf) == {inf} \cup {Changed1(inf, c) : c \in Changes}
TwoChanges(inf) == UNION {{Changed1(i, c) : c \in Changes} : i \in OneChange(inf)}

NoLimits == [f \in {"SS", "SL"} \cup Hubs |-> 0]
OpenHub == [acl |-> [cids |-> {}, users_banned |-> {}, users_denied |-> {}],
            by_nick |-> [n \in {"ann", "bob"} |-> "none"], by_cid |-> "none", choked |-> {},
            max_users |-> 0, count |-> 0, registered_only |-> FALSE, min |-> NoLimits, max |-> NoLimits,
            low_bandwidth |-> FALSE, max_ua |-> 4]
Limited == [OpenHub EXCEPT !.min = [NoLimits EXCEPT !["SS"] = 3, !["SL"] = 1, !["HN"] = 1],
                           !.max = [NoLimits EXCEPT !["SS"] = 20, !["SL"] = 5, !["HR"] = 3, !["total"] = 4]]
MCHubs ==
  {OpenHub, Limited, [OpenHub EXCEPT !.max_users = 2, !.count = 2], [OpenHub EXCEPT !.max_users = 2, !.count = 1],
   [OpenHub EXCEPT !.registered_only = TRUE], [OpenHub EXCEPT !.acl.cids = {GoodCid}],
   [OpenHub EXCEPT !.acl.users_banned = {"ann"}, !.acl.users_denied = {"bob"}],
   [OpenHub EXCEPT !.by_nick["ann"] = "u1"], [OpenHub EXCEPT !.by_cid = "u1"],
   [OpenHub EXCEPT !.by_nick["ann"] = "u1", !.by_cid = "u1"], [OpenHub EXCEPT !.by_nick["ann"] = "u1", !.by_cid = "u2"],
   [OpenHub EXCEPT !.by_nick["ann"] = "u1", !.by_cid = "u1", !.choked = {"u1"}],
   [OpenHub EXCEPT !.low_bandwidth = TRUE]}
Addresses == {[af |-> "inet", ip |-> "1.2.3.4", nat |-> FALSE], [af |-> "inet", ip |-> "1.2.3.4", nat |-> TRUE],
              [af |-> "inet6", ip |-> "1::2", nat |-> FALSE]}
LoginInputs ==
  [inf : OneChange(GoodInf), hub : MCHubs, addr : Addresses, access : {auth_cred_none, auth_cred_user, auth_cred_operator}]
    \cup [inf : TwoChanges(GoodInf), hub : {Limited}, addr : {CHOOSE a \in Addresses : a.nat}, access : {auth_cred_none}]
Known == [NoInf EXCEPT !["ID"] = <<GoodCid>>, !["NI"] = <<GoodNick>>, !["I4"] = <<"1.2.3.4">>, !["CT"] = <<"registered">>]
UpdateInputs ==
  [inf : TwoChanges(NoInf), old : {Known}, hub : {Limited}, cred : {auth_cred_user, auth_cred_operator}, casts : {{}},
   limits : {[f \in Counts \cup {"total"} |-> IF f \in {"HN", "HR", "total"} THEN 2 ELSE 3]}]
-----------------------------------------------------------------------------
\* Up to two settings of each plugin.
Val(text, bool, num, cred, len, opens) == [text |-> text, bool |-> bool, num |-> num, cred |-> cred, len |-> len, opens |-> opens]
MCValues ==
  {Val("1", 1, 1, -1, 1, TRUE), Val("0", 0, 0, -1, 1, FALSE), Val("op", -1, 0, auth_cred_operator, 2, TRUE),
   Val("-1", -1, -1, -1, 2, FALSE), Val("", -1, 0, -1, 0, TRUE), Val("long", -1, 0, -1, 20, FALSE)}
SettingsOf(plugin) ==
  [key : DOMAIN Options[plugin] \cup {"nosuch"}, value : MCValues] \cup {[key |-> "", value |-> CHOOSE v \in MCValues : TRUE]}
ConfigInputs == UNION {[plugin : {p}, settings : Seqs(SettingsOf(p), 0, 2)] : p \in DOMAIN Options}
AclLines == {[cmd |-> c, arg |-> a] : c \in {"user_op", "deny_nick", "deny_ip", "other"}, a \in {"", "x"}} \cup {[cmd |-> "#", arg |-> ""]}
-----------------------------------------------------------------------------
MCInputs == [
  config |-> ConfigInputs,
  acl |-> Seqs(AclLines, 0, 3),
  welcome |-> Seqs({"%", "n", "r", " "}, 0, 5),
  joins |-> Seqs({"%", "n", "r", " "}, 0, 5),
  command |-> CommandInputs,
  cred |-> auth_credentials,
  login |-> LoginInputs,
  update |-> UpdateInputs,
  utf8 |-> Utf8Inputs,
  base32 |-> Seqs({0, 1, 31, 128, 255}, 0, 3),
  tokens |-> Seqs(Words, 0, 2),
  setting |-> [key : {<<"k">>, <<"k", "1">>}, before : {<< >>, <<" ">>}, after : {<< >>, <<" ">>}, value : Plain],
  line |-> [key : {<<"k">>, <<"k", "1">>}, value : Seqs({"v", " ", "#", "\\", "\"", "="}, 0, 3)],
  ipv4 |-> Seqs({<< >>, <<"9">>, <<"2", "5", "5">>, <<"2", "5", "6">>, <<"0", "0", "0", "1">>}, 3, 5),
  range |-> Ranges,
  parse |-> Lines,
  escape |-> Seqs({"a", "s", " ", "\n", "\\"}, 0, 4),
  number |-> Seqs({"-", "0", "7", "a"}, 0, 3),
  size |-> UNION {{1024^f * k + d : k \in {1, 9, 10, 100, 1000}, d \in {0, 1}} : f \in 0..1}
             \cup {0, 1023, 1075, 1076, 1126, 1127, 10239, 1048575, 1048576, 10485759}]

MCArgNames == {<<"N", "I">>, <<"S", "S">>}
MCArgValues == {<< >>, <<"x">>, <<"N", "I">>}
MCFourcc == {<<"I", "I", "N", "F">>}
-----------------------------------------------------------------------------
\* The authentication plugins, in several orders.
P(type, exclusive, readonly) == [type |-> type, exclusive |-> exclusive, readonly |-> readonly]
NoFile == [n \in Nicks |-> auth_cred_none]
AnnInFile == [n \in Nicks |-> IF n = "ann" THEN auth_cred_operator ELSE auth_cred_none]
Backends(plugins, file, self) == [chain |-> plugins, file |-> file, self |-> self]
MCChains ==
  {Backends(<<P("sqlite", FALSE, FALSE)>>, NoFile, TRUE),
   Backends(<<P("sqlite", FALSE, FALSE), P("guest", FALSE, FALSE)>>, NoFile, TRUE),
   Backends(<<P("sqlite", TRUE, FALSE), P("guest", FALSE, FALSE)>>, NoFile, FALSE),
   Backends(<<P("sqlite", FALSE, TRUE)>>, NoFile, TRUE),
   Backends(<<P("simple", FALSE, FALSE), P("sqlite", FALSE, FALSE)>>, AnnInFile, TRUE),
   Backends(<<P("simple", TRUE, FALSE), P("sqlite", FALSE, FALSE)>>, AnnInFile, TRUE)}

Text_(lines, command) == [lines |-> lines, command |-> command]
Texts == {Text_(<<"a">>, FALSE), Text_(<<"b", "c">>, FALSE), Text_(<<"++x">>, FALSE), Text_(<<"!history">>, TRUE)}
OpenRoom ==
  [plugins |-> << >>, download |-> 1, chat |-> 1, opmsg |-> 1, privmsg |-> 1, flood |-> 0, delay |-> 0, file |-> FALSE,
   sids |-> {1}, kinds |-> {"chat"}, texts |-> {Text_(<<"a">>, FALSE)}, creds |-> {auth_cred_guest}]
NoDownload == [OpenRoom EXCEPT !.plugins = <<"restrict">>, !.download = auth_cred_user, !.creds = {auth_cred_guest, auth_cred_user}]
MCSetups ==
  {[NoDownload EXCEPT !.sids = {1, 8, 10}, !.kinds = {"result"}],
   [NoDownload EXCEPT !.sids = {1, 10}, !.kinds = {"search", "result", "connect", "revconnect"}],
   [OpenRoom EXCEPT !.plugins = <<"restrict">>, !.chat = auth_cred_user, !.opmsg = auth_cred_user, !.privmsg = auth_cred_user,
                    !.sids = {1, 3}, !.kinds = {"chat", "private", "feature"}, !.creds = {auth_cred_guest, auth_cred_operator}],
   [OpenRoom EXCEPT !.plugins = <<"chat_only">>, !.sids = {3, 5}, !.kinds = {"search", "connect", "result"}],
   [NoDownload EXCEPT !.plugins = <<"restrict", "chat_only">>, !.sids = {1, 3}, !.kinds = {"revconnect"}],
   [OpenRoom EXCEPT !.plugins = <<"restrict", "history">>, !.file = TRUE, !.texts = Texts],
   [OpenRoom EXCEPT !.plugins = <<"history">>, !.texts = Texts],
   [OpenRoom EXCEPT !.plugins = <<"history_sqlite">>],
   [OpenRoom EXCEPT !.flood = 3, !.delay = 2, !.creds = {auth_cred_guest, auth_cred_ubot}],
   [OpenRoom EXCEPT !.flood = 2, !.delay = 1, !.kinds = {"search"}]}
MCFloodLimits == [max : 0..3, delay : 0..2]
-----------------------------------------------------------------------------
\* A behaviour is about one part; the state of the others stays as it is here.
IdleAccounts ==
  acc = [chain |-> <<P("guest", FALSE, FALSE)>>, file |-> NoFile, self |-> FALSE, changed |-> {}, db |-> NoFile,
         session |-> [n \in Nicks |-> NoSession]]
IdleRoom == room = Fresh(OpenRoom)
IdleLibrary == st = NoResult /\ ref = << >>
IdleFlood == flood = [max |-> 0, delay |-> 0, now |-> 1, ctl |-> flood_control_reset, warned |-> FALSE, log |-> << >>]

Init ==
  \/ LibInit /\ IdleAccounts /\ IdleRoom /\ IdleFlood
  \/ part = "accounts" /\ IdleLibrary /\ AccInit /\ IdleRoom /\ IdleFlood
  \/ part = "room" /\ IdleLibrary /\ IdleAccounts /\ RoomInit /\ IdleFlood
  \/ part = "flood" /\ IdleLibrary /\ IdleAccounts /\ IdleRoom /\ FloodInit

Next ==
  \/ LibNext /\ UNCHANGED <<acc, room, flood>>
  \/ part = "accounts" /\ AccNext /\ UNCHANGED <<part, st, ref, room, flood>>
  \/ part = "room" /\ RoomNext /\ UNCHANGED <<part, st, ref, acc, flood>>
  \/ part = "flood" /\ FloodNext /\ UNCHANGED <<part, st, ref, acc, room>>

Spec == Init /\ [][Next]_<<part, st, ref, acc, room, flood>>
=============================================================================
