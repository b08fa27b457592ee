----------------------------- MODULE InfChecks -----------------------------
(***************************************************************************)
(* What the hub checks of an INF message and what it makes of it             *)
(* (src/core/inf.c, the lists of src/core/auth.c).  A message is a function   *)
(* from the fields the checks tell apart to the values given, in order.       *)
(***************************************************************************)
EXTENDS Commands

Counts == {"SS", "SF", "HN", "HR", "HO", "SL"}
Restricted == {"CT", "OP", "RF"}        \* OP stands for the obsolete flags
Bulky == {"AP", "VE", "SF", "HN", "HR", "HO", "DE"}
Fields == {"ID", "PD", "NI", "I4", "U4", "I6", "U6", "SU"} \cup Counts \cup Restricted \cup Bulky

Strip(inf, fields) == [f \in Fields |-> IF f \in fields THEN << >> ELSE inf[f]]
Adding(inf, f, v) == [inf EXCEPT ![f] = Append(@, v)]
Given(inf, f) == inf[f] # << >>
First(inf, f) == inf[f][1]
Refused(status) == [status |-> status]
Ok == Refused("ok")

\* The first check of the sequence that refuses.
INF_CHECK(checks) ==
  LET bad == {i \in DOMAIN checks : checks[i] # Ok}
  IN  IF bad = {} THEN Ok ELSE checks[CHOOSE i \in bad : \A j \in bad : i <= j]
-----------------------------------------------------------------------------
remove_server_restricted_flags(inf) == Strip(inf, Restricted)

\* The feature casts of the user: replaced when SU is given.
set_feature_cast_supports(old, inf) == IF Given(inf, "SU") THEN First(inf, "SU") ELSE old

Once(inf, f, missing, multiple) ==
  CASE Len(inf[f]) = 0 -> Refused(missing) [] Len(inf[f]) = 1 -> Ok [] OTHER -> Refused(multiple)
check_required_login_flags(inf) ==
  INF_CHECK(<<Once(inf, "ID", "cid_missing", "cid_invalid"),
              Once(inf, "PD", "pid_missing", "pid_invalid"),
              Once(inf, "NI", "nick_missing", "nick_multiple")>>)

\* An ID is [full, bad, of]: whether it has MAX_CID_LEN characters, where the
\* first one outside base32 is (0: nowhere) and the PID it is the hash of; a PD is
\* [full, bad, name].
check_cid(inf) ==
  LET cid == First(inf, "ID")
      pid == First(inf, "PD")
  IN CASE ~ cid.full -> Refused("cid_invalid")
       [] cid.full /\ ~ pid.full -> Refused("pid_invalid")
       [] cid.full /\ pid.full /\ cid.bad # 0 /\ (pid.bad = 0 \/ cid.bad <= pid.bad) -> Refused("cid_invalid")
       [] cid.full /\ pid.full /\ pid.bad # 0 /\ (cid.bad = 0 \/ pid.bad < cid.bad) -> Refused("pid_invalid")
       [] cid.full /\ pid.full /\ cid.bad = 0 /\ pid.bad = 0 /\ cid.of # pid.name -> Refused("cid_invalid")
       [] OTHER -> Ok

\* A nick is [name, len, space, control, utf8]; len is "short", "ok" or "long".
check_nick(inf) ==
  LET nick == First(inf, "NI")
  IN INF_CHECK(<<IF nick.len = "ok" THEN Ok ELSE Refused(IF nick.len = "short" THEN "nick_short" ELSE "nick_long"),
                 IF nick.space THEN Refused("nick_spaces") ELSE IF nick.control THEN Refused("nick_bad_chars") ELSE Ok,
                 IF nick.utf8 THEN Ok ELSE Refused("nick_not_utf8")>>)

\* The message with the address the hub sees; an address is [af, ip, nat].
check_network(inf, addr) ==
  CASE addr.nat /\ Given(inf, "I4") /\ First(inf, "I4") # "0.0.0.0" -> Strip(inf, {"I6", "U6"})
    [] addr.af = "inet" /\ ~ (addr.nat /\ Given(inf, "I4") /\ First(inf, "I4") # "0.0.0.0") ->
         Adding(Strip(inf, {"I6", "U6", "I4"}), "I4", addr.ip)
    [] OTHER -> Adding(Strip(inf, {"I4", "U4", "I6"}), "I6", addr.ip)

strip_network(inf) == Strip(inf, {"I6", "I4"})

check_acl(inf, acl) ==
  LET nick == First(inf, "NI").name
  IN CASE First(inf, "ID") \in acl.cids \/ nick \in acl.users_banned -> Refused("ban_permanently")
       [] nick \in acl.users_denied -> Refused("nick_restricted")
       [] OTHER -> Ok

\* by_nick and by_cid are the logged-in users the two indexes find, "none" if
\* there is none; choked are those that do not take their data.
check_logged_in(inf, hub) ==
  LET by_nick == hub.by_nick[First(inf, "NI").name]
      by_cid == hub.by_cid
  IN CASE by_nick = "none" /\ by_cid = "none" -> Ok
       [] by_nick # "none" /\ by_nick = by_cid -> IF by_nick \in hub.choked THEN Ok ELSE Refused("cid_taken")
       [] by_nick # by_cid /\ by_nick # "none" -> Refused("nick_taken")
       [] OTHER -> Refused("cid_taken")

\* The user an accepted INF displaces: disconnected as a ghost.
Ghost(inf, hub) == hub.by_nick[First(inf, "NI").name]

\* The length of the user agent that is kept, of what fits MAX_UA_LEN; AP and VE
\* are the lengths of the product and the version.
check_user_agent(inf, max_ua) ==
  LET product == IF Given(inf, "AP") THEN First(inf, "AP") ELSE 0
      version == IF ~ Given(inf, "VE") THEN 0 ELSE First(inf, "VE") + (IF product > 0 THEN 1 ELSE 0)
      offset  == IF product > max_ua + 1 THEN max_ua + 1 ELSE product
      Capped(n, room) == IF room = 0 THEN 0 ELSE IF n < room THEN n ELSE room - 1
  IN  (IF product > max_ua THEN max_ua ELSE product) + Capped(version, max_ua + 1 - offset)

hub_perform_login_checks(inf, hub) ==
  LET flags == check_required_login_flags(inf)
  IN  IF flags # Ok THEN flags
      ELSE INF_CHECK(<<check_cid(inf), check_nick(inf), check_acl(inf, hub.acl), check_logged_in(inf, hub)>>)
-----------------------------------------------------------------------------
(* Credentials and limits                                                      *)

\* The CT value that goes with the credentials, 0 for none.
ClientType(cred) ==
  CASE cred \in {auth_cred_bot, auth_cred_ubot} -> "bot"
    [] cred = auth_cred_user -> "registered"
    [] cred = auth_cred_operator -> "operator"
    [] cred \in {auth_cred_opbot, auth_cred_opubot} -> "hubbot"
    [] cred = auth_cred_super -> "super"
    [] cred = auth_cred_admin -> "admin"
    [] OTHER -> "none"
set_credentials(inf, cred) ==
  IF ClientType(cred) = "none" THEN inf ELSE Adding(inf, "CT", ClientType(cred))

check_is_hub_full(hub, cred) ==
  hub.max_users # 0 /\ hub.count >= hub.max_users /\ ~ auth_cred_is_protected(cred)
check_registered_users_only(hub, cred) == hub.registered_only /\ ~ auth_cred_is_registered(cred)

NonNegative(n) == IF n < 0 THEN 0 ELSE n

\* The limits of the user: a count that is not given keeps its value.
CountsOf(limits, inf) ==
  LET n == [f \in Counts |-> IF Given(inf, f) THEN NonNegative(First(inf, f)) ELSE limits[f]]
  IN  [f \in Counts \cup {"total"} |-> IF f = "total" THEN n["HN"] + n["HR"] + n["HO"] ELSE n[f]]

Below(n, min) == min # 0 /\ n < min

\* Mutant: a maximum of zero is taken for a limit.
Above_zero(n, max) == n > max

Above(n, max) == max # 0 /\ n > max

Hubs == {"HN", "HR", "HO", "total"}
Limit(ok, status) == IF ok THEN Ok ELSE Refused(status)
check_limits(limits, hub, cred) ==
  IF auth_cred_is_protected(cred) THEN Ok
  ELSE INF_CHECK(<<Limit(~ Below(limits["SS"], hub.min["SS"]), "share_low"),
                   Limit(~ Above(limits["SS"], hub.max["SS"]), "share_high"),
                   Limit(\A h \in Hubs : ~ Above(limits[h], hub.max[h]), "hubs_high"),
                   Limit(\A h \in Hubs : ~ Below(limits[h], hub.min[h]), "hubs_low"),
                   Limit(~ Below(limits["SL"], hub.min["SL"]), "slots_low"),
                   Limit(~ Above(limits["SL"], hub.max["SL"]), "slots_high")>>)

hub_handle_info_low_bandwidth(inf, hub) == IF hub.low_bandwidth THEN Strip(inf, Bulky) ELSE inf
-----------------------------------------------------------------------------
NoCounts == [f \in Counts \cup {"total"} |-> 0]

\* hub_handle_info of a connecting user, with hub_handle_info_login: the status,
\* the INF that is kept of the user and its limits.  x.access is what the
\* authentication plugins answer (none: no account); check_network comes before
\* the ACL and changes no field it looks at.
InfoLogin(x) ==
  LET inf == remove_server_restricted_flags(x.inf)
      cred == IF x.access = auth_cred_none THEN auth_cred_guest ELSE x.access
      limits == CountsOf(NoCounts, inf)
      kept == hub_handle_info_low_bandwidth(
                set_credentials(Strip(check_network(inf, x.addr), {"PD"}), cred), x.hub)
      Checked(status) ==
        CASE status # Ok -> status
          [] status = Ok /\ check_is_hub_full(x.hub, cred) -> Refused("hub_full")
          [] status = Ok /\ ~ check_is_hub_full(x.hub, cred) /\ check_registered_users_only(x.hub, cred) ->
               Refused("registered_only")
          [] OTHER -> check_limits(limits, x.hub, cred)
      Accepted(status) ==
        IF status # Ok THEN status
        ELSE [status |-> "ok", info |-> kept, limits |-> limits, ghost |-> Ghost(inf, x.hub),
              agent |-> check_user_agent(inf, x.hub.max_ua), casts |-> set_feature_cast_supports({}, inf),
              verify |-> x.access # auth_cred_none]
  IN  Accepted(Checked(hub_perform_login_checks(inf, x.hub)))

\* user_update_info: every field that is given replaces the old one.
user_update_info(old, inf) == [f \in Fields |-> IF Given(inf, f) THEN <<Last(inf[f])>> ELSE old[f]]

\* hub_handle_info of a logged-in user, whose INF is x.old.
InfoUpdate(x) ==
  LET inf == Strip(remove_server_restricted_flags(x.inf), {"PD", "ID", "NI"})
      limits == CountsOf(x.limits, inf)
      relayed == hub_handle_info_low_bandwidth(strip_network(inf), x.hub)
      Limits(status) ==
        IF status # Ok THEN status
        ELSE [status |-> "ok", info |-> user_update_info(x.old, relayed), relayed |-> relayed,
              limits |-> limits, casts |-> set_feature_cast_supports(x.casts, inf)]
  IN  Limits(check_limits(limits, x.hub, x.cred))
=============================================================================
