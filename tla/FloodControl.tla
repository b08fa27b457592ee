---------------------------- MODULE FloodControl ----------------------------
(***************************************************************************)
(* struct flood_control of src/util/floodctl.c: when the window began, or the  *)
(* last message in it was refused, and how many messages it has seen.  The     *)
(* limits are those of the configuration: [max, delay], 0 to disable it.       *)
(***************************************************************************)
EXTENDS Integers

flood_control_reset == [time |-> 0, count |-> 0]

\* Mutant: the window starts anew with every message.
flood_control_check_sliding(ctl, max, delay, now) ==
  IF delay = 0 \/ max = 0 THEN [ctl |-> ctl, hit |-> FALSE]
  ELSE IF ctl.time = 0 \/ now - ctl.time >= delay THEN [ctl |-> [time |-> now, count |-> 1], hit |-> FALSE]
  ELSE [ctl |-> [time |-> now, count |-> ctl.count + 1], hit |-> ctl.count + 1 > max]

flood_control_check(ctl, max, delay, now) ==
  IF delay = 0 \/ max = 0 THEN [ctl |-> ctl, hit |-> FALSE]
  ELSE IF ctl.time = 0 \/ now - ctl.time > delay THEN [ctl |-> [time |-> now, count |-> 1], hit |-> FALSE]
  ELSE IF ctl.count + 1 < max THEN [ctl |-> [ctl EXCEPT !.count = @ + 1], hit |-> FALSE]
  ELSE [ctl |-> [time |-> now, count |-> ctl.count + 1], hit |-> TRUE]

\* CHECK_FLOOD: a message that hits the limit is dropped unless the user is exempt.
Passes(c, unrestricted) == ~ c.hit \/ unrestricted
=============================================================================
