---------------------------- MODULE MCAdcClient ----------------------------
(***************************************************************************)
(* Two bots over plain TCP with IPv6, over TLS without, and with an address  *)
(* that cannot be read.                                                      *)
(***************************************************************************)
EXTENDS AdcClient
MCAnswers == {[v6 |-> 1, v4 |-> 1], [v6 |-> 0, v4 |-> 2], [v6 |-> 1, v4 |-> 0]}
MCSetups == {[uri |-> "adc", ipv6 |-> TRUE], [uri |-> "adcs", ipv6 |-> FALSE], [uri |-> "bad", ipv6 |-> TRUE]}
=============================================================================
