------------------------------- MODULE MCHub -------------------------------
EXTENDS HubProps, TLC

CONSTANTS u1, u2, u3, guest, op, c1, c2, s1, s2

TwoUsers == {u1, u2}
ThreeUsers == {u1, u2, u3}
OneNick == {guest}
TwoNicks == {guest, op}
OneAccount == {op}
NoAccount == {}
OneCid == {c1}
TwoCids == {c1, c2}
OneSid == {s1}
TwoSids == {s1, s2}
Shares == {0, 3}
OneShare == {2}
AnyRequest == {"restart", "shutdown"}
NoRequest == {}
OnlyShutdown == {"shutdown"}
AnyStatus == {"running", "disabled", "shutdown"}
Running == {"running"}
AnyChoke == BOOLEAN
NoChoke == {FALSE}

Symmetry == Permutations(User) \cup Permutations(Sid)
=============================================================================
