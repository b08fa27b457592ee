----------------------------- MODULE MCSidPool -----------------------------
(* Pools of one to seven SIDs, four users.                                  *)
EXTENDS SidPool, TLC

CONSTANTS u1, u2, u3, u4
MCUser == {u1, u2, u3, u4}
Symmetry == Permutations(MCUser)
=============================================================================
