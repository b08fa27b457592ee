--------------------------- MODULE MCTimeoutQueue ---------------------------
(* Three timers, a wheel of three slots and a clock that passes a full lap. *)
EXTENDS TimeoutQueue, TLC

CONSTANTS t1, t2, t3
MCTimer == {t1, t2, t3}

Symmetry == Permutations(Timer)
=============================================================================
