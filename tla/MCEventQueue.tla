---------------------------- MODULE MCEventQueue ----------------------------
(* The event queue with four event objects, at most four of them pending.   *)
EXTENDS EventQueue

CONSTANTS e1, e2, e3, e4
MCEvent == {e1, e2, e3, e4}
=============================================================================
