---------------------------- MODULE MCKillSwitch ----------------------------
(* KillSwitch for TLC: the daily job and the operator's command, two causes. *)
EXTENDS KillSwitch

CONSTANTS p, q, c1, c2
=============================================================================
