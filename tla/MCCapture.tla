----------------------------- MODULE MCCapture -----------------------------
(* Capture for TLC: the processes that run its two drivers. *)
EXTENDS Capture

CONSTANTS scheduler, cli, campaign, good, bad
=============================================================================
