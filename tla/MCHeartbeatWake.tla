---------------------------- MODULE MCHeartbeatWake ----------------------------
(* TLC instances of HeartbeatWake. *)
EXTENDS HeartbeatWake
=============================================================================
