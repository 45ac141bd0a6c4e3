---------------------------- MODULE MCGatewayLoop ----------------------------
(* TLC instances of GatewayLoop: two inbound runs of one session and, where the cfg has it, one
   of another; they share the main lane. *)
EXTENDS GatewayLoop

MCSessionOf == [r \in Runs |-> IF r = "bob1" THEN "bob" ELSE "alice"]
MCLaneOf    == [r \in Runs |-> "main"]
MCLanes     == GlobalLanes \cup Sessions
=============================================================================
