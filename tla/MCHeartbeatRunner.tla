---------------------------- MODULE MCHeartbeatRunner ----------------------------
(* TLC instances of HeartbeatRunner. *)
EXTENDS HeartbeatRunner

\* Every configuration, and every wake of other events.
AnyConfig == SUBSET Agents
AnyWake   == Targets \X (Priorities \ {Interval})

\* A configuration names all agents or none; other events wake all of them.
AllOrNone == {{}, Agents}
WakeAll   == {<<Everyone, 2>>}
NoWakes   == {}
=============================================================================
