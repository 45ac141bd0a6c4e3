----------------------------- MODULE MCAgentRuns -----------------------------
(* TLC instance of AgentRuns: an inbound run and manual cron runs, all of one session. *)
EXTENDS AgentRuns

MCOneSession == [r \in Runs |-> "alice"]
MCLaneOf     == [r \in Runs |-> IF r = "chat1" THEN "main" ELSE "cron"]
MCLanes      == GlobalLanes \cup Sessions
=============================================================================
