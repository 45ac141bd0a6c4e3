------------------------- MODULE MCSubagentRegistry -------------------------
(* TLC instance of SubagentRegistry: an orchestrator and the leaf it spawns; further run
   ids of a session are for the runs that replace the first. *)
EXTENDS SubagentRegistry

MCHome      == [i \in Runs |-> IF i \in {"leaf1", "leaf2"} THEN "leaf" ELSE "orch"]
MCRequester == [s \in Sessions |-> IF s = "leaf" THEN "orch" ELSE Root]
=============================================================================
