------------------------- MODULE MCSessionWriteLock -------------------------
(* TLC instances of SessionWriteLock: two clients of process 1, one of process 2. *)
EXTENDS SessionWriteLock

MCProcOf == [c \in Clients |-> IF c = "cli" THEN 2 ELSE 1]
=============================================================================
