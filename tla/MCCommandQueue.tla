--------------------------- MODULE MCCommandQueue ---------------------------
(* TLC instance of CommandQueue; the cfg file chooses the sizes. *)
EXTENDS CommandQueue
=============================================================================
