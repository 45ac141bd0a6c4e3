--------------------------- MODULE MCFollowupQueue ---------------------------
(* TLC instances of FollowupQueue: the last message goes to another target than the rest. *)
EXTENDS FollowupQueue

MCTargetOf == [m \in Messages |-> IF \E n \in Messages : n > m THEN "here" ELSE "there"]
=============================================================================
