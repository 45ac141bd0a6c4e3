-------------------------- MODULE MCDeliveryQueue --------------------------
(* Model checking instances of DeliveryQueue.  Recovery passes are         *)
(* interchangeable: only the order of the entries matters.                 *)
EXTENDS DeliveryQueue, TLC

AnyPass == Permutations(Recoveries)
=============================================================================
