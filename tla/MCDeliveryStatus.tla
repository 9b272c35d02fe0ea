-------------------------- MODULE MCDeliveryStatus --------------------------
(* One tracked message, E2E encrypted, and one session thread are enough.   *)
EXTENDS DeliveryStatus

MCBatch == {[frames |-> 1, bytes |-> 1]}
=============================================================================
