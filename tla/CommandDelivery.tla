---------------------------- MODULE CommandDelivery ----------------------------
(***************************************************************************)
(* What the seam between CommandQueuePort and WorkerCommandConsumer        *)
(* promises to whoever enqueues a command: once accepted it is neither     *)
(* lost nor handed over twice, and it is answered once.                    *)
(***************************************************************************)
CONSTANTS Commands

VARIABLES delivery    \* how far each command has come

DeliveryInit == delivery = [c \in Commands |-> "new"]

Move(c, from, to) ==
  /\ delivery[c] \in from
  /\ delivery' = [delivery EXCEPT ![c] = to]

DeliveryNext ==
  \E c \in Commands :
    \/ Move(c, {"new"}, "waiting")
    \/ Move(c, {"waiting"}, "handling")
    \/ Move(c, {"waiting", "handling"}, "answered")

DeliverySpec == DeliveryInit /\ [][DeliveryNext]_delivery
=============================================================================
