--------------------------- MODULE MCDeliveryQueue ---------------------------
(***************************************************************************)
(* Small instances of DeliveryQueue for TLC.                               *)
(***************************************************************************)
EXTENDS DeliveryQueue, TLC

AllPolicies == {"required", "best_effort", "notice"}

RequiredOnly == {"required"}

AllOutcomes == {"sent", "rejected", "permanent", "errorAfterSend", "nothing",
                "aborted"}

\* The platform takes a message or refuses it, for now or for good.
HonestOutcomes == {"sent", "rejected", "permanent"}

DeliverySymmetry == Permutations(Deliveries)
=============================================================================
