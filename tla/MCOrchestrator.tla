--------------------------- MODULE MCOrchestrator ---------------------------
(* Instances of the scaling controller for TLC; goroutine slots are alike. *)
EXTENDS ScalingProperties, TLC

Slots == Permutations(Procs)

=============================================================================
