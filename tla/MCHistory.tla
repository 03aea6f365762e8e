----------------------------- MODULE MCHistory -----------------------------
(* Instances of ScalingHistory for TLC; goroutine slots are alike. *)
EXTENDS ScalingHistory, TLC

Slots == Permutations(Procs)

=============================================================================
