----------------------------- MODULE MCCluster -----------------------------
(* Instances of Cluster for TLC; goroutine slots are alike. *)
EXTENDS Cluster, TLC

Slots == Permutations(Procs)

=============================================================================
