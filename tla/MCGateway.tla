----------------------------- MODULE MCGateway -----------------------------
(* Instances of Gateway for TLC; agents are alike, and so are clients. *)
EXTENDS Gateway, TLC

MCJobs == Requests

Alike == Permutations(Agents)

=============================================================================
