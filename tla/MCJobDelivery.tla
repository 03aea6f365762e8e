--------------------------- MODULE MCJobDelivery ---------------------------
(* Instances of JobDelivery for TLC; agents are alike. *)
EXTENDS DeliveryProperties, TLC

Nodes == Permutations(Agents)

=============================================================================
