------------------------------ MODULE MCLease ------------------------------
(* An instance of Lease for TLC: configurations are numbers, AckWait 6 s. *)
EXTENDS Lease

MCConfig == [p \in Processes |-> [jobs |-> 1, dlq |-> 2, consumer |-> 6]]

\* The deployment before had another dead-letter subject and half the AckWait.
MCLeftover == [jobs |-> {1}, dlq |-> {2, 3}, consumer |-> {3}]

\* An interval of exactly AckWait, and a short one.
MCHeartbeat == [a \in Agents |-> IF a = CHOOSE b \in Agents : TRUE THEN 6 ELSE 1]

=============================================================================
