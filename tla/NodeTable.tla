----------------------------- MODULE NodeTable -----------------------------
(***************************************************************************)
(* The node table of the orchestrator (orchestrator/statemachine.go) as a  *)
(* value: a function from instance ids to lifecycle states.  The operators *)
(* here are the guards and the counting queries of NodeManager; each one   *)
(* runs under NodeManager.mu in the code, so each is evaluated on a single *)
(* table.                                                                  *)
(***************************************************************************)
EXTENDS Integers, FiniteSets

CONSTANTS
  NodeIds,   \* Linode instance ids (bound: how many exist at the same time)
  MaxNodes   \* Config.MaxNodes

ASSUME NodeIdsAssumption == NodeIds \subseteq (Nat \ {0}) /\ IsFiniteSet(NodeIds)

\* loadConfig refuses MAX_NODES < 1.
ASSUME MaxNodesAssumption == MaxNodes \in Nat \ {0}

NodeState == {"provisioning", "ready", "draining", "destroying"}

Absent == "absent"  \* the id is not a key of NodeManager.nodes

Tables == [NodeIds -> NodeState \cup {Absent}]

EmptyTable == [id \in NodeIds |-> Absent]

\* Wrong: nothing leaves DRAINING (DrainingOwned).
validTransitionsNoDrained ==
  [ provisioning |-> {"ready", "destroying"},
    ready        |-> {"draining"},
    draining     |-> {},
    destroying   |-> {} ]

validTransitions ==
  [ provisioning |-> {"ready", "destroying"},
    ready        |-> {"draining"},
    draining     |-> {"destroying"},
    destroying   |-> {} ]

-----------------------------------------------------------------------------

Tracked(t) == {id \in NodeIds : t[id] # Absent}

NodesByState(t, s) == {id \in NodeIds : t[id] = s}

ActiveCount(t) == Cardinality(Tracked(t) \ NodesByState(t, "destroying"))

ReadyCount(t) == Cardinality(NodesByState(t, "ready"))

IsScalingInProgress(t) == \E id \in Tracked(t) : t[id] # "ready"

\* AddNode succeeds: below the cap, and the id is not tracked yet.
CanAdd(t, id) == Cardinality(Tracked(t)) < MaxNodes /\ t[id] = Absent

\* TransitionNode succeeds: an allowed edge, or the state it already has.
CanMove(t, id, to) ==
  /\ t[id] # Absent
  /\ to = t[id] \/ to \in validTransitions[t[id]]

=============================================================================
