------------------------- MODULE ScalingProperties -------------------------
(***************************************************************************)
(* What the scaling controller is expected to guarantee, stated over the   *)
(* variables of Orchestrator.                                              *)
(***************************************************************************)
EXTENDS Orchestrator

NodePCs == {"wait", "booted", "purge", "purged", "forget", "created", "undo",
            "recordUp", "down", "drain", "mark", "destroy", "destroyed"}

ProcPCs == NodePCs \cup {"idle", "up", "create", "recordDown", "snapshot", "write"}

MonitorPCs ==
  {"sleep", "list", "listed", "adopt", "add", "observe", "prune", "snapshot",
   "write", "queue", "up", "coldStart", "scaleOut", "down", "scaleIn"}

\* Every variable has its type; the goroutines and the monitor name an
\* instance exactly where the code has one in hand.
TypeOK ==
  /\ nodes \in Tables /\ addressed \subseteq NodeIds
  /\ sinceEvent \in 0 .. CooldownDuration
  /\ upAge \in NIL .. ScaleUpDuration /\ downAge \in NIL .. IdleCap
  /\ pc \in [Procs -> ProcPCs] /\ arg \in [Procs -> NodeIds \cup {NoNode}]
  /\ \A p \in Procs : pc[p] \in NodePCs => arg[p] \in NodeIds
  /\ snap \in [Procs -> SUBSET NodeIds]
  /\ mpc \in MonitorPCs /\ boot \in BOOLEAN
  /\ mpc \in {"add", "observe", "scaleIn"} => cur \in NodeIds
  /\ seen \in [NodeIds -> Status] /\ todo \subseteq NodeIds
  /\ changed \in BOOLEAN /\ cur \in NodeIds \cup {NoNode}
  /\ pending \in 0 .. MaxWork /\ msnap \subseteq NodeIds
  /\ tick \in BOOLEAN /\ cloud \in [NodeIds -> Status]
  /\ targets \subseteq NodeIds /\ work \in 0 .. MaxWork

-----------------------------------------------------------------------------
(* Whatever fails *)

\* The node table obeys the lifecycle of statemachine.go whichever of the
\* goroutines writes it, and never outgrows the cap.
Lifecycle == INSTANCE NodeLifecycle WITH table <- nodes
NodesFollowLifecycle == Lifecycle!Spec

\* A DRAINING node is on its way out: the ScaleDown that drains it is about to
\* mark it, so that no failure leaves a node DRAINING.
DrainingOwned ==
  \A id \in NodeIds : nodes[id] = "draining" =>
    \E p \in Procs : pc[p] = "mark" /\ arg[p] = id

-----------------------------------------------------------------------------
(* As long as the Linode API answers within a tick *)

\* Between the go statement and recordScaleEvent.
BeforeRecord == {"up", "create", "created", "down", "drain", "mark", "destroy", "destroyed"}

ScaleOps == BeforeRecord \cup {"recordUp", "recordDown"}

\* "In-progress guard: only one scale operation runs at a time": neither two
\* of them, nor one beside a node in a transitional state.
OneScaleOperation ==
  \A p \in Procs : pc[p] \in ScaleOps =>
    /\ \A q \in Procs \ {p} : pc[q] \notin ScaleOps
    /\ \A id \in Tracked(nodes) \ {arg[p]} : nodes[id] = "ready"

\* "Cooldown gate": an operation that is under way found the cooldown over.
CooldownRespected == \A p \in Procs : pc[p] \in BeforeRecord => CanScale

\* "Node floor / cap", for the instances that exist and are paid for.
InstanceCap == Cardinality(Listed(cloud)) <= MaxNodes

\* "RemoveNode ... Should only be called after destruction": a running program
\* forgets a node only when its instance no longer exists.
RemovedAfterDestruction ==
  [][ \A id \in NodeIds :
        nodes[id] # Absent /\ nodes'[id] = Absent /\ ~boot' => cloud[id] = "none" ]_vars

\* The floor: when ScaleDown gives a node up MinNodes others remain.
ScaleDownFloor ==
  [][ \A id \in NodeIds : nodes[id] = "draining" /\ nodes'[id] = "destroying" =>
        ActiveCount(nodes') >= MinNodes ]_vars

\* The lifecycle is there for this: the program deletes an instance only when its
\* node was given up before, never under a node that takes jobs.
DeletedOnceGivenUp ==
  [][ \A id \in NodeIds : cloud[id] # "none" /\ cloud'[id] = "none" =>
        nodes[id] \in {"destroying", Absent} ]_vars

\* A node is DESTROYING only while a goroutine sees to its destruction.
DestroyingOwned ==
  \A id \in NodeIds : nodes[id] = "destroying" =>
    \E p \in Procs :
      pc[p] \in {"destroy", "destroyed", "purged", "forget"} /\ arg[p] = id

-----------------------------------------------------------------------------
(* Liveness *)

\* A queue that is not empty gets a node, or empties.
ColdStartServed == work > 0 ~> (work = 0 \/ ReadyCount(nodes) > 0)

\* Autoscaling is never blocked for good by a node in a transitional state.
NeverWedged == []<>~IsScalingInProgress(nodes)

\* A READY node whose instance is gone is dropped.
GhostsLeave ==
  \A id \in NodeIds :
    (nodes[id] = "ready" /\ cloud[id] = "none") ~>
    (nodes[id] # "ready" \/ cloud[id] # "none")

\* A managed instance that nobody tracks is adopted, or ceases to exist.
NoInstanceLeaks ==
  \A id \in NodeIds :
    (cloud[id] # "none" /\ nodes[id] = Absent) ~>
    (cloud[id] = "none" \/ nodes[id] # Absent)

\* "Linode is treated as the source of truth for managed node existence": a
\* node without an instance does not stay in the table.
PhantomsLeave ==
  \A id \in NodeIds :
    (nodes[id] # Absent /\ cloud[id] = "none") ~>
    (nodes[id] = Absent \/ cloud[id] # "none")

=============================================================================
