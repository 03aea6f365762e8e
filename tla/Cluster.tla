------------------------------ MODULE Cluster ------------------------------
(***************************************************************************)
(* The controller and the agents together: Orchestrator provides the       *)
(* instances, JobDelivery runs one agent on each, and the queue the        *)
(* controller samples is the one the agents pull from.  Neither knows of   *)
(* the other but through the queue and the cloud: an instance that runs    *)
(* starts an agent, and an instance that is destroyed takes its agent and  *)
(* the jobs in hand with it.                                               *)
(***************************************************************************)
EXTENDS Integers, FiniteSets

CONSTANTS
  NodeIds, MaxNodes, MinNodes,        \* of Orchestrator
  ScaleUpThreshold, ScaleUpDuration, CooldownDuration,
  ScaleDownIdleDuration, ScaleToZeroIdleDuration, Procs,
  Jobs, Malformed,                    \* of JobDelivery
  MaxInFlight, MaxAttempts, MaxDeliver,
  CloudFaults, JobFaults

VARIABLES
  nodes, addressed, sinceEvent, upAge, downAge, pc, arg, snap,
  mpc, boot, seen, todo, changed, cur, pending, msnap,
  tick, cloud, targets,
  stream, deliveries, dead, life, shutting, loop, inflight,
  hpc, owner, attempt, completed

\* Wrong: counts what is not yet delivered only (OneSpareDelivery,
\* EverySettled).
Undelivered == Cardinality({j \in Jobs : stream[j] = "available"})

\* Wrong: counts the messages of a stream that keeps its history
\* (ScalesToZero).
EverSent == Cardinality({j \in Jobs : stream[j] # "unknown"})

\* QueueStats.PendingWork: not yet delivered, or not yet acknowledged.
PendingWork == Cardinality({j \in Jobs : stream[j] \in {"available", "pending"}})

O == INSTANCE Orchestrator
       WITH Faults <- CloudFaults, MaxWork <- Cardinality(Jobs), work <- PendingWork

D == INSTANCE JobDelivery WITH Agents <- NodeIds, Faults <- JobFaults

\* What the two parts assume of their constants.
ASSUME ClusterAssumption ==
  /\ NodeIds \subseteq (Nat \ {0}) /\ IsFiniteSet(NodeIds) /\ IsFiniteSet(Jobs)
  /\ MaxNodes \in Nat \ {0} /\ MinNodes \in 0 .. MaxNodes
  /\ {ScaleUpThreshold, ScaleUpDuration, CooldownDuration,
      ScaleDownIdleDuration, ScaleToZeroIdleDuration} \subseteq Nat
  /\ {MaxInFlight, MaxAttempts, MaxDeliver} \subseteq Nat \ {0}
  /\ Malformed \subseteq Jobs
  /\ CloudFaults \subseteq O!FaultKinds /\ JobFaults \subseteq D!FaultKinds

controller == <<nodes, addressed, sinceEvent, upAge, downAge, pc, arg, snap,
                mpc, boot, seen, todo, changed, cur, pending, msnap,
                tick, cloud, targets>>

queue == <<stream, deliveries, dead, completed>>

agents == <<life, shutting, loop, inflight, hpc, owner, attempt>>

clusterVars == <<controller, queue, agents>>

Init == D!Init /\ O!Init

-----------------------------------------------------------------------------

\* A step of the controller or of the cloud.  An agent whose instance it
\* destroys is gone, wherever it was; the others do not notice.
Controller(step) ==
  /\ UNCHANGED queue
  /\ step
  /\ LET cut == {a \in NodeIds : life[a] # "down" /\ cloud'[a] = "none"}
     IN  \/ cut = {} /\ UNCHANGED agents
         \/ \E a \in cut : D!Gone(a)

\* A step of the queue or of an agent.
Work(step) == step /\ UNCHANGED controller

\* The agents' image starts the agent when the instance runs.
RunAgent(a) == D!Run(a) /\ cloud[a] = "running"

Next ==
  \/ \E p \in Procs : Controller(O!Goroutine(p))
  \/ Controller(O!Monitor) \/ Controller(O!TimePasses)
  \/ \E id \in NodeIds : Controller(O!Boot(id))
  \/ \E j \in Jobs : Work(D!Submit(j)) \/ Work(D!AckWaitExpires(j))
  \/ \E a \in NodeIds : Work(RunAgent(a)) \/ Work(D!Loop(a))
  \/ \E a \in NodeIds, j \in Jobs : Work(D!Fetch(a, j))
  \/ \E d \in D!Deliveries : Work(D!Handle(d))

Spec == Init /\ [][Next]_clusterVars

\* What Orchestrator and JobDelivery assume of their own steps.
Fairness ==
  /\ \A p \in Procs : WF_clusterVars(Controller(O!Goroutine(p)))
  /\ WF_clusterVars(Controller(O!Monitor)) /\ WF_clusterVars(Controller(O!TimePasses))
  /\ \A id \in NodeIds : WF_clusterVars(Controller(O!Boot(id)))
  /\ \A a \in NodeIds :
       WF_clusterVars(Work(RunAgent(a))) /\ WF_clusterVars(Work(D!Loop(a)))
  /\ \A j \in Jobs :
       /\ SF_clusterVars(\E a \in NodeIds : Work(D!Fetch(a, j)))
       /\ WF_clusterVars(Work(D!AckWaitExpires(j)))
  /\ \A d \in D!Deliveries : WF_clusterVars(Work(D!Handle(d)))

FairSpec == Spec /\ Fairness

-----------------------------------------------------------------------------

\* A node that drains is not told, and its agent goes on pulling jobs until the
\* instance is deleted.  It costs a job one delivery at most: from then on the
\* job counts as pending work, delivered or not, and no scale-down begins.
OneSpareDelivery == MaxDeliver > 1 => \A j \in Jobs : stream[j] # "stranded"

\* A job is run in the end, whether a node is there when it comes or not,
\* and whatever the controller is doing to it.
EverySettled == \A j \in Jobs : stream[j] # "unknown" ~> stream[j] = "removed"

\* With nothing left to do the last instance goes.
ScalesToZero ==
  (\A j \in Jobs : stream[j] = "removed") ~> \A id \in NodeIds : cloud[id] = "none"

=============================================================================
