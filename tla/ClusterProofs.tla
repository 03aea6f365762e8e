---------------------------- MODULE ClusterProofs ----------------------------
(***************************************************************************)
(* The controller and the agents together: each part keeps, under the      *)
(* other's steps, the invariants proved of it alone, and the two sets of   *)
(* invariants together bound what a scale-down costs a job.                *)
(*                                                                         *)
(* The results about the parts are used through instances of their proof   *)
(* modules.  For the queue, an instance that is destroyed is an agent that *)
(* crashes.                                                                *)
(***************************************************************************)
EXTENDS Cluster, FiniteSetTheorems, TLAPS

C == INSTANCE ScalingProofs
       WITH Faults <- CloudFaults, MaxWork <- Cardinality(Jobs), work <- PendingWork

Q == INSTANCE DeliveryProofs
       WITH Agents <- NodeIds, Faults <- JobFaults \cup {"crash"}

-----------------------------------------------------------------------------
(* The assumptions of the parts *)

\* The depth of the queue is bounded by the number of jobs.
LEMMA WorkBounded ==
  ASSUME NEW s
  PROVE  LET waiting == {j \in Jobs : s[j] \in {"available", "pending"}}
         IN  /\ Cardinality(Jobs) \in Nat /\ Cardinality(waiting) \in 0 .. Cardinality(Jobs)
             /\ waiting # {} => Cardinality(waiting) > 0
<1> DEFINE waiting == {j \in Jobs : s[j] \in {"available", "pending"}}
<1>1. IsFiniteSet(Jobs) /\ waiting \subseteq Jobs
  BY ClusterAssumption
<1>2. /\ Cardinality(Jobs) \in Nat /\ Cardinality(waiting) \in Nat
      /\ Cardinality(waiting) <= Cardinality(Jobs)
      /\ Cardinality(waiting) = 0 => waiting = {}
  BY <1>1, FS_Subset, FS_CardinalityType, FS_EmptySet
<1> HIDE DEF waiting
<1>3. Cardinality(waiting) \in 0 .. Cardinality(Jobs) /\ (waiting # {} => Cardinality(waiting) > 0)
  BY <1>2
<1>4. QED
  BY <1>2, <1>3 DEF waiting

\* What Orchestrator and JobDelivery assume of their constants, in the words of
\* their instances.
LEMMA CloudAssumptions ==
  /\ NodeIds \subseteq (Nat \ {0}) /\ C!IsFiniteSet(NodeIds)
  /\ MaxNodes \in Nat \ {0} /\ MinNodes \in 0 .. MaxNodes
  /\ {ScaleUpThreshold, ScaleUpDuration, CooldownDuration, Cardinality(Jobs),
      ScaleDownIdleDuration, ScaleToZeroIdleDuration} \subseteq Nat
  /\ CloudFaults \subseteq C!FaultKinds
BY ClusterAssumption, WorkBounded DEF IsFiniteSet, C!IsFiniteSet, C!FaultKinds, O!FaultKinds

\* ... and those of the queue.
LEMMA QueueAssumptions ==
  /\ Q!IsFiniteSet(Jobs) /\ Malformed \subseteq Jobs
  /\ {MaxInFlight, MaxAttempts, MaxDeliver} \subseteq Nat \ {0}
  /\ JobFaults \cup {"crash"} \subseteq Q!FaultKinds
BY ClusterAssumption DEF IsFiniteSet, Q!IsFiniteSet, Q!FaultKinds, D!FaultKinds

-----------------------------------------------------------------------------
(* The queue is a JobDelivery whose agents crash *)

\* Step for step the two instances of JobDelivery say the same, except that the
\* agents of the second one may crash.
LEMMA QueueInit == D!Init => Q!Init
BY DEF D!Init, Q!Init, D!Deliveries, Q!Deliveries, D!NoAgent, Q!NoAgent

\* That is what the end of an instance is for its agent.
LEMMA GoneIsCrash ==
  ASSUME NEW a \in NodeIds, life[a] # "down", D!Gone(a) PROVE Q!Crash(a)
BY DEF D!Gone, Q!Gone, Q!Crash, D!Working, Q!Working, D!Live, Q!Live, D!Deliveries,
   Q!Deliveries, D!NoAgent, Q!NoAgent, D!queue, Q!queue

\* The stream ...
LEMMA StreamSteps ==
  ASSUME NEW j \in Jobs
  PROVE  /\ D!Submit(j) => Q!Submit(j)
         /\ D!AckWaitExpires(j) => Q!AckWaitExpires(j)
         /\ \A a \in NodeIds : D!Fetch(a, j) => Q!Fetch(a, j)
BY DEF D!Submit, Q!Submit, D!AckWaitExpires, Q!AckWaitExpires, D!Fetch, Q!Fetch,
   D!Returned, Q!Returned, D!Live, Q!Live, D!agents, Q!agents, D!handlers, Q!handlers

\* ... an agent, whose end is Gone in both ...
LEMMA AgentSteps ==
  ASSUME NEW a \in NodeIds
  PROVE  (D!Run(a) => Q!Run(a)) /\ (D!Loop(a) => Q!Loop(a))
<1>1. D!Gone(a) => Q!Gone(a)
  BY DEF D!Gone, Q!Gone, D!Working, Q!Working, D!Live, Q!Live, D!Deliveries,
     Q!Deliveries, D!NoAgent, Q!NoAgent, D!queue, Q!queue
<1>2. D!Exit(a) => Q!Exit(a)
  BY <1>1 DEF D!Exit, Q!Exit, D!Working, Q!Working, D!Live, Q!Live, D!Deliveries, Q!Deliveries
<1>3. D!Run(a) => Q!Run(a)
  BY <1>1, <1>2 DEF D!Run, Q!Run, D!Start, Q!Start, D!Drain, Q!Drain, D!ExitOnError,
     Q!ExitOnError, D!queue, Q!queue, D!handlers, Q!handlers
<1>4. D!Loop(a) => Q!Loop(a)
  BY DEF D!Loop, Q!Loop, D!Acquire, Q!Acquire, D!StopLoop, Q!StopLoop, D!FetchNothing,
     Q!FetchNothing, D!queue, Q!queue, D!handlers, Q!handlers
<1>5. QED
  BY <1>3, <1>4

\* ... and a handler.
LEMMA HandlerSteps == ASSUME NEW d \in D!Deliveries PROVE D!Handle(d) => Q!Handle(d)
BY DEF D!Handle, Q!Handle, D!Begin, Q!Begin, D!ForwardSucceeds, Q!ForwardSucceeds,
   D!ForwardRejected, Q!ForwardRejected, D!ForwardFails, Q!ForwardFails, D!Bury, Q!Bury,
   D!Ack, Q!Ack, D!Nak, Q!Nak, D!Acked, Q!Acked, D!Naked, Q!Naked, D!Return, Q!Return,
   D!Returned, Q!Returned, D!NoAgent, Q!NoAgent,
   D!Goto, Q!Goto, D!queue, Q!queue, D!agents, Q!agents

-----------------------------------------------------------------------------
(* The controller is an Orchestrator whose queue changes at any time *)

\* Step for step the two instances of Orchestrator say the same.
LEMMA ControllerInit == O!Init => C!Init
BY DEF O!Init, C!Init, O!EmptyTable, C!EmptyTable, O!Absent, C!Absent, O!NIL, C!NIL,
   O!NoNode, C!NoNode, O!NoInstance, C!NoInstance

\* Both instances count alike.
LEMMA SameCount == \A S : O!Cardinality(S) = C!Cardinality(S)
BY DEF O!Cardinality, C!Cardinality

\* The steps of a goroutine of the controller are those of the instance the proofs are about ...
LEMMA GoroutineSteps == ASSUME NEW p \in Procs PROVE O!Goroutine(p) => C!Goroutine(p)
<1>1. O!ScaleUp(p) => C!ScaleUp(p)
  BY SameCount DEF O!ScaleUp, C!ScaleUp, O!ActiveCount, C!ActiveCount, O!Tracked, C!Tracked,
     O!Absent, C!Absent, O!NodesByState, C!NodesByState, O!Goto, C!Goto, O!table,
     C!table, O!timers, C!timers, O!monitor, C!monitor, O!world, C!world
<1>2. O!CreateGPUNode(p) => C!CreateGPUNode(p)
  BY DEF O!CreateGPUNode, C!CreateGPUNode, O!FreshIds, C!FreshIds, O!Absent, C!Absent,
     O!Goto, C!Goto, O!Exit, C!Exit, O!NoNode, C!NoNode, O!table, C!table, O!timers,
     C!timers, O!monitor, C!monitor
<1>3. O!CreateFails(p) => C!CreateFails(p)
  BY DEF O!CreateFails, C!CreateFails, O!FreshIds, C!FreshIds, O!Absent, C!Absent,
     O!Exit, C!Exit, O!NoNode, C!NoNode, O!table, C!table, O!timers, C!timers,
     O!monitor, C!monitor, O!world, C!world
<1>4. O!TrackNode(p) => C!TrackNode(p)
  BY SameCount DEF O!TrackNode, C!TrackNode, O!CanAdd, C!CanAdd, O!Tracked, C!Tracked, O!Absent,
     C!Absent, O!Move, C!Move, O!Goto, C!Goto, O!timers, C!timers, O!monitor,
     C!monitor, O!world, C!world
<1>5. O!DestroyUntracked(p) => C!DestroyUntracked(p)
  BY DEF O!DestroyUntracked, C!DestroyUntracked, O!DestroyCall, C!DestroyCall, O!Exit,
     C!Exit, O!NoNode, C!NoNode, O!table, C!table, O!timers, C!timers, O!monitor,
     C!monitor
<1>6. O!RecordScaleUp(p) => C!RecordScaleUp(p)
  BY DEF O!RecordScaleUp, C!RecordScaleUp, O!Goto, C!Goto, O!table, C!table,
     O!monitor, C!monitor, O!world, C!world
<1>7. O!WaitForRunning(p) => C!WaitForRunning(p)
  BY DEF O!WaitForRunning, C!WaitForRunning, O!Goto, C!Goto, O!table, C!table,
     O!timers, C!timers, O!monitor, C!monitor, O!world, C!world
<1>8. O!WaitTimesOut(p) => C!WaitTimesOut(p)
  BY DEF O!WaitTimesOut, C!WaitTimesOut, O!Goto, C!Goto, O!table, C!table, O!timers,
     C!timers, O!monitor, C!monitor, O!world, C!world
<1>9. O!MarkReady(p) => C!MarkReady(p)
  BY DEF O!MarkReady, C!MarkReady, O!IPv4Answers, C!IPv4Answers, O!Absent, C!Absent,
     O!CanMove, C!CanMove, O!validTransitions, C!validTransitions, O!Move, C!Move, O!Goto, C!Goto, O!Exit,
     C!Exit, O!NoNode, C!NoNode, O!table, C!table, O!timers, C!timers, O!monitor,
     C!monitor, O!world, C!world
<1>10. O!PurgeNode(p) => C!PurgeNode(p)
  BY DEF O!PurgeNode, C!PurgeNode, O!CanMove, C!CanMove, O!Absent, C!Absent,
     O!validTransitions, C!validTransitions, O!Move, C!Move, O!Goto, C!Goto, O!timers,
     C!timers, O!monitor, C!monitor, O!world, C!world
<1>11. O!DestroyPurged(p) => C!DestroyPurged(p)
  BY DEF O!DestroyPurged, C!DestroyPurged, O!DestroyCall, C!DestroyCall, O!Goto,
     C!Goto, O!table, C!table, O!timers, C!timers, O!monitor, C!monitor
<1>12. O!ForgetPurged(p) => C!ForgetPurged(p)
  BY DEF O!ForgetPurged, C!ForgetPurged, O!Remove, C!Remove, O!Absent, C!Absent,
     O!Exit, C!Exit, O!NoNode, C!NoNode, O!timers, C!timers, O!monitor, C!monitor,
     O!world, C!world
<1>13. O!ScaleDown(p) => C!ScaleDown(p)
  BY SameCount DEF O!ScaleDown, C!ScaleDown, O!Absent, C!Absent, O!CanScale, C!CanScale,
     O!AboveFloor, C!AboveFloor, O!ActiveCount, C!ActiveCount, O!Tracked, C!Tracked,
     O!NodesByState, C!NodesByState, O!Goto, C!Goto, O!Exit, C!Exit, O!NoNode,
     C!NoNode, O!table, C!table, O!timers, C!timers, O!monitor, C!monitor, O!world,
     C!world
<1>14. O!DrainNode(p) => C!DrainNode(p)
  BY DEF O!DrainNode, C!DrainNode, O!ScaleDownMove, C!ScaleDownMove, O!CanMove,
     C!CanMove, O!Absent, C!Absent, O!validTransitions, C!validTransitions, O!Move,
     C!Move, O!Goto, C!Goto, O!Exit, C!Exit, O!NoNode, C!NoNode, O!timers, C!timers,
     O!monitor, C!monitor, O!world, C!world
<1>15. O!MarkDestroying(p) => C!MarkDestroying(p)
  BY DEF O!MarkDestroying, C!MarkDestroying, O!ScaleDownMove, C!ScaleDownMove,
     O!CanMove, C!CanMove, O!Absent, C!Absent, O!validTransitions, C!validTransitions,
     O!Move, C!Move, O!Goto, C!Goto, O!Exit, C!Exit, O!NoNode, C!NoNode, O!timers,
     C!timers, O!monitor, C!monitor, O!world, C!world
<1>16. O!DestroyNode(p) => C!DestroyNode(p)
  BY DEF O!DestroyNode, C!DestroyNode, O!DestroyCall, C!DestroyCall, O!Goto, C!Goto,
     O!Exit, C!Exit, O!NoNode, C!NoNode, O!table, C!table, O!timers, C!timers,
     O!monitor, C!monitor
<1>17. O!RemoveDestroyed(p) => C!RemoveDestroyed(p)
  BY DEF O!RemoveDestroyed, C!RemoveDestroyed, O!Remove, C!Remove, O!Absent, C!Absent,
     O!Goto, C!Goto, O!timers, C!timers, O!monitor, C!monitor, O!world, C!world
<1>18. O!RecordScaleDown(p) => C!RecordScaleDown(p)
  BY DEF O!RecordScaleDown, C!RecordScaleDown, O!Goto, C!Goto, O!table, C!table,
     O!monitor, C!monitor, O!world, C!world
<1>19. O!ReadTargets(p) => C!ReadTargets(p)
  BY DEF O!ReadTargets, C!ReadTargets, O!ReadyTargets, C!ReadyTargets, O!NodesByState,
     C!NodesByState, O!Goto, C!Goto, O!table, C!table, O!timers, C!timers, O!monitor,
     C!monitor, O!world, C!world
<1>20. O!WriteTargets(p) => C!WriteTargets(p)
  BY DEF O!WriteTargets, C!WriteTargets, O!Exit, C!Exit, O!NoNode, C!NoNode, O!table,
     C!table, O!timers, C!timers, O!monitor, C!monitor
<1>21. QED
  BY <1>1, <1>2, <1>3, <1>4, <1>5, <1>6, <1>7, <1>8, <1>9, <1>10, <1>11, <1>12, <1>13,
     <1>14, <1>15, <1>16, <1>17, <1>18, <1>19, <1>20 DEF O!Goroutine, C!Goroutine

\* ... and so are those of the monitor ...
LEMMA MonitorSteps == O!Monitor => C!Monitor
<1>1. O!StartRound => C!StartRound
  BY DEF O!StartRound, C!StartRound, O!table, C!table, O!timers, C!timers, O!procs,
     C!procs
<1>2. O!ListManagedNodes => C!ListManagedNodes
  BY DEF O!ListManagedNodes, C!ListManagedNodes, O!table, C!table, O!timers, C!timers,
     O!procs, C!procs, O!world, C!world
<1>3. O!ListFails => C!ListFails
  BY DEF O!ListFails, C!ListFails, O!table, C!table, O!timers, C!timers, O!procs,
     C!procs, O!world, C!world
<1>4. O!ListArrives => C!ListArrives
  BY DEF O!ListArrives, C!ListArrives, O!Listed, C!Listed, O!table, C!table, O!timers,
     C!timers, O!procs, C!procs, O!world, C!world
<1>5. O!LookUp => C!LookUp
  BY DEF O!LookUp, C!LookUp, O!Absent, C!Absent, O!table, C!table, O!timers, C!timers,
     O!procs, C!procs, O!world, C!world
<1>6. O!Adopt => C!Adopt
  BY SameCount DEF O!Adopt, C!Adopt, O!CanAdd, C!CanAdd, O!Tracked, C!Tracked, O!Absent,
     C!Absent, O!Move, C!Move, O!timers, C!timers, O!procs, C!procs, O!world, C!world
<1>7. O!Observe => C!Observe
  BY DEF O!Observe, C!Observe, O!RecordIPv4, C!RecordIPv4, O!IPv4Answers, C!IPv4Answers,
     O!Absent, C!Absent, O!Move, C!Move, O!timers, C!timers, O!procs, C!procs, O!world, C!world
<1>8. O!Compare => C!Compare
  BY DEF O!Compare, C!Compare, O!Tracked, C!Tracked, O!Absent, C!Absent, O!Listed,
     C!Listed, O!NoInstance, C!NoInstance, O!NoNode, C!NoNode, O!table, C!table,
     O!timers, C!timers, O!procs, C!procs, O!world, C!world
<1>9. O!Prune => C!Prune
  BY DEF O!Prune, C!Prune, O!table, C!table, O!Remove, C!Remove, O!Absent, C!Absent,
     O!timers, C!timers, O!procs, C!procs, O!world, C!world
<1>10. O!Reconciled => C!Reconciled
  BY DEF O!Reconciled, C!Reconciled, O!table, C!table, O!timers, C!timers, O!procs,
     C!procs, O!world, C!world
<1>11. O!MonitorReadsTargets => C!MonitorReadsTargets
  BY DEF O!MonitorReadsTargets, C!MonitorReadsTargets, O!ReadyTargets, C!ReadyTargets,
     O!NodesByState, C!NodesByState, O!table, C!table, O!timers, C!timers, O!procs,
     C!procs, O!world, C!world
<1>12. O!MonitorWritesTargets => C!MonitorWritesTargets
  BY DEF O!MonitorWritesTargets, C!MonitorWritesTargets, O!table, C!table, O!timers,
     C!timers, O!procs, C!procs
<1>13. O!GetQueueStats => C!GetQueueStats
  BY DEF O!GetQueueStats, C!GetQueueStats, O!table, C!table, O!timers, C!timers,
     O!procs, C!procs, O!world, C!world
<1>14. O!EvaluateScaleUp => C!EvaluateScaleUp
  BY SameCount DEF O!EvaluateScaleUp, C!EvaluateScaleUp, O!ActiveCount, C!ActiveCount,
     O!Tracked, C!Tracked, O!Absent, C!Absent, O!NodesByState, C!NodesByState,
     O!ReadyCount, C!ReadyCount, O!UpTimer, C!UpTimer, O!NIL, C!NIL, O!table, C!table,
     O!procs, C!procs, O!world, C!world
<1>15. O!ColdStart => C!ColdStart
  BY DEF O!ColdStart, C!ColdStart, O!Gate, C!Gate, O!CanScale, C!CanScale,
     O!IsScalingInProgress, C!IsScalingInProgress, O!Tracked, C!Tracked, O!Absent,
     C!Absent, O!Spawn, C!Spawn, O!Goto, C!Goto, O!NoNode, C!NoNode, O!table, C!table,
     O!timers, C!timers, O!world, C!world
<1>16. O!ScaleOut => C!ScaleOut
  BY DEF O!ScaleOut, C!ScaleOut, O!Gate, C!Gate, O!CanScale, C!CanScale,
     O!IsScalingInProgress, C!IsScalingInProgress, O!Tracked, C!Tracked, O!Absent,
     C!Absent, O!Spawn, C!Spawn, O!Goto, C!Goto, O!NoNode, C!NoNode, O!NIL, C!NIL,
     O!table, C!table, O!world, C!world
<1>17. O!EvaluateScaleDown => C!EvaluateScaleDown
  BY SameCount DEF O!EvaluateScaleDown, C!EvaluateScaleDown, O!ActiveCount, C!ActiveCount,
     O!Tracked, C!Tracked, O!Absent, C!Absent, O!NodesByState, C!NodesByState, O!NIL,
     C!NIL, O!IdleWindow, C!IdleWindow, O!AboveFloor, C!AboveFloor, O!EndRound,
     C!EndRound, O!NoNode, C!NoNode, O!table, C!table, O!procs, C!procs, O!world,
     C!world
<1>18. O!ScaleIn => C!ScaleIn
  BY DEF O!ScaleIn, C!ScaleIn, O!Gate, C!Gate, O!CanScale, C!CanScale,
     O!IsScalingInProgress, C!IsScalingInProgress, O!Tracked, C!Tracked, O!Absent,
     C!Absent, O!Spawn, C!Spawn, O!Goto, C!Goto, O!NIL, C!NIL, O!EndRound, C!EndRound,
     O!NoNode, C!NoNode, O!table, C!table, O!world, C!world
<1>19. QED
  BY <1>1, <1>2, <1>3, <1>4, <1>5, <1>6, <1>7, <1>8, <1>9, <1>10, <1>11, <1>12, <1>13,
     <1>14, <1>15, <1>16, <1>17, <1>18 DEF O!Monitor, C!Monitor

\* ... and those of the cloud.
LEMMA CloudSteps ==
  /\ O!TimePasses => C!TimePasses
  /\ \A id \in NodeIds : O!Boot(id) => C!Boot(id)
BY DEF O!TimePasses, C!TimePasses, O!Boot, C!Boot, O!table, O!timers, O!procs, O!monitor,
   C!table, C!timers, C!procs, C!monitor, O!Older, C!Older, O!MonitorPatient,
   C!MonitorPatient, O!Patient, C!Patient, O!IdleCap, C!IdleCap, O!NIL, C!NIL

-----------------------------------------------------------------------------
(* Every step is one of the two sides' *)

\* A step of the controller or the cloud: the agents notice only when one of
\* them loses its instance.
CloudSide ==
  /\ C!Next /\ UNCHANGED queue
  /\ \/ /\ UNCHANGED agents
        /\ \A a \in NodeIds : life[a] # "down" => cloud'[a] # "none"
     \/ \E a \in NodeIds : life[a] # "down" /\ cloud'[a] = "none" /\ D!Gone(a)

\* A step of the queue or of an agent.
QueueSide ==
  /\ UNCHANGED controller
  /\ \/ \E j \in Jobs : D!Submit(j) \/ D!AckWaitExpires(j)
     \/ \E a \in NodeIds : RunAgent(a) \/ D!Loop(a)
     \/ \E a \in NodeIds, j \in Jobs : D!Fetch(a, j)
     \/ \E d \in D!Deliveries : D!Handle(d)

\* No step is of another kind.
LEMMA Sides == Next => CloudSide \/ QueueSide
<1>1. ASSUME NEW p \in Procs, Controller(O!Goroutine(p)) PROVE CloudSide
  BY <1>1, GoroutineSteps DEF Controller, CloudSide, C!Next
<1>2. CASE Controller(O!Monitor)
  BY <1>2, MonitorSteps DEF Controller, CloudSide, C!Next
<1>3. CASE Controller(O!TimePasses)
  BY <1>3, CloudSteps DEF Controller, CloudSide, C!Next
<1>4. ASSUME NEW id \in NodeIds, Controller(O!Boot(id)) PROVE CloudSide
  BY <1>4, CloudSteps DEF Controller, CloudSide, C!Next
<1>5. QED
  BY <1>1, <1>2, <1>3, <1>4 DEF Next, Work, QueueSide

\* Whatever the controller does, the queue and the agents behave as the
\* JobDelivery whose agents may crash.
THEOREM ImplementsDelivery == Spec => Q!Spec
<1>1. Init => Q!Init
  BY QueueInit DEF Init
<1>2. ASSUME [Next]_clusterVars PROVE [Q!Next]_(Q!vars)
  <2>1. CASE UNCHANGED <<queue, agents>>
    BY <2>1 DEF queue, agents, Q!vars, Q!queue, Q!agents, Q!handlers
  <2>2. CASE CloudSide
    <3>1. ASSUME NEW a \in NodeIds, life[a] # "down", D!Gone(a) PROVE Q!Next
      BY <3>1, GoneIsCrash DEF Q!Next
    <3>2. QED
      BY <2>1, <2>2, <3>1 DEF CloudSide
  <2>3. CASE QueueSide
    <3>1. ASSUME NEW j \in Jobs, D!Submit(j) \/ D!AckWaitExpires(j) PROVE Q!Next
      BY <3>1, StreamSteps DEF Q!Next
    <3>2. ASSUME NEW a \in NodeIds, RunAgent(a) \/ D!Loop(a) PROVE Q!Next
      BY <3>2, AgentSteps DEF RunAgent, Q!Next
    <3>3. ASSUME NEW a \in NodeIds, NEW j \in Jobs, D!Fetch(a, j) PROVE Q!Next
      BY <3>3, StreamSteps DEF Q!Next
    <3>4. ASSUME NEW d \in D!Deliveries, D!Handle(d) PROVE Q!Next
      BY <3>4, HandlerSteps DEF Q!Next, D!Deliveries, Q!Deliveries
    <3>5. QED
      BY <2>3, <3>1, <3>2, <3>3, <3>4 DEF QueueSide
  <2>4. QED
    BY <1>2, <2>1, <2>2, <2>3, Sides DEF clusterVars
<1>3. QED
  BY <1>1, <1>2, PTL DEF Spec, Q!Spec

\* So what is proved of the queue alone holds of it in the cluster.
LEMMA QueueTyped == Spec => []Q!TypeOK
BY ImplementsDelivery, QueueAssumptions, Q!TypeCorrect, PTL DEF Q!TypeCorrect

\* Clients get what the queue promises although instances are destroyed under
\* their agents: a job is never just lost, and what is reported of it stays.
THEOREM PromiseHoldsInCluster == Spec => Q!KeepsPromise /\ []Q!NoLoss
BY ImplementsDelivery, QueueAssumptions, Q!JobsAreNotLost, Q!ImplementsPromise, PTL
   DEF Q!JobsAreNotLost, Q!ImplementsPromise

\* A job has one handler here as well: a crash leaves none behind.
LEMMA QueueOwned == "lapse" \notin JobFaults /\ Spec => []Q!SoleHandler
<1> SUFFICES ASSUME "lapse" \notin JobFaults PROVE Spec => []Q!SoleHandler
  OBVIOUS
<1>1. "lapse" \notin JobFaults \cup {"crash"}
  OBVIOUS
<1>2. QED
  BY <1>1, ImplementsDelivery, QueueAssumptions, Q!OneHandlerPerJob, PTL DEF Q!OneHandlerPerJob

-----------------------------------------------------------------------------
(* The controller keeps its invariants *)

\* Of the faults of the cloud: instances end by the hand of the controller
\* only, calls take less than a tick, and the queue can be read.
SteadyCloud == {"slowCalls", "bootTimeout", "vanish", "outage"} \cap CloudFaults = {}

\* Of the faults of the agents: a handler that lives brings its job to an end.
SteadyAgents == {"lapse", "ackLost", "dlqFails", "dlqUncertain", "fetchFails"} \cap JobFaults = {}

\* A steady cloud is one the theorems of the controller speak of.
LEMMA Steady == SteadyCloud => C!Reliable /\ "outage" \notin CloudFaults
BY DEF SteadyCloud, C!Reliable, C!Prompt

\* Its own steps keep its invariants ...
LEMMA CloudSideKeepsController ==
  ASSUME SteadyCloud, C!InControl, C!Next PROVE C!InControl'
BY Steady, CloudAssumptions, C!InControlKept DEF C!InControlKept

\* ... and so do those of the queue, which only change its depth.
LEMMA QueueSideKeepsController ==
  ASSUME C!InControl, UNCHANGED controller PROVE C!InControl'
<1>1. PendingWork' \in 0 .. Cardinality(Jobs)
  BY WorkBounded DEF PendingWork
<1>2. UNCHANGED <<C!table, C!timers, C!procs, C!monitor, tick, cloud, targets>>
  BY DEF controller, C!table, C!timers, C!procs, C!monitor
<1>3. QED
  BY <1>1, <1>2, CloudAssumptions, C!WorkIsFree DEF C!WorkIsFree

\* What is proved of the controller alone holds of it in the cluster, where
\* jobs come and go at any time.
LEMMA ControllerHolds == ASSUME SteadyCloud PROVE Spec => []C!InControl
<1>1. Init => C!InControl
  BY ControllerInit, CloudAssumptions, C!InControlInit DEF Init, C!InControlInit
<1>2. C!InControl /\ [Next]_clusterVars => C!InControl'
  BY Sides, CloudSideKeepsController, QueueSideKeepsController
     DEF clusterVars, CloudSide, QueueSide
<1>3. QED
  BY <1>1, <1>2, PTL DEF Spec

\* The gates work with a queue that changes under the controller's hands.
THEOREM GatesHoldInCluster ==
  ASSUME SteadyCloud
  PROVE  Spec => [](C!OneScaleOperation /\ C!CooldownRespected /\ C!InstanceCap)
<1>1. C!InControl => C!OneScaleOperation /\ C!CooldownRespected /\ C!InstanceCap
  BY CloudAssumptions, C!InControlMeans DEF C!InControlMeans
<1>2. QED
  BY <1>1, ControllerHolds, PTL

\* While jobs wait no scale-down begins.
LEMMA StaysWatchful ==
  ASSUME SteadyCloud, C!InControl, C!Watchful, C!Next,
         \E j \in Jobs : stream[j] \in {"available", "pending"}
  PROVE  C!Watchful'
<1>1. PendingWork > 0
  BY WorkBounded DEF PendingWork
<1>2. QED
  BY <1>1, Steady, CloudAssumptions, C!WatchfulKept DEF C!WatchfulKept

\* An instance ends by a scale-down.
LEMMA InstanceEnds ==
  ASSUME SteadyCloud, C!InControl, C!Next,
         NEW id \in NodeIds, cloud[id] = "running", cloud'[id] # "running"
  PROVE  ~C!Watchful /\ C!Watchful' /\ cloud' = [cloud EXCEPT ![id] = "none"]
BY Steady, CloudAssumptions, C!EndsByScaleDown DEF C!EndsByScaleDown

-----------------------------------------------------------------------------
(* Agents run on instances, and their handlers bring jobs to an end *)

USE DEF D!Deliveries, Q!Deliveries, D!Live, Q!Live, D!queue, D!agents, D!handlers, D!NoAgent

\* An agent is up only on a running instance, is never told to stop, and owns
\* each handler that lives; no handler is about to release its job.
Serving ==
  /\ \A a \in NodeIds :
       /\ life[a] \in {"down", "up"} /\ shutting[a] = FALSE /\ loop[a] # "failed"
       /\ life[a] = "up" => cloud[a] = "running"
       /\ loop[a] \in {"acquire", "fetch"} => life[a] = "up"
  /\ \A d \in D!Deliveries : hpc[d] # "nak" /\ (D!Live(d) => life[owner[d]] = "up")

\* No step of the queue or of an agent makes an agent stop or a handler
\* release its job.
LEMMA QueueSideKeepsServing ==
  ASSUME SteadyAgents, Q!TypeOK, Serving, QueueSide PROVE Serving'
<1> USE DEF Q!TypeOK, Serving
<1>0. cloud' = cloud
  BY DEF QueueSide, controller
<1>1. ASSUME NEW j \in Jobs, D!Submit(j) \/ D!AckWaitExpires(j) PROVE Serving'
  BY <1>0, <1>1 DEF D!Submit, D!AckWaitExpires
<1>2. ASSUME NEW a \in NodeIds, RunAgent(a) PROVE Serving'
  <2>1. D!Start(a) /\ cloud[a] = "running"
    BY <1>2 DEF RunAgent, D!Run, D!Drain, D!Exit, D!ExitOnError
  <2>2. QED
    BY <1>0, <2>1 DEF D!Start
<1>3. ASSUME NEW a \in NodeIds, D!Loop(a) PROVE Serving'
  BY <1>0, <1>3 DEF SteadyAgents, D!Loop, D!Acquire, D!StopLoop, D!FetchNothing
<1>4. ASSUME NEW a \in NodeIds, NEW j \in Jobs, D!Fetch(a, j) PROVE Serving'
  <2> DEFINE e == <<j, deliveries[j] + 1>>
  <2>1. /\ loop[a] = "fetch" /\ hpc' = [hpc EXCEPT ![e] = "start"]
        /\ owner' = [owner EXCEPT ![e] = a] /\ loop' = [loop EXCEPT ![a] = "acquire"]
        /\ UNCHANGED <<life, shutting>>
    BY <1>4 DEF D!Fetch
  <2> HIDE DEF e
  <2>2. QED
    BY <1>0, <2>1
<1>5. ASSUME NEW d \in D!Deliveries, D!Handle(d) PROVE Serving'
  <2>1. UNCHANGED <<life, shutting, loop>>
    BY <1>5 DEF D!Handle, D!Begin, D!ForwardSucceeds, D!ForwardRejected, D!ForwardFails,
       D!Bury, D!Ack, D!Nak, D!Return
  <2>2. \A x \in D!Deliveries :
          hpc'[x] # "nak" /\ (hpc'[x] # "none" => hpc[x] # "none" /\ owner'[x] = owner[x])
    BY <1>5 DEF SteadyAgents, D!Handle, D!Begin, D!ForwardSucceeds, D!ForwardRejected,
       D!ForwardFails, D!Bury, D!Ack, D!Nak, D!Return, D!Goto
  <2>3. QED
    BY <1>0, <2>1, <2>2
<1>6. QED
  BY <1>1, <1>2, <1>3, <1>4, <1>5 DEF QueueSide

\* An agent that loses its instance is gone with all of its handlers.
LEMMA CloudSideKeepsServing ==
  ASSUME SteadyCloud, Q!TypeOK, C!InControl, Serving, CloudSide PROVE Serving'
<1> USE DEF Q!TypeOK, Serving
<1>1. ASSUME NEW b \in NodeIds, cloud[b] = "running", cloud'[b] # "none"
      PROVE  cloud'[b] = "running"
  <2>1. cloud \in [NodeIds -> C!Status]
    BY DEF C!InControl, C!TypeOK
  <2>2. CASE cloud'[b] # "running"
    BY <1>1, <2>1, <2>2, InstanceEnds DEF CloudSide
  <2>3. QED
    BY <2>2
<1>2. CASE UNCHANGED agents /\ \A a \in NodeIds : life[a] # "down" => cloud'[a] # "none"
  BY <1>1, <1>2 DEF agents
<1>3. ASSUME NEW a \in NodeIds, life[a] # "down", cloud'[a] = "none", D!Gone(a) PROVE Serving'
  <2>1. cloud' = [cloud EXCEPT ![a] = "none"]
    BY <1>3, InstanceEnds DEF CloudSide
  <2>2. \A b \in NodeIds \ {a} : cloud'[b] = cloud[b]
    BY <2>1 DEF C!InControl, C!TypeOK
  <2>3. \A b \in NodeIds :
          /\ life'[b] = IF b = a THEN "down" ELSE life[b]
          /\ shutting'[b] = FALSE
          /\ loop'[b] = IF b = a THEN "stopped" ELSE loop[b]
    BY <1>3 DEF D!Gone
  <2>4. \A d \in D!Deliveries :
          \/ hpc'[d] = "none"
          \/ hpc'[d] = hpc[d] /\ owner'[d] = owner[d] /\ owner[d] # a
    BY <1>3 DEF D!Gone, D!Working
  <2>5. QED
    BY <2>2, <2>3, <2>4
<1>4. QED
  BY <1>2, <1>3 DEF CloudSide

\* Agents serve as long as their instances run.
LEMMA ServingAlways == ASSUME SteadyCloud, SteadyAgents PROVE Spec => []Serving
<1>1. Init => Serving
  BY DEF Init, D!Init, Serving
<1>2. Q!TypeOK /\ C!InControl /\ Serving /\ [Next]_clusterVars => Serving'
  <2>1. CASE UNCHANGED clusterVars
    BY <2>1 DEF clusterVars, controller, queue, agents, Serving
  <2>2. QED
    BY <2>1, Sides, QueueSideKeepsServing, CloudSideKeepsServing
<1>3. QED
  BY <1>1, <1>2, QueueTyped, ControllerHolds, PTL DEF Spec

-----------------------------------------------------------------------------
(* What a scale-down costs *)

\* A delivery of the job was cut short: it waits again, or is in hand again.
Spent(j) ==
  /\ stream[j] \in {"available", "pending"}
  /\ deliveries[j] > 1 \/ (deliveries[j] = 1 /\ ~D!Live(<<j, 1>>))

\* A job has lost one delivery at most, and its second one is in hand.
Spare ==
  \A j \in Jobs :
    /\ stream[j] # "stranded"
    /\ stream[j] = "available" => deliveries[j] <= 1
    /\ stream[j] = "pending" =>
         deliveries[j] = 1 \/ (deliveries[j] = 2 /\ D!Live(<<j, 2>>))

\* As long as it waits, the controller cannot make it lose another.
Guarded == (\E j \in Jobs : Spent(j)) => C!Watchful

\* No step of the queue or of an agent costs a job a delivery.
LEMMA QueueSideSpares ==
  ASSUME SteadyAgents, MaxDeliver > 1, Q!TypeOK, Q!SoleHandler, Serving, Spare, QueueSide
  PROVE  Spare' /\ \A j \in Jobs : Spent(j)' => Spent(j)
<1> USE DEF Spare, Spent
<1>0. /\ MaxDeliver \in Nat /\ 1 \in 1 .. MaxDeliver /\ 2 \in 1 .. MaxDeliver
      /\ stream \in [Jobs -> Q!Messages]
      /\ deliveries \in [Jobs -> 0 .. MaxDeliver]
      /\ hpc \in [D!Deliveries -> {"none", "start", "forward", "bury", "ack", "nak"}]
      /\ \A d \in D!Deliveries :
           D!Live(d) => d[2] = deliveries[d[1]] /\ stream[d[1]] = "pending"
      /\ \A j \in Jobs : stream[j] = "unknown" => deliveries[j] = 0
  BY QueueAssumptions DEF Q!TypeOK, Q!SoleHandler
<1>1. ASSUME NEW j \in Jobs, D!Submit(j)
      PROVE  Spare' /\ \A i \in Jobs : Spent(i)' => Spent(i)
  BY <1>0, <1>1 DEF D!Submit
<1>2. ASSUME NEW j \in Jobs, D!AckWaitExpires(j)
      PROVE  Spare' /\ \A i \in Jobs : Spent(i)' => Spent(i)
  <2>1. stream[j] = "pending" /\ ~D!Live(<<j, deliveries[j]>>)
    BY <1>2 DEF D!AckWaitExpires, SteadyAgents
  <2>2. deliveries[j] = 1 /\ ~D!Live(<<j, 1>>)
    BY <2>1
  <2>3. /\ stream' = [stream EXCEPT ![j] = "available"]
        /\ UNCHANGED <<deliveries, hpc>>
    BY <1>2, <2>2 DEF D!AckWaitExpires, D!Returned
  <2>4. QED
    BY <1>0, <2>1, <2>2, <2>3
<1>3. ASSUME NEW a \in NodeIds, NEW j \in Jobs, D!Fetch(a, j)
      PROVE  Spare' /\ \A i \in Jobs : Spent(i)' => Spent(i)
  <2> DEFINE e == <<j, deliveries[j] + 1>>
  <2>1. /\ stream[j] = "available"
        /\ stream' = [stream EXCEPT ![j] = "pending"]
        /\ deliveries' = [deliveries EXCEPT ![j] = @ + 1]
        /\ hpc' = [hpc EXCEPT ![e] = "start"]
    BY <1>3 DEF D!Fetch
  <2>2. deliveries[j] \in {0, 1} /\ e \in D!Deliveries
    <3>1. deliveries[j] \in 0 .. MaxDeliver /\ deliveries[j] <= 1
      BY <1>0, <2>1
    <3>2. deliveries[j] = 0 \/ deliveries[j] = 1
      BY <1>0, <3>1
    <3>3. QED
      BY <1>0, <3>2
  <2>3. hpc'[e] # "none" /\ \A d \in D!Deliveries \ {e} : hpc'[d] = hpc[d]
    BY <1>0, <2>1, <2>2
  <2>4. /\ stream'[j] = "pending" /\ deliveries'[j] = deliveries[j] + 1
        /\ \A i \in Jobs \ {j} : stream'[i] = stream[i] /\ deliveries'[i] = deliveries[i]
    BY <1>0, <2>1
  <2>5. ASSUME NEW i \in Jobs \ {j}
        PROVE  /\ <<i, 1>> \in D!Deliveries \ {e} /\ <<i, 2>> \in D!Deliveries \ {e}
    BY <1>0
  <2>6. Spent(j)' => Spent(j)
    <3>1. CASE deliveries[j] = 0
      BY <2>3, <2>4, <3>1
    <3>2. CASE deliveries[j] = 1
      <4>1. ~D!Live(<<j, 1>>)
        BY <1>0, <2>1
      <4>2. QED
        BY <2>1, <3>2, <4>1
    <3>3. QED
      BY <2>2, <3>1, <3>2
  <2>7. ASSUME NEW i \in Jobs \ {j} PROVE Spent(i)' => Spent(i)
    BY <2>3, <2>4, <2>5
  <2>8. Spare'
    <3>1. deliveries'[j] = 1 \/ (deliveries'[j] = 2 /\ hpc'[<<j, 2>>] # "none")
      BY <2>2, <2>3, <2>4
    <3>2. QED
      BY <2>3, <2>4, <2>5, <3>1
  <2>9. QED
    BY <2>6, <2>7, <2>8
<1>4. ASSUME NEW d \in D!Deliveries, D!Handle(d)
      PROVE  Spare' /\ \A i \in Jobs : Spent(i)' => Spent(i)
  <2>1. UNCHANGED deliveries
    BY <1>4 DEF D!Handle, D!Begin, D!ForwardSucceeds, D!ForwardRejected, D!ForwardFails,
       D!Bury, D!Ack, D!Nak, D!Return
  <2>2. CASE D!Ack(d)
    <3>1. /\ stream' = [stream EXCEPT ![d[1]] = "removed"]
          /\ hpc' = [hpc EXCEPT ![d] = "none"]
      BY <2>2 DEF D!Ack, D!Acked, D!Return, SteadyAgents
    <3>2. \A i \in Jobs \ {d[1]} : <<i, 1>> # d /\ <<i, 2>> # d
      OBVIOUS
    <3>3. QED
      BY <1>0, <2>1, <3>1, <3>2
  <2>3. CASE ~D!Ack(d)
    <3>1. ~D!Nak(d)
      BY DEF D!Nak, Serving
    <3>2. UNCHANGED stream /\ \A x \in D!Deliveries : hpc'[x] = "none" <=> hpc[x] = "none"
      BY <1>0, <1>4, <2>3, <3>1 DEF D!Handle, D!Begin, D!ForwardSucceeds,
         D!ForwardRejected, D!ForwardFails, D!Bury, D!Goto
    <3>3. \A i \in Jobs : <<i, 1>> \in D!Deliveries /\ <<i, 2>> \in D!Deliveries
      BY <1>0
    <3>4. QED
      BY <2>1, <3>2, <3>3
  <2>4. QED
    BY <2>2, <2>3
<1>5. ASSUME NEW a \in NodeIds, RunAgent(a) \/ D!Loop(a)
      PROVE  UNCHANGED <<stream, deliveries, hpc>>
  BY <1>5 DEF RunAgent, D!Run, D!Start, D!Drain, D!Exit, D!ExitOnError, D!Loop, D!Acquire,
     D!StopLoop, D!FetchNothing, Serving
<1>6. QED
  BY <1>1, <1>2, <1>3, <1>4, <1>5 DEF QueueSide

\* A scale-down ends while no job has lost a delivery yet; the others begin
\* none while one has.
LEMMA CloudSideSpares ==
  ASSUME SteadyCloud, MaxDeliver > 1, Q!TypeOK, Q!SoleHandler, C!InControl, Serving,
         Spare, Guarded, CloudSide
  PROVE  Spare' /\ Guarded'
<1>1. UNCHANGED <<stream, deliveries>> /\ C!Next
  BY DEF CloudSide, queue
<1>2. CASE UNCHANGED agents
  <2>1. \A j \in Jobs : Spent(j)' <=> Spent(j)
    BY <1>1, <1>2 DEF agents, Spent
  <2>2. Guarded'
    <3>1. CASE \E j \in Jobs : Spent(j)
      <4>1. C!Watchful /\ \E j \in Jobs : stream[j] \in {"available", "pending"}
        BY <3>1 DEF Guarded, Spent
      <4>2. QED
        BY <1>1, <4>1, StaysWatchful DEF Guarded
    <3>2. CASE ~\E j \in Jobs : Spent(j)
      BY <2>1, <3>2 DEF Guarded
    <3>3. QED
      BY <3>1, <3>2
  <2>3. Spare'
    BY <1>1, <1>2 DEF agents, Spare
  <2>4. QED
    BY <2>2, <2>3
<1>3. ASSUME NEW a \in NodeIds, life[a] # "down", cloud'[a] = "none", D!Gone(a)
      PROVE  Spare' /\ Guarded'
  <2>1. cloud[a] = "running"
    BY <1>3 DEF Serving
  <2>2. ~C!Watchful /\ C!Watchful'
    BY <1>1, <1>3, <2>1, InstanceEnds
  <2>3. \A j \in Jobs : ~Spent(j)
    BY <2>2 DEF Guarded
  <2>4. \A j \in Jobs : stream[j] = "pending" => deliveries[j] = 1
    <3> TAKE j \in Jobs
    <3> HAVE stream[j] = "pending"
    <3>1. deliveries[j] = 1 \/ deliveries[j] = 2
      BY DEF Spare
    <3>2. deliveries[j] # 2
      <4>1. ~(deliveries[j] > 1)
        BY <2>3 DEF Spent
      <4>2. QED
        BY <4>1
    <3>3. QED
      BY <3>1, <3>2
  <2>5. QED
    BY <1>1, <2>2, <2>4 DEF Spare, Guarded
<1>4. QED
  BY <1>2, <1>3 DEF CloudSide

\* A scale-down costs a job one delivery at most, although a node that drains
\* goes on pulling jobs until its instance is deleted: a job that has lost a
\* delivery keeps the controller from the next scale-down until it is settled.
THEOREM SparesOneDelivery ==
  ASSUME SteadyCloud, SteadyAgents PROVE Spec => []OneSpareDelivery
<1>1. CASE MaxDeliver > 1
  <2>1. Init => Spare /\ Guarded
    BY DEF Init, D!Init, Spare, Guarded, Spent
  <2>2. Q!TypeOK /\ Q!SoleHandler /\ C!InControl /\ Serving /\ Spare /\ Guarded
          /\ [Next]_clusterVars => Spare' /\ Guarded'
    <3> SUFFICES ASSUME Q!TypeOK, Q!SoleHandler, C!InControl, Serving, Spare, Guarded,
                        [Next]_clusterVars
                 PROVE  Spare' /\ Guarded'
      OBVIOUS
    <3>1. CASE UNCHANGED clusterVars
      <4>1. \A j \in Jobs : Spent(j)' <=> Spent(j)
        BY <3>1 DEF clusterVars, queue, agents, Spent
      <4>2. C!Watchful' <=> C!Watchful
        BY <3>1 DEF clusterVars, controller, C!Watchful
      <4>3. Spare'
        BY <3>1 DEF clusterVars, queue, agents, Spare
      <4>4. QED
        BY <4>1, <4>2, <4>3 DEF Guarded
    <3>2. CASE QueueSide
      <4>1. Spare' /\ \A j \in Jobs : Spent(j)' => Spent(j)
        BY <1>1, <3>2, QueueSideSpares
      <4>2. C!Watchful' <=> C!Watchful
        BY <3>2 DEF QueueSide, controller, C!Watchful
      <4>3. QED
        BY <4>1, <4>2 DEF Guarded
    <3>3. CASE CloudSide
      BY <1>1, <3>3, CloudSideSpares
    <3>4. QED
      BY <3>1, <3>2, <3>3, Sides
  <2>3. "lapse" \notin JobFaults
    BY DEF SteadyAgents
  <2>4. Spare => OneSpareDelivery
    BY DEF Spare, OneSpareDelivery
  <2>5. QED
    BY <2>1, <2>2, <2>3, <2>4, QueueTyped, QueueOwned, ControllerHolds, ServingAlways,
       PTL DEF Spec
<1>2. CASE ~(MaxDeliver > 1)
  <2>1. OneSpareDelivery
    BY <1>2 DEF OneSpareDelivery
  <2>2. QED
    BY <2>1, PTL
<1>3. QED
  BY <1>1, <1>2

=============================================================================
