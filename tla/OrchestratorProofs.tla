------------------------- MODULE OrchestratorProofs -------------------------
(***************************************************************************)
(* What TLC checks of Orchestrator on small instances, proved for every    *)
(* number of nodes, goroutines and jobs and for every set of faults.       *)
(***************************************************************************)
EXTENDS ScalingProperties, TLAPS

USE DEF table, timers, procs, monitor, world

\* The facts about the configuration that the types rest on: no instance has
\* the id 0, and the durations are natural numbers.
LEMMA Constants ==
  /\ NodeIds \subseteq Nat /\ NoNode \notin NodeIds /\ MaxNodes \in Nat \ {0}
  /\ ScaleUpDuration \in Nat /\ CooldownDuration \in Nat /\ MaxWork \in Nat
  /\ ScaleUpThreshold \in Nat /\ IdleCap \in Nat /\ ScaleDownIdleDuration \in Nat
  /\ ScaleToZeroIdleDuration \in Nat
<1>1. /\ {ScaleUpThreshold, ScaleUpDuration, CooldownDuration, MaxWork,
          ScaleDownIdleDuration, ScaleToZeroIdleDuration} \subseteq Nat
  BY OrchestratorAssumption
<1>2. ScaleDownIdleDuration \in Nat /\ ScaleToZeroIdleDuration \in Nat
  BY <1>1
<1>3. QED
  BY <1>1, <1>2, NodeIdsAssumption, MaxNodesAssumption DEF NoNode, IdleCap

\* An age that grows by a tick stays below its cap, and NIL stays NIL.
LEMMA AgeIsCapped ==
  ASSUME NEW cap \in Nat, NEW age \in NIL .. cap
  PROVE  /\ Older(age, cap) \in NIL .. cap
         /\ age # NIL => Older(age, cap) \in 0 .. cap
BY DEF Older, NIL

\* The controller starts with every variable in its type.
LEMMA TypeInit == Init => TypeOK
<1> SUFFICES ASSUME Init PROVE TypeOK
  OBVIOUS
<1> USE Constants DEF Init
<1>1. nodes \in Tables /\ seen \in [NodeIds -> Status] /\ cloud \in [NodeIds -> Status]
  BY DEF Tables, EmptyTable, NoInstance, Status
<1>2. /\ pc \in [Procs -> ProcPCs] /\ arg \in [Procs -> NodeIds \cup {NoNode}]
      /\ snap \in [Procs -> SUBSET NodeIds]
      /\ \A p \in Procs : pc[p] \in NodePCs => arg[p] \in NodeIds
  BY DEF ProcPCs, NodePCs
<1>3. /\ sinceEvent \in 0 .. CooldownDuration /\ upAge \in NIL .. ScaleUpDuration
      /\ downAge \in NIL .. IdleCap /\ pending \in 0 .. MaxWork /\ work \in 0 .. MaxWork
  BY DEF NIL
<1>4. mpc \in MonitorPCs /\ mpc \notin {"add", "observe", "scaleIn"}
  BY DEF MonitorPCs
<1>5. QED
  BY <1>1, <1>2, <1>3, <1>4 DEF TypeOK

\* A step of a goroutine keeps every variable in its type.
LEMMA GoroutineTypes ==
  ASSUME TypeOK, NEW p \in Procs, Goroutine(p) PROVE TypeOK'
<1> USE Constants DEF TypeOK, Tables, NodeState, Goto, Exit, Move, Remove
<1> USE DEF ProcPCs, NodePCs
<1>1. CASE ScaleUp(p)
  BY <1>1 DEF ScaleUp
<1>2. CASE CreateGPUNode(p)
  BY <1>2 DEF CreateGPUNode, FreshIds, Status
<1>3. CASE CreateFails(p)
  BY <1>3 DEF CreateFails
<1>4. CASE TrackNode(p)
  BY <1>4 DEF TrackNode
<1>5. CASE DestroyUntracked(p)
  BY <1>5 DEF DestroyUntracked, DestroyCall, Status
<1>6. CASE RecordScaleUp(p)
  BY <1>6 DEF RecordScaleUp
<1>7. CASE WaitForRunning(p)
  BY <1>7 DEF WaitForRunning
<1>8. CASE WaitTimesOut(p)
  BY <1>8 DEF WaitTimesOut
<1>9. CASE MarkReady(p)
  <2>0. arg[p] \in NodeIds
    BY <1>9 DEF MarkReady
  <2>1. arg[p] \in NodeIds /\ addressed' \subseteq NodeIds
    <3>1. CASE nodes[arg[p]] # Absent
      <4>1. PICK ip \in IPv4Answers :
              addressed' = IF ip THEN addressed \cup {arg[p]} ELSE addressed \ {arg[p]}
        BY <1>9, <3>1 DEF MarkReady
      <4>2. QED
        BY <2>0, <4>1
    <3>2. CASE nodes[arg[p]] = Absent
      BY <1>9, <2>0, <3>2 DEF MarkReady
    <3>3. QED
      BY <3>1, <3>2
  <2>2. nodes' \in Tables
    BY <1>9, <2>1 DEF MarkReady
  <2>3. /\ pc' \in [Procs -> ProcPCs] /\ arg' \in [Procs -> NodeIds \cup {NoNode}]
        /\ \A q \in Procs : pc'[q] \in NodePCs => arg'[q] \in NodeIds
    BY <1>9, <2>1 DEF MarkReady
  <2>4. QED
    BY <1>9, <2>1, <2>2, <2>3 DEF MarkReady
<1>10. CASE PurgeNode(p)
  BY <1>10 DEF PurgeNode
<1>11. CASE DestroyPurged(p)
  BY <1>11 DEF DestroyPurged, DestroyCall, Status
<1>12. CASE ForgetPurged(p)
  BY <1>12 DEF ForgetPurged
<1>13. CASE ScaleDown(p)
  BY <1>13 DEF ScaleDown
<1>14. CASE DrainNode(p)
  BY <1>14 DEF DrainNode, ScaleDownMove
<1>15. CASE MarkDestroying(p)
  BY <1>15 DEF MarkDestroying, ScaleDownMove
<1>16. CASE DestroyNode(p)
  BY <1>16 DEF DestroyNode, DestroyCall, Status
<1>17. CASE RemoveDestroyed(p)
  BY <1>17 DEF RemoveDestroyed
<1>18. CASE RecordScaleDown(p)
  BY <1>18 DEF RecordScaleDown
<1>19. CASE ReadTargets(p)
  BY <1>19 DEF ReadTargets, ReadyTargets, NodesByState
<1>20. CASE WriteTargets(p)
  BY <1>20 DEF WriteTargets
<1>21. QED
  BY <1>1, <1>2, <1>3, <1>4, <1>5, <1>6, <1>7, <1>8, <1>9, <1>10, <1>11, <1>12,
     <1>13, <1>14, <1>15, <1>16, <1>17, <1>18, <1>19, <1>20 DEF Goroutine

\* A step of the monitor loop keeps every variable in its type.
LEMMA MonitorTypes ==
  ASSUME TypeOK, Monitor PROVE TypeOK'
<1> USE Constants DEF TypeOK, Tables, NodeState, Goto, Move, Remove, EndRound
<1> USE DEF MonitorPCs
<1>1. CASE StartRound
  BY <1>1 DEF StartRound
<1>2. CASE ListManagedNodes
  BY <1>2 DEF ListManagedNodes
<1>3. CASE ListFails
  BY <1>3 DEF ListFails
<1>4. CASE ListArrives
  BY <1>4 DEF ListArrives, Listed
<1>5. CASE LookUp
  BY <1>5 DEF LookUp
<1>6. CASE Adopt
  BY <1>6 DEF Adopt
<1>7. CASE Observe
  BY <1>7 DEF Observe, RecordIPv4
<1>8. CASE Compare
  BY <1>8 DEF Compare, Tracked, NoInstance, Status
<1>9. CASE Prune
  BY <1>9 DEF Prune
<1>10. CASE Reconciled
  BY <1>10 DEF Reconciled
<1>11. CASE MonitorReadsTargets
  BY <1>11 DEF MonitorReadsTargets, ReadyTargets, NodesByState
<1>12. CASE MonitorWritesTargets
  BY <1>12 DEF MonitorWritesTargets
<1>13. CASE GetQueueStats
  BY <1>13 DEF GetQueueStats
<1>14. CASE EvaluateScaleUp
  BY <1>14 DEF EvaluateScaleUp, UpTimer, NIL
<1>15. CASE ColdStart
  BY <1>15 DEF ColdStart, Spawn, ProcPCs, NodePCs
<1>16. CASE ScaleOut
  BY <1>16 DEF ScaleOut, Spawn, ProcPCs, NodePCs, NIL
<1>17. CASE EvaluateScaleDown
  BY <1>17 DEF EvaluateScaleDown, NodesByState, IdleCap, NIL
<1>18. CASE ScaleIn
  BY <1>18 DEF ScaleIn, Spawn, ProcPCs, NodePCs, NIL
<1>19. QED
  BY <1>1, <1>2, <1>3, <1>4, <1>5, <1>6, <1>7, <1>8, <1>9, <1>10, <1>11, <1>12,
     <1>13, <1>14, <1>15, <1>16, <1>17, <1>18 DEF Monitor

\* So does every step.
LEMMA TypeStep == TypeOK /\ [Next]_vars => TypeOK'
<1> SUFFICES ASSUME TypeOK, [Next]_vars PROVE TypeOK'
  OBVIOUS
<1>1. ASSUME NEW p \in Procs, Goroutine(p) PROVE TypeOK'
  BY <1>1, GoroutineTypes
<1>2. CASE Monitor
  BY <1>2, MonitorTypes
<1>3. CASE TimePasses
  <2>1. /\ sinceEvent' \in 0 .. CooldownDuration
        /\ upAge' \in NIL .. ScaleUpDuration /\ downAge' \in NIL .. IdleCap
    BY <1>3, Constants, AgeIsCapped DEF TimePasses, TypeOK, NIL
  <2>2. QED
    BY <1>3, <2>1 DEF TimePasses, TypeOK
<1>4. ASSUME NEW id \in NodeIds, Boot(id) \/ Vanish(id) PROVE TypeOK'
  BY <1>4 DEF Boot, Vanish, TypeOK, Status
<1>5. CASE Crash
  <2>1. /\ nodes' \in Tables /\ seen' \in [NodeIds -> Status]
        /\ pc' \in [Procs -> ProcPCs] /\ arg' \in [Procs -> NodeIds \cup {NoNode}]
        /\ snap' \in [Procs -> SUBSET NodeIds]
        /\ \A p \in Procs : pc'[p] \notin NodePCs
    BY <1>5 DEF Crash, Tables, EmptyTable, NoInstance, Status, ProcPCs, NodePCs
  <2>2. /\ sinceEvent' \in 0 .. CooldownDuration /\ upAge' \in NIL .. ScaleUpDuration
        /\ downAge' \in NIL .. IdleCap /\ pending' \in 0 .. MaxWork
    BY <1>5, Constants DEF Crash, NIL
  <2>3. mpc' \in MonitorPCs /\ mpc' \notin {"add", "observe", "scaleIn"}
    BY <1>5 DEF Crash, MonitorPCs
  <2>4. QED
    BY <1>5, <2>1, <2>2, <2>3 DEF Crash, TypeOK
<1>6. CASE UNCHANGED vars
  BY <1>6 DEF vars, TypeOK
<1>7. QED
  BY <1>1, <1>2, <1>3, <1>4, <1>5, <1>6 DEF Next

\* Type correctness of the controller: every variable keeps its type, and the
\* goroutines and the monitor have an instance in hand where they use one.
THEOREM TypeCorrect == Spec => []TypeOK
BY TypeInit, TypeStep, PTL DEF Spec

-----------------------------------------------------------------------------
(* Steps that touch one node: the only ways the table changes *)

\* One step of the table, in the words of the code: AddNode, TransitionNode,
\* RemoveNode, or the loss of the whole table.
TableStep ==
  \/ nodes' = nodes
  \/ nodes' = EmptyTable
  \/ \E id \in NodeIds :
       \/ CanAdd(nodes, id) /\ nodes' = [nodes EXCEPT ![id] = "provisioning"]
       \/ nodes' = [nodes EXCEPT ![id] = Absent]
       \/ \E to \in NodeState :
            CanMove(nodes, id, to) /\ nodes' = [nodes EXCEPT ![id] = to]

\* A goroutine changes the node table only by a call of AddNode,
\* TransitionNode or RemoveNode that succeeds.
LEMMA GoroutineTable ==
  ASSUME TypeOK, NEW p \in Procs, Goroutine(p) PROVE TableStep
<1> DEFINE id == arg[p]
<1>1. CASE TrackNode(p)
  <2>1. id \in NodeIds
    BY <1>1 DEF TrackNode, TypeOK, NodePCs
  <2>2. QED
    BY <1>1, <2>1 DEF TrackNode, TableStep, Move
<1>2. CASE MarkReady(p)
  <2>1. id \in NodeIds
    BY <1>2 DEF MarkReady, TypeOK, NodePCs
  <2>2. nodes' = nodes \/ (CanMove(nodes, id, "ready") /\ Move(id, "ready"))
    BY <1>2 DEF MarkReady
  <2>3. QED
    BY <2>1, <2>2 DEF TableStep, Move, NodeState
<1>3. CASE PurgeNode(p)
  <2>1. id \in NodeIds
    BY <1>3 DEF PurgeNode, TypeOK, NodePCs
  <2>2. QED
    BY <1>3, <2>1 DEF PurgeNode, TableStep, Move, NodeState
<1>4. CASE ForgetPurged(p) \/ RemoveDestroyed(p)
  <2>1. id \in NodeIds
    BY <1>4 DEF ForgetPurged, RemoveDestroyed, TypeOK, NodePCs
  <2>2. QED
    BY <1>4, <2>1 DEF ForgetPurged, RemoveDestroyed, TableStep, Remove
<1>5. CASE DrainNode(p) \/ MarkDestroying(p)
  <2>1. id \in NodeIds
    BY <1>5 DEF DrainNode, MarkDestroying, ScaleDownMove, TypeOK, NodePCs
  <2>2. QED
    BY <1>5, <2>1 DEF DrainNode, MarkDestroying, ScaleDownMove, TableStep, Move, NodeState
<1>6. CASE nodes' = nodes
  BY <1>6 DEF TableStep
<1>7. QED
  BY <1>1, <1>2, <1>3, <1>4, <1>5, <1>6
     DEF Goroutine, ScaleUp, CreateGPUNode, CreateFails, DestroyUntracked,
         RecordScaleUp, WaitForRunning, WaitTimesOut, DestroyPurged, ScaleDown,
         DestroyNode, RecordScaleDown, ReadTargets, WriteTargets

\* The same of the monitor loop, which reconciles the table.
LEMMA MonitorTable ==
  ASSUME TypeOK, Monitor PROVE TableStep
<1>1. CASE Adopt
  <2>1. cur \in NodeIds
    BY <1>1 DEF Adopt, TypeOK
  <2>2. QED
    BY <1>1, <2>1 DEF Adopt, TableStep, Move
<1>2. CASE Observe
  <2>1. cur \in NodeIds
    BY <1>2 DEF Observe, TypeOK
  <2>2. CASE nodes[cur] = "provisioning" /\ nodes' = [nodes EXCEPT ![cur] = "ready"]
    <3>1. CanMove(nodes, cur, "ready")
      <4>1. "ready" \in validTransitions["provisioning"]
        BY DEF validTransitions
      <4>2. QED
        BY <2>2, <4>1 DEF CanMove, Absent
    <3>2. QED
      BY <2>1, <2>2, <3>1 DEF TableStep, NodeState
  <2>3. QED
    BY <1>2, <2>2 DEF Observe, TableStep, Move
<1>3. CASE Prune
  BY <1>3 DEF Prune, TypeOK, TableStep, Remove
<1>4. CASE nodes' = nodes
  BY <1>4 DEF TableStep
<1>5. QED
  BY <1>1, <1>2, <1>3, <1>4
     DEF Monitor, StartRound, ListManagedNodes, ListFails, ListArrives, LookUp,
         Compare, Reconciled, MonitorReadsTargets, MonitorWritesTargets,
         GetQueueStats, EvaluateScaleUp, ColdStart, ScaleOut, EvaluateScaleDown,
         ScaleIn

\* The same of every step; a crash loses the whole table.
LEMMA EveryStepOfTheTable ==
  ASSUME TypeOK, [Next]_vars PROVE TableStep
<1>1. CASE UNCHANGED vars
  BY <1>1 DEF vars, TableStep
<1>2. ASSUME NEW p \in Procs, Goroutine(p) PROVE TableStep
  BY <1>2, GoroutineTable
<1>3. CASE Monitor
  BY <1>3, MonitorTable
<1>4. CASE TimePasses
  BY <1>4 DEF TimePasses, TableStep
<1>5. ASSUME NEW id \in NodeIds, Boot(id) \/ Vanish(id) PROVE TableStep
  BY <1>5 DEF Boot, Vanish, TableStep
<1>6. CASE Crash
  BY <1>6 DEF Crash, TableStep
<1>7. QED
  BY <1>1, <1>2, <1>3, <1>4, <1>5, <1>6 DEF Next

\* Whichever goroutine writes the node table, it obeys the lifecycle of
\* statemachine.go and the cap: the controller implements NodeLifecycle.
THEOREM ImplementsLifecycle == Spec => NodesFollowLifecycle
<1>1. Init => Lifecycle!Init
  BY DEF Init, Lifecycle!Init, EmptyTable, Lifecycle!EmptyTable, Absent, Lifecycle!Absent
<1>2. ASSUME TypeOK, TableStep PROVE [Lifecycle!Next]_nodes
  <2>1. ASSUME NEW id \in NodeIds, CanAdd(nodes, id),
               nodes' = [nodes EXCEPT ![id] = "provisioning"]
        PROVE  [Lifecycle!Next]_nodes
    <3>1. Lifecycle!CanAdd(nodes, id)
      <4>1. Lifecycle!Tracked(nodes) = Tracked(nodes)
        BY DEF Lifecycle!Tracked, Tracked, Absent, Lifecycle!Absent
      <4>2. QED
        BY <2>1, <4>1 DEF CanAdd, Lifecycle!CanAdd, Absent, Lifecycle!Absent, Cardinality, Lifecycle!Cardinality
    <3>2. QED
      BY <2>1, <3>1 DEF Lifecycle!Next, Lifecycle!Register
  <2>2. ASSUME NEW id \in NodeIds, nodes' = [nodes EXCEPT ![id] = Absent]
        PROVE  [Lifecycle!Next]_nodes
    <3>1. CASE nodes[id] = Absent
      BY <1>2, <2>2, <3>1 DEF TypeOK, Tables
    <3>2. CASE nodes[id] # Absent
      BY <2>2, <3>2 DEF Lifecycle!Next, Lifecycle!Drop, Absent, Lifecycle!Absent
    <3>3. QED
      BY <3>1, <3>2
  <2>3. ASSUME NEW id \in NodeIds, NEW to \in NodeState, CanMove(nodes, id, to),
               nodes' = [nodes EXCEPT ![id] = to]
        PROVE  [Lifecycle!Next]_nodes
    <3>1. CASE to = nodes[id]
      BY <1>2, <2>3, <3>1 DEF TypeOK, Tables
    <3>2. CASE to \in validTransitions[nodes[id]]
      BY <2>3, <3>2 DEF CanMove, validTransitions, Lifecycle!validTransitions,
         Lifecycle!Next, Lifecycle!Advance, Absent, Lifecycle!Absent
    <3>3. QED
      BY <2>3, <3>1, <3>2 DEF CanMove
  <2>4. CASE nodes' = EmptyTable
    BY <2>4 DEF Lifecycle!Next, Lifecycle!Restart, EmptyTable, Lifecycle!EmptyTable,
       Absent, Lifecycle!Absent
  <2>5. QED
    BY <1>2, <2>1, <2>2, <2>3, <2>4 DEF TableStep
<1>3. TypeOK /\ [Next]_vars => [Lifecycle!Next]_nodes
  BY <1>2, EveryStepOfTheTable
<1>4. QED
  BY <1>1, <1>3, TypeCorrect, PTL DEF Spec, NodesFollowLifecycle, Lifecycle!Spec

-----------------------------------------------------------------------------
(* The owner of a DRAINING node *)

Owns(p, id) == pc[p] = "mark" /\ arg[p] = id

\* No step of a goroutine takes a DRAINING node from the ScaleDown that is to
\* mark it, nor makes one that nobody is to mark.
LEMMA GoroutineKeepsOwners ==
  ASSUME TypeOK, DrainingOwned, NEW p \in Procs, Goroutine(p) PROVE DrainingOwned'
<1> SUFFICES ASSUME NEW id \in NodeIds, nodes'[id] = "draining"
             PROVE  \E q \in Procs : Owns(q, id)'
  BY DEF DrainingOwned, Owns
<1> USE DEF TypeOK, Tables, Goto, Exit, Move, Remove, Absent
<1>1. CASE DrainNode(p)
  <2>1. arg[p] \in NodeIds
    BY <1>1 DEF DrainNode, ScaleDownMove, NodePCs
  <2>2. CASE arg[p] = id /\ CanMove(nodes, arg[p], "draining")
    <3>1. pc' = [pc EXCEPT ![p] = "mark"] /\ arg' = arg
      BY <1>1, <2>2 DEF DrainNode, ScaleDownMove
    <3>2. QED
      BY <2>2, <3>1 DEF Owns
  <2>3. CASE ~(arg[p] = id /\ CanMove(nodes, arg[p], "draining"))
    <3>1. nodes[id] = "draining"
      BY <1>1, <2>1, <2>3 DEF DrainNode, ScaleDownMove
    <3>2. PICK q \in Procs : Owns(q, id)
      BY <3>1 DEF DrainingOwned, Owns
    <3>3. q # p
      BY <1>1, <3>2 DEF DrainNode, ScaleDownMove, Owns
    <3>4. QED
      BY <1>1, <3>2, <3>3 DEF DrainNode, ScaleDownMove, Owns
  <2>4. QED
    BY <2>2, <2>3
<1>2. CASE MarkDestroying(p)
  <2>1. arg[p] \in NodeIds /\ pc[p] = "mark"
    BY <1>2 DEF MarkDestroying, ScaleDownMove, NodePCs
  <2>2. nodes[id] = "draining" /\ id # arg[p]
    <3>1. CASE CanMove(nodes, arg[p], "destroying")
      BY <1>2, <2>1, <3>1 DEF MarkDestroying, ScaleDownMove
    <3>2. CASE ~CanMove(nodes, arg[p], "destroying")
      <4>1. nodes' = nodes
        BY <1>2, <3>2 DEF MarkDestroying, ScaleDownMove
      <4>2. "destroying" \in validTransitions["draining"]
        BY DEF validTransitions
      <4>3. QED
        BY <3>2, <4>1, <4>2 DEF CanMove
    <3>3. QED
      BY <3>1, <3>2
  <2>3. PICK q \in Procs : Owns(q, id)
    BY <2>2 DEF DrainingOwned, Owns
  <2>4. q # p
    BY <2>2, <2>3 DEF Owns
  <2>5. QED
    BY <1>2, <2>3, <2>4 DEF MarkDestroying, ScaleDownMove, Owns
<1>3. CASE pc[p] # "mark" /\ nodes[id] = "draining"
  <2>1. PICK q \in Procs : Owns(q, id)
    BY <1>3 DEF DrainingOwned, Owns
  <2>2. q # p
    BY <1>3, <2>1 DEF Owns
  <2>3. /\ pc' = [pc EXCEPT ![p] = pc'[p]]
        /\ arg' = [arg EXCEPT ![p] = arg'[p]]
    BY DEF Goroutine, ScaleUp, CreateGPUNode, CreateFails, TrackNode,
       DestroyUntracked, DestroyCall, RecordScaleUp, WaitForRunning, WaitTimesOut,
       MarkReady, PurgeNode, DestroyPurged, ForgetPurged, ScaleDown, DrainNode,
       MarkDestroying, ScaleDownMove, DestroyNode, RemoveDestroyed,
       RecordScaleDown, ReadTargets, WriteTargets
  <2>4. QED
    BY <2>1, <2>2, <2>3 DEF Owns
<1>4. CASE ~DrainNode(p) /\ ~MarkDestroying(p)
  <2>1. pc[p] # "mark"
    BY <1>4 DEF Goroutine, ScaleUp, CreateGPUNode, CreateFails, TrackNode,
       DestroyUntracked, RecordScaleUp, WaitForRunning, WaitTimesOut,
       MarkReady, PurgeNode, DestroyPurged, ForgetPurged, ScaleDown, DestroyNode,
       RemoveDestroyed, RecordScaleDown, ReadTargets, WriteTargets
  <2>2. nodes[id] = "draining"
    <3>1. CASE nodes' = nodes
      BY <3>1
    <3>2. ASSUME NEW to \in {"provisioning", "ready", "destroying", "absent"},
                 nodes' = [nodes EXCEPT ![arg[p]] = to]
          PROVE  nodes[id] = "draining"
      BY <3>2
    <3>3. QED
      BY <1>4, <3>1, <3>2 DEF Goroutine, ScaleUp, CreateGPUNode, CreateFails,
         TrackNode, DestroyUntracked, RecordScaleUp, WaitForRunning, WaitTimesOut,
         MarkReady, PurgeNode, DestroyPurged, ForgetPurged, ScaleDown, DestroyNode,
         RemoveDestroyed, RecordScaleDown, ReadTargets, WriteTargets
  <2>3. QED
    BY <1>3, <2>1, <2>2
<1>5. QED
  BY <1>1, <1>2, <1>4

\* Nor does a step of the monitor loop: it drains nothing.
LEMMA MonitorKeepsOwners ==
  ASSUME TypeOK, DrainingOwned, Monitor PROVE DrainingOwned'
<1> SUFFICES ASSUME NEW id \in NodeIds, nodes'[id] = "draining"
             PROVE  \E q \in Procs : Owns(q, id)'
  BY DEF DrainingOwned, Owns
<1>1. nodes[id] = "draining"
  BY DEF TypeOK, Tables, Move, Remove, Absent, Monitor, StartRound,
     ListManagedNodes, ListFails, ListArrives, LookUp, Adopt, Observe, Compare,
     Prune, Reconciled, MonitorReadsTargets, MonitorWritesTargets, GetQueueStats,
     EvaluateScaleUp, ColdStart, ScaleOut, EvaluateScaleDown, ScaleIn
<1>2. PICK q \in Procs : Owns(q, id)
  BY <1>1 DEF DrainingOwned, Owns
<1>3. ASSUME NEW entry, NEW x, Spawn(entry, x) PROVE Owns(q, id)'
  <2>1. PICK p \in Procs : pc[p] = "idle" /\ Goto(p, entry) /\ arg' = [arg EXCEPT ![p] = x]
    BY <1>3 DEF Spawn
  <2>2. p # q
    BY <1>2, <2>1 DEF Owns
  <2>3. QED
    BY <1>2, <2>1, <2>2 DEF Owns, Goto, TypeOK
<1>4. CASE UNCHANGED <<pc, arg>>
  BY <1>2, <1>4 DEF Owns
<1>5. CASE ColdStart \/ ScaleOut \/ ScaleIn
  BY <1>3, <1>4, <1>5 DEF ColdStart, ScaleOut, ScaleIn
<1>6. QED
  BY <1>4, <1>5
     DEF Monitor, StartRound, ListManagedNodes, ListFails, ListArrives, LookUp,
         Adopt, Observe, Compare, Prune, Reconciled, MonitorReadsTargets,
         MonitorWritesTargets, GetQueueStats, EvaluateScaleUp, EvaluateScaleDown

\* Nor does any step.
LEMMA StepKeepsOwners == TypeOK /\ DrainingOwned /\ [Next]_vars => DrainingOwned'
<1> SUFFICES ASSUME TypeOK, DrainingOwned, [Next]_vars PROVE DrainingOwned'
  OBVIOUS
<1>1. ASSUME NEW p \in Procs, Goroutine(p) PROVE DrainingOwned'
  BY <1>1, GoroutineKeepsOwners
<1>2. CASE Monitor
  BY <1>2, MonitorKeepsOwners
<1>3. CASE TimePasses
  BY <1>3 DEF TimePasses, DrainingOwned
<1>4. ASSUME NEW id \in NodeIds, Boot(id) \/ Vanish(id) PROVE DrainingOwned'
  BY <1>4 DEF Boot, Vanish, DrainingOwned
<1>5. CASE Crash
  BY <1>5 DEF Crash, EmptyTable, Absent, DrainingOwned
<1>6. CASE UNCHANGED vars
  BY <1>6 DEF vars, DrainingOwned
<1>7. QED
  BY <1>1, <1>2, <1>3, <1>4, <1>5, <1>6 DEF Next

\* No node is ever left DRAINING: whatever fails, the ScaleDown that drains it
\* is about to mark it DESTROYING.
THEOREM DrainingIsOwned == Spec => []DrainingOwned
<1>1. Init => DrainingOwned
  BY DEF Init, EmptyTable, Absent, DrainingOwned
<1>2. QED
  BY <1>1, StepKeepsOwners, TypeCorrect, PTL DEF Spec

=============================================================================
